---------------------------- MODULE RateLimiter -----------------------------
(***************************************************************************)
(* The fixed-window limiter that throttles logins, agents' requests and    *)
(* reports (limiter, allow, sweep and janitor in                           *)
(* internal/console/server.go).  allow and sweep hold the limiter's mutex, *)
(* so each is one step.                                                    *)
(***************************************************************************)
EXTENDS Integers, Sequences, FiniteSets

CONSTANTS
    LimKeys,         \* keys: addresses or agents
    LimQuota,        \* max: requests per period
    LimPeriod,       \* length of the window
    LimSweepEvery,   \* period of the janitor
    LimMaxTime       \* bound on the clock

ASSUME LimConstantsAssumption ==
    /\ LimQuota \in Nat \ {0} /\ LimPeriod \in Nat \ {0}
    /\ LimSweepEvery \in Nat \ {0} /\ LimMaxTime \in Nat

VARIABLES
    limTime,
    limWindow,    \* key -> its window; n = 0 is no entry in the map
    limAllowed,   \* key -> times at which it was admitted (history)
    limRefused    \* key -> when it was last refused, -1 for never (history)

limVars == <<limTime, limWindow, limAllowed, limRefused>>

LimNoWindow == [start |-> 0, n |-> 0]

LimInit ==
    /\ limTime = 0
    /\ limWindow = [k \in LimKeys |-> LimNoWindow]
    /\ limAllowed = [k \in LimKeys |-> <<>>]
    /\ limRefused = [k \in LimKeys |-> -1]

\* The window has to be made anew: there is none, or it is past its period.
LimFresh(k) == limWindow[k].n = 0 \/ limTime - limWindow[k].start > LimPeriod

\* allow, admitting: opens a window or consumes one unit of it.
Allow(k) ==
    /\ LimFresh(k) \/ limWindow[k].n < LimQuota
    /\ limWindow' = [limWindow EXCEPT ![k] =
          IF LimFresh(k) THEN [start |-> limTime, n |-> 1]
          ELSE [start |-> limWindow[k].start, n |-> limWindow[k].n + 1]]
    /\ limAllowed' = [limAllowed EXCEPT ![k] = Append(@, limTime)]
    /\ UNCHANGED <<limTime, limRefused>>

\* A mutant of LimRefuse: a refused request keeps the window open.
LimRefuseExtends(k) ==
    /\ ~LimFresh(k) /\ limWindow[k].n >= LimQuota
    /\ limWindow' = [limWindow EXCEPT ![k].start = limTime]
    /\ limRefused' = [limRefused EXCEPT ![k] = limTime]
    /\ UNCHANGED <<limTime, limAllowed>>

\* allow, refusing.
LimRefuse(k) ==
    /\ ~LimFresh(k) /\ limWindow[k].n >= LimQuota
    /\ limRefused' = [limRefused EXCEPT ![k] = limTime]
    /\ UNCHANGED <<limTime, limWindow, limAllowed>>

\* sweep, from the janitor: windows two periods old are deleted.
LimSweep(now) ==
    [k \in LimKeys |-> IF now - limWindow[k].start > 2 * LimPeriod THEN LimNoWindow
                       ELSE limWindow[k]]

LimTick ==
    /\ limTime < LimMaxTime
    /\ limTime' = limTime + 1
    /\ limWindow' = IF (limTime + 1) % LimSweepEvery = 0 THEN LimSweep(limTime + 1) ELSE limWindow
    /\ UNCHANGED <<limAllowed, limRefused>>

LimNext == LimTick \/ \E k \in LimKeys : Allow(k) \/ LimRefuse(k)

LimSpec == LimInit /\ [][LimNext]_limVars

-----------------------------------------------------------------------------
(* Properties *)

LimTypeOK ==
    /\ limTime \in 0..LimMaxTime
    /\ limWindow \in [LimKeys -> [start : 0..LimMaxTime, n : 0..LimQuota]]
    /\ limAllowed \in [LimKeys -> Seq(0..LimMaxTime)]
    /\ limRefused \in [LimKeys -> -1..LimMaxTime]
    /\ \A k \in LimKeys :
          /\ limWindow[k].start <= limTime /\ limRefused[k] <= limTime
          /\ \A i \in 1..Len(limAllowed[k]) : limAllowed[k][i] <= limTime

\* What the throttle is worth: in any stretch as long as the period a key is
\* admitted at most twice its quota, at the edge of a window and across the
\* janitor's sweeps.
LimQuotaHolds ==
    \A k \in LimKeys : \A i \in 1..Len(limAllowed[k]) :
        Cardinality({j \in i..Len(limAllowed[k]) :
                        limAllowed[k][j] - limAllowed[k][i] <= LimPeriod}) <= 2 * LimQuota

\* The throttle does not turn into a ban: a key is refused only if a whole
\* quota of it was admitted within the period, however often it knocks.
LimRefusalEarned ==
    \A k \in LimKeys : limRefused[k] >= 0 =>
        Cardinality({j \in 1..Len(limAllowed[k]) :
            limAllowed[k][j] <= limRefused[k] /\ limRefused[k] - limAllowed[k][j] <= LimPeriod})
            >= LimQuota

\* allow and the janitor's sweep together neither let through too much nor
\* refuse without cause.
LimSafe == LimQuotaHolds /\ LimRefusalEarned
=============================================================================
