-------------------------------- MODULE Baseline --------------------------------
(***************************************************************************)
(* "Is this the same site I left behind?" (internal/agent/baseline.go): a  *)
(* run records a digest of every PHP file, and a later run tells what was  *)
(* added, changed or removed.  Both walk the tree, which sends files to    *)
(* workers over a bounded channel, while the site goes on changing and the *)
(* run's context may end.  The record is one file that is truncated and    *)
(* written anew.                                                           *)
(***************************************************************************)
EXTENDS Integers, Sequences, Functions

CONSTANTS
    BaseTree,        \* the names a PHP file may have, in the order of WalkDir
    BaseWorkers,     \* the governor's workers
    BaseChannel,     \* room in the channel of jobs (256)
    BaseMaxFaults,   \* bounds changes of the site, failures and crashes,
    BaseMaxRuns      \* and runs

BaseFiles == Range(BaseTree)
BaseContents == {"v1", "v2"}

ASSUME BaseAssumption ==
    /\ IsInjective(BaseTree) /\ BaseTree \in Seq(BaseFiles)
    /\ {"idle", "left"} \cap BaseFiles = {} /\ BaseWorkers # {}
    /\ BaseChannel \in Nat \ {0} /\ {BaseMaxFaults, BaseMaxRuns} \subseteq Nat

VARIABLES
    baseSite,      \* file -> its content, or "absent"
    baseDisk,      \* the record: file -> the content on its line, "absent" without one
    basePc,        \* where the run stands
    baseKind,      \* "baseline" or "verify"
    baseKnown,     \* what a verify run has read of the record
    baseWalked,    \* names the walk has passed
    baseJobs,      \* the channel of jobs
    baseHand,      \* worker -> the file it hashes, "idle", or "left"
    baseEntries,   \* file -> the content that was hashed, "absent" if none was
    baseReport,    \* the state of the check, and its findings
    baseExpired,   \* the context has ended: "no", "walk" or "late" (after it)
    baseUnclear,   \* files changed or not readable during this run (history)
    baseLeft,      \* file -> how the last complete record left it (history)
    baseBudget     \* faults and runs so far

baseVars == <<baseSite, baseDisk, basePc, baseKind, baseKnown, baseWalked, baseJobs, baseHand,
              baseEntries, baseReport, baseExpired, baseUnclear, baseLeft, baseBudget>>

BaseNothing == [f \in BaseFiles |-> "absent"]
BaseNoReport == [state |-> "none", drift |-> {}]
BaseReset == [w \in BaseWorkers |-> "idle"]
BaseUnknown == [f \in BaseFiles |-> "unknown"]

BaseInit ==
    /\ baseSite \in [BaseFiles -> {"v1", "absent"}] /\ baseSite[BaseTree[1]] = "v1"
    /\ baseDisk = BaseNothing /\ basePc = "idle" /\ baseKind = "baseline" /\ baseKnown = BaseNothing
    /\ baseWalked = 0 /\ baseJobs = <<>> /\ baseHand = BaseReset /\ baseEntries = BaseNothing
    /\ baseReport = BaseNoReport /\ baseExpired = "no" /\ baseUnclear = {}
    /\ baseLeft = BaseUnknown /\ baseBudget = [faults |-> 0, runs |-> 0]

BaseFaulty ==
    baseBudget.faults < BaseMaxFaults /\ baseBudget' = [baseBudget EXCEPT !.faults = @ + 1]

BaseRunVars == <<baseKind, baseKnown, baseExpired>>
BaseHashing == <<baseJobs, baseHand, baseEntries>>

-----------------------------------------------------------------------------
(* Starting a run *)

\* A record that is not there, or empty, is not usable.
ReadBaseline == baseDisk # BaseNothing

BaseBegin(kind) ==
    /\ basePc = "idle" /\ baseBudget.runs < BaseMaxRuns
    /\ baseBudget' = [baseBudget EXCEPT !.runs = @ + 1]
    /\ baseKind' = kind
    /\ \/ /\ kind = "verify" /\ ~ReadBaseline
          /\ baseReport' = [state |-> "error", drift |-> {}]
          /\ UNCHANGED <<basePc, baseKnown>>
       \/ /\ kind = "baseline" \/ ReadBaseline
          /\ basePc' = "walk"
          /\ baseKnown' = IF kind = "verify" THEN baseDisk ELSE BaseNothing
          /\ baseReport' = BaseNoReport
    /\ baseWalked' = 0 /\ baseJobs' = <<>> /\ baseHand' = BaseReset
    /\ baseEntries' = BaseNothing /\ baseExpired' = "no" /\ baseUnclear' = {}
    /\ UNCHANGED <<baseSite, baseDisk, baseLeft>>

-----------------------------------------------------------------------------
(* hashTree *)

\* The walk sends the next file, when there is room for it.
BaseWalk ==
    /\ basePc = "walk" /\ baseWalked < Len(BaseTree)
    /\ LET f == BaseTree[baseWalked + 1]
       IN  \/ baseSite[f] = "absent" /\ UNCHANGED baseJobs
           \/ /\ baseSite[f] # "absent" /\ baseExpired = "no" /\ Len(baseJobs) < BaseChannel
              /\ baseJobs' = Append(baseJobs, f)
    /\ baseWalked' = baseWalked + 1
    /\ UNCHANGED <<baseSite, baseDisk, basePc, BaseRunVars, baseHand, baseEntries, baseReport,
                   baseUnclear, baseLeft, baseBudget>>

\* The walk is over, or a file is cut off by the end of the context: the
\* channel is closed and the workers are waited for.
BaseWalkEnds ==
    /\ basePc = "walk"
    /\ \/ /\ baseWalked = Len(BaseTree)
          /\ baseExpired' = IF baseExpired = "no" THEN "no" ELSE "late"
       \/ /\ baseWalked < Len(BaseTree) /\ baseSite[BaseTree[baseWalked + 1]] # "absent"
          /\ baseExpired = "walk"
          /\ UNCHANGED baseExpired
    /\ basePc' = "drain"
    /\ UNCHANGED <<baseSite, baseDisk, baseKind, baseKnown, baseWalked, BaseHashing, baseReport,
                   baseUnclear, baseLeft, baseBudget>>

\* A worker takes a file and leaves, with it, when the context has ended.
BaseTake(w) ==
    /\ basePc \in {"walk", "drain"} /\ baseHand[w] = "idle" /\ baseJobs # <<>>
    /\ baseJobs' = Tail(baseJobs)
    /\ baseHand' = [baseHand EXCEPT ![w] =
                       IF baseExpired = "no" THEN Head(baseJobs) ELSE "left"]
    /\ UNCHANGED <<baseSite, baseDisk, basePc, BaseRunVars, baseWalked, baseEntries, baseReport,
                   baseUnclear, baseLeft, baseBudget>>

\* The governor lets it through, or the context ends meanwhile.
BaseGateEnds(w) ==
    /\ baseHand[w] \in BaseFiles /\ baseExpired # "no"
    /\ baseHand' = [baseHand EXCEPT ![w] = "left"]
    /\ UNCHANGED <<baseSite, baseDisk, basePc, BaseRunVars, baseWalked, baseJobs, baseEntries,
                   baseReport, baseUnclear, baseLeft, baseBudget>>

\* The file is hashed as it is by now; one that cannot be read is counted.
BaseHash(w) ==
    /\ baseHand[w] \in BaseFiles
    /\ LET f == baseHand[w]
       IN  \/ /\ baseSite[f] # "absent"
              /\ baseEntries' = [baseEntries EXCEPT ![f] = baseSite[f]]
              /\ UNCHANGED <<baseUnclear, baseBudget>>
           \/ /\ baseSite[f] = "absent"
              /\ UNCHANGED <<baseEntries, baseUnclear, baseBudget>>
           \/ /\ baseSite[f] # "absent" /\ BaseFaulty
              /\ baseUnclear' = baseUnclear \cup {f}
              /\ UNCHANGED baseEntries
    /\ baseHand' = [baseHand EXCEPT ![w] = "idle"]
    /\ UNCHANGED <<baseSite, baseDisk, basePc, BaseRunVars, baseWalked, baseJobs, baseReport,
                   baseLeft>>

BaseHashed ==
    /\ basePc = "drain"
    /\ \A w \in BaseWorkers : baseHand[w] = "left" \/ (baseHand[w] = "idle" /\ baseJobs = <<>>)

\* The walk was cut off.
BaseInterrupted == baseWalked < Len(BaseTree)

-----------------------------------------------------------------------------
(* runBaseline, runVerify *)

BaseEnd(state, drift) ==
    /\ basePc' = "idle" /\ baseReport' = [state |-> state, drift |-> drift]
    /\ baseHand' = BaseReset /\ baseJobs' = <<>> /\ baseEntries' = BaseNothing
    /\ baseKnown' = BaseNothing /\ baseWalked' = 0
    /\ UNCHANGED <<baseSite, baseKind, baseExpired, baseUnclear>>

\* What of the site differs from the record.
Drift(known, entries) ==
    {<<"new", f>> : f \in {g \in BaseFiles : entries[g] # "absent" /\ known[g] = "absent"}}
        \cup {<<"changed", f>> : f \in {g \in BaseFiles :
                  entries[g] # "absent" /\ known[g] # "absent" /\ entries[g] # known[g]}}
        \cup {<<"removed", f>> : f \in {g \in BaseFiles :
                  known[g] # "absent" /\ entries[g] = "absent"}}

BaseInterruptedEnd ==
    /\ BaseHashed /\ BaseInterrupted
    /\ BaseEnd("error", {})
    /\ UNCHANGED <<baseDisk, baseLeft, baseBudget>>

BaseCompares ==
    /\ BaseHashed /\ ~BaseInterrupted /\ baseKind = "verify"
    /\ BaseEnd("ok", Drift(baseKnown, baseEntries))
    /\ UNCHANGED <<baseDisk, baseLeft, baseBudget>>

\* The record is opened, which empties it, or cannot be.
BaseOpens ==
    /\ BaseHashed /\ ~BaseInterrupted /\ baseKind = "baseline"
    /\ \/ /\ basePc' = "write" /\ baseDisk' = BaseNothing /\ baseLeft' = BaseUnknown
          /\ UNCHANGED <<baseSite, BaseRunVars, baseWalked, BaseHashing, baseReport,
                         baseUnclear, baseBudget>>
       \/ BaseFaulty /\ BaseEnd("error", {}) /\ UNCHANGED <<baseDisk, baseLeft>>

\* The first lines of what is to be written.
BaseFirst(n) ==
    [f \in BaseFiles |-> IF \E i \in 1..n : BaseTree[i] = f THEN baseEntries[f] ELSE "absent"]

BasePrefixes == {BaseFirst(n) : n \in 0..Len(BaseTree)}

\* The lines are written, or a part of them.
BaseWrites ==
    /\ basePc = "write"
    /\ \/ /\ baseDisk' = baseEntries
          /\ baseLeft' = [f \in BaseFiles |->
                             IF f \in baseUnclear \/ baseExpired = "late" THEN "unknown"
                             ELSE baseSite[f]]
          /\ BaseEnd("ok", {})
          /\ UNCHANGED baseBudget
       \/ BaseFaulty /\ baseDisk' \in BasePrefixes /\ BaseEnd("error", {}) /\ UNCHANGED baseLeft

-----------------------------------------------------------------------------
(* What else happens *)

BaseExpire ==
    /\ basePc \in {"walk", "drain"} /\ baseExpired = "no" /\ BaseFaulty
    /\ baseExpired' = IF basePc = "walk" THEN "walk" ELSE "late"
    /\ UNCHANGED <<baseSite, baseDisk, basePc, baseKind, baseKnown, baseWalked, BaseHashing,
                   baseReport, baseUnclear, baseLeft>>

BaseCrash ==
    /\ basePc # "idle" /\ BaseFaulty
    /\ baseDisk' \in (IF basePc = "write" THEN BasePrefixes ELSE {baseDisk})
    /\ BaseEnd("none", {})
    /\ UNCHANGED baseLeft

SiteChanges(f) ==
    /\ BaseFaulty
    /\ \E c \in BaseContents \cup {"absent"} :
          c # baseSite[f] /\ baseSite' = [baseSite EXCEPT ![f] = c]
    /\ baseUnclear' = IF basePc = "idle" THEN baseUnclear ELSE baseUnclear \cup {f}
    /\ baseReport' = IF basePc = "idle" THEN BaseNoReport ELSE baseReport
    /\ UNCHANGED <<baseDisk, basePc, BaseRunVars, baseWalked, BaseHashing, baseLeft>>

-----------------------------------------------------------------------------
BaseMain == BaseWalk \/ BaseWalkEnds \/ BaseInterruptedEnd \/ BaseCompares \/ BaseOpens
                \/ BaseWrites
BaseWork(w) == BaseTake(w) \/ BaseGateEnds(w) \/ BaseHash(w)

BaseNext ==
    \/ \E kind \in {"baseline", "verify"} : BaseBegin(kind)
    \/ BaseMain \/ BaseExpire \/ BaseCrash
    \/ \E w \in BaseWorkers : BaseWork(w)
    \/ \E f \in BaseFiles : SiteChanges(f)

BaseSpec == BaseInit /\ [][BaseNext]_baseVars

-----------------------------------------------------------------------------
(* Properties *)

BaseStates == BaseContents \cup {"absent"}

BaseTypeOK ==
    /\ {baseSite, baseDisk, baseKnown, baseEntries} \subseteq [BaseFiles -> BaseStates]
    /\ basePc \in {"idle", "walk", "drain", "write"} /\ baseKind \in {"baseline", "verify"}
    /\ baseWalked \in 0..Len(BaseTree)
    /\ baseJobs \in Seq(BaseFiles) /\ Len(baseJobs) <= BaseChannel
    /\ baseHand \in [BaseWorkers -> BaseFiles \cup {"idle", "left"}]
    /\ baseReport.state \in {"none", "ok", "error"}
    /\ baseReport.drift \subseteq {"new", "changed", "removed"} \X BaseFiles
    /\ baseExpired \in {"no", "walk", "late"} /\ baseUnclear \subseteq BaseFiles
    /\ baseLeft \in [BaseFiles -> BaseStates \cup {"unknown"}]
    /\ baseBudget \in [faults : 0..BaseMaxFaults, runs : 0..BaseMaxRuns]

\* "Is this the same site I left behind?": a verify run that succeeds reports
\* of every file whether, and how, it differs from how the last complete
\* record left it - whatever runs were interrupted in between - unless the
\* file changed under one of the two runs, or could not be read.  A context
\* that ends after the walk has sent its last file is not noticed, and what
\* the workers then leave out counts as missing: such runs are excepted.
BaseSafe ==
    (baseKind = "verify" /\ baseReport.state = "ok" /\ baseExpired # "late") =>
        \A f \in BaseFiles : (f \notin baseUnclear /\ baseLeft[f] # "unknown") =>
            LET was == baseLeft[f]
                is == baseSite[f]
                says(rule) == <<rule, f>> \in baseReport.drift
            IN  /\ says("new") <=> (was = "absent" /\ is # "absent")
                /\ says("removed") <=> (was # "absent" /\ is = "absent")
                /\ says("changed") <=> (was # is /\ was # "absent" /\ is # "absent")
=============================================================================
