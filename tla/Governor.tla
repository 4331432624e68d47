------------------------------- MODULE Governor -------------------------------
(***************************************************************************)
(* The resource governor (internal/govern/govern.go): every worker of a    *)
(* scan passes Gate before it reads a file.  Gate first holds it while the *)
(* machine is loaded, until pausing has cost half the run, and then until  *)
(* the token bucket of the IO rate covers the file.                        *)
(*                                                                         *)
(* A tick is the load pause of 250 ms; timers fire on time, so the clock   *)
(* waits for whoever is due.  The mutex makes one turn at the bucket one   *)
(* step; the load sample, the give-up and the pause are separate loads and *)
(* stores of atomics.                                                      *)
(***************************************************************************)
EXTENDS Integers, FiniteSets, FiniteSetsExt

CONSTANTS
    GovWorkers,     \* workers of the scan
    GovRate,        \* bytes a tick, IOBytesPerSec
    GovSizes,       \* sizes of files
    GovGrace,       \* the 60 seconds during which pausing is never questioned
    GovMaxWait,     \* the 2 seconds an IO wait lasts at most
    GovMaxTime      \* bound on the clock

ASSUME GovAssumption ==
    /\ GovRate \in Nat \ {0} /\ GovSizes \subseteq Nat
    /\ GovGrace \in Nat /\ GovMaxWait \in Nat \ {0} /\ GovMaxTime \in Nat

VARIABLES
    govNow,        \* ticks since the run started
    govThrottled,  \* the last load sample was above the limit
    govGaveUp,     \* the load gate switched itself off
    govPaused,     \* pausedNanos: what all workers slept, together
    govTokens,     \* the bucket
    govLast,       \* when it was last filled
    govReader,     \* worker -> where it is in Gate, for how much, until when
    govCancelled,  \* the run's context has ended
    govBurst,      \* what the worst stretch of the run that ends now took
                   \* beyond the rate (history)
    govHeld,       \* worker -> ticks it slept for load (history)
    govSince       \* worker -> when it began to queue for IO, or another was
                   \* served since (history)

govVars == <<govNow, govThrottled, govGaveUp, govPaused, govTokens, govLast, govReader,
             govCancelled, govBurst, govHeld, govSince>>

\* New: the bucket holds two seconds' worth.  Times and tokens are whole here;
\* the code's are not, and its waits are a millisecond at least.
GovCapacity == 2 * GovRate

GovIdle == [at |-> "idle", size |-> 0, from |-> 0, until |-> 0]

GovInit ==
    /\ govNow = 0
    /\ govThrottled \in BOOLEAN
    /\ govGaveUp = FALSE
    /\ govPaused = 0
    /\ govTokens = GovCapacity
    /\ govLast = 0
    /\ govReader = [w \in GovWorkers |-> GovIdle]
    /\ govCancelled = FALSE
    /\ govBurst = 0
    /\ govHeld = [w \in GovWorkers |-> 0]
    /\ govSince = [w \in GovWorkers |-> 0]

GovAt(w, place) == govReader' = [govReader EXCEPT ![w].at = place]

\* A worker finds the next file.
GateCalled(w, size) ==
    /\ govReader[w].at = "idle"
    /\ govNow < GovMaxTime
    /\ ~govCancelled
    /\ govReader' = [govReader EXCEPT ![w] = [GovIdle EXCEPT !.at = "load", !.size = size]]
    /\ UNCHANGED <<govNow, govThrottled, govGaveUp, govPaused, govTokens, govLast, govCancelled,
                   govBurst, govHeld, govSince>>

\* throttleBudgetExceeded
GovBudgetExceeded == govNow >= GovGrace /\ 2 * govPaused > govNow

\* One turn of the loop: pause, give up, or go on to the bucket.
GateLoad(w) ==
    /\ govReader[w].at = "load"
    /\ IF govThrottled /\ ~govGaveUp /\ ~GovBudgetExceeded
          THEN /\ govReader' = [govReader EXCEPT ![w].at = "pause", ![w].from = govNow,
                                                 ![w].until = govNow + 1]
               /\ UNCHANGED <<govGaveUp, govSince>>
          ELSE /\ govGaveUp' = (govGaveUp \/ govThrottled)
               /\ GovAt(w, "io")
               /\ govSince' = [govSince EXCEPT ![w] = govNow]
    /\ UNCHANGED <<govNow, govThrottled, govPaused, govTokens, govLast, govCancelled, govBurst,
                   govHeld>>

\* The sleep is over - time.After, or the context.
GovWoken(w, place) ==
    /\ govReader[w].at = place
    /\ govReader[w].until <= govNow \/ govCancelled

GovBack(w, place) ==
    govReader' = [govReader EXCEPT ![w] =
        IF govCancelled THEN GovIdle ELSE [@ EXCEPT !.at = place, !.from = 0, !.until = 0]]

\* A cancelled wait returns before it is added to what was paused.
GateWake(w) ==
    /\ \/ GovWoken(w, "pause") /\ GovBack(w, "load")
       \/ GovWoken(w, "wait") /\ GovBack(w, "io")
    /\ LET slept == govNow - govReader[w].from
       IN  IF govCancelled THEN UNCHANGED <<govPaused, govHeld>>
           ELSE /\ govPaused' = govPaused + slept
                /\ govHeld' = IF govReader[w].at = "pause"
                              THEN [govHeld EXCEPT ![w] = @ + slept] ELSE govHeld
    /\ UNCHANGED <<govNow, govThrottled, govGaveUp, govTokens, govLast, govCancelled, govBurst,
                   govSince>>

\* What the bucket holds now.
GovFilled == Min({GovCapacity, govTokens + (govNow - govLast) * GovRate})

\* A file larger than the bucket counts as a full one.
GovWant(w) == Min({govReader[w].size, GovCapacity})

\* deficit / rate, a millisecond at least, two seconds at most.
GovWait(deficit) == Max({1, Min({GovMaxWait, (deficit + GovRate - 1) \div GovRate})})

\* A mutant of GateIO: the time of the last filling is kept while it waits.
GateIOKeepsLast(w) ==
    /\ govReader[w].at = "io"
    /\ IF GovFilled >= GovWant(w)
          THEN /\ govTokens' = GovFilled - GovWant(w)
               /\ govReader' = [govReader EXCEPT ![w] = GovIdle]
               /\ govBurst' = govBurst + GovWant(w)
               /\ govSince' = [v \in GovWorkers |-> IF v = w THEN 0 ELSE govNow]
               /\ govLast' = govNow
          ELSE /\ govTokens' = GovFilled
               /\ govReader' = [govReader EXCEPT ![w].at = "wait", ![w].from = govNow,
                                    ![w].until = govNow + GovWait(GovWant(w) - GovFilled)]
               /\ UNCHANGED <<govBurst, govSince, govLast>>
    /\ UNCHANGED <<govNow, govThrottled, govGaveUp, govPaused, govCancelled, govHeld>>

\* One turn at the bucket, under the mutex.
GateIO(w) ==
    /\ govReader[w].at = "io"
    /\ govLast' = govNow
    /\ IF GovFilled >= GovWant(w)
          THEN /\ govTokens' = GovFilled - GovWant(w)
               /\ govReader' = [govReader EXCEPT ![w] = GovIdle]
               /\ govBurst' = govBurst + GovWant(w)
               /\ govSince' = [v \in GovWorkers |-> IF v = w THEN 0 ELSE govNow]
          ELSE /\ govTokens' = GovFilled
               /\ govReader' = [govReader EXCEPT ![w].at = "wait", ![w].from = govNow,
                                    ![w].until = govNow + GovWait(GovWant(w) - GovFilled)]
               /\ UNCHANGED <<govBurst, govSince>>
    /\ UNCHANGED <<govNow, govThrottled, govGaveUp, govPaused, govCancelled, govHeld>>

\* sampleLoad, whichever of the two signals it reads.
SampleLoad ==
    /\ govThrottled' = ~govThrottled
    /\ UNCHANGED <<govNow, govGaveUp, govPaused, govTokens, govLast, govReader, govCancelled,
                   govBurst, govHeld, govSince>>

\* The deadline of the run, or its owner, cancels the context.
GovCancel ==
    /\ ~govCancelled
    /\ govCancelled' = TRUE
    /\ UNCHANGED <<govNow, govThrottled, govGaveUp, govPaused, govTokens, govLast, govReader,
                   govBurst, govHeld, govSince>>

\* Time passes when nobody is due.
GovTick ==
    /\ govNow < GovMaxTime
    /\ \A w \in GovWorkers :
          \/ govReader[w].at = "idle"
          \/ govReader[w].at \in {"pause", "wait"} /\ govReader[w].until > govNow /\ ~govCancelled
    /\ govNow' = govNow + 1
    /\ govBurst' = Max({0, govBurst - GovRate})
    /\ UNCHANGED <<govThrottled, govGaveUp, govPaused, govTokens, govLast, govReader, govCancelled,
                   govHeld, govSince>>

GovNext ==
    \/ \E w \in GovWorkers :
          \/ \E size \in GovSizes : GateCalled(w, size)
          \/ GateLoad(w) \/ GateWake(w) \/ GateIO(w)
    \/ SampleLoad \/ GovCancel \/ GovTick

GovSpec == GovInit /\ [][GovNext]_govVars

-----------------------------------------------------------------------------
(* Properties *)

GovTypeOK ==
    /\ govNow \in 0..GovMaxTime
    /\ govThrottled \in BOOLEAN /\ govGaveUp \in BOOLEAN /\ govCancelled \in BOOLEAN
    /\ govPaused \in Nat
    /\ govTokens \in 0..GovCapacity
    /\ govLast \in 0..govNow
    /\ govReader \in [GovWorkers -> [at : {"idle", "load", "pause", "io", "wait"}, size : Nat,
                                     from : 0..GovMaxTime, until : Nat]]
    /\ govBurst \in Nat
    /\ govHeld \in [GovWorkers -> Nat] /\ govSince \in [GovWorkers -> 0..GovMaxTime]

\* "A token bucket over bytes read": over any stretch of the run the workers
\* together take no more than a full bucket and the rate, whoever waits and
\* wakes when.
GovRateHolds == govBurst <= GovCapacity

\* "The scan would otherwise crawl indefinitely while appearing healthy": the
\* load gate takes no more of any worker than the grace or half the run.
GovNeverCrawls ==
    \A w \in GovWorkers : govHeld[w] <= Max({GovGrace, govNow \div 2 + 1})

\* "A single file larger than the bucket must not deadlock": a worker nobody
\* overtakes is through as soon as an empty bucket has filled.
GovNoneStuck ==
    \A w \in GovWorkers :
        govReader[w].at = "wait" /\ ~govCancelled
            => govNow - govSince[w] <= GovCapacity \div GovRate

\* Gate holds workers enough, not too long and none forever.
GovSafe == GovRateHolds /\ GovNeverCrawls /\ GovNoneStuck
=============================================================================
