--------------------------- MODULE RecordsProofs ---------------------------
(***************************************************************************)
(* Proofs about what a scan says of a file by what is known of it, for every *)
(* tree, every list of plugins and every number of workers, faults and     *)
(* runs; and about what it concludes from the files of a webroot together. *)
(***************************************************************************)
EXTENDS Records, FileChecks, FiniteSetTheorems, SequenceTheorems, WellFoundedInduction, TLAPS

-----------------------------------------------------------------------------
(***************************************************************************)
(* Provenance: the published manifests.                                    *)
(***************************************************************************)

\* Artefacts that have a manifest.
ProvKnown == {ProvCore} \cup ProvPublic

\* A manifest is never had, and none is never said to be missing, for the wrong
\* artefact; and while nothing fails no fetch does.
ProvJobInv(a) ==
    /\ provJob[a].tries < ProvAttempts
    /\ provJob[a].got = "whole" => a \in ProvKnown
    /\ provJob[a].got = "unpublished" => a \notin ProvKnown
    /\ provJob[a].pc = "done" => provJob[a].got \in {"whole", "unpublished", "fault"}
    /\ provJob[a].pc = "store" => provJob[a].got \in {"whole", "broken"}
    /\ provCache[a] = "whole" => a \in ProvKnown
    /\ (~provHampered /\ provPc # "idle") =>
          provJob[a].got \notin {"fault", "broken"} /\ provCache[a] # "broken"

ProvFew == Cardinality({a \in ProvPlugins : ProvFetching(a)}) <= ProvWorkers

\* Every artefact that has a manifest is in the set, or among the failures, once
\* its fetch is over.
ProvSetInv ==
    /\ provSet.covered \subseteq ProvKnown
    /\ provPc \in {"plugins", "sweep"} => ProvCore \in provSet.covered \cup provSet.failures
    /\ provPc = "sweep" => ProvPublic \subseteq provSet.covered \cup provSet.failures
    /\ (~provHampered /\ provPc # "idle") => provSet.failures = {}

\* The state of the check belongs to a scan that is over; the context ends by a
\* fault.
ProvStateInv ==
    /\ provPc # "idle" => provState = "none"
    /\ (provExpired /\ provPc # "idle") => provHampered

\* The file in hand is as it was, unless it was touched.
ProvReadInv ==
    (provRead # ProvNoFile /\ provRead.path \notin provTouched) =>
        provRead.bytes = provBytes[provRead.path]

ProvInv ==
    /\ ProvTypeOK
    /\ \A a \in ProvArtefacts : ProvJobInv(a)
    /\ ProvFew /\ ProvSetInv /\ ProvStateInv /\ ProvReadInv
    /\ ProvClaims /\ ProvSilentNever /\ ProvHeals
-----------------------------------------------------------------------------
(* The fetches *)

\* The plugins whose manifests are asked for.
ProvAsked == {b \in ProvPlugins : ProvFetching(b)}

\* What a scan asks the publishers for is finite.
LEMMA ProvAskedFinite ==
    /\ IsFiniteSet(ProvAsked) /\ Cardinality(ProvAsked) \in Nat
    /\ IsFiniteSet(ProvAsked') /\ Cardinality(ProvAsked') \in Nat
<1>1. IsFiniteSet(ProvPlugins) /\ ProvAsked \subseteq ProvPlugins /\ ProvAsked' \subseteq ProvPlugins
  BY ProvAssumption DEF ProvAsked
<1> QED BY <1>1, FS_Subset, FS_CardinalityType

\* A fetch that does not begin leaves no more of them; one that begins had room.
LEMMA ProvFewKept ==
    ASSUME ProvFew, NEW a \in ProvArtefacts,
           \A b \in ProvArtefacts \ {a} : provJob'[b] = provJob[b],
           ProvFetching(a)' =>
               \/ ProvFetching(a) \/ a = ProvCore
               \/ Cardinality(ProvAsked) < ProvWorkers
    PROVE  ProvFew'
<1>0. /\ ProvCore \notin ProvPlugins /\ ProvPlugins \subseteq ProvArtefacts
      /\ ProvWorkers \in Nat \ {0} /\ Cardinality(ProvAsked) <= ProvWorkers
  BY ProvAssumption DEF ProvArtefacts, ProvFew, ProvAsked
<1>1. \A b \in ProvPlugins \ {a} : b \in ProvAsked' <=> b \in ProvAsked
  BY <1>0 DEF ProvAsked, ProvFetching
<1>2. CASE a \in ProvAsked' /\ a \notin ProvAsked
  <2>1. Cardinality(ProvAsked) < ProvWorkers
    BY <1>0, <1>2 DEF ProvAsked
  <2>2. ProvAsked' \subseteq ProvAsked \cup {a}
    BY <1>1 DEF ProvAsked
  <2>3. /\ IsFiniteSet(ProvAsked \cup {a})
        /\ Cardinality(ProvAsked \cup {a}) = Cardinality(ProvAsked) + 1
    BY <1>2, ProvAskedFinite, FS_AddElement
  <2>4. Cardinality(ProvAsked') <= Cardinality(ProvAsked \cup {a})
    BY <2>2, <2>3, FS_Subset
  <2>5. Cardinality(ProvAsked') <= ProvWorkers
    BY ONLY <1>0, <2>1, <2>3, <2>4, ProvAskedFinite
  <2> QED BY <2>5 DEF ProvFew, ProvAsked
<1>3. CASE ~(a \in ProvAsked' /\ a \notin ProvAsked)
  <2>1. ProvAsked' \subseteq ProvAsked
    BY <1>1, <1>3 DEF ProvAsked
  <2>2. Cardinality(ProvAsked') <= Cardinality(ProvAsked)
    BY <2>1, ProvAskedFinite, FS_Subset
  <2>3. Cardinality(ProvAsked') <= ProvWorkers
    BY ONLY <1>0, <2>2, ProvAskedFinite
  <2> QED BY <2>3 DEF ProvFew, ProvAsked
<1> QED BY <1>2, <1>3

\* One fetch moves on.
LEMMA ProvJobMoves ==
    ASSUME ProvInv, NEW a \in ProvArtefacts,
           provJob' \in [ProvArtefacts -> ProvJobs],
           provCache' \in [ProvArtefacts -> ProvBodies],
           \A b \in ProvArtefacts \ {a} : provJob'[b] = provJob[b] /\ provCache'[b] = provCache[b],
           UNCHANGED <<provHost, provPc, provSet, provSweep, provState, provExpired>>,
           ProvFaulty \/ ProvSound,
           ProvJobInv(a)', ProvFew'
    PROVE  ProvInv'
<1>1. provBudget' \in [faults : 0..ProvMaxFaults, scans : 0..ProvMaxScans]
  <2>1. provBudget \in [faults : 0..ProvMaxFaults, scans : 0..ProvMaxScans]
    BY DEF ProvInv, ProvTypeOK
  <2>2. ProvMaxFaults \in Nat
    BY ProvAssumption
  <2>3. CASE ProvFaulty
    BY <2>1, <2>2, <2>3 DEF ProvFaulty
  <2>4. CASE ProvSound
    BY <2>1, <2>4 DEF ProvSound
  <2> QED BY <2>3, <2>4
<1>2. (provHampered' <=> provHampered) \/ provHampered'
  BY DEF ProvFaulty, ProvSound
<1>3. provHampered' \in BOOLEAN /\ (~provHampered' => ~provHampered)
  BY DEF ProvFaulty, ProvSound, ProvInv, ProvTypeOK
<1>4. ProvTypeOK'
  BY <1>1, <1>3 DEF ProvInv, ProvTypeOK, provHost, provSweep
<1>5. \A b \in ProvArtefacts : ProvJobInv(b)'
  <2> TAKE b \in ProvArtefacts
  <2>1. CASE b = a
    BY <2>1
  <2>2. CASE b # a
    <3>1. ProvJobInv(b) /\ provJob'[b] = provJob[b] /\ provCache'[b] = provCache[b] /\ provPc' = provPc
      BY <2>2 DEF ProvInv
    <3> QED BY ONLY <1>3, <3>1 DEF ProvJobInv
  <2> QED BY <2>1, <2>2
<1>6. ProvSetInv' /\ ProvStateInv' /\ ProvReadInv'
  BY <1>3 DEF ProvInv, ProvSetInv, ProvStateInv, ProvReadInv, provHost, provSweep
<1>7. ProvClaims' /\ ProvSilentNever' /\ ProvHeals'
  BY <1>3 DEF ProvInv, ProvClaims, ProvSilentNever, ProvHeals, provHost, provSweep
<1> QED BY <1>4, <1>5, <1>6, <1>7 DEF ProvInv

\* What is known of one fetch.
LEMMA ProvJobKnown ==
    ASSUME ProvInv, NEW a \in ProvArtefacts
    PROVE  /\ provJob \in [ProvArtefacts -> ProvJobs] /\ provJob[a] \in ProvJobs /\ ProvJobInv(a)
           /\ provCache \in [ProvArtefacts -> ProvBodies]
           /\ provCache[a] \in ProvBodies
           /\ ProvAttempts \in Nat \ {0} /\ ProvFew
           /\ \A g \in {"none", "whole", "broken", "unpublished", "fault"} : ProvDone(g) \in ProvJobs
<1>1. ProvAttempts \in Nat \ {0} /\ 0 \in 0..ProvAttempts
  BY ProvAssumption
<1> QED BY <1>1 DEF ProvInv, ProvTypeOK, ProvDone, ProvJobs

\* Every step of a fetch is such a move.
LEMMA ProvFetchKeeps ==
    ASSUME ProvInv, NEW a \in ProvArtefacts, ProvFetch(a)
    PROVE  ProvInv'
<1>k. /\ provJob \in [ProvArtefacts -> ProvJobs] /\ provJob[a] \in ProvJobs /\ ProvJobInv(a)
      /\ provCache \in [ProvArtefacts -> ProvBodies]
      /\ provCache[a] \in ProvBodies
      /\ ProvAttempts \in Nat \ {0} /\ ProvFew
      /\ \A g \in {"none", "whole", "broken", "unpublished", "fault"} : ProvDone(g) \in ProvJobs
  BY ProvJobKnown
<1>h. (provExpired /\ provPc # "idle") => provHampered
  BY DEF ProvInv, ProvStateInv
<1>m. ASSUME NEW j \in ProvJobs, NEW c \in ProvBodies,
             provJob' = [provJob EXCEPT ![a] = j],
             \/ provCache' = [provCache EXCEPT ![a] = c]
             \/ provCache' = provCache /\ c = provCache[a],
             UNCHANGED <<provHost, provPc, provSet, provSweep, provState, provExpired>>,
             ProvFaulty \/ ProvSound,
             /\ j.tries < ProvAttempts
             /\ j.got = "whole" => a \in ProvKnown
             /\ j.got = "unpublished" => a \notin ProvKnown
             /\ j.pc = "done" => j.got \in {"whole", "unpublished", "fault"}
             /\ j.pc = "store" => j.got \in {"whole", "broken"}
             /\ c = "whole" => a \in ProvKnown
             /\ (~provHampered' /\ provPc # "idle") => j.got \notin {"fault", "broken"} /\ c # "broken",
             j.pc \in {"cache", "try", "backoff", "store"} =>
                 \/ ProvFetching(a) \/ a = ProvCore
                 \/ Cardinality(ProvAsked) < ProvWorkers
      PROVE  ProvInv'
  <2>1. provJob' \in [ProvArtefacts -> ProvJobs] /\ provJob'[a] = j
    BY ONLY <1>k, <1>m
  <2>2. /\ provCache' \in [ProvArtefacts -> ProvBodies]
        /\ provCache'[a] = c
    BY ONLY <1>k, <1>m
  <2>3. \A b \in ProvArtefacts \ {a} : provJob'[b] = provJob[b] /\ provCache'[b] = provCache[b]
    BY ONLY <1>k, <1>m
  <2>4. ProvJobInv(a)'
    BY ONLY <1>m, <2>1, <2>2 DEF ProvJobInv
  <2>5. ProvFetching(a)' => j.pc \in {"cache", "try", "backoff", "store"}
    BY <2>1 DEF ProvFetching
  <2>6. ProvFew'
    BY <1>k, <1>m, <2>3, <2>5, ProvFewKept
  <2> QED BY <1>m, <2>1, <2>2, <2>3, <2>4, <2>6, ProvJobMoves
<1>d. ASSUME NEW g \in {"none", "whole", "broken", "unpublished", "fault"}
      PROVE  /\ ProvDone(g).tries = 0 /\ ProvDone(g).got = g /\ ProvDone(g).pc = "done"
             /\ 0 < ProvAttempts /\ ProvDone(g) \in ProvJobs
  BY <1>k DEF ProvDone
<1>1. CASE ProvAcquire(a)
  <2>1. /\ provJob[a].pc = "wait" /\ ProvSound /\ provPc # "idle"
        /\ UNCHANGED <<provHost, provCache, provPc, provSet, provSweep, provState, provExpired>>
        /\ a = ProvCore \/ Cardinality(ProvAsked) < ProvWorkers
    BY <1>1 DEF ProvAcquire, ProvSound, ProvAsked
  <2>2. CASE provExpired /\ a # ProvCore
    <3>1. provJob' = [provJob EXCEPT ![a] = ProvDone("fault")] /\ provHampered' = provHampered
      BY <1>1, <2>2 DEF ProvAcquire
    <3>2. /\ ProvDone("fault").tries = 0 /\ ProvDone("fault").got = "fault"
          /\ ProvDone("fault").pc = "done" /\ 0 < ProvAttempts
      BY <1>k DEF ProvDone
    <3> QED BY <1>k, <1>h, <1>m, <2>1, <2>2, <3>1, <3>2 DEF ProvJobInv
  <2>3. CASE ~(provExpired /\ a # ProvCore)
    <3> DEFINE j == [provJob[a] EXCEPT !.pc = "cache"]
    <3>1. provJob' = [provJob EXCEPT ![a] = j] /\ provHampered' = provHampered
      BY <1>1, <2>3 DEF ProvAcquire
    <3>2. j \in ProvJobs /\ j.tries = provJob[a].tries /\ j.got = provJob[a].got /\ j.pc = "cache"
      BY <1>k DEF ProvJobs
    <3> HIDE DEF j
    <3> QED BY <1>k, <1>m, <2>1, <3>1, <3>2 DEF ProvJobInv
  <2> QED BY <2>2, <2>3
<1>2. CASE ProvLookInCache(a)
  <2>1. /\ provJob[a].pc = "cache" /\ ProvSound /\ provHampered' = provHampered
        /\ UNCHANGED <<provHost, provPc, provSet, provSweep, provState, provExpired>>
    BY <1>2 DEF ProvLookInCache, ProvSound
  <2>2. CASE provCache[a] \in {"whole", "broken"}
    <3> DEFINE g == IF provCache[a] = "whole" THEN "whole" ELSE "fault"
    <3>1. provJob' = [provJob EXCEPT ![a] = ProvDone(g)] /\ provCache' = provCache
      BY <1>2, <2>2 DEF ProvLookInCache
    <3>2. /\ g \in {"whole", "fault"} /\ (g = "whole" => provCache[a] = "whole")
          /\ (g = "fault" => provCache[a] = "broken")
      BY <2>2
    <3> HIDE DEF g
    <3>3. g \in {"none", "whole", "broken", "unpublished", "fault"}
      BY <3>2
    <3> QED BY <1>k, <1>d, <1>m, <2>1, <3>1, <3>2, <3>3 DEF ProvJobInv
  <2>3. CASE provCache[a] \in {"none", "foreign"}
    <3> DEFINE j == [provJob[a] EXCEPT !.pc = "try"]
    <3>1. provJob' = [provJob EXCEPT ![a] = j] /\ provCache' = [provCache EXCEPT ![a] = "none"]
      BY <1>2, <2>3 DEF ProvLookInCache
    <3>2. j \in ProvJobs /\ j.tries = provJob[a].tries /\ j.got = provJob[a].got /\ j.pc = "try"
      BY <1>k DEF ProvJobs
    <3>3. ProvFetching(a)
      BY <2>1 DEF ProvFetching
    <3> HIDE DEF j
    <3>4. /\ j.tries < ProvAttempts
          /\ j.got = "whole" => a \in ProvKnown
          /\ j.got = "unpublished" => a \notin ProvKnown
          /\ (~provHampered' /\ provPc # "idle") => j.got \notin {"fault", "broken"}
      BY <1>k, <2>1, <3>2 DEF ProvJobInv
    <3>5. provJob' \in [ProvArtefacts -> ProvJobs] /\ provJob'[a] = j
      BY ONLY <1>k, <3>1, <3>2, a \in ProvArtefacts
    <3>6. provCache' \in [ProvArtefacts -> ProvBodies] /\ provCache'[a] = "none"
      BY <1>k, <3>1 DEF ProvBodies
    <3>7. \A b \in ProvArtefacts \ {a} : provJob'[b] = provJob[b] /\ provCache'[b] = provCache[b]
      BY <1>k, <3>1
    <3>8. ProvJobInv(a)' /\ ProvFew'
      <4>1. ProvJobInv(a)'
        BY <2>1, <3>2, <3>4, <3>5, <3>6 DEF ProvJobInv
      <4> QED BY <1>k, <3>3, <3>7, <4>1, ProvFewKept
    <3> QED BY <2>1, <3>5, <3>6, <3>7, <3>8, ProvJobMoves
  <2> QED BY <1>k, <2>2, <2>3 DEF ProvBodies
<1>3. CASE ProvTryAnswered(a)
  <2>1. /\ provJob[a].pc = "try" /\ ProvSound /\ provHampered' = provHampered
        /\ UNCHANGED <<provHost, provCache, provPc, provSet, provSweep, provState, provExpired>>
    BY <1>3 DEF ProvTryAnswered, ProvSound
  <2>2. CASE a \in ProvKnown
    <3> DEFINE j == [provJob[a] EXCEPT !.pc = "store", !.got = "whole"]
    <3>1. provJob' = [provJob EXCEPT ![a] = j]
      BY <1>3, <2>2 DEF ProvTryAnswered, ProvKnown
    <3>2. j \in ProvJobs /\ j.tries = provJob[a].tries /\ j.got = "whole" /\ j.pc = "store"
      BY <1>k DEF ProvJobs
    <3>3. ProvFetching(a)
      BY <2>1 DEF ProvFetching
    <3> HIDE DEF j
    <3> QED BY <1>k, <1>m, <2>1, <2>2, <3>1, <3>2, <3>3 DEF ProvJobInv
  <2>3. CASE a \notin ProvKnown
    <3>1. provJob' = [provJob EXCEPT ![a] = ProvDone("unpublished")]
      BY <1>3, <2>3 DEF ProvTryAnswered, ProvKnown
    <3> QED BY <1>k, <1>d, <1>m, <2>1, <2>3, <3>1 DEF ProvJobInv
  <2> QED BY <2>2, <2>3
<1>4. CASE ProvTryFails(a)
  <2>1. /\ provJob[a].pc = "try" /\ ProvFaulty /\ provHampered'
        /\ UNCHANGED <<provHost, provCache, provPc, provSet, provSweep, provState, provExpired>>
    BY <1>4 DEF ProvTryFails, ProvFaulty
  <2>2. CASE provJob[a].tries + 1 = ProvAttempts
    <3>1. provJob' = [provJob EXCEPT ![a] = ProvDone("fault")]
      BY <1>4, <2>2 DEF ProvTryFails
    <3> QED BY <1>k, <1>d, <1>m, <2>1, <3>1 DEF ProvJobInv
  <2>3. CASE provJob[a].tries + 1 # ProvAttempts
    <3> DEFINE t == provJob[a].tries + 1
               j == [provJob[a] EXCEPT !.tries = t, !.pc = "backoff"]
    <3>1. provJob' = [provJob EXCEPT ![a] = j]
      BY <1>4, <2>3 DEF ProvTryFails
    <3>2. t \in 0..ProvAttempts /\ t < ProvAttempts
      <4>1. provJob[a].tries \in 0..ProvAttempts /\ provJob[a].tries < ProvAttempts
        BY <1>k DEF ProvJobs, ProvJobInv
      <4> QED BY ONLY <1>k, <2>3, <4>1
    <3> HIDE DEF t
    <3>3. j \in ProvJobs /\ j.tries = t /\ j.got = provJob[a].got /\ j.pc = "backoff"
      BY <1>k, <3>2 DEF ProvJobs
    <3>4. ProvFetching(a)
      BY <2>1 DEF ProvFetching
    <3> HIDE DEF j
    <3> QED BY <1>k, <1>m, <2>1, <3>1, <3>2, <3>3, <3>4 DEF ProvJobInv
  <2> QED BY <2>2, <2>3
<1>5. CASE ProvTryMisled(a)
  <2>1. /\ provJob[a].pc = "try" /\ ProvFaulty /\ provHampered'
        /\ UNCHANGED <<provHost, provCache, provPc, provSet, provSweep, provState, provExpired>>
    BY <1>5 DEF ProvTryMisled, ProvFaulty
  <2>2. CASE provJob' = [provJob EXCEPT ![a] = ProvDone("fault")]
    BY <1>k, <1>d, <1>m, <2>1, <2>2 DEF ProvJobInv
  <2>3. CASE provJob' = [provJob EXCEPT ![a].pc = "store", ![a].got = "broken"]
    <3> DEFINE j == [provJob[a] EXCEPT !.pc = "store", !.got = "broken"]
    <3>1. provJob' = [provJob EXCEPT ![a] = j]
      BY <1>k, <2>3
    <3>2. j \in ProvJobs /\ j.tries = provJob[a].tries /\ j.got = "broken" /\ j.pc = "store"
      BY <1>k DEF ProvJobs
    <3>3. ProvFetching(a)
      BY <2>1 DEF ProvFetching
    <3> HIDE DEF j
    <3> QED BY <1>k, <1>m, <2>1, <3>1, <3>2, <3>3 DEF ProvJobInv
  <2> QED BY <1>5, <2>2, <2>3 DEF ProvTryMisled
<1>6. CASE ProvTryEnds(a)
  <2>1. /\ provExpired /\ ProvSound /\ provHampered' = provHampered
        /\ provJob' = [provJob EXCEPT ![a] = ProvDone("fault")]
        /\ UNCHANGED <<provHost, provCache, provPc, provSet, provSweep, provState, provExpired>>
    BY <1>6 DEF ProvTryEnds, ProvSound
  <2> QED BY <1>k, <1>h, <1>d, <1>m, <2>1 DEF ProvJobInv
<1>7. CASE ProvBackoff(a)
  <2> DEFINE j == [provJob[a] EXCEPT !.pc = "try"]
  <2>1. /\ provJob[a].pc = "backoff" /\ ProvSound /\ provHampered' = provHampered
        /\ provJob' = [provJob EXCEPT ![a] = j]
        /\ UNCHANGED <<provHost, provCache, provPc, provSet, provSweep, provState, provExpired>>
    BY <1>7 DEF ProvBackoff, ProvSound
  <2>2. j \in ProvJobs /\ j.tries = provJob[a].tries /\ j.got = provJob[a].got /\ j.pc = "try"
    BY <1>k DEF ProvJobs
  <2>3. ProvFetching(a)
    BY <2>1 DEF ProvFetching
  <2> HIDE DEF j
  <2> QED BY <1>k, <1>m, <2>1, <2>2, <2>3 DEF ProvJobInv
<1>8. CASE ProvStore(a)
  <2> DEFINE g == IF provJob[a].got = "whole" THEN "whole" ELSE "fault"
  <2>1. /\ provJob[a].pc = "store" /\ provJob' = [provJob EXCEPT ![a] = ProvDone(g)]
        /\ UNCHANGED <<provHost, provPc, provSet, provSweep, provState, provExpired>>
    BY <1>8 DEF ProvStore
  <2>2. /\ g \in {"whole", "fault"} /\ (g = "whole" => provJob[a].got = "whole")
        /\ (g = "fault" => provJob[a].got = "broken") /\ provJob[a].got \in {"whole", "broken"}
    BY <1>k, <2>1 DEF ProvJobInv
  <2> HIDE DEF g
  <2>3. g \in {"none", "whole", "broken", "unpublished", "fault"}
    BY <2>2
  <2>4. CASE ProvSound /\ provCache' = [provCache EXCEPT ![a] = provJob[a].got]
    <3>1. provHampered' = provHampered
      BY <2>4 DEF ProvSound
    <3>2. /\ g = "whole" => a \in ProvKnown
          /\ provJob[a].got = "whole" => a \in ProvKnown
          /\ (~provHampered' /\ provPc # "idle") => provJob[a].got # "broken" /\ g # "fault"
      BY <1>k, <2>2, <3>1 DEF ProvJobInv
    <3>3. /\ ProvDone(g).tries = 0 /\ ProvDone(g).got = g /\ ProvDone(g).pc = "done"
          /\ 0 < ProvAttempts /\ ProvDone(g) \in ProvJobs
      BY <1>d, <2>3
    <3>4. provJob[a].got \in ProvBodies
      BY <2>2 DEF ProvBodies
    <3>5. provJob' \in [ProvArtefacts -> ProvJobs] /\ provJob'[a] = ProvDone(g)
      BY ONLY <1>k, <2>1, <3>3, a \in ProvArtefacts
    <3>6. provCache' \in [ProvArtefacts -> ProvBodies] /\ provCache'[a] = provJob[a].got
      BY ONLY <1>k, <2>4, <3>4, a \in ProvArtefacts
    <3>7. \A b \in ProvArtefacts \ {a} : provJob'[b] = provJob[b] /\ provCache'[b] = provCache[b]
      BY <1>k, <2>1, <2>4
    <3>8. ProvJobInv(a)' /\ ProvFew'
      <4>1. ProvJobInv(a)'
        BY <2>1, <2>2, <3>2, <3>3, <3>5, <3>6 DEF ProvJobInv
      <4>2. ~ProvFetching(a)'
        BY <3>3, <3>5 DEF ProvFetching
      <4> QED BY <1>k, <3>7, <4>1, <4>2, ProvFewKept
    <3> QED BY <2>1, <2>4, <3>5, <3>6, <3>7, <3>8, ProvJobMoves
  <2>5. CASE ProvFaulty /\ provCache' = provCache
    <3>1. provHampered'
      BY <2>5 DEF ProvFaulty
    <3> QED BY <1>k, <1>d, <1>m, <2>1, <2>2, <2>3, <2>5, <3>1 DEF ProvJobInv
  <2> QED BY <1>8, <2>4, <2>5 DEF ProvStore
<1> QED BY <1>1, <1>2, <1>3, <1>4, <1>5, <1>6, <1>7, <1>8 DEF ProvFetch

-----------------------------------------------------------------------------
(* The scan *)

\* A step in which no fetch moves and the cache keeps its contents.
LEMMA ProvJobsKept ==
    ASSUME ProvInv, UNCHANGED <<provJob, provCache>>,
           ~provHampered' /\ provPc' # "idle" => ~provHampered /\ provPc # "idle"
    PROVE  (\A a \in ProvArtefacts : ProvJobInv(a)') /\ ProvFew'
<1>1. \A a \in ProvArtefacts : ProvJobInv(a)'
  BY DEF ProvInv, ProvJobInv
<1>2. ProvAsked' = ProvAsked
  BY DEF ProvAsked, ProvFetching
<1> QED BY <1>1, <1>2 DEF ProvInv, ProvFew, ProvAsked

\* A scan begins.
LEMMA ProvBeginKeeps == ProvInv /\ ProvBegin => ProvInv'
<1> SUFFICES ASSUME ProvInv, ProvBegin PROVE ProvInv'
  OBVIOUS
<1>1. /\ ProvNoJob \in ProvJobs /\ ProvNoJob.tries = 0 /\ ProvNoJob.got = "none"
      /\ ProvNoJob.pc = "wait" /\ 0 < ProvAttempts /\ ProvWorkers \in Nat \ {0}
      /\ ProvNoSet \in ProvSets /\ ProvNoSet.covered = {} /\ ProvNoSet.failures = {}
      /\ ProvTree \in Seq(ProvPaths) /\ ProvMaxScans \in Nat
  <2>1. 0 \in 0..ProvAttempts /\ 0 < ProvAttempts
    BY ProvAssumption
  <2> QED BY <2>1, ProvAssumption DEF ProvNoJob, ProvJobs, ProvNoSet, ProvSets
<1>2. \A a \in ProvArtefacts : provJob'[a] = ProvNoJob
  BY DEF ProvBegin
<1>3. provHampered' \in BOOLEAN
  BY DEF ProvBegin
<1>4. provBudget' \in [faults : 0..ProvMaxFaults, scans : 0..ProvMaxScans]
  <2>1. provBudget \in [faults : 0..ProvMaxFaults, scans : 0..ProvMaxScans]
        /\ provBudget.scans < ProvMaxScans /\ provBudget' = [provBudget EXCEPT !.scans = @ + 1]
    BY DEF ProvInv, ProvTypeOK, ProvBegin
  <2> QED BY <1>1, <2>1
<1>5. ProvTypeOK'
  BY <1>1, <1>3, <1>4 DEF ProvInv, ProvTypeOK, ProvBegin
<1>6. \A a \in ProvArtefacts : ProvJobInv(a)'
  <2> TAKE a \in ProvArtefacts
  <2>1. provCache[a] = "whole" => a \in ProvKnown
    BY DEF ProvInv, ProvJobInv
  <2>2. ~provHampered' => provCache[a] # "broken"
    BY DEF ProvBegin
  <2>3. provCache' = provCache
    BY DEF ProvBegin
  <2> QED BY <1>1, <1>2, <2>1, <2>2, <2>3 DEF ProvJobInv
<1>7. ProvFew'
  <2>1. ProvAsked' = {}
    BY <1>1, <1>2 DEF ProvAsked, ProvFetching, ProvArtefacts
  <2>2. Cardinality(ProvAsked') <= ProvWorkers
    BY <1>1, <2>1, FS_EmptySet
  <2> QED BY <2>2 DEF ProvFew, ProvAsked
<1>8. ProvSetInv' /\ ProvStateInv' /\ ProvReadInv'
  BY <1>1 DEF ProvBegin, ProvSetInv, ProvStateInv, ProvReadInv
<1>9. ProvClaims' /\ ProvSilentNever' /\ ProvHeals'
  BY DEF ProvBegin, ProvClaims, ProvSilentNever, ProvHeals
<1> QED BY <1>5, <1>6, <1>7, <1>8, <1>9 DEF ProvInv

\* The core's manifest is there, or is not.
LEMMA ProvCoreLoadedKeeps == ProvInv /\ ProvCoreLoaded => ProvInv'
<1> SUFFICES ASSUME ProvInv, ProvCoreLoaded PROVE ProvInv'
  OBVIOUS
<1>1. /\ provPc = "core" /\ provPc' = "plugins" /\ provState = "none" /\ provState' = "none"
      /\ UNCHANGED <<provHost, provCache, provJob, provSweep, provExpired>>
  BY DEF ProvCoreLoaded, ProvInv, ProvStateInv
<1>2. /\ provHampered' \in BOOLEAN /\ (~provHampered' => ~provHampered)
      /\ provBudget' \in [faults : 0..ProvMaxFaults, scans : 0..ProvMaxScans]
  <2>1. provBudget \in [faults : 0..ProvMaxFaults, scans : 0..ProvMaxScans] /\ provHampered \in BOOLEAN
        /\ ProvMaxFaults \in Nat
    BY ProvAssumption DEF ProvInv, ProvTypeOK
  <2>2. CASE ProvFaulty
    BY <2>1, <2>2 DEF ProvFaulty
  <2>3. CASE ProvSound
    BY <2>1, <2>3 DEF ProvSound
  <2> QED BY <2>2, <2>3 DEF ProvCoreLoaded
<1>3. provSet \in ProvSets /\ ProvCore \in ProvArtefacts /\ provSet.covered \subseteq ProvKnown
      /\ ProvCore \in ProvKnown
  BY DEF ProvInv, ProvTypeOK, ProvArtefacts, ProvSetInv, ProvKnown
<1>4. /\ provSet' \in ProvSets /\ provSet'.covered \subseteq ProvKnown
      /\ ProvCore \in provSet'.covered \cup provSet'.failures
      /\ ~provHampered' => provSet'.failures = {}
  <2>1. CASE provSet' = [provSet EXCEPT !.covered = {ProvCore}]
    <3>1. ~provHampered' => provSet.failures = {}
      BY <1>1, <1>2 DEF ProvInv, ProvSetInv
    <3> QED BY <1>3, <2>1, <3>1 DEF ProvSets
  <2>2. CASE provSet' = [provSet EXCEPT !.failures = {ProvCore}] /\ provHampered'
    BY <1>3, <2>2 DEF ProvSets
  <2>3. provHampered' \/ provSet' = [provSet EXCEPT !.covered = {ProvCore}]
    <3> SUFFICES ASSUME ~provHampered' PROVE provSet' = [provSet EXCEPT !.covered = {ProvCore}]
      OBVIOUS
    <3>1. provJob[ProvCore].pc = "done"
      BY DEF ProvCoreLoaded, ProvFaulty
    <3>2. provJob[ProvCore].got = "whole"
      BY <1>1, <1>2, <1>3, <3>1 DEF ProvInv, ProvJobInv
    <3> QED BY <3>1, <3>2 DEF ProvCoreLoaded
  <2> QED BY <2>1, <2>2, <2>3 DEF ProvCoreLoaded
<1>5. ProvTypeOK'
  BY <1>1, <1>2, <1>4 DEF ProvInv, ProvTypeOK, provHost, provSweep
<1>6. (\A a \in ProvArtefacts : ProvJobInv(a)') /\ ProvFew'
  BY <1>1, <1>2, ProvJobsKept
<1>7. ProvSetInv' /\ ProvStateInv' /\ ProvReadInv'
  BY <1>1, <1>2, <1>4 DEF ProvInv, ProvSetInv, ProvStateInv, ProvReadInv, provHost, provSweep
<1>8. ProvClaims' /\ ProvSilentNever' /\ ProvHeals'
  BY <1>1 DEF ProvInv, ProvClaims, ProvSilentNever, ProvHeals, provHost, provSweep
<1> QED BY <1>5, <1>6, <1>7, <1>8 DEF ProvInv

\* The plugins' manifests are there, or are not.
LEMMA ProvLoadedKeeps == ProvInv /\ ProvLoaded => ProvInv'
<1> SUFFICES ASSUME ProvInv, ProvLoaded PROVE ProvInv'
  OBVIOUS
<1>1. /\ provPc = "plugins" /\ provPc' = "sweep" /\ provState = "none" /\ provState' = "none"
      /\ UNCHANGED <<provHost, provCache, provJob, provSweep, provExpired, provHampered, provBudget>>
      /\ \A a \in ProvPlugins : provJob[a].pc = "done"
  BY DEF ProvLoaded, ProvInv, ProvStateInv
<1>2. /\ provSet \in ProvSets /\ provSet.covered \subseteq ProvKnown
      /\ ProvPlugins \subseteq ProvArtefacts /\ ProvPublic \subseteq ProvPlugins
      /\ ProvCore \in provSet.covered \cup provSet.failures
      /\ ~provHampered => provSet.failures = {}
  BY <1>1, ProvAssumption DEF ProvInv, ProvTypeOK, ProvArtefacts, ProvSetInv
<1> DEFINE With(g) == {a \in ProvPlugins : provJob[a].got = g}
<1>3. provSet' = [covered |-> provSet.covered \cup With("whole"),
                  failures |-> provSet.failures \cup With("fault"),
                  unpublished |-> With("unpublished")]
  BY DEF ProvLoaded
<1>4. /\ With("whole") \subseteq ProvKnown
      /\ ProvPublic \subseteq With("whole") \cup With("fault")
      /\ ~provHampered => With("fault") = {}
  BY <1>1, <1>2 DEF ProvInv, ProvJobInv, ProvKnown
<1>5. \A g : With(g) \subseteq ProvArtefacts
  BY <1>2
<1> HIDE DEF With
<1>6. provSet' \in ProvSets
  BY <1>2, <1>3, <1>5 DEF ProvSets
<1>7. ProvTypeOK'
  BY <1>1, <1>6 DEF ProvInv, ProvTypeOK, provHost, provSweep
<1>8. (\A a \in ProvArtefacts : ProvJobInv(a)') /\ ProvFew'
  BY <1>1, ProvJobsKept
<1>9. ProvSetInv'
  BY <1>1, <1>2, <1>3, <1>4 DEF ProvSetInv
<1>10. ProvStateInv' /\ ProvReadInv'
  BY <1>1 DEF ProvInv, ProvStateInv, ProvReadInv, provHost, provSweep
<1>11. ProvClaims' /\ ProvSilentNever' /\ ProvHeals'
  BY <1>1 DEF ProvInv, ProvClaims, ProvSilentNever, ProvHeals, provHost, provSweep
<1> QED BY <1>7, <1>8, <1>9, <1>10, <1>11 DEF ProvInv

\* A file is read, or is gone.
LEMMA ProvReadsKeeps == ProvInv /\ ProvReads => ProvInv'
<1> SUFFICES ASSUME ProvInv, ProvReads PROVE ProvInv'
  OBVIOUS
<1>1. /\ UNCHANGED <<provHost, provCache, provPc, provJob, provSet, provVerdict, provFound,
                     provState, provExpired, provHampered, provBudget>>
      /\ provLeft # <<>> /\ provLeft' = Tail(provLeft)
  BY DEF ProvReads
<1>2. provLeft \in Seq(ProvPaths) /\ provBytes \in [ProvPaths -> ProvFileBytes]
  BY DEF ProvInv, ProvTypeOK
<1>3. Head(provLeft) \in ProvPaths /\ provLeft' \in Seq(ProvPaths)
  BY <1>1, <1>2, HeadTailProperties
<1>4. \/ provRead' = ProvNoFile
      \/ provRead' = [path |-> Head(provLeft), bytes |-> provBytes[Head(provLeft)]]
  BY DEF ProvReads
<1>5. /\ provRead' \in {ProvNoFile} \cup [path : ProvPaths, bytes : ProvFileBytes]
      /\ provRead' # ProvNoFile => provRead'.bytes = provBytes[provRead'.path]
  BY <1>2, <1>3, <1>4
<1>6. ProvTypeOK'
  BY <1>1, <1>3, <1>5 DEF ProvInv, ProvTypeOK, provHost
<1>7. (\A a \in ProvArtefacts : ProvJobInv(a)') /\ ProvFew'
  BY <1>1, ProvJobsKept
<1>8. ProvSetInv' /\ ProvStateInv' /\ ProvReadInv'
  BY <1>1, <1>5 DEF ProvInv, ProvSetInv, ProvStateInv, ProvReadInv, provHost
<1>9. ProvClaims' /\ ProvSilentNever' /\ ProvHeals'
  BY <1>1 DEF ProvInv, ProvClaims, ProvSilentNever, ProvHeals, provHost
<1> QED BY <1>6, <1>7, <1>8, <1>9 DEF ProvInv

\* What a verdict claims, with the file as it is read.
LEMMA ProvVerdictTrue ==
    ASSUME ProvInv, NEW p \in ProvPaths, NEW b, NEW v,
           v = ProvVerdictOf(p, b, provBytes[p]), p \notin provTouched => b = provBytes[p]
    PROVE  /\ v \in {"uncovered", "attested", "verified", "modified", "unexpected"}
           /\ v = "unexpected" => /\ p \notin ProvListed[ProvIn[p]] \cup ProvIgnorable
                                  /\ ProvIn[p] \in ProvKnown
           /\ (v = "verified" /\ p \notin provTouched) => provBytes[p] \in ProvReleased(p)
           /\ (v = "modified" /\ p \notin provTouched) =>
                 ProvIn[p] \notin ProvReleased(p) \/ provBytes[p] # ProvIn[p]
<1> DEFINE own == ProvIn[p]
           seen == IF p \in ProvLarge THEN provBytes[p] ELSE b
           owners == {a \in provSet.covered : p \in ProvListed[a]}
<1>1. /\ provSet.covered \subseteq ProvArtefacts /\ provSet.covered \subseteq ProvKnown
      /\ ProvCore \notin ProvPlugins /\ ProvArtefacts = {ProvCore} \cup ProvPlugins
      /\ \A a \in ProvPlugins : \A q \in ProvListed[a] : ProvIn[q] = a
  BY ProvAssumption DEF ProvInv, ProvTypeOK, ProvSets, ProvSetInv, ProvArtefacts
<1>2. /\ ProvExpected(p) \subseteq owners
      /\ ProvExpected(p) = {} => owners = {}
      /\ (own \in owners /\ ProvExpected(p) # {}) => ProvExpected(p) = {own}
  <2>1. \A a \in owners : a # ProvCore => a = own
    BY <1>1
  <2>2. ProvExpected(p) = IF owners \ {ProvCore} # {} THEN owners \ {ProvCore} ELSE owners
    BY DEF ProvExpected
  <2> HIDE DEF owners, own
  <2>3. ProvExpected(p) \subseteq owners /\ (ProvExpected(p) = {} => owners = {})
    BY <2>2
  <2>4. (own \in owners /\ ProvExpected(p) # {}) => ProvExpected(p) = {own}
    BY <2>1, <2>2
  <2> QED BY <2>3, <2>4
<1>3. p \notin provTouched => seen = provBytes[p]
  OBVIOUS
<1>4. \A a \in owners : a \in ProvReleased(p)
  BY <1>1 DEF ProvReleased
<1>5. v = "unexpected" => ProvCovered(p) /\ ProvExpected(p) = {} /\ p \notin ProvIgnorable
  BY DEF ProvVerdictOf
<1>6. v = "verified" => seen \in ProvExpected(p)
  BY DEF ProvVerdictOf
<1>7. v = "modified" => ProvCovered(p) /\ ProvExpected(p) # {} /\ seen \notin ProvExpected(p)
  BY DEF ProvVerdictOf
<1>8. v \in {"uncovered", "attested", "verified", "modified", "unexpected"}
  BY DEF ProvVerdictOf
<1>9. ProvCovered(p) => own \in provSet.covered /\ own \in ProvKnown
  BY <1>1 DEF ProvCovered
<1>10. (ProvCovered(p) /\ own \notin owners) => own \notin ProvReleased(p)
  BY <1>9 DEF ProvReleased
<1>11. (ProvCovered(p) /\ owners = {}) => p \notin ProvListed[own]
  BY <1>9
<1> HIDE DEF own, seen, owners
<1>12. v = "unexpected" => p \notin ProvListed[own] \cup ProvIgnorable /\ own \in ProvKnown
  BY <1>2, <1>5, <1>9, <1>11
<1>13. (v = "verified" /\ p \notin provTouched) => provBytes[p] \in ProvReleased(p)
  BY <1>2, <1>3, <1>4, <1>6
<1>14. (v = "modified" /\ p \notin provTouched) => own \notin ProvReleased(p) \/ provBytes[p] # own
  BY <1>2, <1>3, <1>7, <1>10
<1> QED BY <1>8, <1>12, <1>13, <1>14 DEF own

\* The verdict is given.
LEMMA ProvJudgeKeeps == ProvInv /\ ProvJudge => ProvInv'
<1> SUFFICES ASSUME ProvInv, ProvJudge PROVE ProvInv'
  OBVIOUS
<1> DEFINE p == provRead.path
           v == ProvVerdictOf(p, provRead.bytes, provBytes[p])
           new == IF v \in {"unexpected", "modified"} /\ provBytes[p] # "gone"
                  THEN {[path |-> p, rule |-> v,
                         leads |-> v = "unexpected" \/ provBytes[p] = "sink"]} ELSE {}
<1>1. /\ UNCHANGED <<provHost, provCache, provPc, provJob, provSet, provLeft, provState,
                     provExpired, provHampered, provBudget>>
      /\ provRead # ProvNoFile /\ provRead' = ProvNoFile
      /\ provVerdict' = [provVerdict EXCEPT ![p] = v]
      /\ provFound' = provFound \cup new
  BY DEF ProvJudge
<1>2. p \in ProvPaths /\ (p \notin provTouched => provRead.bytes = provBytes[p])
  BY <1>1 DEF ProvInv, ProvTypeOK, ProvReadInv
<1>3. /\ v \in {"uncovered", "attested", "verified", "modified", "unexpected"}
      /\ v = "unexpected" => /\ p \notin ProvListed[ProvIn[p]] \cup ProvIgnorable
                             /\ ProvIn[p] \in ProvKnown
      /\ (v = "verified" /\ p \notin provTouched) => provBytes[p] \in ProvReleased(p)
      /\ (v = "modified" /\ p \notin provTouched) =>
            ProvIn[p] \notin ProvReleased(p) \/ provBytes[p] # ProvIn[p]
  BY <1>2, ProvVerdictTrue
<1>4. new \subseteq [path : ProvPaths, rule : {"unexpected", "modified"}, leads : BOOLEAN]
  <2>1. v \in {"unexpected", "modified"} =>
          [path |-> p, rule |-> v, leads |-> v = "unexpected" \/ provBytes[p] = "sink"]
             \in [path : ProvPaths, rule : {"unexpected", "modified"}, leads : BOOLEAN]
    <3> HIDE DEF v, p
    <3> QED BY <1>2
  <2> DEFINE r == [path |-> p, rule |-> v, leads |-> v = "unexpected" \/ provBytes[p] = "sink"]
  <2>2. new = {r} \/ new = {}
    OBVIOUS
  <2>3. new # {} => v \in {"unexpected", "modified"}
    OBVIOUS
  <2> HIDE DEF new, r, v
  <2> QED BY <2>1, <2>2, <2>3 DEF r
<1> HIDE DEF v, new
<1>5. ProvTypeOK'
  <2>1. provVerdict' \in [ProvPaths -> {"none", "uncovered", "attested", "verified", "modified",
                                        "unexpected"}]
    BY <1>1, <1>2, <1>3 DEF ProvInv, ProvTypeOK
  <2>2. provFound' \subseteq [path : ProvPaths, rule : {"unexpected", "modified"}, leads : BOOLEAN]
    BY <1>1, <1>4 DEF ProvInv, ProvTypeOK
  <2> QED BY <1>1, <2>1, <2>2 DEF ProvInv, ProvTypeOK, provHost
<1>6. (\A a \in ProvArtefacts : ProvJobInv(a)') /\ ProvFew'
  BY <1>1, ProvJobsKept
<1>7. ProvSetInv' /\ ProvStateInv' /\ ProvReadInv'
  BY <1>1 DEF ProvInv, ProvSetInv, ProvStateInv, ProvReadInv, provHost
<1>8. ProvSilentNever' /\ ProvHeals'
  BY <1>1 DEF ProvInv, ProvSilentNever, ProvHeals, provHost
<1>9. ProvClaims'
  <2>1. ASSUME NEW q \in ProvPaths
        PROVE  /\ provVerdict'[q] = "unexpected" =>
                     /\ q \notin ProvListed[ProvIn[q]] \cup ProvIgnorable
                     /\ ProvIn[q] \in {ProvCore} \cup ProvPublic
               /\ (provVerdict'[q] = "verified" /\ q \notin provTouched) =>
                     provBytes[q] \in ProvReleased(q)
               /\ (provVerdict'[q] = "modified" /\ q \notin provTouched) =>
                     ProvIn[q] \notin ProvReleased(q) \/ provBytes[q] # ProvIn[q]
    <3>1. CASE q = p
      <4>1. provVerdict'[q] = v
        BY <1>1, <1>2, <3>1 DEF ProvInv, ProvTypeOK
      <4> QED BY <1>3, <3>1, <4>1 DEF ProvKnown
    <3>2. CASE q # p
      <4>1. provVerdict'[q] = provVerdict[q]
        BY <1>1, <3>2 DEF ProvInv, ProvTypeOK
      <4> QED BY <4>1 DEF ProvInv, ProvClaims
    <3> QED BY <3>1, <3>2
  <2>2. provTouched' = provTouched /\ provBytes' = provBytes
    BY <1>1 DEF provHost
  <2> QED BY <2>1, <2>2 DEF ProvClaims, ProvReleased
<1> QED BY <1>5, <1>6, <1>7, <1>8, <1>9 DEF ProvInv

\* The sweep is cut off.
LEMMA ProvSweepEndsKeeps == ProvInv /\ ProvSweepEnds => ProvInv'
<1> SUFFICES ASSUME ProvInv, ProvSweepEnds PROVE ProvInv'
  OBVIOUS
<1>1. /\ UNCHANGED <<provHost, provCache, provPc, provJob, provSet, provRead, provVerdict,
                     provFound, provState, provExpired, provHampered, provBudget>>
      /\ provLeft' = <<>>
  BY DEF ProvSweepEnds
<1>2. ProvTypeOK'
  BY <1>1 DEF ProvInv, ProvTypeOK, provHost
<1>3. (\A a \in ProvArtefacts : ProvJobInv(a)') /\ ProvFew'
  BY <1>1, ProvJobsKept
<1> QED BY <1>1, <1>2, <1>3 DEF ProvInv, ProvSetInv, ProvStateInv, ProvReadInv, ProvClaims,
                             ProvSilentNever, ProvHeals, provHost

\* The state of the check is given.
LEMMA ProvReportKeeps == ProvInv /\ ProvReport => ProvInv'
<1> SUFFICES ASSUME ProvInv, ProvReport PROVE ProvInv'
  OBVIOUS
<1>1. /\ UNCHANGED <<provHost, provCache, provJob, provSet, provSweep, provExpired, provHampered,
                     provBudget>>
      /\ provPc = "sweep" /\ provPc' = "idle"
      /\ provState' = IF provSet.covered = {} \/ provSet.failures # {}
                      THEN "unavailable" ELSE "ok"
  BY DEF ProvReport
<1>2. ProvTypeOK'
  BY <1>1 DEF ProvInv, ProvTypeOK, provHost, provSweep
<1>3. (\A a \in ProvArtefacts : ProvJobInv(a)') /\ ProvFew'
  BY <1>1, ProvJobsKept
<1>4. /\ ProvCore \in provSet.covered \cup provSet.failures
      /\ ProvPublic \subseteq provSet.covered \cup provSet.failures
      /\ ~provHampered => provSet.failures = {}
  BY <1>1 DEF ProvInv, ProvSetInv
<1>5. ProvSilentNever' /\ ProvHeals'
  BY <1>1, <1>4 DEF ProvSilentNever, ProvHeals
<1>6. ProvSetInv' /\ ProvStateInv' /\ ProvReadInv' /\ ProvClaims'
  BY <1>1 DEF ProvInv, ProvSetInv, ProvStateInv, ProvReadInv, ProvClaims, provHost, provSweep
<1> QED BY <1>2, <1>3, <1>5, <1>6 DEF ProvInv

-----------------------------------------------------------------------------
(* What else happens *)

\* Time runs out, the agent dies, the manifests get old, files change.
LEMMA ProvRestKeeps ==
    ASSUME ProvInv,
           ProvExpire \/ ProvCrash \/ ProvCacheAges \/ \E p \in ProvPaths : HostEdits(p)
    PROVE  ProvInv'
<1>t. /\ ProvTypeOK /\ ProvMaxFaults \in Nat
      /\ provBudget \in [faults : 0..ProvMaxFaults, scans : 0..ProvMaxScans]
  BY ProvAssumption DEF ProvInv, ProvTypeOK
<1>1. CASE ProvExpire
  <2>1. /\ UNCHANGED <<provHost, provCache, provPc, provJob, provSet, provSweep, provState>>
        /\ provHampered' = TRUE /\ provExpired' = TRUE
        /\ provBudget.faults < ProvMaxFaults /\ provBudget' = [provBudget EXCEPT !.faults = @ + 1]
    BY <1>1 DEF ProvExpire, ProvFaulty
  <2>2. provBudget' \in [faults : 0..ProvMaxFaults, scans : 0..ProvMaxScans]
    BY <1>t, <2>1
  <2>3. ProvTypeOK'
    BY <1>t, <2>1, <2>2 DEF ProvTypeOK, provHost, provSweep
  <2>4. (\A a \in ProvArtefacts : ProvJobInv(a)') /\ ProvFew'
    BY <2>1, ProvJobsKept
  <2>5. ProvSetInv' /\ ProvStateInv' /\ ProvReadInv'
    BY <2>1 DEF ProvInv, ProvSetInv, ProvStateInv, ProvReadInv, provHost, provSweep
  <2>6. ProvClaims' /\ ProvSilentNever' /\ ProvHeals'
    BY <2>1 DEF ProvInv, ProvClaims, ProvSilentNever, ProvHeals, provHost, provSweep
  <2> QED BY <2>3, <2>4, <2>5, <2>6 DEF ProvInv
<1>2. CASE ProvCrash
  <2>1. /\ provPc' = "idle" /\ provState' = "none" /\ provHampered' = TRUE
        /\ provVerdict' = [p \in ProvPaths |-> "none"] /\ provFound' = {}
        /\ provLeft' = <<>> /\ provRead' = ProvNoFile /\ provSet' = ProvNoSet
        /\ UNCHANGED <<provHost, provExpired>>
        /\ provBudget.faults < ProvMaxFaults /\ provBudget' = [provBudget EXCEPT !.faults = @ + 1]
    BY <1>2 DEF ProvCrash, ProvFaulty
  <2>2. provJob' = [a \in ProvArtefacts |-> ProvNoJob]
    BY <1>2 DEF ProvCrash
  <2>3. /\ provCache' \in [ProvArtefacts -> ProvBodies]
        /\ \A a \in ProvArtefacts : provCache'[a] = provCache[a] \/ provCache'[a] \in {"none", "broken"}
    BY <1>2 DEF ProvCrash, ProvBodies
  <2>4. /\ ProvNoJob \in ProvJobs /\ ProvNoJob.tries = 0 /\ ProvNoJob.got = "none"
        /\ ProvNoJob.pc = "wait" /\ 0 < ProvAttempts /\ ProvWorkers \in Nat \ {0}
        /\ ProvNoSet \in ProvSets /\ ProvNoSet.covered = {} /\ ProvNoSet.failures = {}
    <3>1. 0 \in 0..ProvAttempts /\ 0 < ProvAttempts /\ ProvWorkers \in Nat \ {0}
      BY ProvAssumption
    <3> QED BY <3>1 DEF ProvNoJob, ProvJobs, ProvNoSet, ProvSets
  <2>5. provBudget' \in [faults : 0..ProvMaxFaults, scans : 0..ProvMaxScans]
    BY <1>t, <2>1
  <2>6. ProvTypeOK'
    BY <1>t, <2>1, <2>2, <2>3, <2>4, <2>5 DEF ProvTypeOK, provHost
  <2>7. \A a \in ProvArtefacts : ProvJobInv(a)'
    <3> TAKE a \in ProvArtefacts
    <3>1. provJob'[a] = ProvNoJob
      BY <2>2
    <3>2. provCache'[a] = "whole" => a \in ProvKnown
      BY <2>3 DEF ProvInv, ProvJobInv
    <3> QED BY <2>1, <2>4, <3>1, <3>2 DEF ProvJobInv
  <2>8. ProvFew'
    <3>1. ProvAsked' = {}
      BY <2>2, <2>4 DEF ProvAsked, ProvFetching, ProvArtefacts
    <3>2. Cardinality(ProvAsked') <= ProvWorkers
      BY <2>4, <3>1, FS_EmptySet
    <3> QED BY <3>2 DEF ProvFew, ProvAsked
  <2>9. ProvSetInv' /\ ProvStateInv' /\ ProvReadInv' /\ ProvSilentNever' /\ ProvHeals'
    BY <2>1, <2>4 DEF ProvSetInv, ProvStateInv, ProvReadInv, ProvSilentNever, ProvHeals
  <2>10. ProvClaims'
    BY <2>1 DEF ProvClaims
  <2> QED BY <2>6, <2>7, <2>8, <2>9, <2>10 DEF ProvInv
<1>3. CASE ProvCacheAges
  <2>1. /\ UNCHANGED <<provHost, provPc, provJob, provSet, provSweep, provState, provExpired,
                       provHampered, provBudget>>
        /\ provCache' = [a \in ProvArtefacts |-> "none"]
    BY <1>3 DEF ProvCacheAges
  <2>2. provCache' \in [ProvArtefacts -> ProvBodies]
    BY <2>1 DEF ProvBodies
  <2>3. ProvTypeOK'
    BY <1>t, <2>1, <2>2 DEF ProvTypeOK, provHost, provSweep
  <2>4. \A a \in ProvArtefacts : ProvJobInv(a)'
    BY <2>1 DEF ProvInv, ProvJobInv
  <2>5. ProvFew'
    <3>1. ProvAsked' = ProvAsked
      BY <2>1 DEF ProvAsked, ProvFetching
    <3> QED BY <3>1 DEF ProvInv, ProvFew, ProvAsked
  <2>6. ProvSetInv' /\ ProvStateInv' /\ ProvReadInv'
    BY <2>1 DEF ProvInv, ProvSetInv, ProvStateInv, ProvReadInv, provHost, provSweep
  <2>7. ProvClaims' /\ ProvSilentNever' /\ ProvHeals'
    BY <2>1 DEF ProvInv, ProvClaims, ProvSilentNever, ProvHeals, provHost, provSweep
  <2> QED BY <2>3, <2>4, <2>5, <2>6, <2>7 DEF ProvInv
<1>4. ASSUME NEW p \in ProvPaths, HostEdits(p) PROVE ProvInv'
  <2>1. /\ UNCHANGED <<provCache, provPc, provJob, provSet, provSweep, provState,
                       provExpired, provHampered>>
        /\ provTouched' = provTouched \cup {p}
        /\ provBudget.faults < ProvMaxFaults /\ provBudget' = [provBudget EXCEPT !.faults = @ + 1]
    BY <1>4 DEF HostEdits
  <2>2. /\ provBytes' \in [ProvPaths -> ProvFileBytes]
        /\ \A q \in ProvPaths \ {p} : provBytes'[q] = provBytes[q]
    <3>1. provBytes \in [ProvPaths -> ProvFileBytes]
      BY <1>t DEF ProvTypeOK
    <3>2. PICK b \in ProvEdits \cup {"gone"} : provBytes' = [provBytes EXCEPT ![p] = b]
      BY <1>4 DEF HostEdits
    <3>3. b \in ProvFileBytes
      BY DEF ProvFileBytes
    <3> QED BY ONLY <3>1, <3>2, <3>3, p \in ProvPaths
  <2>3. provBudget' \in [faults : 0..ProvMaxFaults, scans : 0..ProvMaxScans]
    BY <1>t, <2>1
  <2>4. ProvTypeOK'
    BY <1>t, <2>1, <2>2, <2>3 DEF ProvTypeOK, provSweep
  <2>5. (\A a \in ProvArtefacts : ProvJobInv(a)') /\ ProvFew'
    BY <2>1, ProvJobsKept
  <2>6. ProvReadInv'
    BY <1>t, <2>1, <2>2 DEF ProvTypeOK, ProvInv, ProvReadInv, provSweep
  <2>7. ProvSetInv' /\ ProvStateInv' /\ ProvSilentNever' /\ ProvHeals'
    BY <2>1 DEF ProvInv, ProvSetInv, ProvStateInv, ProvSilentNever, ProvHeals, provSweep
  <2>8. ProvClaims'
    <3>1. \A q \in ProvPaths : q \notin provTouched' =>
              q \notin provTouched /\ provBytes'[q] = provBytes[q]
      BY <2>1, <2>2
    <3>2. provVerdict' = provVerdict
      BY <2>1 DEF provSweep
    <3> QED BY <3>1, <3>2 DEF ProvInv, ProvClaims, ProvReleased
  <2> QED BY <2>4, <2>5, <2>6, <2>7, <2>8 DEF ProvInv
<1> QED BY <1>1, <1>2, <1>3, <1>4

-----------------------------------------------------------------------------
(* The invariant *)

\* ProvInv holds initially.
LEMMA ProvInvInit == ProvInit => ProvInv
<1> SUFFICES ASSUME ProvInit PROVE ProvInv
  OBVIOUS
<1>1. /\ ProvNoJob \in ProvJobs /\ ProvNoJob.tries = 0 /\ ProvNoJob.got = "none"
      /\ ProvNoJob.pc = "wait" /\ 0 < ProvAttempts /\ ProvWorkers \in Nat \ {0}
      /\ ProvNoSet \in ProvSets /\ ProvNoSet.covered = {} /\ ProvNoSet.failures = {}
  <2>1. 0 \in 0..ProvAttempts /\ 0 < ProvAttempts /\ ProvWorkers \in Nat \ {0}
    BY ProvAssumption
  <2> QED BY <2>1 DEF ProvNoJob, ProvJobs, ProvNoSet, ProvSets
<1>2. /\ provPc = "idle" /\ provSet = ProvNoSet /\ provLeft = <<>> /\ provRead = ProvNoFile
      /\ provVerdict = [p \in ProvPaths |-> "none"] /\ provFound = {} /\ provState = "none"
      /\ provExpired = FALSE /\ provTouched = {} /\ provHampered = FALSE
      /\ provJob = [a \in ProvArtefacts |-> ProvNoJob]
      /\ provBudget = [faults |-> 0, scans |-> 0]
  BY DEF ProvInit
<1>3. provBudget \in [faults : 0..ProvMaxFaults, scans : 0..ProvMaxScans]
  BY <1>2, ProvAssumption
<1>4. /\ provBytes \in [ProvPaths -> ProvFileBytes] /\ provCache \in [ProvArtefacts -> ProvBodies]
      /\ \A a \in ProvArtefacts : provCache[a] # "whole"
  BY DEF ProvInit, ProvFileBytes, ProvEdits, ProvBodies
<1>5. ProvTypeOK
  <2>1. provJob \in [ProvArtefacts -> ProvJobs] /\ provSet \in ProvSets
    BY ONLY <1>1, <1>2
  <2>2. /\ provLeft \in Seq(ProvPaths) /\ provTouched \subseteq ProvPaths
        /\ provRead \in {ProvNoFile} \cup [path : ProvPaths, bytes : ProvFileBytes]
        /\ provFound \subseteq [path : ProvPaths, rule : {"unexpected", "modified"}, leads : BOOLEAN]
    BY ONLY <1>2
  <2>3. provVerdict \in [ProvPaths -> {"none", "uncovered", "attested", "verified", "modified",
                                      "unexpected"}]
    BY ONLY <1>2
  <2>4. provExpired \in BOOLEAN /\ provHampered \in BOOLEAN
    BY ONLY <1>2
  <2> QED BY <1>2, <1>3, <1>4, <2>1, <2>2, <2>3, <2>4 DEF ProvTypeOK
<1>6. \A a \in ProvArtefacts : ProvJobInv(a)
  BY <1>1, <1>2, <1>4 DEF ProvJobInv
<1>7. ProvFew
  <2>1. ProvAsked = {}
    BY <1>1, <1>2 DEF ProvAsked, ProvFetching, ProvArtefacts
  <2>2. Cardinality(ProvAsked) <= ProvWorkers
    BY <1>1, <2>1, FS_EmptySet
  <2> QED BY <2>2 DEF ProvFew, ProvAsked
<1>8. ProvSetInv /\ ProvStateInv /\ ProvReadInv /\ ProvClaims /\ ProvSilentNever /\ ProvHeals
  BY <1>1, <1>2 DEF ProvSetInv, ProvStateInv, ProvReadInv, ProvClaims, ProvSilentNever, ProvHeals
<1> QED BY <1>5, <1>6, <1>7, <1>8 DEF ProvInv

\* Every step keeps ProvInv.
LEMMA ProvInvStep == ProvInv /\ [ProvNext]_provVars => ProvInv'
<1> SUFFICES ASSUME ProvInv, [ProvNext]_provVars PROVE ProvInv'
  OBVIOUS
<1>1. CASE UNCHANGED provVars
  <2>1. /\ UNCHANGED <<provBytes, provCache, provPc, provJob, provSet, provLeft, provRead>>
        /\ UNCHANGED <<provVerdict, provFound, provState, provExpired, provTouched>>
        /\ UNCHANGED <<provHampered, provBudget>>
    BY <1>1 DEF provVars
  <2>2. ProvTypeOK'
    BY <2>1 DEF ProvInv, ProvTypeOK
  <2>3. (\A a \in ProvArtefacts : ProvJobInv(a)') /\ ProvFew'
    BY <2>1, ProvJobsKept
  <2>4. ProvSetInv' /\ ProvStateInv' /\ ProvReadInv'
    BY <2>1 DEF ProvInv, ProvSetInv, ProvStateInv, ProvReadInv
  <2>5. ProvClaims' /\ ProvSilentNever' /\ ProvHeals'
    BY <2>1 DEF ProvInv, ProvClaims, ProvSilentNever, ProvHeals
  <2> QED BY <2>2, <2>3, <2>4, <2>5 DEF ProvInv
<1>2. CASE ProvMain
  BY <1>2, ProvCoreLoadedKeeps, ProvLoadedKeeps, ProvReadsKeeps, ProvJudgeKeeps,
     ProvSweepEndsKeeps, ProvReportKeeps DEF ProvMain
<1> QED BY <1>1, <1>2, ProvBeginKeeps, ProvRestKeeps, ProvFetchKeeps DEF ProvNext

\* ProvInv implies what provenance promises.
LEMMA ProvInvSafe == ProvInv => ProvSafe
  BY DEF ProvInv, ProvSafe, ProvModest, ProvFew, ProvJobInv

-----------------------------------------------------------------------------
(***************************************************************************)
(* The record of the site.                                                 *)
(***************************************************************************)

\* What is known of a complete record is on the disk, and nothing is while a
\* record is written; a verify run has read what is there.
BaseRecorded ==
    /\ \A f \in BaseFiles : baseLeft[f] # "unknown" => baseDisk[f] = baseLeft[f]
    /\ basePc = "write" => baseLeft = BaseUnknown /\ baseKind = "baseline"
    /\ (basePc # "idle" /\ baseKind = "verify") => baseKnown = baseDisk

\* The walk has passed the file.
BasePassed(f) == \E i \in 1..baseWalked : BaseTree[i] = f

\* The file is on its way to being hashed.
BaseUnderWay(f) ==
    \/ \E i \in 1..Len(baseJobs) : baseJobs[i] = f
    \/ \E w \in BaseWorkers : baseHand[w] = f

\* A file that nothing happens to is hashed as it is, or not yet.
BaseFollowed(f) ==
    (basePc # "idle" /\ f \notin baseUnclear) =>
        /\ baseEntries[f] \in {"absent", baseSite[f]}
        /\ (BasePassed(f) /\ baseExpired = "no" /\ baseEntries[f] # baseSite[f]) => BaseUnderWay(f)

\* When the record is written everything is hashed.
BaseAllHashed ==
    (basePc = "write" /\ baseExpired = "no") =>
        \A f \in BaseFiles \ baseUnclear : baseEntries[f] = baseSite[f]

\* Only the end of the context makes a worker leave; one that is noticed cut
\* the walk off; no worker holds a file outside of a walk.
BaseEnds ==
    /\ (\E w \in BaseWorkers : baseHand[w] = "left") => baseExpired # "no"
    /\ (basePc \in {"drain", "write"} /\ baseWalked = Len(BaseTree)) => baseExpired # "walk"
    /\ basePc = "write" => baseWalked = Len(BaseTree)
    /\ basePc # "idle" => baseReport = BaseNoReport
    /\ basePc \in {"idle", "write"} => \A w \in BaseWorkers : baseHand[w] \notin BaseFiles

BaseInv ==
    /\ BaseTypeOK /\ BaseRecorded /\ BaseAllHashed /\ BaseEnds /\ BaseSafe
    /\ \A f \in BaseFiles : BaseFollowed(f)

-----------------------------------------------------------------------------
(* Parts *)

\* The budget of faults.
LEMMA BaseBudgets ==
    ASSUME BaseInv, BaseFaulty \/ baseBudget' = baseBudget
    PROVE  baseBudget' \in [faults : 0..BaseMaxFaults, runs : 0..BaseMaxRuns]
<1>1. baseBudget \in [faults : 0..BaseMaxFaults, runs : 0..BaseMaxRuns] /\ BaseMaxFaults \in Nat
  BY BaseAssumption DEF BaseInv, BaseTypeOK
<1>2. CASE BaseFaulty
  BY <1>1, <1>2 DEF BaseFaulty
<1> QED BY <1>1, <1>2

\* What a drift of a file means.
LEMMA BaseDriftMeans ==
    ASSUME NEW k, NEW e, NEW f \in BaseFiles
    PROVE  /\ <<"new", f>> \in Drift(k, e) <=> (e[f] # "absent" /\ k[f] = "absent")
           /\ <<"changed", f>> \in Drift(k, e) <=>
                 (e[f] # "absent" /\ k[f] # "absent" /\ e[f] # k[f])
           /\ <<"removed", f>> \in Drift(k, e) <=> (k[f] # "absent" /\ e[f] = "absent")
           /\ Drift(k, e) \subseteq {"new", "changed", "removed"} \X BaseFiles
  BY DEF Drift

\* Contents that are no content.
LEMMA BaseTyped ==
    /\ BaseNothing \in [BaseFiles -> BaseStates] /\ \A f \in BaseFiles : BaseNothing[f] = "absent"
    /\ BaseUnknown \in [BaseFiles -> BaseStates \cup {"unknown"}]
    /\ \A f \in BaseFiles : BaseUnknown[f] = "unknown"
    /\ BaseReset \in [BaseWorkers -> BaseFiles \cup {"idle", "left"}]
    /\ \A w \in BaseWorkers : BaseReset[w] = "idle"
    /\ BaseNoReport.state = "none" /\ BaseNoReport.drift = {}
    /\ 0 \in 0..Len(BaseTree) /\ Len(BaseTree) \in Nat /\ BaseChannel \in Nat \ {0}
    /\ <<>> \in Seq(BaseFiles) /\ Len(<<>>) = 0
<1>1. Len(BaseTree) \in Nat /\ BaseChannel \in Nat \ {0}
  BY BaseAssumption, LenProperties
<1> QED BY <1>1 DEF BaseNothing, BaseStates, BaseUnknown, BaseReset, BaseNoReport

\* A run that is over.
LEMMA BaseEndKeeps ==
    ASSUME BaseInv, NEW state \in {"none", "ok", "error"},
           NEW drift \in SUBSET ({"new", "changed", "removed"} \X BaseFiles),
           BaseEnd(state, drift),
           baseDisk' \in [BaseFiles -> BaseStates],
           baseLeft' \in [BaseFiles -> BaseStates \cup {"unknown"}],
           BaseFaulty \/ baseBudget' = baseBudget,
           \A f \in BaseFiles : baseLeft'[f] # "unknown" => baseDisk'[f] = baseLeft'[f],
           BaseSafe'
    PROVE  BaseInv'
<1>1. /\ basePc' = "idle" /\ baseReport' = [state |-> state, drift |-> drift]
      /\ baseHand' = BaseReset /\ baseJobs' = <<>> /\ baseEntries' = BaseNothing
      /\ baseKnown' = BaseNothing /\ baseWalked' = 0
      /\ baseSite' = baseSite /\ baseKind' = baseKind /\ baseExpired' = baseExpired
      /\ baseUnclear' = baseUnclear
  BY DEF BaseEnd
<1>2. BaseTypeOK'
  <2>1. baseBudget' \in [faults : 0..BaseMaxFaults, runs : 0..BaseMaxRuns]
    BY BaseBudgets
  <2>2. /\ {baseSite', baseDisk', baseKnown', baseEntries'} \subseteq [BaseFiles -> BaseStates]
        /\ baseLeft' \in [BaseFiles -> BaseStates \cup {"unknown"}]
    BY <1>1, BaseTyped DEF BaseInv, BaseTypeOK
  <2>3. /\ baseWalked' \in 0..Len(BaseTree)
        /\ baseJobs' \in Seq(BaseFiles) /\ Len(baseJobs') <= BaseChannel
        /\ baseHand' \in [BaseWorkers -> BaseFiles \cup {"idle", "left"}]
    BY <1>1, BaseTyped
  <2>4. /\ basePc' \in {"idle", "walk", "drain", "write"} /\ baseKind' \in {"baseline", "verify"}
        /\ baseReport'.state \in {"none", "ok", "error"}
        /\ baseReport'.drift \subseteq {"new", "changed", "removed"} \X BaseFiles
        /\ baseExpired' \in {"no", "walk", "late"} /\ baseUnclear' \subseteq BaseFiles
    BY <1>1 DEF BaseInv, BaseTypeOK
  <2> QED BY <2>1, <2>2, <2>3, <2>4 DEF BaseTypeOK
<1>3. BaseRecorded' /\ BaseAllHashed' /\ (\A f \in BaseFiles : BaseFollowed(f)')
  BY <1>1 DEF BaseRecorded, BaseAllHashed, BaseFollowed
<1>4. BaseEnds'
  BY <1>1, BaseTyped, BaseAssumption DEF BaseEnds
<1> QED BY <1>2, <1>3, <1>4 DEF BaseInv

\* A run goes on: nothing is reported yet.
LEMMA BaseRunSafe ==
    ASSUME BaseInv, basePc # "idle", baseReport' = baseReport
    PROVE  BaseSafe'
  BY BaseTyped DEF BaseInv, BaseEnds, BaseSafe

-----------------------------------------------------------------------------
(* The steps of a run *)

\* A run that begins keeps BaseInv.
LEMMA BaseBeginKeeps ==
    ASSUME BaseInv, NEW kind \in {"baseline", "verify"}, BaseBegin(kind)
    PROVE  BaseInv'
<1>1. /\ basePc = "idle" /\ baseKind' = kind
      /\ baseWalked' = 0 /\ baseJobs' = <<>> /\ baseHand' = BaseReset
      /\ baseEntries' = BaseNothing /\ baseExpired' = "no" /\ baseUnclear' = {}
      /\ UNCHANGED <<baseSite, baseDisk, baseLeft>>
      /\ baseBudget.runs < BaseMaxRuns /\ baseBudget' = [baseBudget EXCEPT !.runs = @ + 1]
  BY DEF BaseBegin
<1>2. \/ /\ baseReport' = [state |-> "error", drift |-> {}]
         /\ basePc' = basePc /\ baseKnown' = baseKnown
      \/ /\ basePc' = "walk" /\ baseReport' = BaseNoReport
         /\ baseKnown' = IF kind = "verify" THEN baseDisk ELSE BaseNothing
  BY DEF BaseBegin
<1>3. baseBudget' \in [faults : 0..BaseMaxFaults, runs : 0..BaseMaxRuns]
  <2>1. baseBudget \in [faults : 0..BaseMaxFaults, runs : 0..BaseMaxRuns] /\ BaseMaxRuns \in Nat
    BY BaseAssumption DEF BaseInv, BaseTypeOK
  <2> QED BY <1>1, <2>1
<1>4. BaseTypeOK'
  <2>1. {baseSite', baseDisk', baseKnown', baseEntries'} \subseteq [BaseFiles -> BaseStates]
    BY <1>1, <1>2, BaseTyped DEF BaseInv, BaseTypeOK
  <2>2. /\ baseWalked' \in 0..Len(BaseTree)
        /\ baseJobs' \in Seq(BaseFiles) /\ Len(baseJobs') <= BaseChannel
        /\ baseHand' \in [BaseWorkers -> BaseFiles \cup {"idle", "left"}]
    BY <1>1, BaseTyped
  <2>3. /\ basePc' \in {"idle", "walk", "drain", "write"}
        /\ baseReport'.state \in {"none", "ok", "error"}
        /\ baseReport'.drift \subseteq {"new", "changed", "removed"} \X BaseFiles
    BY <1>1, <1>2, BaseTyped
  <2>4. /\ baseKind' \in {"baseline", "verify"} /\ baseUnclear' \subseteq BaseFiles
        /\ baseExpired' \in {"no", "walk", "late"}
        /\ baseLeft' \in [BaseFiles -> BaseStates \cup {"unknown"}]
    BY <1>1 DEF BaseInv, BaseTypeOK
  <2> QED BY <1>3, <2>1, <2>2, <2>3, <2>4 DEF BaseTypeOK
<1>5. BaseRecorded'
  BY <1>1, <1>2 DEF BaseInv, BaseRecorded
<1>6. BaseEnds' /\ BaseSafe' /\ BaseAllHashed'
  BY <1>1, <1>2, BaseTyped, BaseAssumption DEF BaseEnds, BaseSafe, BaseAllHashed
<1>7. \A f \in BaseFiles : BaseFollowed(f)'
  <2> TAKE f \in BaseFiles
  <2>1. ~BasePassed(f)'
    BY <1>1 DEF BasePassed
  <2>2. baseEntries'[f] = "absent"
    BY <1>1, BaseTyped
  <2> QED BY <2>1, <2>2 DEF BaseFollowed
<1> QED BY <1>4, <1>5, <1>6, <1>7 DEF BaseInv

\* The walk sends a file, or finds that it is gone.
LEMMA BaseWalkKeeps == BaseInv /\ BaseWalk => BaseInv'
<1> SUFFICES ASSUME BaseInv, BaseWalk PROVE BaseInv'
  OBVIOUS
<1> DEFINE g == BaseTree[baseWalked + 1]
<1>1. /\ basePc = "walk" /\ baseWalked < Len(BaseTree) /\ baseWalked' = baseWalked + 1
      /\ UNCHANGED <<baseSite, baseDisk, basePc, baseKind, baseKnown, baseExpired>>
      /\ UNCHANGED <<baseHand, baseEntries, baseReport, baseUnclear, baseLeft, baseBudget>>
      /\ \/ baseSite[g] = "absent" /\ baseJobs' = baseJobs
         \/ Len(baseJobs) < BaseChannel /\ baseJobs' = Append(baseJobs, g)
  BY DEF BaseWalk, BaseRunVars
<1>2. /\ baseWalked \in Nat /\ Len(BaseTree) \in Nat /\ BaseChannel \in Nat
      /\ baseJobs \in Seq(BaseFiles) /\ Len(baseJobs) \in Nat /\ Len(baseJobs) <= BaseChannel
  BY BaseTyped, LenProperties DEF BaseInv, BaseTypeOK
<1>3. baseWalked + 1 \in 0..Len(BaseTree) /\ g \in BaseFiles
  <2>1. baseWalked + 1 \in 1..Len(BaseTree)
    BY <1>1, <1>2
  <2>2. g \in BaseFiles
    BY <2>1, BaseAssumption, ElementOfSeq
  <2> QED BY <1>2, <2>1, <2>2
<1>4. /\ baseJobs' \in Seq(BaseFiles) /\ Len(baseJobs') <= BaseChannel
      /\ Len(baseJobs) <= Len(baseJobs')
      /\ \A i \in 1..Len(baseJobs) : baseJobs'[i] = baseJobs[i]
      /\ baseSite[g] = "absent" \/ (baseJobs'[Len(baseJobs')] = g /\ Len(baseJobs') \in 1..Len(baseJobs'))
  <2>1. CASE baseJobs' = baseJobs /\ baseSite[g] = "absent"
    BY <1>2, <2>1
  <2>2. CASE Len(baseJobs) < BaseChannel /\ baseJobs' = Append(baseJobs, g)
    <3>1. /\ baseJobs' \in Seq(BaseFiles) /\ Len(baseJobs') = Len(baseJobs) + 1
          /\ baseJobs'[Len(baseJobs) + 1] = g
          /\ \A i \in 1..Len(baseJobs) : baseJobs'[i] = baseJobs[i]
      BY <1>2, <1>3, <2>2, AppendProperties
    <3> QED BY <1>2, <2>2, <3>1
  <2> QED BY <1>1, <2>1, <2>2
<1> HIDE DEF g
<1>5. BaseTypeOK'
  BY <1>1, <1>3, <1>4 DEF BaseInv, BaseTypeOK
<1>6. BaseRecorded' /\ BaseAllHashed'
  BY <1>1 DEF BaseInv, BaseRecorded, BaseAllHashed
<1>7. BaseEnds'
  BY <1>1 DEF BaseInv, BaseEnds
<1>8. ASSUME NEW f \in BaseFiles PROVE BaseFollowed(f)'
  <2> SUFFICES ASSUME f \notin baseUnclear
               PROVE  /\ baseEntries[f] \in {"absent", baseSite[f]}
                      /\ (BasePassed(f)' /\ baseExpired = "no" /\ baseEntries[f] # baseSite[f])
                            => BaseUnderWay(f)'
    BY <1>1 DEF BaseFollowed
  <2>1. /\ baseEntries[f] \in {"absent", baseSite[f]}
        /\ (BasePassed(f) /\ baseExpired = "no" /\ baseEntries[f] # baseSite[f]) => BaseUnderWay(f)
    BY <1>1 DEF BaseInv, BaseFollowed
  <2>2. BaseUnderWay(f) => BaseUnderWay(f)'
    <3>1. CASE \E w \in BaseWorkers : baseHand[w] = f
      BY <1>1, <3>1 DEF BaseUnderWay
    <3>2. CASE \E i \in 1..Len(baseJobs) : baseJobs[i] = f
      <4>1. PICK i \in 1..Len(baseJobs) : baseJobs[i] = f
        BY <3>2
      <4>2. i \in 1..Len(baseJobs') /\ baseJobs'[i] = f
        <5>1. Len(baseJobs') \in Nat
          BY <1>4, LenProperties
        <5> QED BY <1>2, <1>4, <4>1, <5>1
      <4> QED BY <4>2 DEF BaseUnderWay
    <3> QED BY <3>1, <3>2 DEF BaseUnderWay
  <2>3. BasePassed(f)' => BasePassed(f) \/ f = g
    BY <1>1, <1>2 DEF BasePassed, g
  <2>4. f = g => baseSite[f] = "absent" \/ BaseUnderWay(f)'
    BY <1>4 DEF BaseUnderWay
  <2> QED BY <2>1, <2>2, <2>3, <2>4
<1>9. BaseSafe'
  BY <1>1, BaseRunSafe
<1> QED BY <1>5, <1>6, <1>7, <1>8, <1>9 DEF BaseInv

\* The walk is over.
LEMMA BaseWalkEndsKeeps == BaseInv /\ BaseWalkEnds => BaseInv'
<1> SUFFICES ASSUME BaseInv, BaseWalkEnds PROVE BaseInv'
  OBVIOUS
<1>1. /\ basePc = "walk" /\ basePc' = "drain"
      /\ UNCHANGED <<baseSite, baseDisk, baseKind, baseKnown, baseWalked, baseJobs, baseHand>>
      /\ UNCHANGED <<baseEntries, baseReport, baseUnclear, baseLeft, baseBudget>>
      /\ \/ /\ baseWalked = Len(BaseTree)
            /\ baseExpired' = IF baseExpired = "no" THEN "no" ELSE "late"
         \/ baseWalked < Len(BaseTree) /\ baseExpired' = baseExpired
  BY DEF BaseWalkEnds, BaseHashing
<1>2. baseWalked \in Nat /\ Len(BaseTree) \in Nat
  BY BaseTyped DEF BaseInv, BaseTypeOK
<1>3. /\ baseExpired' \in {"no", "walk", "late"} /\ (baseExpired' = "no" <=> baseExpired = "no")
      /\ baseWalked = Len(BaseTree) => baseExpired' # "walk"
  BY <1>1, <1>2 DEF BaseInv, BaseTypeOK
<1>4. BaseTypeOK'
  BY <1>1, <1>3 DEF BaseInv, BaseTypeOK
<1>5. BaseRecorded' /\ BaseAllHashed' /\ BaseEnds'
  BY <1>1, <1>3 DEF BaseInv, BaseRecorded, BaseAllHashed, BaseEnds
<1>6. ASSUME NEW f \in BaseFiles PROVE BaseFollowed(f)'
  BY <1>1, <1>3 DEF BaseInv, BaseFollowed, BasePassed, BaseUnderWay
<1>7. BaseSafe'
  BY <1>1, BaseRunSafe
<1> QED BY <1>4, <1>5, <1>6, <1>7 DEF BaseInv

\* A worker takes a file, or leaves.
LEMMA BaseTakeKeeps ==
    ASSUME BaseInv, NEW w \in BaseWorkers, BaseTake(w)
    PROVE  BaseInv'
<1> DEFINE h == IF baseExpired = "no" THEN Head(baseJobs) ELSE "left"
<1>1. /\ basePc \in {"walk", "drain"} /\ baseHand[w] = "idle" /\ baseJobs # <<>>
      /\ baseJobs' = Tail(baseJobs) /\ baseHand' = [baseHand EXCEPT ![w] = h]
      /\ UNCHANGED <<baseSite, baseDisk, basePc, baseKind, baseKnown, baseExpired, baseWalked>>
      /\ UNCHANGED <<baseEntries, baseReport, baseUnclear, baseLeft, baseBudget>>
  BY DEF BaseTake, BaseRunVars
<1>2. /\ baseJobs \in Seq(BaseFiles) /\ Len(baseJobs) <= BaseChannel /\ BaseChannel \in Nat
      /\ baseHand \in [BaseWorkers -> BaseFiles \cup {"idle", "left"}]
  BY BaseTyped DEF BaseInv, BaseTypeOK
<1>3. /\ Tail(baseJobs) \in Seq(BaseFiles) /\ Head(baseJobs) \in BaseFiles
      /\ Len(Tail(baseJobs)) = Len(baseJobs) - 1 /\ Len(baseJobs) \in Nat \ {0}
      /\ Head(baseJobs) = baseJobs[1]
      /\ \A i \in 1..Len(Tail(baseJobs)) : Tail(baseJobs)[i] = baseJobs[i + 1]
  BY <1>1, <1>2, HeadTailProperties, EmptySeq, LenProperties
<1>4. Len(Tail(baseJobs)) <= BaseChannel
  BY <1>2, <1>3
<1>5. baseHand' \in [BaseWorkers -> BaseFiles \cup {"idle", "left"}]
  BY <1>1, <1>2, <1>3
<1>6. BaseTypeOK'
  BY <1>1, <1>3, <1>4, <1>5 DEF BaseInv, BaseTypeOK
<1>7. BaseRecorded' /\ BaseAllHashed'
  BY <1>1 DEF BaseInv, BaseRecorded, BaseAllHashed
<1>8. BaseEnds'
  <2>1. /\ (\E v \in BaseWorkers : baseHand[v] = "left") => baseExpired # "no"
        /\ (basePc = "drain" /\ baseWalked = Len(BaseTree)) => baseExpired # "walk"
        /\ baseReport = BaseNoReport
    BY <1>1 DEF BaseInv, BaseEnds
  <2>2. Head(baseJobs) # "left"
    BY <1>3, BaseAssumption
  <2>3. ASSUME NEW v \in BaseWorkers, baseHand'[v] = "left" PROVE baseExpired # "no"
    BY <1>1, <1>2, <2>1, <2>2, <2>3
  <2> QED BY <1>1, <2>1, <2>3 DEF BaseEnds
<1>9. ASSUME NEW f \in BaseFiles PROVE BaseFollowed(f)'
  <2>1. baseExpired = "no" /\ BaseUnderWay(f) => BaseUnderWay(f)'
    <3> SUFFICES ASSUME baseExpired = "no", BaseUnderWay(f) PROVE BaseUnderWay(f)'
      OBVIOUS
    <3>1. CASE \E v \in BaseWorkers : baseHand[v] = f
      <4>1. PICK v \in BaseWorkers : baseHand[v] = f
        BY <3>1
      <4>2. v # w
        BY <1>1, <4>1, BaseAssumption
      <4> QED BY <1>1, <1>2, <4>1, <4>2 DEF BaseUnderWay
    <3>2. CASE \E i \in 1..Len(baseJobs) : baseJobs[i] = f
      <4>1. PICK i \in 1..Len(baseJobs) : baseJobs[i] = f
        BY <3>2
      <4>2. CASE i = 1
        <5>1. baseHand'[w] = f
          BY <1>1, <1>2, <1>3, <4>1, <4>2
        <5> QED BY <5>1 DEF BaseUnderWay
      <4>3. CASE i # 1
        <5>1. i - 1 \in 1..Len(Tail(baseJobs)) /\ (i - 1) + 1 = i
          BY <1>3, <4>1, <4>3
        <5>2. Tail(baseJobs)[i - 1] = f
          BY <1>3, <4>1, <5>1
        <5> QED BY <1>1, <5>1, <5>2 DEF BaseUnderWay
      <4> QED BY <4>2, <4>3
    <3> QED BY <3>1, <3>2 DEF BaseUnderWay
  <2>2. BaseFollowed(f)
    BY DEF BaseInv
  <2> QED BY <1>1, <2>1, <2>2 DEF BaseFollowed, BasePassed
<1>10. BaseSafe'
  BY <1>1, BaseRunSafe
<1> QED BY <1>6, <1>7, <1>8, <1>9, <1>10 DEF BaseInv

\* The context ends while a worker waits.
LEMMA BaseGateEndsKeeps ==
    ASSUME BaseInv, NEW w \in BaseWorkers, BaseGateEnds(w)
    PROVE  BaseInv'
<1>1. /\ baseHand[w] \in BaseFiles /\ baseExpired # "no"
      /\ baseHand' = [baseHand EXCEPT ![w] = "left"]
      /\ UNCHANGED <<baseSite, baseDisk, basePc, baseKind, baseKnown, baseExpired, baseWalked>>
      /\ UNCHANGED <<baseJobs, baseEntries, baseReport, baseUnclear, baseLeft, baseBudget>>
  BY DEF BaseGateEnds, BaseRunVars
<1>2. BaseTypeOK'
  <2>1. baseHand \in [BaseWorkers -> BaseFiles \cup {"idle", "left"}]
    BY DEF BaseInv, BaseTypeOK
  <2>2. baseHand' \in [BaseWorkers -> BaseFiles \cup {"idle", "left"}]
    BY <1>1, <2>1
  <2> QED BY <1>1, <2>2 DEF BaseInv, BaseTypeOK
<1>3. BaseRecorded' /\ BaseAllHashed' /\ BaseEnds'
  BY <1>1 DEF BaseInv, BaseRecorded, BaseAllHashed, BaseEnds
<1>4. ASSUME NEW f \in BaseFiles PROVE BaseFollowed(f)'
  BY <1>1 DEF BaseInv, BaseFollowed, BasePassed
<1>5. BaseSafe'
  BY <1>1 DEF BaseInv, BaseSafe
<1> QED BY <1>2, <1>3, <1>4, <1>5 DEF BaseInv

\* A file is hashed, or cannot be.
LEMMA BaseHashKeeps ==
    ASSUME BaseInv, NEW w \in BaseWorkers, BaseHash(w)
    PROVE  BaseInv'
<1> DEFINE g == baseHand[w]
<1>1. /\ g \in BaseFiles /\ baseHand' = [baseHand EXCEPT ![w] = "idle"]
      /\ UNCHANGED <<baseSite, baseDisk, basePc, baseKind, baseKnown, baseExpired, baseWalked>>
      /\ UNCHANGED <<baseJobs, baseReport, baseLeft>>
      /\ BaseFaulty \/ baseBudget' = baseBudget
      /\ \/ /\ baseEntries' = [baseEntries EXCEPT ![g] = baseSite[g]]
            /\ baseUnclear' = baseUnclear
         \/ baseSite[g] = "absent" /\ baseEntries' = baseEntries /\ baseUnclear' = baseUnclear
         \/ baseEntries' = baseEntries /\ baseUnclear' = baseUnclear \cup {g}
  BY DEF BaseHash, BaseRunVars
<1>2. /\ baseHand \in [BaseWorkers -> BaseFiles \cup {"idle", "left"}]
      /\ baseEntries \in [BaseFiles -> BaseStates] /\ baseSite \in [BaseFiles -> BaseStates]
      /\ baseUnclear \subseteq BaseFiles
  BY DEF BaseInv, BaseTypeOK
<1>3. baseHand' \in [BaseWorkers -> BaseFiles \cup {"idle", "left"}]
  BY <1>1, <1>2
<1> HIDE DEF g
<1>4. /\ baseEntries' \in [BaseFiles -> BaseStates] /\ baseUnclear' \subseteq BaseFiles
      /\ baseUnclear \subseteq baseUnclear'
      /\ \A f \in BaseFiles \ {g} : baseEntries'[f] = baseEntries[f]
      /\ baseEntries'[g] = baseEntries[g] \/ baseEntries'[g] = baseSite[g]
  BY <1>1, <1>2
<1>5. baseBudget' \in [faults : 0..BaseMaxFaults, runs : 0..BaseMaxRuns]
  BY <1>1, BaseBudgets
<1>6. BaseTypeOK'
  BY <1>1, <1>2, <1>3, <1>4, <1>5 DEF BaseInv, BaseTypeOK
<1>7. basePc \in {"walk", "drain", "write", "idle"}
  BY DEF BaseInv, BaseTypeOK
<1>8. basePc \notin {"idle", "write"}
  BY <1>1 DEF BaseInv, BaseEnds, g
<1>9. BaseRecorded' /\ BaseAllHashed'
  BY <1>1, <1>8 DEF BaseInv, BaseRecorded, BaseAllHashed
<1>10. BaseEnds'
  BY <1>1, <1>2, <1>8 DEF BaseInv, BaseEnds
<1>11. ASSUME NEW f \in BaseFiles PROVE BaseFollowed(f)'
  <2> SUFFICES ASSUME f \notin baseUnclear'
               PROVE  /\ baseEntries'[f] \in {"absent", baseSite[f]}
                      /\ (BasePassed(f) /\ baseExpired = "no" /\ baseEntries'[f] # baseSite[f])
                            => BaseUnderWay(f)'
    BY <1>1 DEF BaseFollowed, BasePassed
  <2>1. /\ baseEntries[f] \in {"absent", baseSite[f]}
        /\ (BasePassed(f) /\ baseExpired = "no" /\ baseEntries[f] # baseSite[f]) => BaseUnderWay(f)
    BY <1>4, <1>8 DEF BaseInv, BaseFollowed
  <2>2. CASE f = g
    <3>1. baseEntries'[f] = baseSite[f]
      BY <1>1, <1>2, <2>1, <2>2
    <3> QED BY <3>1
  <2>3. CASE f # g
    <3>1. baseEntries'[f] = baseEntries[f]
      BY <1>4, <2>3
    <3>2. BaseUnderWay(f) => BaseUnderWay(f)'
      <4>1. \A v \in BaseWorkers : baseHand[v] = f => baseHand'[v] = f
        BY <1>1, <1>2, <2>3 DEF g
      <4> QED BY <1>1, <4>1 DEF BaseUnderWay
    <3> QED BY <2>1, <3>1, <3>2
  <2> QED BY <2>2, <2>3
<1>12. BaseSafe'
  BY <1>1, <1>8, BaseRunSafe
<1> QED BY <1>6, <1>9, <1>10, <1>11, <1>12 DEF BaseInv

\* The walk was cut off: there is no result.
LEMMA BaseInterruptedEndKeeps == BaseInv /\ BaseInterruptedEnd => BaseInv'
<1> SUFFICES ASSUME BaseInv, BaseInterruptedEnd PROVE BaseInv'
  OBVIOUS
<1>1. /\ BaseEnd("error", {}) /\ baseDisk' = baseDisk /\ baseLeft' = baseLeft
      /\ baseBudget' = baseBudget
  BY DEF BaseInterruptedEnd
<1>2. BaseSafe'
  BY <1>1 DEF BaseEnd, BaseSafe
<1> QED BY <1>1, <1>2, BaseEndKeeps DEF BaseInv, BaseTypeOK, BaseRecorded

\* A walk that was not cut off, in a context that did not end, hashed every
\* file nothing happened to.
LEMMA BaseHashedAll ==
    ASSUME BaseInv, BaseHashed, ~BaseInterrupted
    PROVE  /\ baseWalked = Len(BaseTree) /\ baseExpired # "walk"
           /\ baseExpired = "no" =>
                 \A f \in BaseFiles \ baseUnclear : baseEntries[f] = baseSite[f]
<1>1. baseWalked = Len(BaseTree)
  BY BaseTyped DEF BaseInv, BaseTypeOK, BaseInterrupted
<1>2. baseExpired # "walk"
  BY <1>1 DEF BaseInv, BaseEnds, BaseHashed
<1>3. ASSUME baseExpired = "no", NEW f \in BaseFiles \ baseUnclear
      PROVE  baseEntries[f] = baseSite[f]
  <2>1. PICK w \in BaseWorkers : TRUE
    BY BaseAssumption
  <2>2. \A v \in BaseWorkers : baseHand[v] = "idle" /\ baseJobs = <<>>
    BY <1>3 DEF BaseInv, BaseEnds, BaseHashed
  <2>3. ~BaseUnderWay(f)
    BY <2>1, <2>2, BaseTyped, BaseAssumption DEF BaseUnderWay
  <2>4. BasePassed(f)
    <3>1. PICK i \in 1..Len(BaseTree) : BaseTree[i] = f
      <4>1. DOMAIN BaseTree = 1..Len(BaseTree)
        BY BaseAssumption, LenProperties
      <4> QED BY <4>1 DEF BaseFiles, Range
    <3> QED BY <1>1, <3>1 DEF BasePassed
  <2> QED BY <1>3, <2>3, <2>4 DEF BaseInv, BaseFollowed, BaseHashed
<1> QED BY <1>1, <1>2, <1>3

\* The site is compared with the record.
LEMMA BaseComparesKeeps == BaseInv /\ BaseCompares => BaseInv'
<1> SUFFICES ASSUME BaseInv, BaseCompares PROVE BaseInv'
  OBVIOUS
<1> DEFINE d == Drift(baseKnown, baseEntries)
<1>1. /\ BaseEnd("ok", d) /\ baseDisk' = baseDisk /\ baseLeft' = baseLeft
      /\ baseBudget' = baseBudget /\ baseKind = "verify" /\ basePc = "drain"
      /\ BaseHashed /\ ~BaseInterrupted
  BY DEF BaseCompares, BaseHashed
<1>2. d \in SUBSET ({"new", "changed", "removed"} \X BaseFiles)
  BY DEF Drift
<1>3. /\ baseReport' = [state |-> "ok", drift |-> d] /\ baseSite' = baseSite
      /\ baseUnclear' = baseUnclear /\ baseExpired' = baseExpired
  BY <1>1 DEF BaseEnd
<1>4. ASSUME baseExpired # "late", NEW f \in BaseFiles, f \notin baseUnclear,
             baseLeft[f] # "unknown"
      PROVE  baseKnown[f] = baseLeft[f] /\ baseEntries[f] = baseSite[f]
  <2>1. baseKnown = baseDisk /\ baseDisk[f] = baseLeft[f]
    BY <1>1, <1>4 DEF BaseInv, BaseRecorded
  <2>2. baseExpired = "no"
    BY <1>1, <1>4, BaseHashedAll DEF BaseInv, BaseTypeOK
  <2> QED BY <1>1, <1>4, <2>1, <2>2, BaseHashedAll
<1>5. BaseSafe'
  <2> SUFFICES ASSUME baseExpired # "late", NEW f \in BaseFiles, f \notin baseUnclear,
                      baseLeft[f] # "unknown"
               PROVE  LET was == baseLeft[f]
                          is == baseSite[f]
                          says(rule) == <<rule, f>> \in d
                      IN  /\ says("new") <=> (was = "absent" /\ is # "absent")
                          /\ says("removed") <=> (was # "absent" /\ is = "absent")
                          /\ says("changed") <=> (was # is /\ was # "absent" /\ is # "absent")
    BY <1>1, <1>3 DEF BaseSafe
  <2>1. baseKnown[f] = baseLeft[f] /\ baseEntries[f] = baseSite[f]
    BY <1>4
  <2>2. /\ <<"new", f>> \in d <=> (baseEntries[f] # "absent" /\ baseKnown[f] = "absent")
        /\ <<"changed", f>> \in d <=>
              (baseEntries[f] # "absent" /\ baseKnown[f] # "absent" /\ baseEntries[f] # baseKnown[f])
        /\ <<"removed", f>> \in d <=> (baseKnown[f] # "absent" /\ baseEntries[f] = "absent")
    BY BaseDriftMeans
  <2> HIDE DEF d
  <2> QED BY <2>1, <2>2
<1> HIDE DEF d
<1> QED BY <1>1, <1>2, <1>5, BaseEndKeeps DEF BaseInv, BaseTypeOK, BaseRecorded

\* The record is opened, or cannot be.
LEMMA BaseOpensKeeps == BaseInv /\ BaseOpens => BaseInv'
<1> SUFFICES ASSUME BaseInv, BaseOpens PROVE BaseInv'
  OBVIOUS
<1>1. CASE BaseFaulty /\ BaseEnd("error", {}) /\ UNCHANGED <<baseDisk, baseLeft>>
  <2>1. BaseSafe'
    BY <1>1 DEF BaseEnd, BaseSafe
  <2> QED BY <1>1, <2>1, BaseEndKeeps DEF BaseInv, BaseTypeOK, BaseRecorded
<1>2. CASE /\ basePc' = "write" /\ baseDisk' = BaseNothing /\ baseLeft' = BaseUnknown
           /\ UNCHANGED <<baseSite, BaseRunVars, baseWalked, BaseHashing, baseReport,
                          baseUnclear, baseBudget>>
  <2>1. /\ basePc' = "write" /\ baseDisk' = BaseNothing /\ baseLeft' = BaseUnknown
        /\ UNCHANGED <<baseSite, baseKind, baseKnown, baseExpired, baseWalked>>
        /\ UNCHANGED <<baseJobs, baseHand, baseEntries, baseReport, baseUnclear, baseBudget>>
    BY <1>2 DEF BaseRunVars, BaseHashing
  <2>2. /\ basePc = "drain" /\ BaseHashed /\ ~BaseInterrupted /\ baseKind = "baseline"
    BY DEF BaseOpens, BaseHashed
  <2>3. BaseTypeOK'
    BY <2>1, BaseTyped DEF BaseInv, BaseTypeOK
  <2>4. BaseRecorded'
    BY <2>1, <2>2, BaseTyped DEF BaseRecorded
  <2>5. BaseAllHashed'
    BY <2>1, <2>2, BaseHashedAll DEF BaseAllHashed
  <2>6. BaseEnds'
    BY <2>1, <2>2, BaseHashedAll, BaseAssumption DEF BaseInv, BaseEnds, BaseHashed
  <2>7. ASSUME NEW f \in BaseFiles PROVE BaseFollowed(f)'
    BY <2>1, <2>2 DEF BaseInv, BaseFollowed, BasePassed, BaseUnderWay
  <2>8. BaseSafe'
    BY <2>1, <2>2, BaseRunSafe
  <2> QED BY <2>3, <2>4, <2>5, <2>6, <2>7, <2>8 DEF BaseInv
<1> QED BY <1>1, <1>2 DEF BaseOpens

\* The first lines are contents of files.
LEMMA BasePrefixTyped ==
    ASSUME BaseInv
    PROVE  BasePrefixes \subseteq [BaseFiles -> BaseStates]
<1>1. baseEntries \in [BaseFiles -> BaseStates]
  BY DEF BaseInv, BaseTypeOK
<1> QED BY <1>1 DEF BasePrefixes, BaseFirst, BaseStates

\* The record is written, whole or in part.
LEMMA BaseWritesKeeps == BaseInv /\ BaseWrites => BaseInv'
<1> SUFFICES ASSUME BaseInv, BaseWrites PROVE BaseInv'
  OBVIOUS
<1>1. basePc = "write" /\ baseKind = "baseline" /\ baseLeft = BaseUnknown
  BY DEF BaseInv, BaseRecorded, BaseWrites
<1>2. CASE BaseFaulty /\ baseDisk' \in BasePrefixes /\ BaseEnd("error", {}) /\ UNCHANGED baseLeft
  <2>1. BaseSafe'
    BY <1>2 DEF BaseEnd, BaseSafe
  <2>2. \A f \in BaseFiles : baseLeft'[f] # "unknown" => baseDisk'[f] = baseLeft'[f]
    BY <1>1, <1>2, BaseTyped
  <2>3. /\ baseDisk' \in [BaseFiles -> BaseStates]
        /\ baseLeft' \in [BaseFiles -> BaseStates \cup {"unknown"}]
    BY <1>2, BasePrefixTyped DEF BaseInv, BaseTypeOK
  <2> QED BY <1>2, <2>1, <2>2, <2>3, BaseEndKeeps
<1>3. CASE /\ baseDisk' = baseEntries
           /\ baseLeft' = [f \in BaseFiles |->
                              IF f \in baseUnclear \/ baseExpired = "late" THEN "unknown"
                              ELSE baseSite[f]]
           /\ BaseEnd("ok", {})
           /\ UNCHANGED baseBudget
  <2>1. BaseSafe'
    BY <1>1, <1>3 DEF BaseEnd, BaseSafe
  <2>2. baseSite \in [BaseFiles -> BaseStates] /\ baseEntries \in [BaseFiles -> BaseStates]
    BY DEF BaseInv, BaseTypeOK
  <2>3. baseLeft' \in [BaseFiles -> BaseStates \cup {"unknown"}]
    BY <1>3, <2>2
  <2>4. ASSUME NEW f \in BaseFiles, baseLeft'[f] # "unknown"
        PROVE  baseDisk'[f] = baseLeft'[f]
    <3>1. f \notin baseUnclear /\ baseExpired # "late" /\ baseLeft'[f] = baseSite[f]
      BY <1>3, <2>4
    <3>2. baseExpired = "no"
      BY <1>1, <3>1 DEF BaseInv, BaseTypeOK, BaseEnds
    <3> QED BY <1>1, <1>3, <3>1, <3>2 DEF BaseInv, BaseAllHashed
  <2> QED BY <1>3, <2>1, <2>2, <2>3, <2>4, BaseEndKeeps
<1> QED BY <1>2, <1>3 DEF BaseWrites

\* The context ends.
LEMMA BaseExpireKeeps == BaseInv /\ BaseExpire => BaseInv'
<1> SUFFICES ASSUME BaseInv, BaseExpire PROVE BaseInv'
  OBVIOUS
<1>1. /\ basePc \in {"walk", "drain"} /\ baseExpired = "no" /\ BaseFaulty
      /\ baseExpired' = IF basePc = "walk" THEN "walk" ELSE "late"
      /\ UNCHANGED <<baseSite, baseDisk, basePc, baseKind, baseKnown, baseWalked, baseJobs>>
      /\ UNCHANGED <<baseHand, baseEntries, baseReport, baseUnclear, baseLeft>>
  BY DEF BaseExpire, BaseHashing
<1>2. baseBudget' \in [faults : 0..BaseMaxFaults, runs : 0..BaseMaxRuns]
  BY <1>1, BaseBudgets
<1>3. BaseTypeOK'
  BY <1>1, <1>2 DEF BaseInv, BaseTypeOK
<1>4. BaseRecorded' /\ BaseAllHashed' /\ BaseEnds'
  BY <1>1 DEF BaseInv, BaseRecorded, BaseAllHashed, BaseEnds
<1>5. ASSUME NEW f \in BaseFiles PROVE BaseFollowed(f)'
  BY <1>1 DEF BaseInv, BaseFollowed
<1>6. BaseSafe'
  BY <1>1, BaseRunSafe
<1> QED BY <1>3, <1>4, <1>5, <1>6 DEF BaseInv

\* The program dies, possibly with a part of the record written.
LEMMA BaseCrashKeeps == BaseInv /\ BaseCrash => BaseInv'
<1> SUFFICES ASSUME BaseInv, BaseCrash PROVE BaseInv'
  OBVIOUS
<1>1. /\ BaseFaulty /\ BaseEnd("none", {}) /\ baseLeft' = baseLeft
      /\ baseDisk' \in (IF basePc = "write" THEN BasePrefixes ELSE {baseDisk})
  BY DEF BaseCrash
<1>2. BaseSafe'
  BY <1>1 DEF BaseEnd, BaseSafe
<1>3. \A f \in BaseFiles : baseLeft'[f] # "unknown" => baseDisk'[f] = baseLeft'[f]
  BY <1>1, BaseTyped DEF BaseInv, BaseRecorded
<1>4. /\ baseDisk' \in [BaseFiles -> BaseStates]
      /\ baseLeft' \in [BaseFiles -> BaseStates \cup {"unknown"}]
  BY <1>1, BasePrefixTyped DEF BaseInv, BaseTypeOK
<1> QED BY <1>1, <1>2, <1>3, <1>4, BaseEndKeeps

\* The site changes: a report says nothing of what came after it.
LEMMA SiteChangesKeeps ==
    ASSUME BaseInv, NEW g \in BaseFiles, SiteChanges(g)
    PROVE  BaseInv'
<1>1. PICK c \in BaseStates : baseSite' = [baseSite EXCEPT ![g] = c]
  BY DEF SiteChanges, BaseStates
<1>2. /\ BaseFaulty
      /\ baseUnclear' = IF basePc = "idle" THEN baseUnclear ELSE baseUnclear \cup {g}
      /\ baseReport' = IF basePc = "idle" THEN BaseNoReport ELSE baseReport
      /\ UNCHANGED <<baseDisk, basePc, baseKind, baseKnown, baseExpired, baseWalked>>
      /\ UNCHANGED <<baseJobs, baseHand, baseEntries, baseLeft>>
  BY DEF SiteChanges, BaseRunVars, BaseHashing
<1>3. baseSite \in [BaseFiles -> BaseStates]
  BY DEF BaseInv, BaseTypeOK
<1>4. baseSite' \in [BaseFiles -> BaseStates] /\ \A f \in BaseFiles \ {g} : baseSite'[f] = baseSite[f]
  BY <1>1, <1>3
<1>5. baseBudget' \in [faults : 0..BaseMaxFaults, runs : 0..BaseMaxRuns]
  BY <1>2, BaseBudgets
<1>6. baseReport' = BaseNoReport
  BY <1>2 DEF BaseInv, BaseEnds
<1>7. BaseTypeOK'
  <2>1. baseReport'.state \in {"none", "ok", "error"} /\ baseReport'.drift = {}
    BY <1>6, BaseTyped
  <2> QED BY <1>2, <1>4, <1>5, <2>1 DEF BaseInv, BaseTypeOK
<1>8. BaseRecorded'
  BY <1>2 DEF BaseInv, BaseRecorded
<1>9. BaseAllHashed'
  BY <1>2, <1>4 DEF BaseInv, BaseAllHashed
<1>10. BaseEnds' /\ BaseSafe'
  BY <1>2, <1>6, BaseTyped DEF BaseInv, BaseEnds, BaseSafe
<1>11. ASSUME NEW f \in BaseFiles PROVE BaseFollowed(f)'
  BY <1>2, <1>4 DEF BaseInv, BaseFollowed, BasePassed, BaseUnderWay
<1> QED BY <1>7, <1>8, <1>9, <1>10, <1>11 DEF BaseInv

-----------------------------------------------------------------------------
(* The invariant *)

\* It holds at first.
LEMMA BaseInvInit == BaseInit => BaseInv
<1> SUFFICES ASSUME BaseInit PROVE BaseInv
  OBVIOUS
<1>1. BaseTypeOK
  <2>1. baseBudget \in [faults : 0..BaseMaxFaults, runs : 0..BaseMaxRuns]
    BY BaseAssumption DEF BaseInit
  <2>2. {baseSite, baseDisk, baseKnown, baseEntries} \subseteq [BaseFiles -> BaseStates]
    BY BaseTyped DEF BaseInit, BaseStates, BaseContents
  <2> QED BY <2>1, <2>2, BaseTyped DEF BaseInit, BaseTypeOK
<1> QED BY <1>1, BaseTyped, BaseAssumption
        DEF BaseInit, BaseInv, BaseRecorded, BaseAllHashed, BaseEnds, BaseSafe, BaseFollowed

\* Every step keeps it.
LEMMA BaseInvStep == BaseInv /\ [BaseNext]_baseVars => BaseInv'
<1> SUFFICES ASSUME BaseInv, [BaseNext]_baseVars PROVE BaseInv'
  OBVIOUS
<1>1. ASSUME NEW kind \in {"baseline", "verify"}, BaseBegin(kind) PROVE BaseInv'
  BY <1>1, BaseBeginKeeps
<1>2. CASE BaseMain
  BY <1>2, BaseWalkKeeps, BaseWalkEndsKeeps, BaseInterruptedEndKeeps, BaseComparesKeeps,
     BaseOpensKeeps, BaseWritesKeeps DEF BaseMain
<1>3. CASE BaseExpire \/ BaseCrash
  BY <1>3, BaseExpireKeeps, BaseCrashKeeps
<1>4. ASSUME NEW w \in BaseWorkers, BaseWork(w) PROVE BaseInv'
  BY <1>4, BaseTakeKeeps, BaseGateEndsKeeps, BaseHashKeeps DEF BaseWork
<1>5. ASSUME NEW f \in BaseFiles, SiteChanges(f) PROVE BaseInv'
  BY <1>5, SiteChangesKeeps
<1>6. CASE UNCHANGED baseVars
  BY <1>6 DEF baseVars, BaseInv, BaseTypeOK, BaseRecorded, BaseAllHashed, BaseEnds, BaseSafe,
     BaseFollowed, BasePassed, BaseUnderWay
<1> QED BY <1>1, <1>2, <1>3, <1>4, <1>5, <1>6 DEF BaseNext

\* It contains the promise.
LEMMA BaseInvSafe == BaseInv => BaseSafe
  BY DEF BaseInv
-----------------------------------------------------------------------------
(* Both *)

\* provenance.go calls a file unexpected, verified or modified only when it is,
\* says ok only when every published artefact was compared with its manifest,
\* and does so in every scan nothing fails in; baseline.go reports every file
\* that differs from how the last complete record left it, and no other.
THEOREM RecordsAlwaysTellTrue == ProvSpec /\ BaseSpec => []RecordsTellTrue
<1>1. ProvInit /\ BaseInit => ProvInv /\ BaseInv
  BY ProvInvInit, BaseInvInit
<1>2. /\ ProvInv /\ [ProvNext]_provVars => ProvInv'
      /\ BaseInv /\ [BaseNext]_baseVars => BaseInv'
  BY ProvInvStep, BaseInvStep
<1>3. ProvInv /\ BaseInv => RecordsTellTrue
  BY ProvInvSafe, BaseInvSafe DEF RecordsTellTrue
<1> QED BY <1>1, <1>2, <1>3, PTL DEF ProvSpec, BaseSpec

-----------------------------------------------------------------------------
(***************************************************************************)
(* The checks of a webroot's files (fsscan.go).                            *)
(***************************************************************************)

\* A nonempty set of numbers has a least one.
LEMMA FileLeast ==
    ASSUME NEW T, T \subseteq Nat, T # {}
    PROVE  \E x \in T : \A y \in T : x <= y
<1> DEFINE less == {p \in Nat \X Nat : p[1] < p[2]}
<1>1. IsWellFoundedOn(less, Nat)
  BY NatLessThanWellFounded DEF OpToRel
<1>2. PICK x \in T : \A y \in T : <<y, x>> \notin less
  BY <1>1, WFMin
<1>3. ASSUME NEW y \in T PROVE x <= y
  <2>1. x \in Nat /\ y \in Nat
    OBVIOUS
  <2>2. ~(y < x)
    BY <1>2, <2>1
  <2> QED BY <2>1, <2>2
<1> QED BY <1>3

\* From what is below a bound, the greatest.
LEMMA FileGreatest ==
    ASSUME NEW T, T \subseteq Nat, T # {}, NEW b \in Nat, \A y \in T : y <= b
    PROVE  \E x \in T : \A y \in T : y <= x
<1> DEFINE U == {b - y : y \in T}
<1>1. U \subseteq Nat /\ U # {}
  <2>1. \A y \in T : b - y \in Nat
    OBVIOUS
  <2> QED BY <2>1
<1> HIDE DEF U
<1>2. PICK u \in U : \A v \in U : u <= v
  BY <1>1, FileLeast
<1>3. PICK x \in T : u = b - x
  BY <1>2 DEF U
<1>4. ASSUME NEW y \in T PROVE y <= x
  <2>1. b - y \in U
    BY DEF U
  <2> QED BY <1>2, <1>3, <2>1
<1> QED BY <1>4

\* The files of a directory that are no newer than an instant.
FileUpTo(files, t) == {f \in files : f.mtime <= t}

\* Counting them.
LEMMA FileCount ==
    ASSUME NEW files, IsFiniteSet(files), NEW A, A \subseteq files
    PROVE  /\ IsFiniteSet(A) /\ Cardinality(A) \in Nat /\ Cardinality(files) \in Nat
           /\ Cardinality(A) <= Cardinality(files)
           /\ A # files => Cardinality(A) < Cardinality(files)
  BY FS_Subset, FS_CardinalityType

\* Some file of a nonempty set is the newest.
LEMMA FileNewest ==
    ASSUME NEW files, IsFiniteSet(files), files # {}, \A f \in files : f.mtime \in Int
    PROVE  \E f \in files : \A g \in files : g.mtime <= f.mtime
<1> DEFINE T == {Cardinality(FileUpTo(files, f.mtime)) : f \in files}
<1>1. \A f \in files : /\ FileUpTo(files, f.mtime) \subseteq files
                       /\ Cardinality(FileUpTo(files, f.mtime)) \in Nat
                       /\ Cardinality(FileUpTo(files, f.mtime)) <= Cardinality(files)
  BY FileCount DEF FileUpTo
<1>2. Cardinality(files) \in Nat
  BY FS_CardinalityType
<1>3. T \subseteq Nat /\ T # {} /\ \A y \in T : y <= Cardinality(files)
  BY <1>1
<1>4. PICK x \in T : \A y \in T : y <= x
  BY <1>2, <1>3, FileGreatest
<1>5. PICK f \in files : x = Cardinality(FileUpTo(files, f.mtime))
  BY <1>4
<1>6. ASSUME NEW g \in files, ~(g.mtime <= f.mtime) PROVE FALSE
  <2>1. FileUpTo(files, f.mtime) \subseteq FileUpTo(files, g.mtime) /\ g \in FileUpTo(files, g.mtime)
        /\ g \notin FileUpTo(files, f.mtime)
    BY <1>6 DEF FileUpTo
  <2>2. IsFiniteSet(FileUpTo(files, g.mtime))
    BY FS_Subset DEF FileUpTo
  <2>3. x < Cardinality(FileUpTo(files, g.mtime)) /\ x \in Nat
    BY <1>5, <2>1, <2>2, FileCount
  <2>4. Cardinality(FileUpTo(files, g.mtime)) \in T
    OBVIOUS
  <2>5. Cardinality(FileUpTo(files, g.mtime)) <= x
    BY <1>4, <2>4
  <2> QED BY <1>1, <2>3, <2>5
<1> QED BY <1>6

\* There is an element in the middle of the sorted times: as many times as
\* half the files are before it at most, and more than that are not after it.
LEMMA FileMedian ==
    ASSUME NEW files, IsFiniteSet(files), files # {}, \A f \in files : f.mtime \in Int
    PROVE  /\ MedianTime(files) \in Int
           /\ Cardinality({f \in files : f.mtime < MedianTime(files)}) <= Cardinality(files) \div 2
           /\ Cardinality(FileUpTo(files, MedianTime(files))) > Cardinality(files) \div 2
<1> DEFINE half == Cardinality(files) \div 2
           times == {f.mtime : f \in files}
           before(t) == {f \in files : f.mtime < t}
           count(t) == Cardinality(FileUpTo(files, t))
           T == {count(t) : t \in {u \in times : count(u) > half}}
<1>1. Cardinality(files) \in Nat /\ Cardinality(files) > 0
  BY FS_CardinalityType, FS_EmptySet
<1>2. half \in Nat /\ half < Cardinality(files)
  BY <1>1
<1>3. \A t \in times : count(t) \in Nat /\ t \in Int
  BY FileCount DEF FileUpTo
<1>4. T # {}
  <2>1. PICK f \in files : \A g \in files : g.mtime <= f.mtime
    BY FileNewest
  <2>2. FileUpTo(files, f.mtime) = files
    BY <2>1 DEF FileUpTo
  <2>3. f.mtime \in times /\ count(f.mtime) > half
    BY <1>2, <2>2
  <2> QED BY <2>3
<1>5. T \subseteq Nat
  BY <1>3
<1>6. PICK x \in T : \A y \in T : x <= y
  BY <1>4, <1>5, FileLeast
<1>7. PICK t \in times : count(t) > half /\ x = count(t)
  BY <1>6
<1>8. Cardinality(before(t)) <= half
  <2>1. SUFFICES ASSUME ~(Cardinality(before(t)) <= half) PROVE FALSE
    OBVIOUS
  <2>2. before(t) \subseteq files /\ IsFiniteSet(before(t)) /\ Cardinality(before(t)) \in Nat
    BY FileCount
  <2>3. Cardinality(before(t)) > half
    BY <1>2, <2>1, <2>2
  <2>4. before(t) # {}
    <3> HIDE DEF half
    <3>1. Cardinality({}) = 0
      BY FS_EmptySet
    <3>2. ASSUME before(t) = {} PROVE FALSE
      <4>1. Cardinality(before(t)) = 0
        BY <3>1, <3>2
      <4> QED BY <1>2, <2>3, <4>1
    <3> QED BY <3>2
  <2>5. PICK f \in before(t) : \A g \in before(t) : g.mtime <= f.mtime
    BY <2>2, <2>4, FileNewest
  <2>6. f \in files /\ f.mtime < t /\ f.mtime \in Int /\ t \in Int
    BY <1>3, <2>5
  <2>7. FileUpTo(files, f.mtime) = before(t)
    BY <1>3, <2>5, <2>6 DEF FileUpTo
  <2>8. count(f.mtime) \in T
    BY <2>3, <2>6, <2>7
  <2>9. x <= count(f.mtime)
    BY <1>6, <2>8
  <2>10. before(t) \subseteq FileUpTo(files, t) /\ before(t) # FileUpTo(files, t)
    BY <1>3 DEF FileUpTo
  <2>11. IsFiniteSet(FileUpTo(files, t))
    BY FS_Subset DEF FileUpTo
  <2>12. Cardinality(before(t)) < count(t)
    BY <2>10, <2>11, FileCount
  <2> QED BY <1>3, <1>7, <2>2, <2>7, <2>9, <2>12
<1>9. MedianTime(files) = CHOOSE u \in times : Cardinality(before(u)) <= half /\ count(u) > half
  BY DEF MedianTime, FileUpTo
<1>10. /\ MedianTime(files) \in times
       /\ Cardinality(before(MedianTime(files))) <= half /\ count(MedianTime(files)) > half
  BY <1>7, <1>8, <1>9
<1> QED BY <1>3, <1>10

\* detectMtimeOutliers, for a directory of any size: every file that is called
\* an outlier is newer, by more than the gap, than half of its directory, and
\* every file as new that is still there is called one, unless there are too few
\* files or too many as new.
THEOREM OutliersStandApart ==
    ASSUME NEW files, IsFiniteSet(files), \A f \in files : f.mtime \in Int
    PROVE  OutliersRight(files)
<1> DEFINE n == Cardinality(files)
           median == MedianTime(files)
           outliers == {f \in files : f.mtime - median > FileGap}
           older(f) == {g \in files : f.mtime - g.mtime > FileGap}
           apart == {f \in files : 2 * Cardinality(older(f)) > n}
           out == DetectMtimeOutliers(files)
<1>1. n \in Nat
  BY FS_CardinalityType
<1>2. /\ Cardinality(outliers) \in Nat /\ Cardinality(out) \in Nat
      /\ out \subseteq outliers /\ Cardinality(out) <= Cardinality(outliers)
  <2>1. outliers \subseteq files /\ IsFiniteSet(outliers) /\ Cardinality(outliers) \in Nat
    BY FileCount
  <2>2. out \subseteq outliers
    BY DEF DetectMtimeOutliers
  <2> QED BY <2>1, <2>2, FileCount
<1>3. CASE files = {}
  <2>1. outliers = {} /\ out = {} /\ apart = {}
    BY <1>2, <1>3
  <2>2. Cardinality(out) = 0 /\ n = 0
    BY <1>3, <2>1, FS_EmptySet
  <2> QED BY <2>1, <2>2 DEF OutliersRight
<1>4. CASE files # {}
  <2>1. /\ median \in Int
        /\ Cardinality({f \in files : f.mtime < median}) <= n \div 2
        /\ Cardinality(FileUpTo(files, median)) > n \div 2
    BY <1>4, FileMedian
  <2>2. outliers = apart
    <3>1. ASSUME NEW f \in outliers PROVE f \in apart
      <4>1. f \in files /\ f.mtime \in Int /\ f.mtime - median > FileGap
        OBVIOUS
      <4>2. FileUpTo(files, median) \subseteq older(f)
        BY <2>1, <4>1, FileAssumption DEF FileUpTo
      <4>3. Cardinality(FileUpTo(files, median)) <= Cardinality(older(f))
              /\ Cardinality(older(f)) \in Nat /\ Cardinality(FileUpTo(files, median)) \in Nat
        <5>1. older(f) \subseteq files /\ IsFiniteSet(older(f)) /\ Cardinality(older(f)) \in Nat
          BY FileCount
        <5> QED BY <4>2, <5>1, FileCount
      <4>4. 2 * Cardinality(older(f)) > n
        BY <1>1, <2>1, <4>3
      <4> QED BY <4>1, <4>4
    <3>2. ASSUME NEW f \in apart, f \notin outliers PROVE FALSE
      <4>1. f \in files /\ f.mtime \in Int /\ ~(f.mtime - median > FileGap)
              /\ 2 * Cardinality(older(f)) > n
        BY <3>2
      <4>2. older(f) \subseteq {g \in files : g.mtime < median}
        BY <2>1, <4>1, FileAssumption
      <4>3. Cardinality(older(f)) <= Cardinality({g \in files : g.mtime < median})
              /\ Cardinality(older(f)) \in Nat /\ Cardinality({g \in files : g.mtime < median}) \in Nat
        <5>1. {g \in files : g.mtime < median} \subseteq files
              /\ IsFiniteSet({g \in files : g.mtime < median})
              /\ Cardinality({g \in files : g.mtime < median}) \in Nat
          BY FileCount
        <5> QED BY <4>2, <5>1, FileCount
      <4> QED BY <1>1, <2>1, <4>1, <4>3
    <3> QED BY <3>1, <3>2
  <2>3. out = IF n < FileSiblings \/ Cardinality(outliers) > n \div 3 THEN {}
              ELSE {f \in outliers : f.exists}
    BY DEF DetectMtimeOutliers
  <2>4. 3 * Cardinality(out) <= n
    <3>1. CASE out = {}
      BY <1>1, <3>1, FS_EmptySet
    <3>2. CASE out # {}
      <4>1. ~(Cardinality(outliers) > n \div 3)
        BY <2>3, <3>2
      <4> HIDE DEF outliers, n, out
      <4> QED BY <1>1, <1>2, <4>1
    <3> QED BY <3>1, <3>2
  <2>5. ASSUME n >= FileSiblings, 3 * Cardinality(apart) <= n
        PROVE  out = {f \in apart : f.exists}
    <3>1. ~(n < FileSiblings)
      BY <1>1, <2>5, FileAssumption
    <3>2. ~(Cardinality(outliers) > n \div 3)
      <4>1. 3 * Cardinality(outliers) <= n
        BY <2>2, <2>5
      <4> HIDE DEF outliers, n
      <4> QED BY <1>1, <1>2, <4>1
    <3> QED BY <2>2, <2>3, <3>1, <3>2
  <2> QED BY <1>2, <2>2, <2>4, <2>5 DEF OutliersRight
<1> QED BY <1>3, <1>4

\* detectRuntimeWrites, for any tree and any start of the container: every late
\* write that is still there is named, or counted with the others, and nothing
\* else is.
THEOREM LateWritesAreNamed ==
    ASSUME NEW metas, NEW started
    PROVE  RuntimeWritesRight(metas, started)
<1> DEFINE late == {m \in metas : ~m.writable /\ m.ctime > started + FileBoot}
<1>1. CASE late = {}
  BY <1>1 DEF RuntimeWritesRight, DetectRuntimeWrites
<1>2. CASE late # {} /\ Cardinality(late) > FileBulk
  <2>1. DetectRuntimeWrites(metas, started) = {Finding("bulk_runtime_write", <<>>, late)}
    BY <1>2 DEF DetectRuntimeWrites
  <2>2. ASSUME NEW m \in metas
        PROVE  (~m.writable /\ m.exists /\ m.ctime > started + FileBoot)
                  <=> \E f \in DetectRuntimeWrites(metas, started) : m \in f.names /\ m.exists
    <3>1. (\E f \in DetectRuntimeWrites(metas, started) : m \in f.names /\ m.exists)
             <=> m \in Finding("bulk_runtime_write", <<>>, late).names /\ m.exists
      BY <2>1
    <3>2. Finding("bulk_runtime_write", <<>>, late).names = late
      BY DEF Finding
    <3>3. m \in late <=> ~m.writable /\ m.ctime > started + FileBoot
      OBVIOUS
    <3> HIDE DEF late
    <3> QED BY <3>1, <3>2, <3>3
  <2> QED BY <2>2 DEF RuntimeWritesRight
<1>3. CASE late # {} /\ ~(Cardinality(late) > FileBulk)
  <2>1. DetectRuntimeWrites(metas, started) =
            {Finding("written_after_deploy", Append(m.dir, m.name), {m}) : m \in {x \in late : x.exists}}
    BY <1>3 DEF DetectRuntimeWrites
  <2>2. ASSUME NEW m \in metas
        PROVE  (~m.writable /\ m.exists /\ m.ctime > started + FileBoot)
                  <=> \E f \in DetectRuntimeWrites(metas, started) : m \in f.names /\ m.exists
    <3>1. \A x : Finding("written_after_deploy", Append(x.dir, x.name), {x}).names = {x}
      BY DEF Finding
    <3>2. m \in late <=> ~m.writable /\ m.ctime > started + FileBoot
      OBVIOUS
    <3> HIDE DEF late
    <3>3. (\E f \in DetectRuntimeWrites(metas, started) : m \in f.names /\ m.exists)
             <=> \E x \in late : x.exists /\ m \in {x} /\ m.exists
      <4>1. ASSUME NEW f \in DetectRuntimeWrites(metas, started), m \in f.names, m.exists
            PROVE  \E x \in late : x.exists /\ m \in {x} /\ m.exists
        <5>1. PICK x \in late : x.exists /\ f = Finding("written_after_deploy", Append(x.dir, x.name), {x})
          BY <2>1
        <5>2. f.names = {x}
          BY <3>1, <5>1
        <5> QED BY <4>1, <5>1, <5>2
      <4>2. ASSUME NEW x \in late, x.exists, m \in {x}, m.exists
            PROVE  \E f \in DetectRuntimeWrites(metas, started) : m \in f.names /\ m.exists
        <5> DEFINE f == Finding("written_after_deploy", Append(x.dir, x.name), {x})
        <5>1. f \in DetectRuntimeWrites(metas, started)
          BY <2>1, <4>2
        <5>2. m \in f.names
          BY <3>1, <4>2
        <5> HIDE DEF f
        <5> QED BY <4>2, <5>1, <5>2
      <4> QED BY <4>1, <4>2
    <3> QED BY <3>2, <3>3
  <2> QED BY <2>2 DEF RuntimeWritesRight
<1> QED BY <1>1, <1>2, <1>3

\* What is read of the tail of a file is read whatever was read of its head.
LEMMA FileInSecond ==
    ASSUME NEW S, NEW a \in Seq(S), NEW b \in Seq(S), HasTag(b)
    PROVE  HasTag(a \o b)
<1>1. PICK i \in 1..Len(b) - 1 : SubSeq(b, i, i + 1) = PHPTag
  BY DEF HasTag
<1>2. Len(b) \in Nat /\ Len(a) \in Nat /\ i \in Nat /\ i >= 1 /\ i + 1 <= Len(b)
  BY <1>1
<1>3. b[i] = "<" /\ b[i + 1] = "?"
  <2>1. \A k \in i..i + 1 : b[k] \in S
    BY <1>2
  <2>2. \A k \in 1..(i + 1) - i + 1 : SubSeq(b, i, i + 1)[k] = b[i + k - 1]
    BY <1>2, <2>1, SubSeqProperties
  <2>3. SubSeq(b, i, i + 1)[1] = b[i] /\ SubSeq(b, i, i + 1)[2] = b[i + 1]
    <3>1. 1 \in 1..(i + 1) - i + 1 /\ 2 \in 1..(i + 1) - i + 1 /\ i + 1 - 1 = i /\ i + 2 - 1 = i + 1
      BY <1>2
    <3> QED BY <2>2, <3>1
  <2>4. PHPTag[1] = "<" /\ PHPTag[2] = "?"
    BY DEF PHPTag
  <2> QED BY <1>1, <2>3, <2>4
<1> DEFINE c == a \o b
           j == Len(a) + i
<1>4. c \in Seq(S) /\ Len(c) = Len(a) + Len(b)
  OBVIOUS
<1>5. c[j] = "<" /\ c[j + 1] = "?"
  BY <1>2, <1>3
<1>6. j \in 1..Len(c) - 1
  BY <1>2, <1>4
<1>7. SubSeq(c, j, j + 1) = PHPTag
  <2> HIDE DEF c
  <2>1. SubSeq(c, j, j + 1) = <<c[j], c[j + 1]>>
    <3>1. c[j] \in S /\ c[j + 1] \in S /\ j \in Nat
      BY <1>2, <1>4, <1>6
    <3> HIDE DEF j
    <3>2. \A k \in j..j + 1 : c[k] \in S
      <4>1. \A k \in j..j + 1 : k = j \/ k = j + 1
        BY <3>1
      <4> QED BY <3>1, <4>1
    <3>3. /\ SubSeq(c, j, j + 1) \in Seq(S)
          /\ Len(SubSeq(c, j, j + 1)) = IF j <= j + 1 THEN (j + 1) - j + 1 ELSE 0
          /\ \A k \in 1..(j + 1) - j + 1 : SubSeq(c, j, j + 1)[k] = c[j + k - 1]
      BY <3>1, <3>2, SubSeqProperties
    <3>4. Len(SubSeq(c, j, j + 1)) = 2
      BY <3>1, <3>3
    <3>5. SubSeq(c, j, j + 1)[1] = c[j] /\ SubSeq(c, j, j + 1)[2] = c[j + 1]
      <4>1. 1 \in 1..(j + 1) - j + 1 /\ 2 \in 1..(j + 1) - j + 1 /\ j + 1 - 1 = j /\ j + 2 - 1 = j + 1
        BY <3>1
      <4> QED BY <3>3, <4>1
    <3>6. <<c[j], c[j + 1]>> \in Seq(S) /\ Len(<<c[j], c[j + 1]>>) = 2
      BY <3>1
    <3>7. \A k \in 1..Len(SubSeq(c, j, j + 1)) : SubSeq(c, j, j + 1)[k] = <<c[j], c[j + 1]>>[k]
      <4>1. \A k \in 1..2 : k = 1 \/ k = 2
        OBVIOUS
      <4>2. <<c[j], c[j + 1]>>[1] = c[j] /\ <<c[j], c[j + 1]>>[2] = c[j + 1]
        OBVIOUS
      <4> QED BY <3>4, <3>5, <4>1, <4>2
    <3> QED BY <3>3, <3>4, <3>6, <3>7, SeqEqual
  <2> QED BY <1>5, <2>1 DEF PHPTag
<1> QED BY <1>6, <1>7 DEF HasTag

\* The greater of nothing and a number.
LEMMA FileMaxOf ==
    ASSUME NEW a \in Int
    PROVE  Max({0, a}) = IF a > 0 THEN a ELSE 0
<1>1. CASE a > 0
  <2>1. \A x \in {0, a} : x <= a
    BY <1>1
  <2>2. \A x \in {0, a} : (\A y \in {0, a} : y <= x) => x = a
    BY <1>1
  <2> QED BY <1>1, <2>1, <2>2 DEF Max
<1>2. CASE ~(a > 0)
  <2>1. \A x \in {0, a} : x <= 0
    BY <1>2
  <2>2. \A x \in {0, a} : (\A y \in {0, a} : y <= x) => x = 0
    BY <1>2
  <2> QED BY <1>2, <2>1, <2>2 DEF Max
<1> QED BY <1>1, <1>2

\* probeHeadAndTail and the test in analyzeFile, for a file of any length: an
\* open tag in the last bytes of a file has the file read, whatever is before it
\* and however little of the file is probed.
THEOREM AppendedTagIsRead ==
    ASSUME NEW S, NEW content \in Seq(S), NEW size
    PROVE  AppendedIsRead(content, size)
<1> DEFINE from == Max({0, size - FileTail})
<1> SUFFICES ASSUME size = Len(content), HasTag(SubSeq(content, from + 1, size))
             PROVE  HasTag(ProbeHeadAndTail(content, size))
  BY DEF AppendedIsRead, MediaIsRead
<1>1. size \in Nat /\ FileHead \in Nat /\ FileTail \in Nat
  BY FileAssumption
<1>2. from = IF size - FileTail > 0 THEN size - FileTail ELSE 0
  BY <1>1, FileMaxOf
<1>3. CASE size <= FileHead + FileTail
  <2>1. ProbeHeadAndTail(content, size) = SubSeq(content, 1, size)
    BY <1>1, <1>3 DEF ProbeHeadAndTail
  <2>2. SubSeq(content, 1, size) = SubSeq(content, 1, from) \o SubSeq(content, from + 1, size)
    <3>1. from \in 0..size
      BY <1>1, <1>2
    <3> HIDE DEF from
    <3>2. 1 \in 1..Len(content) + 1 /\ from \in 1 - 1..Len(content) /\ size \in from..Len(content)
      BY <1>1, <3>1
    <3> QED BY <3>2, ConcatAdjacentSubSeq
  <2>3. SubSeq(content, 1, from) \in Seq(S) /\ SubSeq(content, from + 1, size) \in Seq(S)
    <3>1. from \in 0..size
      BY <1>1, <1>2
    <3> HIDE DEF from
    <3> QED BY <1>1, <3>1
  <2> HIDE DEF from
  <2> QED BY <2>1, <2>2, <2>3, FileInSecond
<1>4. CASE ~(size <= FileHead + FileTail)
  <2>1. from = size - FileTail
    BY <1>1, <1>2, <1>4
  <2>2. ProbeHeadAndTail(content, size)
           = SubSeq(content, 1, FileHead) \o SubSeq(content, from + 1, size)
    <3>1. /\ (IF FileHead < Len(content) THEN FileHead ELSE Len(content)) = FileHead
          /\ (IF size < Len(content) THEN size ELSE Len(content)) = size
          /\ 0 + 1 = 1 /\ (size - FileTail) + 1 = from + 1
      BY <1>1, <1>4, <2>1
    <3> HIDE DEF from
    <3> QED BY <1>4, <3>1 DEF ProbeHeadAndTail
  <2>3. SubSeq(content, 1, FileHead) \in Seq(S) /\ SubSeq(content, from + 1, size) \in Seq(S)
    <3>1. from \in 0..size
      BY <1>1, <1>2
    <3> HIDE DEF from
    <3> QED BY <1>1, <1>4, <3>1
  <2> HIDE DEF from
  <2> QED BY <2>2, <2>3, FileInSecond
<1> QED BY <1>3, <1>4

=============================================================================
