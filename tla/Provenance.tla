------------------------------- MODULE Provenance -------------------------------
(***************************************************************************)
(* Which files are supposed to be there (internal/agent/provenance.go): the*)
(* manifests of the WordPress core and of the plugins are fetched, through *)
(* a cache on disk, before a scan's sweep; the sweep judges every file it  *)
(* reads by them; the check's state says whether that can be relied on.    *)
(*                                                                         *)
(* An artefact is the core or a plugin.  A file's bytes are those of an    *)
(* artefact's release, or an edit that brings a sink or does not.  A       *)
(* manifest in the cache is whole, broken (it begins like JSON and cannot  *)
(* be used) or foreign (it does not even begin like JSON).  The authority  *)
(* and the network are external: they answer, or fail in bounded numbers.  *)
(***************************************************************************)
EXTENDS Integers, Sequences, FiniteSets

CONSTANTS
    ProvPlugins,      \* the plugins discoverPlugins finds, and of them
    ProvPublic,       \* those that wordpress.org publishes
    ProvTree,         \* the paths in the order of the sweep
    ProvIn,           \* path -> the artefact in whose tree it is, or "none"
    ProvListed,       \* artefact -> the paths its manifest lists
    ProvIgnorable,    \* paths that belong to no release and may be anywhere
    ProvLarge,        \* paths of files that are read in part only
    ProvAttested,     \* what the vendor pack vouches for: paths with bytes
    ProvWorkers,      \* provFetchWorkers (3)
    ProvAttempts,     \* provFetchAttempts (3)
    ProvMaxFaults,    \* bounds what the network and the disk refuse and the
                      \* changes of files together,
    ProvMaxScans      \* and the scans

ProvCore == "core"
ProvArtefacts == {ProvCore} \cup ProvPlugins
ProvPaths == DOMAIN ProvIn
ProvEdits == {"patch", "sink"}

ASSUME ProvAssumption ==
    /\ ProvTree \in Seq(ProvPaths)
    /\ ProvListed \in [ProvArtefacts -> SUBSET ProvPaths]
    /\ \A a \in ProvPlugins : \A p \in ProvListed[a] : ProvIn[p] = a
    /\ IsFiniteSet(ProvPlugins) /\ ProvCore \notin ProvPlugins
    /\ \A p \in ProvPaths : ProvIn[p] \in ProvArtefacts \cup {"none"}
    /\ {ProvWorkers, ProvAttempts} \subseteq Nat \ {0}
    /\ ProvPublic \subseteq ProvPlugins /\ {ProvMaxFaults, ProvMaxScans} \subseteq Nat

VARIABLES
    provBytes,     \* path -> the bytes of the file, or "gone"
    provCache,     \* artefact -> what the cache on disk has for it
    provPc,        \* where the scan stands
    provJob,       \* artefact -> the fetch of its manifest
    provSet,       \* provenanceSet: covered, failures, unpublished
    provLeft,      \* the paths the sweep has not come to
    provRead,      \* the file in hand and the bytes read of it
    provVerdict,   \* path -> its verdict in this scan
    provFound,     \* the findings: a path, its rule, whether it leads
    provState,     \* the state of the check prov.expected_set
    provExpired,   \* the scan's context has ended
    provTouched,   \* paths changed since the scan began (history)
    provHampered,  \* something failed in this scan, or the cache was broken (history)
    provBudget     \* faults and scans so far

provVars == <<provBytes, provCache, provPc, provJob, provSet, provLeft, provRead,
              provVerdict, provFound, provState, provExpired, provTouched, provHampered, provBudget>>

provHost == <<provBytes, provTouched>>
provSweep == <<provLeft, provRead, provVerdict, provFound>>

ProvNoJob == [pc |-> "wait", tries |-> 0, got |-> "none"]
ProvNoSet == [covered |-> {}, failures |-> {}, unpublished |-> {}]
ProvNoFile == [path |-> "none", bytes |-> "gone"]
ProvDone(got) == [pc |-> "done", tries |-> 0, got |-> got]

ProvReleased(p) == {a \in ProvArtefacts : p \in ProvListed[a]}

ProvInit ==
    /\ provBytes \in [ProvPaths -> ProvArtefacts \cup {"patch"}]
    /\ \A p \in ProvPaths : provBytes[p] \in ProvReleased(p) \cup {"patch"}
    /\ provCache \in [ProvArtefacts -> {"none", "foreign", "broken"}]
    /\ \A a \in ProvPlugins : provCache[a] = "none"
    /\ provPc = "idle" /\ provJob = [a \in ProvArtefacts |-> ProvNoJob]
    /\ provSet = ProvNoSet /\ provLeft = <<>> /\ provRead = ProvNoFile
    /\ provVerdict = [p \in ProvPaths |-> "none"] /\ provFound = {}
    /\ provState = "none" /\ provExpired = FALSE
    /\ provTouched = {} /\ provHampered = FALSE
    /\ provBudget = [faults |-> 0, scans |-> 0]

ProvFaulty ==
    /\ provBudget.faults < ProvMaxFaults
    /\ provBudget' = [provBudget EXCEPT !.faults = @ + 1]
    /\ provHampered' = TRUE

ProvSound == UNCHANGED <<provBudget, provHampered>>

-----------------------------------------------------------------------------
(* Fetching one manifest: httpFetcher, fetchOnce *)

ProvFetching(a) == provJob[a].pc \in {"cache", "try", "backoff", "store"}

\* The core is fetched alone, the plugins by as many as the semaphore admits;
\* who gets through when the scan has ended does not ask at all.
ProvAcquire(a) ==
    /\ provJob[a].pc = "wait"
    /\ \/ provPc = "core" /\ a = ProvCore
       \/ /\ provPc = "plugins" /\ a # ProvCore
          /\ Cardinality({b \in ProvPlugins : ProvFetching(b)}) < ProvWorkers
    /\ provJob' = [provJob EXCEPT ![a] =
                      IF provExpired /\ a # ProvCore THEN ProvDone("fault")
                      ELSE [@ EXCEPT !.pc = "cache"]]
    /\ UNCHANGED <<provHost, provCache, provPc, provSet, provSweep, provState, provExpired,
                   provHampered, provBudget>>

\* A cached body that begins like JSON is taken for the manifest; another is
\* removed and fetched again.
ProvLookInCache(a) ==
    /\ provJob[a].pc = "cache"
    /\ \/ /\ provCache[a] \in {"whole", "broken"}
          /\ provJob' = [provJob EXCEPT ![a] =
                            ProvDone(IF provCache[a] = "whole" THEN "whole" ELSE "fault")]
          /\ UNCHANGED provCache
       \/ /\ provCache[a] \in {"none", "foreign"}
          /\ provJob' = [provJob EXCEPT ![a].pc = "try"]
          /\ provCache' = [provCache EXCEPT ![a] = "none"]
    /\ UNCHANGED <<provHost, provPc, provSet, provSweep, provState, provExpired, provHampered,
                   provBudget>>

\* A mutant of ProvTryFails: what cannot be fetched counts as not published.
ProvTryGivesUp(a) ==
    /\ provJob[a].pc = "try" /\ ~provExpired /\ ProvFaulty
    /\ provJob' = [provJob EXCEPT ![a] = ProvDone("unpublished")]
    /\ UNCHANGED <<provHost, provCache, provPc, provSet, provSweep, provState, provExpired>>

\* A request that fails is repeated, after a wait, a few times.
ProvTryFails(a) ==
    /\ provJob[a].pc = "try" /\ ~provExpired /\ ProvFaulty
    /\ provJob' = [provJob EXCEPT ![a] =
                      IF @.tries + 1 = ProvAttempts THEN ProvDone("fault")
                      ELSE [@ EXCEPT !.tries = provJob[a].tries + 1, !.pc = "backoff"]]
    /\ UNCHANGED <<provHost, provCache, provPc, provSet, provSweep, provState, provExpired>>

\* The authority answers: with the manifest, or that there is none, which no
\* repetition can change.
ProvTryAnswered(a) ==
    /\ provJob[a].pc = "try" /\ ~provExpired /\ ProvSound
    /\ provJob' = [provJob EXCEPT ![a] =
                      IF a = ProvCore \/ a \in ProvPublic
                      THEN [@ EXCEPT !.pc = "store", !.got = "whole"]
                      ELSE ProvDone("unpublished")]
    /\ UNCHANGED <<provHost, provCache, provPc, provSet, provSweep, provState, provExpired>>

\* Something else answers: what does not begin like JSON is not kept, what
\* does is; neither is a manifest.
ProvTryMisled(a) ==
    /\ provJob[a].pc = "try" /\ ~provExpired /\ ProvFaulty
    /\ provJob' \in {[provJob EXCEPT ![a] = ProvDone("fault")],
                     [provJob EXCEPT ![a].pc = "store", ![a].got = "broken"]}
    /\ UNCHANGED <<provHost, provCache, provPc, provSet, provSweep, provState, provExpired>>

\* The scan has ended: during a request or the wait for the next one.
ProvTryEnds(a) ==
    /\ provJob[a].pc \in {"try", "backoff"} /\ provExpired
    /\ provJob' = [provJob EXCEPT ![a] = ProvDone("fault")]
    /\ UNCHANGED <<provHost, provCache, provPc, provSet, provSweep, provState, provExpired,
                   provHampered, provBudget>>

ProvBackoff(a) ==
    /\ provJob[a].pc = "backoff" /\ ~provExpired
    /\ provJob' = [provJob EXCEPT ![a].pc = "try"]
    /\ UNCHANGED <<provHost, provCache, provPc, provSet, provSweep, provState, provExpired,
                   provHampered, provBudget>>

\* The body is written to the cache, or the disk refuses it, before it is
\* decoded.
ProvStore(a) ==
    /\ provJob[a].pc = "store"
    /\ \/ ProvSound /\ provCache' = [provCache EXCEPT ![a] = provJob[a].got]
       \/ ProvFaulty /\ UNCHANGED provCache
    /\ provJob' = [provJob EXCEPT ![a] =
                      ProvDone(IF @.got = "whole" THEN "whole" ELSE "fault")]
    /\ UNCHANGED <<provHost, provPc, provSet, provSweep, provState, provExpired>>

-----------------------------------------------------------------------------
(* buildProvenance *)

\* The check is not run offline; the version of the core may be unreadable,
\* and then its manifest is not asked for.
ProvBegin ==
    /\ provPc = "idle" /\ provBudget.scans < ProvMaxScans
    /\ provBudget' = [provBudget EXCEPT !.scans = @ + 1]
    /\ provHampered' = (\E a \in ProvArtefacts : provCache[a] = "broken")
    /\ provPc' = "core"
    /\ provJob' = [a \in ProvArtefacts |-> ProvNoJob]
    /\ provSet' = ProvNoSet /\ provLeft' = ProvTree /\ provRead' = ProvNoFile
    /\ provVerdict' = [p \in ProvPaths |-> "none"] /\ provFound' = {}
    /\ provState' = "none" /\ provExpired' = FALSE /\ provTouched' = {}
    /\ UNCHANGED <<provBytes, provCache>>

\* For the core every failure is one, a manifest that does not exist as well.
ProvCoreLoaded ==
    /\ provPc = "core"
    /\ \/ /\ provJob[ProvCore].pc = "done" /\ ProvSound
          /\ provSet' = IF provJob[ProvCore].got = "whole"
                        THEN [provSet EXCEPT !.covered = {ProvCore}]
                        ELSE [provSet EXCEPT !.failures = {ProvCore}]
       \/ /\ provJob[ProvCore].pc = "wait" /\ ProvFaulty
          /\ provSet' = [provSet EXCEPT !.failures = {ProvCore}]
    /\ provPc' = "plugins"
    /\ UNCHANGED <<provHost, provCache, provJob, provSweep, provState, provExpired>>

\* All goroutines have come back: what they bring is put together.
ProvLoaded ==
    /\ provPc = "plugins"
    /\ \A a \in ProvPlugins : provJob[a].pc = "done"
    /\ LET with(got) == {a \in ProvPlugins : provJob[a].got = got}
       IN  provSet' = [covered |-> provSet.covered \cup with("whole"),
                       failures |-> provSet.failures \cup with("fault"),
                       unpublished |-> with("unpublished")]
    /\ provPc' = "sweep"
    /\ UNCHANGED <<provHost, provCache, provJob, provSweep, provState, provExpired,
                   provHampered, provBudget>>

-----------------------------------------------------------------------------
(* The sweep: provenanceVerdict, emitUnexpected, emitModified *)

\* What the set expects of a path: a plugin's manifest overrides the core's,
\* which lists the plugins the core brings along.
ProvExpected(p) ==
    LET owners == {a \in provSet.covered : p \in ProvListed[a]}
    IN  IF owners \ {ProvCore} # {} THEN owners \ {ProvCore} ELSE owners

\* Only the trees of the artefacts are covered: a file of the core outside of
\* wp-admin and wp-includes is expected, and in no tree.
ProvCovered(p) == ProvIn[p] \in provSet.covered

\* "now" is read again for a file of which the sweep has only a part.
ProvVerdictOf(p, bytes, now) ==
    LET seen == IF p \in ProvLarge THEN now ELSE bytes
    IN  CASE ~ProvCovered(p) ->
                IF p \notin ProvLarge /\ <<p, bytes>> \in ProvAttested THEN "attested"
                ELSE "uncovered"
          [] ProvCovered(p) /\ ProvExpected(p) = {} ->
                IF p \in ProvIgnorable THEN "uncovered" ELSE "unexpected"
          [] OTHER -> IF seen \in ProvExpected(p) THEN "verified" ELSE "modified"

\* A worker reads a file; one that is gone is a read error.
ProvReads ==
    /\ provPc = "sweep" /\ provRead = ProvNoFile /\ provLeft # <<>>
    /\ provLeft' = Tail(provLeft)
    /\ provRead' = LET p == Head(provLeft)
                   IN  IF provBytes[p] = "gone" THEN ProvNoFile
                       ELSE [path |-> p, bytes |-> provBytes[p]]
    /\ UNCHANGED <<provHost, provCache, provPc, provJob, provSet, provVerdict, provFound,
                   provState, provExpired, provHampered, provBudget>>

\* A finding is made of the file as it is by now, if it still is; of a file
\* that was modified it leads only if it can do something.
ProvJudge ==
    /\ provPc = "sweep" /\ provRead # ProvNoFile
    /\ LET p == provRead.path
           v == ProvVerdictOf(p, provRead.bytes, provBytes[p])
       IN  /\ provVerdict' = [provVerdict EXCEPT ![p] = v]
           /\ provFound' = provFound \cup
                 (IF v \in {"unexpected", "modified"} /\ provBytes[p] # "gone"
                  THEN {[path |-> p, rule |-> v,
                         leads |-> v = "unexpected" \/ provBytes[p] = "sink"]} ELSE {})
    /\ provRead' = ProvNoFile
    /\ UNCHANGED <<provHost, provCache, provPc, provJob, provSet, provLeft, provState,
                   provExpired, provHampered, provBudget>>

\* The scan's context ends the sweep.
ProvSweepEnds ==
    /\ provPc = "sweep" /\ provExpired /\ provRead = ProvNoFile /\ provLeft # <<>>
    /\ provLeft' = <<>>
    /\ UNCHANGED <<provHost, provCache, provPc, provJob, provSet, provRead, provVerdict,
                   provFound, provState, provExpired, provHampered, provBudget>>

\* reportProvenance: no manifest, or one that could not be had, makes the
\* check unavailable.
ProvReport ==
    /\ provPc = "sweep" /\ provRead = ProvNoFile /\ provLeft = <<>>
    /\ provState' = IF provSet.covered = {} \/ provSet.failures # {}
                    THEN "unavailable" ELSE "ok"
    /\ provPc' = "idle"
    /\ UNCHANGED <<provHost, provCache, provJob, provSet, provSweep, provExpired, provHampered,
                   provBudget>>

-----------------------------------------------------------------------------
(* What else happens *)

ProvExpire ==
    /\ provPc # "idle" /\ ~provExpired /\ ProvFaulty
    /\ provExpired' = TRUE
    /\ UNCHANGED <<provHost, provCache, provPc, provJob, provSet, provSweep, provState>>

\* The agent dies; a body it was writing is there in part, or empty, and an
\* empty one is fetched again.
ProvCrash ==
    /\ provPc # "idle" /\ ProvFaulty
    /\ provCache' \in {c \in [ProvArtefacts -> {"none", "whole", "broken", "foreign"}] :
                          \A a \in ProvArtefacts :
                              \/ c[a] = provCache[a]
                              \/ provJob[a].pc = "store" /\ c[a] \in {"none", "broken"}}
    /\ provPc' = "idle" /\ provState' = "none"
    /\ provJob' = [a \in ProvArtefacts |-> ProvNoJob]
    /\ provVerdict' = [p \in ProvPaths |-> "none"] /\ provFound' = {}
    /\ provLeft' = <<>> /\ provRead' = ProvNoFile /\ provSet' = ProvNoSet
    /\ UNCHANGED <<provHost, provExpired>>

\* The host changes a file under the sweep; what it changed before is in the
\* initial states.  The cached manifests get too old to be used.
HostEdits(p) ==
    /\ provPc = "sweep"
    /\ provBudget.faults < ProvMaxFaults
    /\ provBudget' = [provBudget EXCEPT !.faults = @ + 1]
    /\ \E b \in ProvEdits \cup {"gone"} :
          b # provBytes[p] /\ provBytes' = [provBytes EXCEPT ![p] = b]
    /\ provTouched' = provTouched \cup {p}
    /\ UNCHANGED <<provCache, provPc, provJob, provSet, provSweep, provState,
                   provExpired, provHampered>>

ProvCacheAges ==
    /\ provPc = "idle" /\ \E a \in ProvArtefacts : provCache[a] # "none"
    /\ provCache' = [a \in ProvArtefacts |-> "none"]
    /\ UNCHANGED <<provHost, provPc, provJob, provSet, provSweep, provState, provExpired,
                   provHampered, provBudget>>

-----------------------------------------------------------------------------
ProvFetch(a) ==
    \/ ProvAcquire(a) \/ ProvLookInCache(a) \/ ProvTryAnswered(a) \/ ProvTryFails(a)
    \/ ProvTryMisled(a) \/ ProvTryEnds(a) \/ ProvBackoff(a) \/ ProvStore(a)

ProvMain ==
    ProvCoreLoaded \/ ProvLoaded \/ ProvReads \/ ProvJudge \/ ProvSweepEnds \/ ProvReport

ProvNext ==
    \/ ProvBegin \/ ProvMain \/ ProvExpire \/ ProvCrash \/ ProvCacheAges
    \/ \E a \in ProvArtefacts : ProvFetch(a)
    \/ \E p \in ProvPaths : HostEdits(p)

ProvSpec == ProvInit /\ [][ProvNext]_provVars

-----------------------------------------------------------------------------
(* Properties *)

ProvBodies == {"none", "whole", "broken", "foreign"}
ProvFileBytes == ProvArtefacts \cup ProvEdits \cup {"gone"}
ProvJobs == [pc : {"wait", "cache", "try", "backoff", "store", "done"}, tries : 0..ProvAttempts,
             got : {"none", "whole", "broken", "unpublished", "fault"}]
ProvSets == [covered : SUBSET ProvArtefacts, failures : SUBSET ProvArtefacts,
             unpublished : SUBSET ProvArtefacts]

ProvTypeOK ==
    /\ provBytes \in [ProvPaths -> ProvFileBytes]
    /\ provCache \in [ProvArtefacts -> ProvBodies]
    /\ provPc \in {"idle", "core", "plugins", "sweep"}
    /\ provJob \in [ProvArtefacts -> ProvJobs] /\ provSet \in ProvSets
    /\ provLeft \in Seq(ProvPaths) /\ provTouched \subseteq ProvPaths
    /\ provRead \in {ProvNoFile} \cup [path : ProvPaths, bytes : ProvFileBytes]
    /\ provFound \subseteq [path : ProvPaths, rule : {"unexpected", "modified"}, leads : BOOLEAN]
    /\ provBudget \in [faults : 0..ProvMaxFaults, scans : 0..ProvMaxScans]
    /\ provVerdict \in [ProvPaths -> {"none", "uncovered", "attested", "verified", "modified",
                                      "unexpected"}]
    /\ provState \in {"none", "ok", "unavailable"}
    /\ provExpired \in BOOLEAN /\ provHampered \in BOOLEAN

\* "Unexpected is only claimed inside directories we actually have a manifest
\* for": what is called unexpected is in no release of what is published.  A
\* file that nobody changes is verified only if it is as it was released, and
\* one that is as its own plugin's release has it is never called modified.
ProvClaims ==
    \A p \in ProvPaths :
        LET own == ProvIn[p]
        IN  /\ provVerdict[p] = "unexpected" =>
                  /\ p \notin ProvListed[own] \cup ProvIgnorable
                  /\ own \in {ProvCore} \cup ProvPublic
            /\ (provVerdict[p] = "verified" /\ p \notin provTouched) =>
                  provBytes[p] \in ProvReleased(p)
            /\ (provVerdict[p] = "modified" /\ p \notin provTouched) =>
                  own \notin ProvReleased(p) \/ provBytes[p] # own

\* "If the manifests cannot be fetched, the check reports unavailable": it is
\* ok only if every artefact that has a manifest was compared with it.
ProvSilentNever ==
    provState = "ok" => ProvCore \in provSet.covered /\ ProvPublic \subseteq provSet.covered

\* "Every already-poisoned agent repairs itself on its next scan": without a
\* failure in it a scan has every manifest, whatever foreign bytes the cache
\* held - unless these begin like JSON.
ProvHeals == provState # "none" /\ ~provHampered => provState = "ok"

\* No more than the given number of manifests is asked for at a time, and a
\* manifest is given up only when every attempt is used or none makes sense.
ProvModest ==
    /\ Cardinality({a \in ProvPlugins : ProvFetching(a)}) <= ProvWorkers
    /\ \A a \in ProvArtefacts : provJob[a].tries < ProvAttempts

ProvSafe == ProvClaims /\ ProvSilentNever /\ ProvHeals /\ ProvModest
=============================================================================
