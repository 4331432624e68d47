------------------------------- MODULE Monitor --------------------------------
(***************************************************************************)
(* Real-time monitoring (internal/agent/monitor_linux.go and               *)
(* monitor_os_linux.go): one loop reads inotify events in batches, keeps   *)
(* the set of watched directories, evaluates the files written and runs    *)
(* the check of a guarded OS directory, debounced.                         *)
(*                                                                         *)
(* The host creates, fills, moves in and removes directories and writes    *)
(* files at any time, a write being an open and a later close.  Times are  *)
(* ages: what the loop compares is measured from the moment it read its    *)
(* batch, and MonTick is time that passes since.  The kernel's own limit   *)
(* on queued events is left out.                                           *)
(***************************************************************************)
EXTENDS Integers, Sequences, FiniteSets, SequencesExt, FiniteSetsExt

CONSTANTS
    MonRoots,      \* roots of the webroot in order, then OS directories
    MonParent,     \* directory -> its parent, or "none"
    MonFresh,      \* directories that do not exist at first
    MonGuarded,    \* OS directories with a check (one, shared)
    MonFiles,      \* file -> its directory
    MonBudget,     \* watch budget
    MonSweepMax,   \* files evaluated in a new tree
    MonWindow,     \* ticks during which events for a path are coalesced
    MonDebounce,   \* ticks between two runs of the check
    MonMaxWorld    \* bound on what happens on the host

MonDirNames == DOMAIN MonParent
MonFileNames == DOMAIN MonFiles

\* A directory and what it lies in, up to the top: the least set that holds it
\* and, with a directory, its parent.
MonPath ==
    [d \in MonDirNames |->
        {e \in MonDirNames :
            \A S \in SUBSET MonDirNames :
                (d \in S /\ \A c \in S : MonParent[c] \in MonDirNames => MonParent[c] \in S) => e \in S}]

ASSUME MonAssumption ==
    /\ {MonBudget, MonSweepMax, MonWindow, MonDebounce, MonMaxWorld} \subseteq Nat
    /\ IsFiniteSet(MonDirNames) /\ IsFiniteSet(MonFileNames)
    /\ MonFileNames \cap MonDirNames = {}
    /\ MonFiles \in [MonFileNames -> MonDirNames]
    /\ MonRoots \in Seq(MonDirNames)
    /\ MonGuarded \subseteq MonDirNames /\ MonFresh \subseteq MonDirNames

\* What comes and goes lies in what is there from the start, which is a tree; a
\* directory that comes and goes in a guarded one is guarded or not watched at
\* all, so it is not among the names.
ASSUME MonTreeAssumption ==
    \A d \in MonDirNames :
        /\ \E e \in MonPath[d] : e \notin MonFresh
        /\ d \notin MonFresh => MonParent[d] \notin MonFresh
        /\ d \in MonFresh \ MonGuarded => MonParent[d] \notin MonGuarded

VARIABLES
    monDirs,      \* directories that exist
    monFile,      \* file -> its content, 0 when absent, and whether it is open
    monQueue,     \* events in the kernel
    monKernel,    \* directories there are that the kernel watches
    monAdrift,    \* directories moved away that the kernel watches all the same
    monWatched,   \* directories in paths and byPath
    monBatch,     \* events read and not handled
    monJob,       \* walk under way: directories to watch, to sweep, files left
    monSeen,      \* file -> content evaluated last
    monRecent,    \* file -> age of the event evaluated last
    monOs,        \* writes under guarded directories; the check's last and
                  \* pending; what it last saw
    monLag,       \* ticks since the loop read its batch
    monExcused,   \* files and directories the code gives up (history)
    monWorld      \* steps of the host so far

monVars == <<monDirs, monFile, monQueue, monKernel, monAdrift, monWatched, monBatch, monJob,
             monSeen, monRecent, monOs, monLag, monExcused, monWorld>>

MonLong == Max({MonWindow, MonDebounce})

MonEvent(kind, dir, path) == [kind |-> kind, dir |-> dir, path |-> path]
MonNoJob == [watch |-> <<>>, sweep |-> <<>>, left |-> 0]

MonInit ==
    /\ monDirs = MonDirNames \ MonFresh
    /\ monFile = [f \in MonFileNames |-> [ver |-> 0, open |-> FALSE]]
    /\ monQueue = <<>>
    /\ monKernel = {}
    /\ monAdrift = {}
    /\ monWatched = {}
    /\ monBatch = <<>>
    /\ monJob = [MonNoJob EXCEPT !.watch = MonRoots]
    /\ monSeen = [f \in MonFileNames |-> 0]
    /\ monRecent = [f \in MonFileNames |-> MonLong]
    /\ monOs = [ver |-> 0, seen |-> 0, age |-> MonLong, pending |-> FALSE]
    /\ monLag = 0
    /\ monExcused = {}
    /\ monWorld = 0

-----------------------------------------------------------------------------
(* The loop *)

\* A directory is registered, unless it is gone, byPath has it already or the
\* budget is exhausted.  One that then has no watch is given up: byPath may
\* still have it of an earlier directory of that name.
MonWatch(d) ==
    LET add == d \in monDirs \ monWatched /\ Cardinality(monWatched) < MonBudget
    IN  /\ monKernel' = IF add THEN monKernel \cup {d} ELSE monKernel
        /\ monWatched' = IF add THEN monWatched \cup {d} ELSE monWatched
        /\ monExcused' = IF add \/ d \in monKernel THEN monExcused ELSE monExcused \cup {d}

\* A step of addTree, which goes on below a directory that is already watched,
\* but not below one that is over the budget; addDir does not descend.
AddTree ==
    /\ monJob.watch # <<>>
    /\ LET d == Head(monJob.watch)
           below == IF d \in MonGuarded \/ Cardinality(monWatched) >= MonBudget THEN {}
                    ELSE {e \in monDirs : MonParent[e] = d}
       IN  /\ MonWatch(d)
           /\ monJob' = [monJob EXCEPT !.watch = SetToSeq(below) \o Tail(@)]
    /\ UNCHANGED <<monDirs, monFile, monQueue, monAdrift, monBatch, monSeen, monRecent, monOs,
                   monLag, monWorld>>

\* evaluatePath reads a file as it is now, if it is there.
MonEvaluate(fs) == monSeen' = [f \in MonFileNames |-> IF f \in fs THEN monFile[f].ver ELSE monSeen[f]]

\* sweepNewTree: the files of the new tree, up to the limit.
SweepNewTree ==
    /\ monJob.watch = <<>>
    /\ monJob.sweep # <<>>
    /\ LET d == Head(monJob.sweep)
           here == {f \in MonFileNames : MonFiles[f] = d /\ monFile[f].ver > 0}
       IN  \E fs \in SUBSET here :
              /\ Cardinality(fs) = Min({Cardinality(here), monJob.left})
              /\ MonEvaluate(fs)
              /\ monExcused' = monExcused \cup (here \ fs)
              /\ monJob' = [monJob EXCEPT !.left = @ - Cardinality(fs),
                     !.sweep = SetToSeq({e \in monDirs : MonParent[e] = d}) \o Tail(@)]
    /\ UNCHANGED <<monDirs, monFile, monQueue, monKernel, monAdrift, monWatched, monBatch,
                   monRecent, monOs, monLag, monWorld>>

\* A mutant of MonDue: a suppressed run is dropped.
MonDueDrops(os) ==
    IF os.age < MonDebounce THEN os ELSE [os EXCEPT !.age = 0, !.pending = FALSE, !.seen = os.ver]
\* due, and the run of the check when it is: what is suppressed is deferred.
MonDue(os) ==
    IF os.age < MonDebounce THEN [os EXCEPT !.pending = TRUE]
    ELSE [os EXCEPT !.age = 0, !.pending = FALSE, !.seen = os.ver]

\* Top of the loop: the clock is read, takePending runs what is owed, and the
\* queue is read.
MonAged(age) == Min({MonLong, age + monLag})

ReadEvents ==
    /\ monJob.watch = <<>> /\ monJob.sweep = <<>>
    /\ monBatch = <<>>
    /\ monBatch' = monQueue
    /\ monQueue' = <<>>
    /\ monRecent' = [f \in MonFileNames |-> MonAged(monRecent[f])]
    /\ LET os == [monOs EXCEPT !.age = MonAged(@)]
       IN  monOs' = IF os.pending /\ os.age >= MonDebounce THEN MonDue(os) ELSE os
    /\ monLag' = 0
    /\ UNCHANGED <<monDirs, monFile, monKernel, monAdrift, monWatched, monJob, monSeen,
                   monExcused, monWorld>>

MonNextEvent(kinds) ==
    /\ monJob.watch = <<>> /\ monJob.sweep = <<>>
    /\ monBatch # <<>>
    /\ Head(monBatch).kind \in kinds
    /\ monBatch' = Tail(monBatch)
    /\ UNCHANGED <<monDirs, monFile, monQueue, monAdrift, monLag, monWorld>>

\* An event in a guarded directory, its own end included: a guarded directory
\* that is created is watched, and its check runs if something is already in
\* it; then the check of the directory the event is for.  The index is not told
\* that a guarded directory is gone, and refuses one created in its place.
HandleGuarded ==
    /\ MonNextEvent({"create", "write", "moved", "gone"})
    /\ Head(monBatch).dir \in MonGuarded
    /\ LET d == Head(monBatch).path
           appeared == Head(monBatch).kind = "create" /\ d \in MonGuarded /\ d \in monDirs
           populated == \E f \in MonFileNames : MonFiles[f] = d /\ monFile[f].ver > 0
       IN  /\ IF appeared THEN MonWatch(d)
              ELSE UNCHANGED <<monKernel, monWatched, monExcused>>
           /\ monOs' = MonDue(IF appeared /\ populated THEN MonDue(monOs) ELSE monOs)
    /\ UNCHANGED <<monJob, monSeen, monRecent>>

\* A mutant of HandleNewDir: the new directory is not swept.
HandleNewDirUnswept ==
    /\ MonNextEvent({"create"})
    /\ Head(monBatch).dir \notin MonGuarded
    /\ Head(monBatch).path \in monDirs
    /\ monJob' = [MonNoJob EXCEPT !.watch = <<Head(monBatch).path>>]
    /\ UNCHANGED <<monKernel, monWatched, monSeen, monRecent, monOs, monExcused>>

\* A directory created in the webroot is watched and swept.
HandleNewDir ==
    /\ MonNextEvent({"create"})
    /\ Head(monBatch).dir \notin MonGuarded
    /\ Head(monBatch).path \in monDirs
    /\ monJob' = [watch |-> <<Head(monBatch).path>>, sweep |-> <<Head(monBatch).path>>,
                  left |-> MonSweepMax]
    /\ UNCHANGED <<monKernel, monWatched, monSeen, monRecent, monOs, monExcused>>

\* IN_DELETE_SELF or IN_MOVE_SELF: the index forgets the directory, and does
\* not ask the kernel to.
HandleGone ==
    /\ MonNextEvent({"gone"})
    /\ Head(monBatch).dir \notin MonGuarded
    /\ monWatched' = monWatched \ {Head(monBatch).path}
    /\ UNCHANGED <<monKernel, monJob, monSeen, monRecent, monOs, monExcused>>

\* Any other event: coalesced, or the path is evaluated; a directory moved in
\* is not regular, and that is all that happens to it.
HandlePath ==
    /\ MonNextEvent({"create", "write", "moved"})
    /\ Head(monBatch).dir \notin MonGuarded
    /\ ~(Head(monBatch).kind = "create" /\ Head(monBatch).path \in monDirs)
    /\ LET f == Head(monBatch).path
       IN  \/ /\ f \in MonDirNames
              /\ UNCHANGED <<monSeen, monRecent, monExcused>>
           \/ /\ f \in MonFileNames
              /\ monRecent[f] < MonWindow
              /\ monExcused' = monExcused \cup {f}
              /\ UNCHANGED <<monSeen, monRecent>>
           \/ /\ f \in MonFileNames
              /\ monRecent[f] >= MonWindow
              /\ monRecent' = [monRecent EXCEPT ![f] = 0]
              /\ MonEvaluate({f})
              /\ UNCHANGED monExcused
    /\ UNCHANGED <<monKernel, monWatched, monJob, monOs>>

MonLoop ==
    \/ AddTree \/ SweepNewTree \/ ReadEvents \/ HandleGuarded \/ HandleNewDir \/ HandleGone
    \/ HandlePath

MonTick ==
    /\ monLag < MonLong
    /\ monLag' = monLag + 1
    /\ UNCHANGED <<monDirs, monFile, monQueue, monKernel, monAdrift, monWatched, monBatch, monJob,
                   monSeen, monRecent, monOs, monExcused, monWorld>>

-----------------------------------------------------------------------------
(* The host *)

\* What was there before the watches is the business of the scan at the start.
MonWorldStep(d) ==
    /\ d \in monKernel \cup monExcused \cup MonFresh
    /\ monWorld < MonMaxWorld
    /\ monWorld' = monWorld + 1
    /\ UNCHANGED <<monWatched, monBatch, monJob, monSeen, monRecent, monLag>>

\* The kernel queues an event for a directory it watches.
MonNotify(event) ==
    monQueue' = IF event.dir \in monKernel THEN Append(monQueue, event) ELSE monQueue

\* open(2), truncating or creating; content is partial until close(2).
HostOpen(f) ==
    /\ MonWorldStep(MonFiles[f])
    /\ MonFiles[f] \in monDirs
    /\ ~monFile[f].open
    /\ monFile' = [monFile EXCEPT ![f] = [ver |-> @.ver + 1, open |-> TRUE]]
    /\ IF monFile[f].ver = 0 THEN MonNotify(MonEvent("create", MonFiles[f], f)) ELSE UNCHANGED monQueue
    /\ UNCHANGED <<monDirs, monKernel, monAdrift, monOs, monExcused>>

HostClose(f) ==
    /\ UNCHANGED <<monWatched, monBatch, monJob, monSeen, monRecent, monLag, monWorld>>
    /\ monFile[f].open
    /\ monFile' = [monFile EXCEPT ![f] = [ver |-> @.ver + 1, open |-> FALSE]]
    /\ monOs' = IF MonFiles[f] \in MonGuarded THEN [monOs EXCEPT !.ver = @ + 1] ELSE monOs
    /\ MonNotify(MonEvent("write", MonFiles[f], f))
    /\ UNCHANGED <<monDirs, monKernel, monAdrift, monExcused>>

HostMkdir(d) ==
    /\ MonWorldStep(MonParent[d])
    /\ d \notin monDirs
    /\ MonParent[d] \in monDirs
    /\ monDirs' = monDirs \cup {d}
    /\ monExcused' = monExcused \ {d}
    /\ MonNotify(MonEvent("create", MonParent[d], d))
    /\ UNCHANGED <<monFile, monKernel, monAdrift, monOs>>

\* A directory is moved in from elsewhere with a file in it.  One that was
\* moved away before brings its watch along, but the index has no path for it
\* any more and the loop drops its events: it is as one that is not watched.
HostMoveIn(d) ==
    /\ MonWorldStep(MonParent[d])
    /\ d \notin monDirs
    /\ MonParent[d] \in monDirs
    /\ monDirs' = monDirs \cup {d}
    /\ \E f \in MonFileNames :
          /\ MonFiles[f] = d
          /\ monFile' = [monFile EXCEPT ![f].ver = @ + 2]
    /\ monExcused' = monExcused \cup {d}
    /\ monOs' = IF d \in MonGuarded THEN [monOs EXCEPT !.ver = @ + 1] ELSE monOs
    /\ MonNotify(MonEvent("moved", MonParent[d], d))
    /\ UNCHANGED <<monKernel, monAdrift>>

\* A directory is removed with all that is in it; the kernel drops its watch.
HostRemove(d) ==
    /\ MonWorldStep(d)
    /\ d \in monDirs \cap MonFresh
    /\ \A e \in monDirs : MonParent[e] # d
    /\ \A f \in MonFileNames : MonFiles[f] = d => ~monFile[f].open
    /\ monDirs' = monDirs \ {d}
    /\ monFile' = [f \in MonFileNames |->
                      IF MonFiles[f] = d THEN [ver |-> 0, open |-> FALSE] ELSE monFile[f]]
    /\ MonNotify(MonEvent("gone", d, d))
    /\ monKernel' = monKernel \ {d}
    /\ UNCHANGED <<monAdrift, monOs, monExcused>>

\* A directory is moved elsewhere with all that is in it, and only it says so.
\* The kernel watches every directory of the tree where it is now, for nobody
\* removes a watch; what happens there is left out.
HostMoveOut(d) ==
    /\ MonWorldStep(d)
    /\ d \in monDirs \cap MonFresh
    /\ LET tree == {e \in monDirs : d \in MonPath[e]}
       IN  /\ monDirs' = monDirs \ tree
           /\ monKernel' = monKernel \ tree
           /\ monAdrift' = monAdrift \cup (monKernel \cap tree)
           /\ monFile' = [f \in MonFileNames |->
                             IF MonFiles[f] \in tree THEN [ver |-> 0, open |-> FALSE] ELSE monFile[f]]
    /\ MonNotify(MonEvent("gone", d, d))
    /\ UNCHANGED <<monOs, monExcused>>

MonNext ==
    \/ MonLoop \/ MonTick
    \/ \E f \in MonFileNames : HostOpen(f) \/ HostClose(f)
    \/ \E d \in MonDirNames : HostMkdir(d) \/ HostMoveIn(d) \/ HostRemove(d) \/ HostMoveOut(d)

MonFairness ==
    /\ WF_monVars(MonLoop)
    /\ WF_monVars(MonTick)
    /\ WF_monVars(\E f \in MonFileNames : HostClose(f))

MonSpec == MonInit /\ [][MonNext]_monVars /\ MonFairness

-----------------------------------------------------------------------------
(* Properties *)

MonEvents ==
    [kind : {"create", "write", "moved", "gone"}, dir : MonDirNames,
     path : MonDirNames \cup MonFileNames]

MonTypeOK ==
    /\ {monDirs, monKernel, monAdrift, monWatched} \subseteq SUBSET MonDirNames
    /\ monFile \in [MonFileNames -> [ver : Nat, open : BOOLEAN]]
    /\ monSeen \in [MonFileNames -> Nat]
    /\ monRecent \in [MonFileNames -> 0..MonLong]
    /\ monQueue \in Seq(MonEvents) /\ monBatch \in Seq(MonEvents)
    /\ monJob \in [watch : Seq(MonDirNames), sweep : Seq(MonDirNames), left : 0..MonSweepMax]
    /\ monOs \in [ver : Nat, seen : Nat, age : 0..MonLong, pending : BOOLEAN]
    /\ monOs.seen <= monOs.ver
    /\ monExcused \subseteq MonDirNames \cup MonFileNames
    /\ monLag \in 0..MonLong /\ monWorld \in 0..MonMaxWorld

MonUnread == Range(monQueue) \cup Range(monBatch)

\* A directory the loop still has to look into: it, or one that it lies in, is
\* to be walked or swept, or its creation is queued.
MonExpected(d) ==
    \E e \in MonPath[d] :
        \/ e \in Range(monJob.watch) \cup Range(monJob.sweep)
        \/ \E v \in MonUnread : v.kind = "create" /\ v.path = e

\* A directory whose files the kernel does not report on: it, or one that it
\* lies in, is over the budget, was moved in, or came back before the loop had
\* read that it was gone.
MonUncovered(d) == MonPath[d] \cap monExcused # {}

\* "mkdir x && cp shell.php x/ closes that window in microseconds": every
\* closed file of the webroot has been evaluated as it is now, or the event
\* or the sweep that will do it is on its way - wherever its directory was
\* created, removed and created again meanwhile.  Files that are coalesced,
\* past the sweep's limit or beyond the budget are left to the full sweep, and
\* so are those of a directory that byPath still has of its predecessor.
MonWritesCovered ==
    \A f \in MonFileNames :
        \/ MonFiles[f] \in MonGuarded
        \/ monFile[f].ver = 0 \/ monFile[f].open \/ monSeen[f] = monFile[f].ver
        \/ f \in monExcused \/ MonUncovered(MonFiles[f])
        \/ MonExpected(MonFiles[f])
        \/ \E e \in MonUnread : e.path = f /\ e.kind = "write"

\* The index that events are looked up in, and whose size the code takes for
\* the number of its watches, keeps within the budget; every directory there is
\* that the kernel watches is in it; and it wastes no more of the budget than
\* on directories whose end the loop is still to read, on those moved away with
\* their parent and on the guarded ones, which it never forgets.  The kernel's
\* own watches are more than that: each directory moved away keeps its watch.
MonWatchesAccounted ==
    /\ Cardinality(monWatched) <= MonBudget
    /\ monKernel \subseteq monWatched
    /\ \A d \in monWatched \ monKernel :
          \/ d \in monAdrift \cup MonGuarded
          \/ \E v \in MonUnread : v.kind = "gone" /\ v.path = d

\* "A suppressed run is deferred, not dropped": what is written under a
\* guarded directory is seen by its check in the end, whatever else consumed
\* the debounce, unless a guarded directory is not watched: it was over the
\* budget, moved in, or created where byPath still has one that was removed.
MonDeferredRuns ==
    monOs.seen < monOs.ver ~> (monOs.seen = monOs.ver \/ MonGuarded \cap monExcused # {})

\* No write goes unseen that the watches are there for, within their budget.
MonSafe == MonWritesCovered /\ MonWatchesAccounted
=============================================================================
