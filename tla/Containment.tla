---------------------------- MODULE Containment -----------------------------
(***************************************************************************)
(* Containment on a host (internal/agent/contain.go, contain_linux.go,     *)
(* probeHealth in probe.go): launchers are commented out, then processes   *)
(* frozen, captured, killed and looked for again, then files quarantined   *)
(* and put back if the site stops serving, then the bytecode cache flushed.*)
(*                                                                         *)
(* The host goes on living between any two steps: processes exit and their *)
(* pid is reused, files are edited, a launcher starts its process again,   *)
(* the site breaks on its own.  A file holds what the scan saw or not; a   *)
(* pid is the process found, one of the same name, or another.             *)
(***************************************************************************)
EXTENDS Naturals, Sequences, Functions

CONSTANTS
    ContFindings,     \* findings of the report, in order
    ContMaxActions,   \* MaxActions, the circuit breaker
    ContPids,         \* pids
    ContProtected,    \* pids of findings whose name is on the protected list
    ContVital,        \* files the site cannot serve without
    ContMaxWorld      \* bound on what happens to the host meanwhile

ContKinds == {"launcher", "process", "file"}
ContPaths(kind) == {f.path : f \in {g \in Range(ContFindings) : g.kind = kind}}

\* A process is found by its pid; what the site needs is among its files.
ASSUME ContAssumption ==
    /\ ContMaxActions \in Nat /\ ContMaxWorld \in Nat
    /\ ContFindings \in Seq(Range(ContFindings))
    /\ \A f \in Range(ContFindings) :
          f.kind \in ContKinds /\ (f.kind = "process" => f.pid \in ContPids)
    /\ ContVital \subseteq ContPaths("file")

VARIABLES
    contDry,        \* ContainDryRun
    contPc,         \* where runContainment is
    contTodo,       \* findings that are targets still
    contNow,        \* the finding dealt with
    contActions,    \* targets the budget was spent on
    contGate,       \* the site was serving at the start
    contProc,       \* pid -> the process that has it, and whether it is stopped
    contLauncher,   \* launcher file -> active, moved (to another line) or off
    contFile,       \* file -> seen (as the scan did), changed or absent
    contEvid,       \* file -> what is in the evidence store under its name
    contBroken,     \* the site is down for a reason of its own
    contHit,        \* processes that were signalled (history)
    contRaced,      \* pids whose process exited and files edited between the
                    \* comparison and the act; a file not put back (history)
    contWorld       \* steps of the host so far

contVars == <<contDry, contPc, contTodo, contNow, contActions, contGate, contProc, contLauncher,
              contFile, contEvid, contBroken, contHit, contRaced, contWorld>>

contPlan == <<contTodo, contNow, contActions>>
contHost == <<contProc, contLauncher, contFile, contEvid, contBroken>>

-----------------------------------------------------------------------------
(* Selection *)

\* persistenceTargets: launchers found with any certainty.
ContIsLauncher(f) == f.kind = "launcher" /\ f.conf \in {"confirmed", "likely"}
\* selectTargets: only what is confirmed; a pid makes it a process.
ContIsProcess(f) == f.conf = "confirmed" /\ f.kind = "process"
ContIsFile(f) == f.conf = "confirmed" /\ f.kind = "file" /\ f.actionable

\* "Neutralise persistence, THEN freeze ..., THEN" the files, each in the
\* order of the report.
ContTargets ==
    {i \in DOMAIN ContFindings : LET f == ContFindings[i]
                                 IN  ContIsLauncher(f) \/ ContIsProcess(f) \/ ContIsFile(f)}

ContRank(kind) == CASE kind = "launcher" -> 1 [] kind = "process" -> 2 [] kind = "file" -> 3

ContBefore(i, j) ==
    LET a == ContRank(ContFindings[i].kind)
        b == ContRank(ContFindings[j].kind)
    IN  a < b \/ (a = b /\ i < j)

ContInit ==
    /\ contDry \in BOOLEAN
    /\ contPc = "start"
    /\ contTodo = {} /\ contNow = 0 /\ contActions = 0
    /\ contGate = FALSE
    /\ contProc = [p \in ContPids |->
          [who |-> IF \E f \in Range(ContFindings) : f.kind = "process" /\ f.pid = p
                   THEN "target" ELSE "none", stopped |-> FALSE]]
    /\ contLauncher = [l \in ContPaths("launcher") |-> "active"]
    /\ contFile = [f \in ContPaths("file") |-> "seen"]
    /\ contEvid = [f \in ContPaths("file") |-> "absent"]
    /\ contBroken = FALSE
    /\ contHit = {}
    /\ contRaced = [pids |-> {}, files |-> {}, restore |-> FALSE]
    /\ contWorld = 0

-----------------------------------------------------------------------------
(* runContainment *)

\* probeHealth, serving.
ContServing == ~contBroken /\ \A f \in ContVital : contFile[f] # "absent"

ContGoes(pc) == contPc' = pc

\* Launchers alone are no reason to act: without a process or a file to
\* contain the run ends.
ContStart ==
    /\ contPc = "start"
    /\ contGate' = ContServing
    /\ IF \A i \in ContTargets : ContFindings[i].kind = "launcher"
          THEN ContGoes("done") /\ UNCHANGED contTodo
          ELSE ContGoes("next") /\ contTodo' = ContTargets
    /\ UNCHANGED <<contDry, contNow, contActions, contHost, contHit, contRaced, contWorld>>

ContTarget == ContFindings[contNow]

\* The next target; budget, the circuit breaker, ends the whole run.
ContTake ==
    /\ contPc = "next"
    /\ \E i \in contTodo :
          /\ \A j \in contTodo \ {i} : ContBefore(i, j)
          /\ IF contActions >= ContMaxActions THEN ContGoes("done") /\ UNCHANGED contPlan
             ELSE /\ ContGoes(ContFindings[i].kind)
                  /\ contNow' = i /\ contTodo' = contTodo \ {i} /\ contActions' = contActions + 1
    /\ UNCHANGED <<contDry, contGate, contHost, contHit, contRaced, contWorld>>

\* The target is dealt with, or given up.
ContNextTarget == ContGoes("next")

\* neutralizePersistence comments the recorded line out, whatever is on it by
\* now; reading or writing the file may fail.
NeutralizePersistence ==
    /\ contPc = "launcher"
    /\ ContNextTarget
    /\ \/ UNCHANGED contLauncher
       \/ /\ ~contDry
          /\ contLauncher[ContTarget.path] = "active"
          /\ contLauncher' = [contLauncher EXCEPT ![ContTarget.path] = "off"]
    /\ UNCHANGED <<contDry, contPlan, contGate, contProc, contFile, contEvid, contBroken,
                   contHit, contRaced, contWorld>>

\* containProcess: the protected list, the dry run, and procStillIs, which
\* compares names.
CheckProcess ==
    /\ contPc = "process"
    /\ IF /\ ContTarget.pid \notin ContProtected
          /\ ~contDry
          /\ contProc[ContTarget.pid].who \in {"target", "twin"}
       THEN ContGoes("freeze")
       ELSE ContNextTarget
    /\ UNCHANGED <<contDry, contPlan, contGate, contHost, contHit, contRaced, contWorld>>

ContSignal(p) == contHit' = contHit \cup {[pid |-> p, who |-> contProc[p].who]}

\* SIGSTOP: fails when there is no such process, or it may not be signalled.
FreezeProcess ==
    /\ contPc = "freeze"
    /\ LET p == ContTarget.pid
       IN  \/ /\ contProc[p].who # "none"
              /\ contProc' = [contProc EXCEPT ![p].stopped = TRUE]
              /\ ContSignal(p)
              /\ ContGoes("capture")
           \/ /\ ContNextTarget
              /\ UNCHANGED <<contProc, contHit>>
    /\ UNCHANGED <<contDry, contPlan, contGate, contLauncher, contFile, contEvid, contBroken,
                   contRaced, contWorld>>

\* captureProcess; what it cannot read it leaves out.
CaptureProcess ==
    /\ contPc = "capture"
    /\ ContGoes("kill")
    /\ UNCHANGED <<contDry, contPlan, contGate, contHost, contHit,
                   contRaced, contWorld>>

KillProcess ==
    /\ contPc = "kill"
    /\ LET p == ContTarget.pid
       IN  IF contProc[p].who = "none" THEN UNCHANGED <<contProc, contHit>>
           ELSE /\ contProc' = [contProc EXCEPT ![p] = [who |-> "none", stopped |-> FALSE]]
                /\ ContSignal(p)
    /\ ContGoes("respawn")
    /\ UNCHANGED <<contDry, contPlan, contGate, contLauncher, contFile, contEvid,
                   contBroken, contRaced, contWorld>>

\* findRespawn only reports what it sees.
FindRespawn ==
    /\ contPc = "respawn"
    /\ ContNextTarget
    /\ UNCHANGED <<contDry, contPlan, contGate, contHost, contHit, contRaced, contWorld>>

\* quarantineFile: the dry run, then the file must be there with the digest
\* the scan saw.
CheckFile ==
    /\ contPc = "file"
    /\ IF ~contDry /\ contFile[ContTarget.path] = "seen"
          THEN ContGoes("move")
          ELSE ContNextTarget
    /\ UNCHANGED <<contDry, contPlan, contGate, contHost, contHit, contRaced, contWorld>>

\* moveFile, which may fail, also after the copy that stands in for a rename;
\* a gated run then looks at the site.
MoveFile ==
    /\ contPc = "move"
    /\ LET f == ContTarget.path
       IN  \/ /\ contFile[f] # "absent"
              /\ contFile' = [contFile EXCEPT ![f] = "absent"]
              /\ contEvid' = [contEvid EXCEPT ![f] = contFile[f]]
              /\ IF contGate THEN ContGoes("settle") ELSE ContNextTarget
           \/ /\ contFile[f] # "absent"
              /\ contEvid' = [contEvid EXCEPT ![f] = contFile[f]]
              /\ ContNextTarget
              /\ UNCHANGED contFile
           \/ /\ ContNextTarget
              /\ UNCHANGED <<contFile, contEvid>>
    /\ UNCHANGED <<contDry, contPlan, contGate, contProc, contLauncher, contBroken, contHit,
                   contRaced, contWorld>>

\* restoreQuarantine: moveFile back, over whatever is at the place by then.
RestoreQuarantine(f) ==
    \/ /\ contFile' = [contFile EXCEPT ![f] = contEvid[f]]
       /\ contEvid' \in {contEvid, [contEvid EXCEPT ![f] = "absent"]}
       /\ UNCHANGED contRaced
    \/ /\ contRaced' = [contRaced EXCEPT !.restore = TRUE]
       /\ UNCHANGED <<contFile, contEvid>>

\* The site still serves: the next target.  It does not: the file is put back
\* and the run ends, whether that worked or not.
SettleFile ==
    /\ contPc = "settle"
    /\ IF ContServing
          THEN ContNextTarget /\ UNCHANGED <<contFile, contEvid, contRaced>>
          ELSE RestoreQuarantine(ContTarget.path) /\ ContGoes("done")
    /\ UNCHANGED <<contDry, contPlan, contGate, contProc, contLauncher, contBroken, contHit,
                   contWorld>>

\* flushOPcache and the last look at the site change nothing modelled here.
FlushOPcache ==
    /\ contPc = "next"
    /\ contTodo = {}
    /\ ContGoes("done")
    /\ UNCHANGED <<contDry, contPlan, contGate, contHost, contHit, contRaced, contWorld>>

ContAgent ==
    \/ ContStart \/ ContTake \/ NeutralizePersistence \/ CheckProcess \/ FreezeProcess
    \/ CaptureProcess \/ KillProcess \/ FindRespawn \/ CheckFile \/ MoveFile \/ SettleFile
    \/ FlushOPcache

-----------------------------------------------------------------------------
(* The host *)

ContWorldStep ==
    /\ contWorld < ContMaxWorld
    /\ contWorld' = contWorld + 1
    /\ contPc # "done"
    /\ UNCHANGED <<contDry, contPc, contPlan, contGate, contEvid, contHit>>

\* A file that changes between the comparison and the move.
ContRace(f) == contRaced' = IF contPc = "move" /\ ContTarget.path = f
                            THEN [contRaced EXCEPT !.files = @ \cup {f}] ELSE contRaced

\* A process that exits between the comparison and the last signal.
ContRaceProcess(p) ==
    contRaced' = IF contPc \in {"freeze", "capture", "kill"} /\ ContTarget.pid = p
                 THEN [contRaced EXCEPT !.pids = @ \cup {p}] ELSE contRaced

HostExit(p) ==
    /\ ContWorldStep
    /\ contProc[p].who # "none"
    /\ contProc' = [contProc EXCEPT ![p] = [who |-> "none", stopped |-> FALSE]]
    /\ ContRaceProcess(p)
    /\ UNCHANGED <<contLauncher, contFile, contBroken>>

HostReuse(p) ==
    /\ ContWorldStep
    /\ contProc[p].who = "none"
    /\ \E who \in {"twin", "other"} : contProc' = [contProc EXCEPT ![p].who = who]
    /\ UNCHANGED <<contRaced, contLauncher, contFile, contBroken>>

\* A launcher that still runs starts its process when it is gone.
HostRespawn(p) ==
    /\ ContWorldStep
    /\ \E l \in DOMAIN contLauncher : contLauncher[l] # "off"
    /\ \A q \in ContPids \ ContProtected : contProc[q].who # "target"
    /\ contProc[p].who = "none"
    /\ contProc' = [contProc EXCEPT ![p].who = "target"]
    /\ UNCHANGED <<contRaced, contLauncher, contFile, contBroken>>

HostEdit ==
    /\ ContWorldStep
    /\ \/ \E l \in DOMAIN contLauncher :
             /\ contLauncher[l] = "active"
             /\ contLauncher' = [contLauncher EXCEPT ![l] = "moved"]
             /\ UNCHANGED <<contFile, contRaced>>
       \/ \E f \in DOMAIN contFile :
             /\ contFile' = [contFile EXCEPT ![f] = "changed"]
             /\ ContRace(f)
             /\ UNCHANGED contLauncher
    /\ UNCHANGED <<contProc, contBroken>>

HostBreaks ==
    /\ ContWorldStep
    /\ contBroken' = ~contBroken
    /\ UNCHANGED <<contProc, contLauncher, contFile, contRaced>>

ContNext ==
    \/ ContAgent
    \/ \E p \in ContPids : HostExit(p) \/ HostReuse(p) \/ HostRespawn(p)
    \/ HostEdit \/ HostBreaks

ContFairness == WF_contVars(ContAgent)
ContSpec == ContInit /\ [][ContNext]_contVars /\ ContFairness

-----------------------------------------------------------------------------
(* Properties *)

ContTypeOK ==
    /\ contDry \in BOOLEAN /\ contGate \in BOOLEAN /\ contBroken \in BOOLEAN
    /\ contPc \in {"start", "next", "launcher", "process", "freeze", "capture", "kill", "respawn",
                   "file", "move", "settle", "done"}
    /\ contTodo \subseteq ContTargets /\ contNow \in ContTargets \cup {0}
    /\ contActions \in 0..ContMaxActions
    /\ contProc \in [ContPids -> [who : {"target", "twin", "other", "none"}, stopped : BOOLEAN]]
    /\ contLauncher \in [ContPaths("launcher") -> {"active", "moved", "off"}]
    /\ contFile \in [ContPaths("file") -> {"seen", "changed", "absent"}]
    /\ contEvid \in [ContPaths("file") -> {"seen", "changed", "absent"}]
    /\ contHit \subseteq [pid : ContPids, who : {"target", "twin", "other"}]
    /\ contRaced \in [pids : SUBSET ContPids, files : SUBSET ContPaths("file"), restore : BOOLEAN]
    /\ contWorld \in 0..ContMaxWorld

\* "If the original process exited and the kernel recycled its PID, signalling
\* now would kill an unrelated process": only a process of the name found is
\* signalled, though pids are reused at any time - except in the moment
\* between the comparison and the signal.
ContRightProcess ==
    \A hit \in contHit :
        /\ hit.pid \notin ContProtected
        /\ hit.who \in {"target", "twin"} \/ hit.pid \in contRaced.pids

\* "Acting on stale information is how automation destroys the wrong file":
\* what is quarantined is what the scan saw, with the same exception.
ContRightFile == \A f \in DOMAIN contEvid : contEvid[f] = "changed" => f \in contRaced.files

\* "It never deletes": a file that is gone from the site is in the evidence
\* store, whatever failed and whatever was rolled back.
ContNothingLost == \A f \in DOMAIN contFile : contFile[f] = "absent" => contEvid[f] # "absent"

\* "If the site was serving before the action and is not serving after it,
\* the action is rolled back": a file the site needs is not missing when the
\* run ends, if the site served when it began - unless the one move that puts
\* it back failed, which the run reports and does not try again.
ContSiteKept ==
    contPc = "done" /\ contGate /\ ~contRaced.restore => \A f \in ContVital : contFile[f] # "absent"

\* No process is left suspended: what was frozen is killed before the run ends.
ContNoneFrozen == contPc = "done" => \A p \in ContPids : ~contProc[p].stopped

\* Launchers are dealt with before their process is killed, or it is back
\* within the minute: once a process that was found has been signalled, with
\* every launcher off, what still runs of the payload has been running since
\* the scan and was not reached; nothing has been started again.
ContStaysDead ==
    /\ contPc = "done"
    /\ \A l \in DOMAIN contLauncher : contLauncher[l] = "off"
    /\ \E hit \in contHit : hit.who = "target"
    => \A p \in ContPids \ ContProtected : contProc[p].who = "target" =>
          /\ \E f \in Range(ContFindings) : f.kind = "process" /\ f.pid = p
          /\ [pid |-> p, who |-> "target"] \notin contHit

\* A rehearsal touches nothing.
ContDryTouchesNothing ==
    contDry => /\ contHit = {}
               /\ \A f \in DOMAIN contEvid : contEvid[f] = "absent"
               /\ \A l \in DOMAIN contLauncher : contLauncher[l] # "off"

\* Containment comes to an end, whatever the host does meanwhile.
ContEnds == contPc = "start" ~> contPc = "done"

\* Containment acts on what the scan saw and on nothing else, leaves the site
\* whole and nothing half done, whatever the host does meanwhile.
ContSafe ==
    /\ ContRightProcess /\ ContRightFile /\ ContNothingLost /\ ContSiteKept
    /\ ContNoneFrozen /\ ContStaysDead /\ ContDryTouchesNothing
=============================================================================
