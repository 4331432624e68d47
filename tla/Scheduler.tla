------------------------------ MODULE Scheduler ------------------------------
(***************************************************************************)
(* The console's scheduler (internal/console/scheduler.go, the schedules   *)
(* table of internal/store/schedules.go and its API handlers).             *)
(*                                                                         *)
(* One goroutine passes over the due schedules at start and at every tick: *)
(* it reads them once, then for each marks the row, resolves the hosts and *)
(* creates one command per host, each of these a statement of its own.     *)
(* Operators create, pause, resume and delete rows meanwhile, hosts are    *)
(* retired, and the console may die between any two statements.  A slot is *)
(* the instant a schedule's next_run names.  What becomes of a command is  *)
(* the command channel's.                                                  *)
(***************************************************************************)
EXTENDS ScheduleCalendar, Sequences, SequencesExt

CONSTANTS
    SchIds,         \* rows of schedules
    SchAgents,      \* hosts
    SchScope,       \* [SchIds -> SUBSET SchAgents]: the host, the estate or all
    SchJitter,      \* [SchIds -> Nat]: jitter_minutes
    SchHash,        \* [SchAgents -> Nat]: FNV hash of the agent's id
    SchMaxTime,     \* bound on the clock
    SchMaxFaults,   \* bound on crashes and database errors
    SchMaxAdmin     \* bound on the operators' changes

ASSUME SchScopeAssumption ==
    /\ IsFiniteSet(SchIds)
    /\ SchScope \in [SchIds -> SUBSET SchAgents]
    /\ SchJitter \in [SchIds -> Nat] /\ SchHash \in [SchAgents -> Nat]
ASSUME SchBoundsAssumption ==
    SchMaxTime \in Nat \ {0} /\ SchMaxFaults \in Nat /\ SchMaxAdmin \in Nat

VARIABLES
    schNow,       \* the clock
    schRow,       \* the table: enabled or not, next_run; "none" is no row
    schResume,    \* SetScheduleEnabled(true) between its SELECT and its UPDATE
    schUp,        \* the console runs
    schPass,      \* runDueSchedules: where it is, its list, its now, hosts to do
    schCmds,      \* commands it created
    schRetired,   \* retired hosts
    schFaults, schAdmin,    \* faults and operators' changes so far
    schFired,     \* <<schedule, slot>> marked as run (history)
    schCut,       \* firings an error or a crash ended early (history)
    schResumed,   \* per schedule, when it was last resumed (history)
    schRaced      \* schedules resumed while a pass held them, or whose resume
                  \* wrote a next_run that was already over (history)

schVars == <<schNow, schRow, schResume, schUp, schPass, schCmds, schRetired,
             schFaults, schAdmin, schFired, schCut, schResumed, schRaced>>

SchUTC == [at |-> 0, before |-> 0, after |-> 0]
\* Here every schedule is daily, at midnight UTC.
SchNextRun == [from \in 0..SchMaxTime |-> NextRunAfter(SchUTC, 0, 0..6, from)]
SchIdle == [pc |-> "idle", due |-> <<>>, at |-> 0, todo |-> {}]
SchNoRow == [st |-> "none", next |-> 0]
SchUndated == 0 - 1

SchInit ==
    /\ schNow = 1
    /\ schRow = [s \in SchIds |-> SchNoRow]
    /\ schResume = <<>>
    /\ schUp = TRUE
    /\ schPass = SchIdle
    /\ schCmds = {}
    /\ schRetired = {}
    /\ schFaults = 0
    /\ schAdmin = 0
    /\ schFired = {}
    /\ schCut = {}
    /\ schResumed = [s \in SchIds |-> 0]
    /\ schRaced = {}

-----------------------------------------------------------------------------
(* Operators and hosts *)

SchOperatorActs ==
    /\ schUp
    /\ schAdmin < SchMaxAdmin
    /\ schAdmin' = schAdmin + 1
    /\ UNCHANGED <<schNow, schUp, schPass, schCmds, schFaults, schFired, schCut>>

\* validate: only scan, baseline and verify may be scheduled, an estate or one
\* host and not both, a time of day, some weekday and a jitter of at most 4 h.
SchValid(k, estate, agent, minute, days, jitter) ==
    /\ k \in {"scan", "baseline", "verify"}
    /\ ~(estate /\ agent)
    /\ minute \in 0..CalDay - 1
    /\ days \cap 0..6 # {}
    /\ jitter \in 0..240

\* CreateSchedule: next_run is the first firing to come.
CreateSchedule(s) ==
    /\ SchOperatorActs
    /\ schRow[s].st = "none"
    /\ SchValid("scan", FALSE, FALSE, 0, 0..6, SchJitter[s])
    /\ schRow' = [schRow EXCEPT ![s] = [st |-> "on", next |-> SchNextRun[schNow]]]
    /\ UNCHANGED <<schResume, schRetired, schResumed, schRaced>>

\* SetScheduleEnabled(false).
PauseSchedule(s) ==
    /\ SchOperatorActs
    /\ schRow[s].st = "on"
    /\ schRow' = [schRow EXCEPT ![s].st = "off"]
    /\ UNCHANGED <<schResume, schRetired, schResumed, schRaced>>

\* SetScheduleEnabled(true) reads the row and computes the next firing ...
ResumeScheduleReads(s) ==
    /\ SchOperatorActs
    /\ schRow[s].st # "none"
    /\ schResume = <<>>
    /\ schResume' = <<s, SchNextRun[schNow], schNow>>
    /\ UNCHANGED <<schRow, schRetired, schResumed, schRaced>>

SchHeld(s) == \E i \in 1..Len(schPass.due) : schPass.due[i][1] = s

\* ... and writes it, if the row is still there.
ResumeScheduleWrites ==
    /\ schUp
    /\ schResume # <<>>
    /\ LET s == schResume[1]
       IN  /\ schRow' = IF schRow[s].st = "none" THEN schRow
                        ELSE [schRow EXCEPT ![s] = [st |-> "on", next |-> schResume[2]]]
           /\ schResumed' = [schResumed EXCEPT ![s] = schResume[3]]
           /\ schRaced' = IF SchHeld(s) \/ schResume[2] <= schNow
                          THEN schRaced \cup {s} ELSE schRaced
    /\ schResume' = <<>>
    /\ UNCHANGED <<schNow, schUp, schPass, schCmds, schRetired, schFaults, schAdmin,
                   schFired, schCut>>

DeleteSchedule(s) ==
    /\ SchOperatorActs
    /\ schRow[s].st # "none"
    /\ schRow' = [schRow EXCEPT ![s] = SchNoRow]
    /\ UNCHANGED <<schResume, schRetired, schResumed, schRaced>>

\* A host is retired (uninstalled through the console, or by an operator).
SchRetire(a) ==
    /\ SchOperatorActs
    /\ a \notin schRetired
    /\ schRetired' = schRetired \cup {a}
    /\ UNCHANGED <<schRow, schResume, schResumed, schRaced>>

SchTime ==
    /\ schNow < SchMaxTime
    /\ schNow' = schNow + 1
    /\ UNCHANGED <<schRow, schResume, schUp, schPass, schCmds, schRetired, schFaults,
                   schAdmin, schFired, schCut, schResumed, schRaced>>

-----------------------------------------------------------------------------
(* runDueSchedules *)

SchUnchangedByPass == UNCHANGED <<schNow, schResume, schUp, schRetired, schAdmin,
                                  schResumed, schRaced>>

SchFault == schFaults < SchMaxFaults /\ schFaults' = schFaults + 1

SchFiring == <<schPass.due[1][1], schPass.due[1][2]>>

\* The next schedule of the list, or the end of the pass.
SchAdvance ==
    IF Len(schPass.due) = 1 THEN SchIdle
    ELSE [schPass EXCEPT !.pc = "mark", !.due = Tail(@), !.todo = {}]

\* DueSchedules: the enabled rows whose next_run is over, earliest first.
DueSchedules ==
    LET due == {s \in SchIds : schRow[s].st = "on" /\ schRow[s].next <= schNow}
    IN  {q \in SetToSeqs({<<s, schRow[s].next>> : s \in due}) :
            \A i, j \in 1..Len(q) : i < j => q[i][2] <= q[j][2]}

\* A tick, or the start of the console.
SchBegin ==
    /\ schUp
    /\ schPass.pc = "idle"
    /\ \E q \in DueSchedules :
          /\ q # <<>>
          /\ schPass' = [pc |-> "mark", due |-> q, at |-> schNow, todo |-> {}]
    /\ UNCHANGED <<schRow, schCmds, schFaults, schFired, schCut>>
    /\ SchUnchangedByPass

\* A mutant of MarkScheduleRun: next_run is not advanced.
MarkKeepsNext ==
    /\ schPass.pc = "mark"
    /\ schFired' = schFired \cup {SchFiring}
    /\ schPass' = [schPass EXCEPT !.pc = "resolve"]
    /\ UNCHANGED <<schRow, schCmds, schFaults, schCut>>
    /\ SchUnchangedByPass

\* MarkScheduleRun: last_run and next_run, before anything is created.  The
\* UPDATE does nothing when the row was deleted; the firing goes on.
MarkScheduleRun ==
    /\ schPass.pc = "mark"
    /\ LET s == schPass.due[1][1]
       IN  schRow' = IF schRow[s].st = "none" THEN schRow
                     ELSE [schRow EXCEPT ![s].next = SchNextRun[schPass.at]]
    /\ schFired' = schFired \cup {SchFiring}
    /\ schPass' = [schPass EXCEPT !.pc = "resolve"]
    /\ UNCHANGED <<schCmds, schFaults, schCut>>
    /\ SchUnchangedByPass

\* The UPDATE fails: on to the next schedule, this one stays due.
MarkFails ==
    /\ schPass.pc = "mark"
    /\ SchFault
    /\ schPass' = SchAdvance
    /\ UNCHANGED <<schRow, schCmds, schFired, schCut>>
    /\ SchUnchangedByPass

\* AgentsForSchedule: the hosts in scope that are not retired.
AgentsForSchedule ==
    /\ schPass.pc = "resolve"
    /\ LET hosts == SchScope[schPass.due[1][1]] \ schRetired
       IN  schPass' = IF hosts = {} THEN SchAdvance
                      ELSE [schPass EXCEPT !.pc = "create", !.todo = hosts]
    /\ UNCHANGED <<schRow, schCmds, schFaults, schFired, schCut>>
    /\ SchUnchangedByPass

\* It fails: the schedule was marked, and none of its hosts gets a command.
ResolveFails ==
    /\ schPass.pc = "resolve"
    /\ SchFault
    /\ schCut' = schCut \cup {SchFiring}
    /\ schPass' = SchAdvance
    /\ UNCHANGED <<schRow, schCmds, schFired>>
    /\ SchUnchangedByPass

\* dispatchSchedule for one host: CreateCommandAt inserts the row, approved
\* and without a start time ...
SchCreate(a) ==
    /\ schPass.pc = "create"
    /\ a \in schPass.todo
    /\ LET same == {c \in schCmds : c.sch = SchFiring[1] /\ c.slot = SchFiring[2] /\ c.agent = a}
       IN  schCmds' = schCmds \cup {[n |-> Cardinality(same), sch |-> SchFiring[1],
                                     slot |-> SchFiring[2], agent |-> a, start |-> SchUndated]}
    /\ schPass' = [schPass EXCEPT !.pc = "date"]
    /\ UNCHANGED <<schRow, schFaults, schFired, schCut>>
    /\ SchUnchangedByPass

SchUndatedCmds == {c \in schCmds : c.start = SchUndated /\ <<c.sch, c.slot>> = SchFiring}

\* The pass is done with host a.
SchDone(a) ==
    IF schPass.todo = {a} THEN SchAdvance
    ELSE [schPass EXCEPT !.pc = "create", !.todo = @ \ {a}]

\* ... and gives it its place in the jitter window in a second statement.
SchDate ==
    /\ schPass.pc = "date"
    /\ \E c \in SchUndatedCmds :
          /\ c.agent \in schPass.todo
          /\ schCmds' = (schCmds \ {c}) \cup
                {[c EXCEPT !.start = schPass.at + AgentOffset(SchHash[c.agent], SchJitter[c.sch])]}
          /\ schPass' = SchDone(c.agent)
    /\ UNCHANGED <<schRow, schFaults, schFired, schCut>>
    /\ SchUnchangedByPass

\* The INSERT or the UPDATE fails: on to the next host.
DispatchFails(a) ==
    /\ \/ schPass.pc = "create" /\ a \in schPass.todo
       \/ /\ schPass.pc = "date"
          /\ \E c \in SchUndatedCmds : c.agent = a /\ a \in schPass.todo
    /\ SchFault
    /\ schCut' = schCut \cup {SchFiring}
    /\ schPass' = SchDone(a)
    /\ UNCHANGED <<schRow, schCmds, schFired>>
    /\ SchUnchangedByPass

\* The console dies; what its goroutines held is gone.
SchCrash ==
    /\ schUp
    /\ SchFault
    /\ schUp' = FALSE
    /\ schCut' = IF schPass.pc \in {"resolve", "create", "date"}
                 THEN schCut \cup {SchFiring} ELSE schCut
    /\ schPass' = SchIdle
    /\ schResume' = <<>>
    /\ UNCHANGED <<schNow, schRow, schCmds, schRetired, schAdmin, schFired,
                   schResumed, schRaced>>

SchRestart ==
    /\ ~schUp
    /\ schUp' = TRUE
    /\ UNCHANGED <<schNow, schRow, schResume, schPass, schCmds, schRetired, schFaults,
                   schAdmin, schFired, schCut, schResumed, schRaced>>

SchPassStep ==
    \/ SchBegin \/ MarkScheduleRun \/ AgentsForSchedule \/ SchDate
    \/ \E a \in SchAgents : SchCreate(a)
SchPassFault == MarkFails \/ ResolveFails \/ \E a \in SchAgents : DispatchFails(a)

SchNext ==
    \/ \E s \in SchIds : \/ CreateSchedule(s) \/ PauseSchedule(s)
                         \/ ResumeScheduleReads(s) \/ DeleteSchedule(s)
    \/ ResumeScheduleWrites
    \/ \E a \in SchAgents : SchRetire(a)
    \/ SchTime
    \/ SchPassStep \/ SchPassFault
    \/ SchCrash \/ SchRestart

\* The ticker keeps ticking, the goroutine runs, a supervisor restarts a
\* console that died.
SchFairness == WF_schVars(SchPassStep) /\ WF_schVars(SchRestart)

SchSpec == SchInit /\ [][SchNext]_schVars /\ SchFairness

-----------------------------------------------------------------------------
(* Properties *)

SchTypeOK ==
    /\ schNow \in 0..SchMaxTime
    /\ schRow \in [SchIds -> [st : {"none", "on", "off"}, next : Nat]]
    /\ schUp \in BOOLEAN
    /\ schPass.pc \in {"idle", "mark", "resolve", "create", "date"}
    /\ (schPass.pc = "idle") = (schPass.due = <<>>)
    /\ schPass.todo \subseteq SchAgents
    /\ schRetired \subseteq SchAgents
    /\ schCut \subseteq schFired
    /\ schFaults \in 0..SchMaxFaults

\* The firing a step marks, if it marks one.
SchMarks(s, k) == schPass.pc = "mark" /\ schPass'.pc = "resolve" /\ SchFiring = <<s, k>>

\* A slot fires once, across ticks, crashes and restarts; only a resume that
\* raced a pass or the clock may bring one back.
SchOncePerSlot ==
    [][\A s \in SchIds, k \in 0..SchMaxTime :
          SchMarks(s, k) /\ <<s, k>> \in schFired => s \in schRaced]_schVars

\* Resuming a schedule never fires a slot it missed while it was paused
\* (with the same exception).
SchResumeSkipsMissed ==
    [][\A s \in SchIds, k \in 0..SchMaxTime :
          SchMarks(s, k) /\ s \notin schRaced => k > schResumed[s]]_schVars

\* Marking before dispatching costs at most the firing in hand: a firing that
\* no fault cut gave a command to every host in scope that is still enrolled.
SchFullDispatch ==
    \A f \in schFired \ schCut :
        (schPass.pc \in {"resolve", "create", "date"} => f # SchFiring) =>
            \A a \in SchScope[f[1]] \ schRetired :
                \E c \in schCmds : c.sch = f[1] /\ c.slot = f[2] /\ c.agent = a

\* Every host has its place in the jitter window: a command without a start
\* time, which a heartbeat would hand out at once, exists only while the pass
\* is about to date it, or after a fault tore its two statements apart.
SchStaggered ==
    \A c \in schCmds :
        \/ c.start >= 0
        \/ <<c.sch, c.slot>> \in schCut
        \/ schPass.pc = "date" /\ SchFiring = <<c.sch, c.slot>>

\* A schedule that is due fires, or is paused, deleted or resumed.
SchDueFires ==
    \A s \in SchIds :
        (schRow[s].st = "on" /\ schRow[s].next <= schNow)
            ~> (schRow[s].st # "on" \/ schRow[s].next > schNow)

\* No slot of a schedule fires twice or late, and one that fires is for every
\* host, each at its place, with the exceptions its parts name.
SchPromises == [](SchFullDispatch /\ SchStaggered) /\ SchOncePerSlot /\ SchResumeSkipsMissed
=============================================================================
