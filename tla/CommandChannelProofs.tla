------------------------ MODULE CommandChannelProofs ------------------------
(***************************************************************************)
(* Proofs about the command channel, for every set of agents, commands and *)
(* users, every assignment of requests to ids and every bound.             *)
(***************************************************************************)
EXTENDS CommandChannel, FiniteSetTheorems, TLAPS

\* An order names a kind, an agent and times.
LEMMA OrderTypes ==
  \A c \in Commands : /\ KindOf(c) \in Kinds /\ AgentOf(c) \in Agents
                      /\ Order[c].ttl \in Nat /\ Order[c].delay \in Nat
BY OrderAssumption DEF KindOf, AgentOf

\* The types hold initially.
LEMMA InitTypeOK == Init => TypeOK
BY DEF Init, TypeOK, Statuses, Stages

(* Every command step preserves the types. *)
LEMMA CommandStepTypeOK ==
  ASSUME TypeOK, NEW c \in Commands, CommandStep(c)
  PROVE  TypeOK'
<1> USE OrderTypes DEF TypeOK, Statuses, Stages
<1>1. CASE CreateCommand(c)
  BY <1>1 DEF CreateCommand, InsertCommand, InitialStatus, agentVars
<1>2. CASE CreateCommandAt(c)
  BY <1>2 DEF CreateCommandAt, InsertCommand, InitialStatus, agentVars
<1>3. CASE SetNotBefore(c)
  BY <1>3 DEF SetNotBefore, agentVars
<1>4. CASE CancelCommand(c)
  BY <1>4 DEF CancelCommand, agentVars
<1>5. CASE ReceiveCommand(c)
  BY <1>5 DEF ReceiveCommand, tableVars
<1>6. CASE PostRunning(c)
  BY <1>6 DEF PostRunning, tableVars, Message
<1>7. CASE Refuse(c)
  BY <1>7 DEF Refuse, tableVars
<1>8. CASE Perform(c)
  BY <1>8 DEF Perform, tableVars
<1>9. CASE PostOutcome(c)
  BY <1>9 DEF PostOutcome, tableVars, Message
<1>10. CASE RequestShutdown(c)
  BY <1>10 DEF RequestShutdown, tableVars
<1>11. CASE Reexec(c)
  BY <1>11 DEF Reexec, ProcessGone, tableVars
<1>12. QED
  BY <1>1, <1>2, <1>3, <1>4, <1>5, <1>6, <1>7, <1>8, <1>9, <1>10, <1>11
  DEF CommandStep

\* A step of an operator keeps the types.
LEMMA UserStepTypeOK ==
  ASSUME TypeOK, NEW u \in Users, UserStep(u)
  PROVE  TypeOK'
<1> USE DEF TypeOK, Statuses, Stages
<1>1. CASE SetUserDisabled(u)
  BY <1>1 DEF SetUserDisabled, tableVars, agentVars
<1>2. ASSUME NEW c \in Commands, ApproveCheck(u, c)
      PROVE  TypeOK'
  BY <1>2 DEF ApproveCheck, tableVars, agentVars
<1>3. ASSUME NEW c \in Commands, ApproveWrite(u, c)
      PROVE  TypeOK'
  BY <1>3 DEF ApproveWrite, agentVars
<1>4. QED
  BY <1>1, <1>2, <1>3 DEF UserStep

\* A step of an agent keeps the types.
LEMMA AgentStepTypeOK ==
  ASSUME TypeOK, NEW a \in Agents, AgentStep(a)
  PROVE  TypeOK'
<1> USE OrderTypes DEF TypeOK, Statuses, Stages
<1>1. CASE HeartbeatAuth(a)
  BY <1>1 DEF HeartbeatAuth, tableVars, agentVars
<1>2. CASE NextCommandForAgent(a)
  <2>1. PICK picked \in Picks(a) :
          /\ status' = Dispatched(a, picked)
          /\ inReply' = IF handler[a] = "orphan" THEN inReply
                        ELSE inReply \cup {c \in picked : status'[c] # "failed"}
    BY <1>2 DEF NextCommandForAgent
  <2>2. picked \subseteq Commands
    BY DEF Picks, Oldest, Eligible, CommandsOf
  <2>3. status' \in [Commands -> Statuses]
    BY <2>1 DEF Dispatched
  <2>4. QED
    BY <1>2, <2>1, <2>2, <2>3 DEF NextCommandForAgent, agentVars
<1>3. CASE LoseHeartbeat(a)
  BY <1>3 DEF LoseHeartbeat, tableVars, agentVars
<1>4. CASE RetireAgent(a)
  BY <1>4 DEF RetireAgent, tableVars, agentVars
<1>5. CASE RetireUninstalled(a)
  BY <1>5 DEF RetireUninstalled, tableVars, agentVars
<1>6. CASE AgentExit(a)
  BY <1>6 DEF AgentExit, ProcessGone, tableVars
<1>7. CASE AgentCrash(a)
  BY <1>7 DEF AgentCrash, ProcessGone, tableVars
<1>8. CASE AgentStart(a)
  BY <1>8 DEF AgentStart, tableVars
<1>9. QED
  BY <1>1, <1>2, <1>3, <1>4, <1>5, <1>6, <1>7, <1>8 DEF AgentStep

\* A result that arrives or is lost keeps the types.
LEMMA ResultTypeOK ==
  ASSUME TypeOK, NEW m \in net, DeliverResult(m) \/ LoseResult(m)
  PROVE  TypeOK'
<1> USE OrderTypes DEF TypeOK, Statuses, Stages
<1>1. m \in Message
  OBVIOUS
<1>2. CASE DeliverResult(m)
  BY <1>1, <1>2 DEF DeliverResult, CompleteCommand, Message, agentVars
<1>3. CASE LoseResult(m)
  BY <1>3 DEF LoseResult, tableVars, agentVars
<1>4. QED
  BY <1>2, <1>3

\* Every step keeps the types.
LEMMA TypeOKStep == TypeOK /\ [Next]_vars => TypeOK'
<1> SUFFICES ASSUME TypeOK, [Next]_vars PROVE TypeOK'
  OBVIOUS
<1>1. CASE UNCHANGED vars
  BY <1>1 DEF TypeOK, vars, tableVars, agentVars
<1>2. CASE ConsoleRestart
  BY <1>2 DEF TypeOK, ConsoleRestart, agentVars
<1>3. CASE Tick
  BY <1>3 DEF TypeOK, Tick, tableVars, agentVars
<1>4. QED
  BY <1>1, <1>2, <1>3, CommandStepTypeOK, UserStepTypeOK, AgentStepTypeOK,
     ResultTypeOK DEF Next

(* Type correctness of the command channel, over all its handlers. *)
THEOREM TypeCorrect == Spec => []TypeOK
BY InitTypeOK, TypeOKStep, PTL DEF Spec

-----------------------------------------------------------------------------
(***************************************************************************)
(* The life of a command outside the table.  A response in flight belongs  *)
(* to a row that is sent and whose execution has not begun; while the      *)
(* agent works the row is sent or running; a result in flight means the    *)
(* goroutine is past the step that posted it.  From this follows that no   *)
(* command is executed twice.                                              *)
(***************************************************************************)
HandInv ==
  /\ \A c \in Commands :
       /\ c \in inReply => status[c] = "sent" /\ task[c] = "none"
       /\ task[c] \in {"received", "working", "done", "failed"}
            => status[c] \in {"sent", "running"}
       /\ task[c] \in {"closing", "over"}
            => status[c] \in {"sent", "running", "done", "failed"}
       /\ task[c] \in {"none", "received", "working"} => performed[c] = 0
       /\ performed[c] <= 1
  /\ \A m \in net :
       /\ task[m.cmd] \notin {"none", "received"}
       /\ m.status # "running" => task[m.cmd] \in {"closing", "over"}

\* Nothing is in hand initially.
LEMMA InitHandInv == Init => HandInv
BY DEF Init, HandInv

\* What the console does to one command keeps HandInv.
LEMMA CommandStepHandInv ==
  ASSUME TypeOK, HandInv, NEW c \in Commands, CommandStep(c)
  PROVE  HandInv'
<1> USE OrderTypes DEF TypeOK, HandInv, Statuses, Stages, Message
<1>1. CASE CreateCommand(c)
  BY <1>1 DEF CreateCommand, InsertCommand, InitialStatus, agentVars
<1>2. CASE CreateCommandAt(c)
  BY <1>2 DEF CreateCommandAt, InsertCommand, InitialStatus, agentVars
<1>3. CASE SetNotBefore(c)
  BY <1>3 DEF SetNotBefore, agentVars
<1>4. CASE CancelCommand(c)
  BY <1>4 DEF CancelCommand, agentVars
<1>5. CASE ReceiveCommand(c)
  BY <1>5 DEF ReceiveCommand, tableVars
<1>6. CASE PostRunning(c)
  BY <1>6 DEF PostRunning, tableVars
<1>7. CASE Refuse(c)
  BY <1>7 DEF Refuse, tableVars
<1>8. CASE Perform(c)
  BY <1>8 DEF Perform, tableVars
<1>9. CASE PostOutcome(c)
  BY <1>9 DEF PostOutcome, tableVars
<1>10. CASE RequestShutdown(c)
  BY <1>10 DEF RequestShutdown, tableVars
<1>11. CASE Reexec(c)
  BY <1>11 DEF Reexec, ProcessGone, tableVars
<1>12. QED
  BY <1>1, <1>2, <1>3, <1>4, <1>5, <1>6, <1>7, <1>8, <1>9, <1>10, <1>11
  DEF CommandStep

\* What an operator does keeps HandInv.
LEMMA UserStepHandInv ==
  ASSUME TypeOK, HandInv, NEW u \in Users, UserStep(u)
  PROVE  HandInv'
<1> USE DEF TypeOK, HandInv, Statuses, Stages, Message
<1>1. CASE SetUserDisabled(u)
  BY <1>1 DEF SetUserDisabled, tableVars, agentVars
<1>2. ASSUME NEW c \in Commands, ApproveCheck(u, c)
      PROVE  HandInv'
  BY <1>2 DEF ApproveCheck, tableVars, agentVars
<1>3. ASSUME NEW c \in Commands, ApproveWrite(u, c)
      PROVE  HandInv'
  BY <1>3 DEF ApproveWrite, agentVars
<1>4. QED
  BY <1>1, <1>2, <1>3 DEF UserStep

(* A pick is empty or one approved command of the agent. *)
LEMMA PickIsApproved ==
  ASSUME NEW a \in Agents, NEW picked \in Picks(a)
  PROVE  /\ picked \subseteq Commands
         /\ \A c \in picked : status[c] = "approved" /\ c \notin Overdue(a)
         /\ \A c, d \in picked : c = d
BY DEF Picks, Oldest, Eligible, CommandsOf

\* Heartbeats, work, posts and crashes of an agent keep HandInv.
LEMMA AgentStepHandInv ==
  ASSUME TypeOK, HandInv, NEW a \in Agents, AgentStep(a)
  PROVE  HandInv'
<1> USE OrderTypes DEF TypeOK, HandInv, Statuses, Stages, Message
<1>1. CASE HeartbeatAuth(a)
  BY <1>1 DEF HeartbeatAuth, tableVars, agentVars
<1>2. CASE NextCommandForAgent(a)
  <2>1. PICK picked \in Picks(a) :
          /\ status' = Dispatched(a, picked)
          /\ inReply' = IF handler[a] = "orphan" THEN inReply
                        ELSE inReply \cup {c \in picked : status'[c] # "failed"}
    BY <1>2 DEF NextCommandForAgent
  <2>2. \A c \in Commands :
          /\ status'[c] = status[c] \/ status[c] \in {"pending", "approved"}
          /\ c \in picked => status'[c] \in {"sent", "failed"}
    BY <2>1, PickIsApproved DEF Dispatched, Overdue
  <2>3. \A c \in picked : task[c] = "none"
    BY PickIsApproved
  <2>4. UNCHANGED <<net, task, performed>>
    BY <1>2 DEF NextCommandForAgent, agentVars
  <2>5. QED
    BY <2>1, <2>2, <2>3, <2>4, PickIsApproved
<1>3. CASE LoseHeartbeat(a)
  BY <1>3 DEF LoseHeartbeat, tableVars, agentVars
<1>4. CASE RetireAgent(a)
  BY <1>4 DEF RetireAgent, tableVars, agentVars
<1>5. CASE RetireUninstalled(a)
  BY <1>5 DEF RetireUninstalled, tableVars, agentVars
<1>6. CASE AgentExit(a)
  BY <1>6 DEF AgentExit, ProcessGone, tableVars
<1>7. CASE AgentCrash(a)
  BY <1>7 DEF AgentCrash, ProcessGone, tableVars
<1>8. CASE AgentStart(a)
  BY <1>8 DEF AgentStart, tableVars
<1>9. QED
  BY <1>1, <1>2, <1>3, <1>4, <1>5, <1>6, <1>7, <1>8 DEF AgentStep

\* A result that arrives or is lost keeps HandInv.
LEMMA ResultHandInv ==
  ASSUME TypeOK, HandInv, NEW m \in net, DeliverResult(m) \/ LoseResult(m)
  PROVE  HandInv'
<1> USE OrderTypes DEF TypeOK, HandInv, Statuses, Stages, Message
<1>1. CASE DeliverResult(m)
  BY <1>1 DEF DeliverResult, CompleteCommand, agentVars
<1>2. CASE LoseResult(m)
  BY <1>2 DEF LoseResult, tableVars, agentVars
<1>3. QED
  BY <1>1, <1>2

\* Every step keeps HandInv.
LEMMA HandInvInductive == TypeOK /\ HandInv /\ [Next]_vars => HandInv'
<1> SUFFICES ASSUME TypeOK, HandInv, [Next]_vars PROVE HandInv'
  OBVIOUS
<1>1. CASE UNCHANGED vars
  BY <1>1 DEF HandInv, vars, tableVars, agentVars
<1>2. CASE ConsoleRestart
  BY <1>2 DEF HandInv, ConsoleRestart, agentVars
<1>3. CASE Tick
  BY <1>3 DEF HandInv, Tick, tableVars, agentVars
<1>4. QED
  BY <1>1, <1>2, <1>3, CommandStepHandInv, UserStepHandInv, AgentStepHandInv,
     ResultHandInv DEF Next

\* What is in hand always fits the rows (HandInv).
LEMMA HandInvCorrect == Spec => []HandInv
BY InitHandInv, HandInvInductive, TypeCorrect, PTL DEF Spec

(* At-most-once execution: NextCommandForAgent never hands a command out
   twice, whatever is lost, delayed, crashed or restarted. *)
THEOREM ExecutedAtMostOnce == Spec => []AtMostOnce
<1>1. HandInv => AtMostOnce
  BY DEF HandInv, AtMostOnce
<1>2. QED
  BY <1>1, HandInvCorrect, PTL

-----------------------------------------------------------------------------
(***************************************************************************)
(* What one step may do to one row.  Everything the console promises about *)
(* rows follows from this table of moves.                                  *)
(***************************************************************************)
RowRests(c)    == status'[c] = status[c] /\ approvedBy'[c] = approvedBy[c]
RowCreated(c)  == /\ status[c] = "none" /\ status'[c] = InitialStatus(c)
                  /\ KindOf(c) = "contain" => ContainAllowed(AgentOf(c))
                  /\ approvedBy'[c] = approvedBy[c]
RowApproved(c) == /\ status[c] = "pending" /\ status'[c] = "approved"
                  /\ \E u \in Users : c \in approving[u] /\ approvedBy'[c] = u
RowDropped(c)  == /\ status[c] \in {"pending", "approved"}
                  /\ status'[c] \in {"cancelled", "expired"}
                  /\ approvedBy'[c] = approvedBy[c]
RowPicked(c)   == /\ status[c] = "approved" /\ now <= expires[c]
                  /\ status'[c] = IF KindOf(c) = "contain" /\ ~ContainAllowed(AgentOf(c))
                                  THEN "failed" ELSE "sent"
                  /\ approvedBy'[c] = approvedBy[c]
RowReported(c) == /\ status[c] \in {"sent", "running"}
                  /\ \E m \in net : m.cmd = c /\ status'[c] = m.status
                  /\ approvedBy'[c] = approvedBy[c]
RowMoves(c) == \/ RowRests(c) \/ RowCreated(c) \/ RowApproved(c)
               \/ RowDropped(c) \/ RowPicked(c) \/ RowReported(c)

(* At most one row per step is handed out: a pick holds one command. *)
OnePicked == \A c, d \in Commands :
  /\ status[c] = "approved" /\ status'[c] = "sent"
  /\ status[d] = "approved" /\ status'[d] = "sent"
  => c = d

\* A new order enters its own row only, and as the code lets it.
LEMMA InsertMoves ==
  ASSUME TypeOK, NEW c \in Commands, InsertCommand(c),
         KindOf(c) = "contain" => ContainAllowed(AgentOf(c))
  PROVE  (\A d \in Commands : RowMoves(d)) /\ OnePicked
<1>1. \A d \in Commands : IF d = c THEN RowCreated(d) ELSE RowRests(d)
  BY DEF TypeOK, InsertCommand, RowCreated, RowRests
<1>2. QED
  BY <1>1 DEF RowMoves, RowCreated, RowRests, OnePicked

\* A step that leaves the rows alone moves none.
LEMMA QuietMoves ==
  ASSUME UNCHANGED <<status, approvedBy>>
  PROVE  (\A d \in Commands : RowMoves(d)) /\ OnePicked
BY DEF RowMoves, RowRests, OnePicked

\* What the console does to one command moves rows only as RowMoves says.
LEMMA CommandStepMoves ==
  ASSUME TypeOK, NEW c \in Commands, CommandStep(c)
  PROVE  (\A d \in Commands : RowMoves(d)) /\ OnePicked
<1>1. CASE CreateCommand(c)
  BY <1>1, InsertMoves DEF CreateCommand
<1>2. CASE CreateCommandAt(c)
  BY <1>2, InsertMoves, OrderAssumption
  DEF CreateCommandAt, Schedulable, KindOf
<1>3. CASE CancelCommand(c)
  <2>1. \A d \in Commands : IF d = c THEN RowDropped(d) ELSE RowRests(d)
    BY <1>3 DEF CancelCommand, TypeOK, RowDropped, RowRests
  <2>2. QED
    BY <2>1 DEF RowMoves, RowDropped, RowRests, OnePicked
<1>4. CASE \/ SetNotBefore(c) \/ ReceiveCommand(c) \/ PostRunning(c) \/ Refuse(c)
           \/ Perform(c) \/ PostOutcome(c) \/ RequestShutdown(c) \/ Reexec(c)
  <2>1. UNCHANGED <<status, approvedBy>>
    BY <1>4 DEF SetNotBefore, ReceiveCommand, PostRunning, Refuse, Perform,
                PostOutcome, RequestShutdown, Reexec, tableVars
  <2>2. QED
    BY <2>1, QuietMoves
<1>5. QED
  BY <1>1, <1>2, <1>3, <1>4 DEF CommandStep

\* What an operator does moves rows only as RowMoves says.
LEMMA UserStepMoves ==
  ASSUME TypeOK, NEW u \in Users, UserStep(u)
  PROVE  (\A d \in Commands : RowMoves(d)) /\ OnePicked
<1>1. CASE SetUserDisabled(u) \/ \E c \in Commands : ApproveCheck(u, c)
  <2>1. UNCHANGED <<status, approvedBy>>
    BY <1>1 DEF SetUserDisabled, ApproveCheck, tableVars
  <2>2. QED
    BY <2>1, QuietMoves
<1>2. ASSUME NEW c \in Commands, ApproveWrite(u, c)
      PROVE  (\A d \in Commands : RowMoves(d)) /\ OnePicked
  <2>1. \A d \in Commands : RowRests(d) \/ RowApproved(d)
    BY <1>2 DEF ApproveWrite, TypeOK, RowRests, RowApproved
  <2>2. QED
    BY <2>1 DEF RowMoves, RowRests, RowApproved, OnePicked
<1>3. QED
  BY <1>1, <1>2 DEF UserStep

\* What an agent does, its heartbeat included, moves rows only as RowMoves says.
LEMMA AgentStepMoves ==
  ASSUME TypeOK, NEW a \in Agents, AgentStep(a)
  PROVE  (\A d \in Commands : RowMoves(d)) /\ OnePicked
<1>1. CASE NextCommandForAgent(a)
  <2>1. PICK picked \in Picks(a) : status' = Dispatched(a, picked)
    BY <1>1 DEF NextCommandForAgent
  <2>2. approvedBy' = approvedBy
    BY <1>1 DEF NextCommandForAgent
  <2>3. \A c \in picked : c \in CommandsOf(a) /\ now <= expires[c]
    BY DEF Picks, Oldest, Eligible, Overdue, CommandsOf, TypeOK
  <2>4. ASSUME NEW d \in Commands
        PROVE  RowRests(d) \/ RowDropped(d) \/ (d \in picked /\ RowPicked(d))
    <3>1. CASE d \in Overdue(a)
      BY <2>1, <2>2, <3>1 DEF Dispatched, Overdue, RowDropped
    <3>2. CASE d \in picked
      <4>1. AgentOf(d) = a
        BY <2>3, <3>2 DEF CommandsOf
      <4>2. QED
        BY <2>1, <2>2, <2>3, <3>2, <4>1, PickIsApproved DEF Dispatched, RowPicked
    <3>3. CASE d \notin Overdue(a) /\ d \notin picked
      BY <2>1, <2>2, <3>3 DEF Dispatched, RowRests
    <3>4. QED
      BY <3>1, <3>2, <3>3
  <2>5. OnePicked
    BY <2>4, PickIsApproved DEF OnePicked, RowRests, RowDropped
  <2>6. QED
    BY <2>4, <2>5 DEF RowMoves
<1>2. CASE \/ HeartbeatAuth(a) \/ LoseHeartbeat(a) \/ RetireAgent(a)
           \/ RetireUninstalled(a) \/ AgentExit(a) \/ AgentCrash(a) \/ AgentStart(a)
  <2>1. UNCHANGED <<status, approvedBy>>
    BY <1>2 DEF HeartbeatAuth, LoseHeartbeat, RetireAgent, RetireUninstalled,
                AgentExit, AgentCrash, AgentStart, tableVars
  <2>2. QED
    BY <2>1, QuietMoves
<1>3. QED
  BY <1>1, <1>2 DEF AgentStep

\* Every step moves rows only as RowMoves says, and picks one at most.
LEMMA NextMoves ==
  ASSUME TypeOK, [Next]_vars
  PROVE  (\A d \in Commands : RowMoves(d)) /\ OnePicked
<1>1. CASE UNCHANGED vars \/ ConsoleRestart \/ Tick
  <2>1. UNCHANGED <<status, approvedBy>>
    BY <1>1 DEF vars, ConsoleRestart, Tick, tableVars
  <2>2. QED
    BY <2>1, QuietMoves
<1>2. ASSUME NEW m \in net, LoseResult(m)
      PROVE  (\A d \in Commands : RowMoves(d)) /\ OnePicked
  BY <1>2, QuietMoves DEF LoseResult, tableVars
<1>3. ASSUME NEW m \in net, DeliverResult(m)
      PROVE  (\A d \in Commands : RowMoves(d)) /\ OnePicked
  <2>1. m \in Message
    BY DEF TypeOK
  <2>2. \A d \in Commands : RowRests(d) \/ RowReported(d)
    BY <1>3, <2>1 DEF DeliverResult, CompleteCommand, TypeOK, Message,
                      RowRests, RowReported
  <2>3. QED
    BY <2>2 DEF RowMoves, RowRests, RowReported, OnePicked
<1>4. QED
  BY <1>1, <1>2, <1>3, CommandStepMoves, UserStepMoves, AgentStepMoves DEF Next

(* An ended command stays as it ended. *)
THEOREM EndedStaysEnded == Spec => TerminalIsFinal
<1>1. TypeOK /\ [Next]_vars
        => [\A c \in Commands : status[c] \in Terminal => status'[c] = status[c]]_vars
  <2> SUFFICES ASSUME TypeOK, [Next]_vars, NEW c \in Commands, status[c] \in Terminal
               PROVE  status'[c] = status[c]
    OBVIOUS
  <2>1. RowMoves(c)
    BY NextMoves
  <2>2. QED
    BY <2>1 DEF RowMoves, RowRests, RowCreated, RowApproved, RowDropped,
                RowPicked, RowReported, Terminal
<1>2. QED
  BY <1>1, TypeCorrect, PTL DEF Spec, TerminalIsFinal

(* A command past its time is never handed out. *)
THEOREM StaleNeverDispatched == Spec => NoStaleDispatch
<1>1. TypeOK /\ [Next]_vars
        => [\A c \in Commands :
              status[c] = "approved" /\ status'[c] = "sent" => now <= expires[c]]_vars
  <2> SUFFICES ASSUME TypeOK, [Next]_vars, NEW c \in Commands,
                      status[c] = "approved", status'[c] = "sent"
               PROVE  now <= expires[c]
    OBVIOUS
  <2>1. RowMoves(c)
    BY NextMoves
  <2>2. QED
    BY <2>1 DEF RowMoves, RowRests, RowCreated, RowApproved, RowDropped,
                RowPicked, RowReported
<1>2. QED
  BY <1>1, TypeCorrect, PTL DEF Spec, NoStaleDispatch

-----------------------------------------------------------------------------
(* Approval: a destructive row that is past pending carries a name. *)
ApprovalInv ==
  \A c \in Commands :
    /\ KindOf(c) \in DestructiveKinds
    /\ status[c] \in {"approved", "sent", "running", "done", "failed"}
    => approvedBy[c] # Nobody

\* A destructive row past pending always has its approver.
LEMMA ApprovalInvCorrect == Spec => []ApprovalInv
<1>1. Init => ApprovalInv
  BY DEF Init, ApprovalInv
<1>2. TypeOK /\ ApprovalInv /\ [Next]_vars => ApprovalInv'
  <2> SUFFICES ASSUME TypeOK, ApprovalInv, [Next]_vars, NEW c \in Commands,
                      KindOf(c) \in DestructiveKinds,
                      status'[c] \in {"approved", "sent", "running", "done", "failed"}
               PROVE  approvedBy'[c] # Nobody
    BY DEF ApprovalInv, KindOf
  <2>1. RowMoves(c)
    BY NextMoves
  <2>2. QED
    BY <2>1, NamesAssumption
    DEF RowMoves, RowRests, RowCreated, RowApproved, RowDropped, RowPicked,
        RowReported, InitialStatus, ApprovalInv
<1>3. QED
  BY <1>1, <1>2, TypeCorrect, PTL DEF Spec

(* No destructive work without a person's approval. *)
THEOREM DestructionIsApproved == Spec => []HumanApproved
<1>1. TypeOK /\ HandInv /\ ApprovalInv => HumanApproved
  <2> SUFFICES ASSUME TypeOK, HandInv, ApprovalInv, NEW c \in Commands,
                      performed[c] > 0, KindOf(c) \in DestructiveKinds
               PROVE  approvedBy[c] # Nobody
    BY DEF HumanApproved
  <2>1. task[c] \in {"done", "failed", "closing", "over"}
    BY DEF TypeOK, HandInv, Stages
  <2>2. QED
    BY <2>1 DEF HandInv, ApprovalInv
<1>2. QED
  BY <1>1, TypeCorrect, HandInvCorrect, ApprovalInvCorrect, PTL

(* Four eyes.  An approval in flight was checked when its author was not the
   creator, because more than one account could approve then as ever. *)
EyesInv ==
  \A c \in Commands :
    /\ approvedBy[c] # Order[c].creator
    /\ \A u \in Users : c \in approving[u] => u # Order[c].creator

\* While two could approve, every step keeps EyesInv.
LEMMA EyesStep ==
  ASSUME TypeOK, EyesInv, CountApprovers > 1, [Next]_vars
  PROVE  EyesInv'
<1>1. CountApprovers \in Nat
  BY UsersAssumption, FS_Subset, FS_CardinalityType DEF CountApprovers, TypeOK
<1>2. ASSUME NEW c \in Commands
      PROVE  approvedBy'[c] # Order[c].creator
  <2>1. RowMoves(c)
    BY NextMoves
  <2>2. QED
    BY <2>1 DEF RowMoves, RowRests, RowCreated, RowApproved, RowDropped,
                RowPicked, RowReported, EyesInv
<1>3. ASSUME NEW c \in Commands, NEW u \in Users, c \in approving'[u]
      PROVE  c \in approving[u] \/ u # Order[c].creator
  <2>1. CASE approving' = approving
    BY <1>3, <2>1
  <2>2. CASE ConsoleRestart
    BY <1>3, <2>2 DEF ConsoleRestart
  <2>3. ASSUME NEW v \in Users, NEW d \in Commands, ApproveCheck(v, d)
        PROVE  c \in approving[u] \/ u # Order[c].creator
    BY <1>1, <1>3, <2>3 DEF ApproveCheck, MayApprove, TypeOK
  <2>4. ASSUME NEW v \in Users, NEW d \in Commands, ApproveWrite(v, d)
        PROVE  c \in approving[u] \/ u # Order[c].creator
    BY <1>3, <2>4 DEF ApproveWrite, TypeOK
  <2>5. approving' = approving \/ ConsoleRestart
          \/ \E v \in Users, d \in Commands : ApproveCheck(v, d) \/ ApproveWrite(v, d)
    <3>1. ASSUME NEW d \in Commands, CommandStep(d) PROVE approving' = approving
      BY <3>1 DEF CommandStep, CreateCommand, CreateCommandAt, SetNotBefore,
           CancelCommand, ReceiveCommand, PostRunning, Refuse, Perform,
           PostOutcome, RequestShutdown, Reexec
    <3>2. ASSUME NEW a \in Agents, AgentStep(a) PROVE approving' = approving
      BY <3>2 DEF AgentStep, HeartbeatAuth, NextCommandForAgent, LoseHeartbeat,
           RetireAgent, RetireUninstalled, AgentExit, AgentCrash, AgentStart
    <3>3. ASSUME NEW m \in net, DeliverResult(m) \/ LoseResult(m)
          PROVE  approving' = approving
      BY <3>3 DEF DeliverResult, LoseResult
    <3>4. CASE Tick \/ UNCHANGED vars
      BY <3>4 DEF Tick, vars
    <3>5. ASSUME NEW v \in Users, SetUserDisabled(v) PROVE approving' = approving
      BY <3>5 DEF SetUserDisabled
    <3>6. QED
      BY <3>1, <3>2, <3>3, <3>4, <3>5 DEF Next, UserStep
  <2>6. QED
    BY <2>1, <2>2, <2>3, <2>4, <2>5
<1>4. QED
  BY <1>2, <1>3 DEF EyesInv

(* With two or more possible approvers throughout, nobody approves their own. *)
THEOREM NobodyApprovesTheirOwn == Spec => FourEyes
<1>1. Init => EyesInv
  BY OrderAssumption, NamesAssumption DEF Init, EyesInv
<1>2. TypeOK /\ EyesInv /\ CountApprovers > 1 /\ [Next]_vars => EyesInv'
  BY EyesStep
<1>3. EyesInv => NotByCreator
  BY DEF EyesInv, NotByCreator
<1>4. QED
  BY <1>1, <1>2, <1>3, TypeCorrect, PTL DEF Spec, FourEyes

-----------------------------------------------------------------------------
(* Work: it begins in one step, on a row that does not move in that step. *)
WorkBegins(c) == /\ task[c] = "working" /\ ~Refused(c)
                 /\ performed'[c] = performed[c] + 1
                 /\ status' = status
                 /\ (KindOf(c) = "uninstall" /\ task'[c] = "done")
                       => AgentOf(c) \notin installed' \/ c \in overlooked'
WorkMoves(c) == performed'[c] = performed[c] \/ WorkBegins(c)

(* What one step may do to the agents' side. *)
WorkStep ==
  /\ installed' \subseteq installed /\ overlooked \subseteq overlooked'
  /\ \A c \in Commands :
       /\ WorkMoves(c)
       /\ task'[c] = "done" => task[c] = "done" \/ WorkBegins(c)
  /\ \A m \in net' : m \in net \/ (m.status = task[m.cmd] /\ status' = status)
                       \/ m.status = "running"

\* What the console does to one command begins no work.
LEMMA CommandStepWork ==
  ASSUME TypeOK, NEW c \in Commands, CommandStep(c)
  PROVE  WorkStep
<1> USE OrderTypes DEF TypeOK, WorkStep, WorkMoves
<1>1. CASE Perform(c)
  <2>1. WorkBegins(c)
    BY <1>1 DEF Perform, WorkBegins, tableVars, Removal
  <2>2. QED
    BY <1>1, <2>1 DEF Perform
<1>2. CASE \/ CreateCommand(c) \/ CreateCommandAt(c) \/ SetNotBefore(c)
           \/ CancelCommand(c) \/ ReceiveCommand(c) \/ Refuse(c)
           \/ RequestShutdown(c)
  BY <1>2 DEF CreateCommand, CreateCommandAt, SetNotBefore, CancelCommand,
              ReceiveCommand, Refuse, RequestShutdown, agentVars
<1>3. CASE PostRunning(c)
  BY <1>3 DEF PostRunning
<1>4. CASE PostOutcome(c)
  BY <1>4 DEF PostOutcome, tableVars
<1>5. CASE Reexec(c)
  BY <1>5 DEF Reexec, ProcessGone
<1>6. QED
  BY <1>1, <1>2, <1>3, <1>4, <1>5 DEF CommandStep

\* Work begins only where a goroutine has the command, and counts once.
LEMMA NextWork == ASSUME TypeOK, [Next]_vars PROVE WorkStep
<1> USE DEF TypeOK, WorkStep, WorkMoves
<1>1. ASSUME NEW u \in Users, UserStep(u) PROVE WorkStep
  BY <1>1 DEF UserStep, SetUserDisabled, ApproveCheck, ApproveWrite, agentVars
<1>2. ASSUME NEW a \in Agents, AgentStep(a) PROVE WorkStep
  <2>1. UNCHANGED <<net, installed, overlooked, performed>>
    BY <1>2 DEF AgentStep, HeartbeatAuth, NextCommandForAgent, LoseHeartbeat,
         RetireAgent, RetireUninstalled, AgentExit, AgentCrash, AgentStart, agentVars
  <2>2. \A c \in Commands : task'[c] = task[c] \/ task'[c] = "over"
    BY <1>2 DEF AgentStep, HeartbeatAuth, NextCommandForAgent, LoseHeartbeat,
         RetireAgent, RetireUninstalled, AgentExit, AgentCrash, AgentStart,
         ProcessGone, agentVars
  <2>3. QED
    BY <2>1, <2>2
<1>3. ASSUME NEW m \in net, DeliverResult(m) \/ LoseResult(m) PROVE WorkStep
  BY <1>3 DEF DeliverResult, LoseResult, agentVars
<1>4. CASE ConsoleRestart \/ Tick \/ UNCHANGED vars
  BY <1>4 DEF ConsoleRestart, Tick, vars, agentVars
<1>5. QED
  BY <1>1, <1>2, <1>3, <1>4, CommandStepWork DEF Next

-----------------------------------------------------------------------------
(* The two keys: the console's is checked when the order is made, the host's
   when the work begins. *)
KeyInv ==
  \A c \in Commands : KindOf(c) = "contain" =>
    /\ status[c] # "none" => ContainAllowed(AgentOf(c))
    /\ performed[c] > 0   => AgentOf(c) \in LocalOptIn

\* Containments are only where both sides allow them, always.
LEMMA KeyInvCorrect == Spec => []KeyInv
<1>1. Init => KeyInv
  BY DEF Init, KeyInv
<1>2. TypeOK /\ KeyInv /\ [Next]_vars => KeyInv'
  <2> SUFFICES ASSUME TypeOK, KeyInv, [Next]_vars,
                      NEW c \in Commands, KindOf(c) = "contain"
               PROVE  /\ status'[c] # "none" => ContainAllowed(AgentOf(c))
                      /\ performed'[c] > 0   => AgentOf(c) \in LocalOptIn
    BY DEF KeyInv, KindOf, AgentOf, ContainAllowed
  <2>1. RowMoves(c) /\ WorkMoves(c)
    BY NextMoves, NextWork DEF WorkStep
  <2>2. status'[c] # "none" => ContainAllowed(AgentOf(c))
    BY <2>1 DEF KeyInv, RowMoves, RowRests, RowCreated, RowApproved, RowDropped,
                RowPicked, RowReported
  <2>3. performed'[c] > 0 => AgentOf(c) \in LocalOptIn
    BY <2>1 DEF KeyInv, WorkMoves, WorkBegins, Refused
  <2>4. QED
    BY <2>2, <2>3
<1>3. QED
  BY <1>1, <1>2, TypeCorrect, PTL DEF Spec

(* Containment only where both keys allow it. *)
THEOREM ContainmentNeedsTwoKeys == Spec => []TwoKeys
<1>1. TypeOK /\ HandInv /\ KeyInv => TwoKeys
  <2> SUFFICES ASSUME TypeOK, HandInv, KeyInv, NEW c \in Commands,
                      performed[c] > 0, KindOf(c) = "contain"
               PROVE  AgentOf(c) \in Granted \cap ServerOptIn \cap LocalOptIn
    BY DEF TwoKeys
  <2>1. status[c] # "none"
    BY DEF TypeOK, HandInv, Stages
  <2>2. QED
    BY <2>1 DEF KeyInv, ContainAllowed
<1>2. QED
  BY <1>1, TypeCorrect, HandInvCorrect, KeyInvCorrect, PTL

-----------------------------------------------------------------------------
(* Reports: whoever says done, goroutine, message or row, did the work. *)
Worked(c) == /\ performed[c] > 0
             /\ KindOf(c) = "uninstall" => AgentOf(c) \notin installed \/ c \in overlooked
OutcomeInv ==
  /\ \A c \in Commands : task[c] = "done" \/ status[c] = "done" => Worked(c)
  /\ \A m \in net : m.status = "done" => Worked(m.cmd)

\* Whatever says done always stands for work that was done.
LEMMA OutcomeInvCorrect == Spec => []OutcomeInv
<1>1. Init => OutcomeInv
  BY DEF Init, OutcomeInv
<1>2. TypeOK /\ OutcomeInv /\ [Next]_vars => OutcomeInv'
  <2> SUFFICES ASSUME TypeOK, OutcomeInv, [Next]_vars PROVE OutcomeInv'
    OBVIOUS
  <2>1. TypeOK'
    BY TypeOKStep
  <2>2. ASSUME NEW c \in Commands, Worked(c) PROVE Worked(c)'
    <3>1. performed[c] \in Nat
      BY DEF TypeOK
    <3>2. performed'[c] = performed[c] \/ performed'[c] = performed[c] + 1
      BY NextWork DEF WorkStep, WorkMoves, WorkBegins
    <3>3. performed'[c] > 0
      BY <2>2, <3>1, <3>2 DEF Worked
    <3>4. KindOf(c) = "uninstall" => AgentOf(c) \notin installed' \/ c \in overlooked'
      BY <2>2, NextWork DEF Worked, WorkStep
    <3>5. QED
      BY <3>3, <3>4 DEF Worked, KindOf, AgentOf
  <2>3. ASSUME NEW c \in Commands, task'[c] = "done" PROVE Worked(c)'
    <3>1. CASE task[c] = "done"
      BY <2>2, <3>1 DEF OutcomeInv
    <3>2. CASE WorkBegins(c)
      <4>1. performed'[c] > 0
        BY <3>2 DEF WorkBegins, TypeOK
      <4>2. KindOf(c) = "uninstall" => AgentOf(c) \notin installed' \/ c \in overlooked'
        BY <2>3, <3>2 DEF WorkBegins
      <4>3. QED
        BY <4>1, <4>2 DEF Worked, KindOf, AgentOf
    <3>3. QED
      BY <2>3, <3>1, <3>2, NextWork DEF WorkStep
  <2>4. \A c \in Commands : status'[c] = "done" => Worked(c)'
    BY <2>2, NextMoves
    DEF OutcomeInv, RowMoves, RowRests, RowCreated, RowApproved, RowDropped,
        RowPicked, RowReported, InitialStatus
  <2>5. \A m \in net' : m.status = "done" => Worked(m.cmd)'
    BY <2>1, <2>2, NextWork DEF OutcomeInv, WorkStep, TypeOK, Message
  <2>6. QED
    BY <2>3, <2>4, <2>5 DEF OutcomeInv
<1>3. QED
  BY <1>1, <1>2, TypeCorrect, PTL DEF Spec

(* A row that says done is about work that was done. *)
THEOREM ReportsAreHonest == Spec => []HonestOutcome
<1>1. OutcomeInv => HonestOutcome
  BY DEF OutcomeInv, HonestOutcome, Worked
<1>2. QED
  BY <1>1, OutcomeInvCorrect, PTL

-----------------------------------------------------------------------------
(***************************************************************************)
(* The channel implements the ledger: row by row, a move of the table or   *)
(* the beginning of work is the ledger's move of the same name.            *)
(***************************************************************************)
LEMMA WorkIsOnce ==
  ASSUME TypeOK, HandInv, [Next]_vars, NEW c \in Commands
  PROVE  \/ performed'[c] = performed[c]
         \/ /\ performed[c] = 0 /\ performed'[c] = 1
            /\ status'[c] = status[c] /\ status[c] \in {"sent", "running"}
BY NextWork DEF HandInv, WorkStep, WorkMoves, WorkBegins

\* Every step is, for each row, a step of the ledger or leaves its entry alone.
LEMMA LedgerRow ==
  ASSUME TypeOK, TypeOK', HandInv, KeyInv, OutcomeInv, [Next]_vars,
         NEW c \in Commands
  PROVE  \/ Ledger!Place(c) \/ Ledger!Authorise(c) \/ Ledger!Withdraw(c)
         \/ Ledger!HandOut(c) \/ Ledger!Work(c) \/ Ledger!Succeed(c)
         \/ Ledger!Fail(c) \/ Ledger!Rest(c)
<1>1. RowMoves(c)
  BY NextMoves
<1>2. CASE performed'[c] # performed[c]
  <2>1. Ledger!Work(c)
    BY <1>2, WorkIsOnce DEF Ledger!Work, Phase
  <2>2. QED
    BY <2>1
<1>3. CASE performed'[c] = performed[c]
  <2>1. CASE RowRests(c)
    BY <1>3, <2>1 DEF RowRests, Ledger!Rest, Phase, TypeOK, Statuses
  <2>2. CASE RowCreated(c)
    BY <1>3, <2>2 DEF RowCreated, InitialStatus, Ledger!Place, Ledger!Moves, Phase, KindOf
  <2>3. CASE RowApproved(c)
    BY <1>3, <2>3 DEF RowApproved, Ledger!Authorise, Ledger!Moves, Phase
  <2>4. CASE RowDropped(c)
    BY <1>3, <2>4 DEF RowDropped, Ledger!Withdraw, Ledger!Moves, Phase
  <2>5. CASE RowPicked(c)
    <3>1. status'[c] = "sent"
      BY <2>5 DEF RowPicked, KeyInv
    <3>2. Ledger!HandOut(c)
      BY <1>3, <2>5, <3>1 DEF RowPicked, Ledger!HandOut, Ledger!Moves, Phase
    <3>3. QED
      BY <3>2
  <2>6. CASE RowReported(c)
    <3>1. PICK m \in net : m.cmd = c /\ status'[c] = m.status
      BY <2>6 DEF RowReported
    <3>2. m.status \in {"running", "done", "failed"}
      BY DEF TypeOK, Message
    <3>3. CASE m.status = "running"
      BY <1>3, <2>6, <3>1, <3>3 DEF RowReported, Ledger!Rest, Phase
    <3>4. CASE m.status = "failed"
      BY <1>3, <2>6, <3>1, <3>4 DEF RowReported, Ledger!Fail, Ledger!Moves, Phase
    <3>5. CASE m.status = "done"
      <4>1. performed[c] = 1
        BY <3>1, <3>5 DEF OutcomeInv, Worked, HandInv, TypeOK
      <4>2. Ledger!Succeed(c)
        BY <1>3, <2>6, <3>1, <3>5, <4>1
        DEF RowReported, Ledger!Succeed, Ledger!Moves, Phase
      <4>3. QED
        BY <4>2
    <3>6. QED
      BY <3>2, <3>3, <3>4, <3>5
  <2>7. QED
    BY <1>1, <2>1, <2>2, <2>3, <2>4, <2>5, <2>6 DEF RowMoves
<1>4. QED
  BY <1>2, <1>3

(* Every row of the channel moves as the ledger allows. *)
THEOREM ChannelImplementsLedger == Spec => ImplementsLedger
<1>1. Init => Ledger!Init
  BY DEF Init, Ledger!Init, Phase
<1>2. TypeOK /\ TypeOK' /\ HandInv /\ KeyInv /\ OutcomeInv /\ [Next]_vars
        => [Ledger!Next]_(Ledger!vars)
  <2> SUFFICES ASSUME TypeOK, TypeOK', HandInv, KeyInv, OutcomeInv, [Next]_vars
               PROVE  Ledger!Next
    OBVIOUS
  <2>1. performed' = [c \in Commands |-> performed'[c]]
    BY DEF TypeOK
  <2>2. \A c, d \in Commands : Ledger!HandOut(c) /\ Ledger!HandOut(d) => c = d
    <3> SUFFICES ASSUME NEW c \in Commands, NEW d \in Commands,
                        Ledger!HandOut(c), Ledger!HandOut(d)
                 PROVE  c = d
      OBVIOUS
    <3>1. ASSUME NEW e \in Commands, Ledger!HandOut(e)
          PROVE  status[e] = "approved" /\ status'[e] = "sent"
      <4>1. status[e] = "approved" /\ status'[e] \in {"sent", "running"}
        BY <3>1 DEF Ledger!HandOut, Ledger!Moves, Phase, TypeOK, Statuses
      <4>2. RowMoves(e)
        BY NextMoves
      <4>3. QED
        BY <4>1, <4>2 DEF RowMoves, RowRests, RowCreated, RowApproved,
                          RowDropped, RowPicked, RowReported
    <3>2. QED
      BY <3>1, NextMoves DEF OnePicked
  <2>3. QED
    BY <2>1, <2>2, LedgerRow DEF Ledger!Next
<1>3. QED
  BY <1>1, <1>2, TypeCorrect, HandInvCorrect, KeyInvCorrect, OutcomeInvCorrect,
     PTL DEF Spec, ImplementsLedger, Ledger!Spec
=============================================================================
