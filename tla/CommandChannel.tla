--------------------------- MODULE CommandChannel ---------------------------
(***************************************************************************)
(* The command channel between the console and its managed agents: the     *)
(* life of one row of the `commands` table, from the operator (or the      *)
(* scheduler) that creates it, through approval and dispatch on an agent's *)
(* heartbeat, to the goroutine of the agent that executes it and the       *)
(* results it posts back.                                                  *)
(*                                                                         *)
(* The console's database runs on one connection, so each SQL statement    *)
(* and each transaction is atomic and nothing else is: a handler made of   *)
(* several statements is modelled as several steps.  Requests travel over  *)
(* HTTP: a request or its response may be lost, and a request whose client *)
(* timed out may still be served later.  Agents crash and are restarted.   *)
(***************************************************************************)
EXTENDS Naturals, FiniteSets

CONSTANTS
  Agents,       \* enrolled agents
  Commands,     \* command ids (random secrets, never reused)
  Users,        \* console accounts with a role that may approve
  Scheduler,    \* the created_by of a command the scheduler queues
  Nobody,       \* the approved_by of a command nobody approved
  Order,        \* the request behind each id: kind, agent, creator, ttl, delay
  Granted,      \* agents whose enrollment token granted remote containment
  ServerOptIn,  \* agents the console recorded as opting in at enrollment
  LocalOptIn,   \* agents whose own state file permits remote containment
  MaxTime,      \* bound of the clock
  MaxFaults     \* bound on crashes, console restarts and lost messages

Kinds == {"scan", "baseline", "verify", "contain", "contain_dryrun",
          "update_packs", "uninstall", "upgrade"}

DestructiveKinds == {"contain", "uninstall", "upgrade"}

Schedulable == {"scan", "baseline", "verify"}

(***************************************************************************)
(* A command id is a fresh secret, so the request it stands for is a       *)
(* parameter of the id rather than a choice of the behaviour.              *)
(***************************************************************************)
ASSUME OrderAssumption ==
  /\ Order \in [Commands -> [kind: Kinds, agent: Agents,
                             creator: Users \cup {Scheduler},
                             ttl: Nat, delay: Nat]]
  /\ \A c \in Commands :
        Order[c].creator = Scheduler => Order[c].kind \in Schedulable

ASSUME NamesAssumption ==
  Scheduler \notin Users /\ Nobody \notin Users /\ Scheduler # Nobody

ASSUME UsersAssumption == IsFiniteSet(Users)

ASSUME BoundsAssumption == MaxTime \in Nat /\ MaxFaults \in Nat

VARIABLES
  now,          \* the clock
  status,       \* commands.status, "none" while the row does not exist
  approvedBy,   \* commands.approved_by
  created,      \* commands.created_at
  expires,      \* commands.expires_at
  notBefore,    \* commands.not_before
  undated,      \* rows CreateCommandAt inserted and has not dated yet
  approvers,    \* enabled accounts with role admin or operator
  approving,    \* per account: the approval whose checks passed, not yet written
  retired,      \* agents with retired = 1
  retiring,     \* agents whose uninstall is recorded but which are not yet retired
  handler,      \* per agent: the console's heartbeat handler
  inReply,      \* commands in a heartbeat response on its way to the agent
  net,          \* command results on their way to the console
  up,           \* agents whose process runs
  stopping,     \* running agents whose shutdown channel is closed
  installed,    \* agents whose credential is on disk
  overlooked,   \* uninstalls that could not look at the credential (history)
  task,         \* per command: the agent's goroutine executing it
  performed,    \* per command: how often an agent began the work (history)
  faults        \* crashes, restarts and losses so far

tableVars == <<status, approvedBy, created, expires, notBefore, undated>>
agentVars == <<up, stopping, installed, overlooked, task, performed>>
vars == <<now, tableVars, approvers, approving, retired, retiring, handler,
          inReply, net, agentVars, faults>>

Statuses == {"none", "pending", "approved", "sent", "running",
             "done", "failed", "cancelled", "expired"}
Terminal == {"done", "failed", "cancelled", "expired"}
Stages   == {"none", "received", "working", "done", "failed", "closing", "over"}

KindOf(c)  == Order[c].kind
AgentOf(c) == Order[c].agent
CommandsOf(a) == {c \in Commands : AgentOf(c) = a}
Message == [cmd: Commands, status: {"running", "done", "failed"}]

(* Both halves of the server-side grant (Agent.ContainAllowed). *)
ContainAllowed(a) == a \in Granted /\ a \in ServerOptIn

Init ==
  /\ now = 0
  /\ status     = [c \in Commands |-> "none"]
  /\ approvedBy = [c \in Commands |-> Nobody]
  /\ created    = [c \in Commands |-> 0]
  /\ expires    = [c \in Commands |-> 0]
  /\ notBefore  = [c \in Commands |-> 0]
  /\ undated = {}
  /\ approvers \in SUBSET Users
  /\ approving = [u \in Users |-> {}]
  /\ retired = {} /\ retiring = {}
  /\ handler = [a \in Agents |-> "idle"]
  /\ inReply = {} /\ net = {}
  /\ up = Agents /\ stopping = {} /\ installed = Agents /\ overlooked = {}
  /\ task      = [c \in Commands |-> "none"]
  /\ performed = [c \in Commands |-> 0]
  /\ faults = 0

-----------------------------------------------------------------------------
(* Creation, approval and cancellation: the operator's side of the console. *)

\* mutants of InitialStatus: nothing needs approval; the columns are swapped
InitialStatusUngated(c) == "approved"
InitialStatusSwapped(c) == KindOf(c)

InitialStatus(c) == IF KindOf(c) \in DestructiveKinds THEN "pending" ELSE "approved"

InsertCommand(c) ==
  /\ status[c] = "none"
  /\ status'  = [status  EXCEPT ![c] = InitialStatus(c)]
  /\ created' = [created EXCEPT ![c] = now]
  /\ expires' = [expires EXCEPT ![c] = now + Order[c].ttl]
  /\ UNCHANGED <<approvedBy, notBefore>>

(* An operator orders one command; an order for containment is refused when
   the agent could never honour it. *)
CreateCommand(c) ==
  /\ Order[c].creator \in approvers
  /\ KindOf(c) = "contain" => ContainAllowed(AgentOf(c))
  /\ InsertCommand(c)
  /\ UNCHANGED <<now, undated, approvers, approving, retired, retiring,
                 handler, inReply, net, agentVars, faults>>

(* CreateCommandAt inserts the row first, and only then ... (bound: its start
   time lies within the modelled time). *)
CreateCommandAt(c) ==
  /\ Order[c].creator = Scheduler
  /\ now + Order[c].delay <= MaxTime
  /\ AgentOf(c) \notin retired
  /\ InsertCommand(c)
  /\ undated' = undated \cup {c}
  /\ UNCHANGED <<now, approvers, approving, retired, retiring,
                 handler, inReply, net, agentVars, faults>>

(* ... writes not_before, in a second statement of its own. *)
SetNotBefore(c) ==
  /\ c \in undated
  /\ notBefore' = [notBefore EXCEPT ![c] = created[c] + Order[c].delay]
  /\ undated' = undated \ {c}
  /\ UNCHANGED <<now, status, approvedBy, created, expires, approvers,
                 approving, retired, retiring, handler, inReply, net,
                 agentVars, faults>>

CountApprovers == Cardinality(approvers)

\* mutant of MayApprove: one approver too many may go alone
MayApproveOffByOne(u, c) == Order[c].creator = u => CountApprovers <= 2

(* The creator of a command approves it only when nobody else could. *)
MayApprove(u, c) == Order[c].creator = u => CountApprovers <= 1

(* ApproveCommand reads the row and, for its own creator, the number of
   accounts that could approve.  created_by never changes and the status is
   tested again by the UPDATE, so the two reads are one step. *)
ApproveCheck(u, c) ==
  /\ u \in approvers
  /\ approving[u] = {}
  /\ status[c] = "pending"
  /\ MayApprove(u, c)
  /\ approving' = [approving EXCEPT ![u] = {c}]
  /\ UNCHANGED <<now, tableVars, approvers, retired, retiring,
                 handler, inReply, net, agentVars, faults>>

ApproveWrite(u, c) ==
  /\ c \in approving[u]
  /\ approving' = [approving EXCEPT ![u] = {}]
  /\ IF status[c] = "pending"
     THEN /\ status'     = [status     EXCEPT ![c] = "approved"]
          /\ approvedBy' = [approvedBy EXCEPT ![c] = u]
     ELSE UNCHANGED <<status, approvedBy>>
  /\ UNCHANGED <<now, created, expires, notBefore, undated, approvers, retired,
                 retiring, handler, inReply, net, agentVars, faults>>

CancelCommand(c) ==
  /\ approvers # {}
  /\ status[c] \in {"pending", "approved"}
  /\ status' = [status EXCEPT ![c] = "cancelled"]
  /\ UNCHANGED <<now, approvedBy, created, expires, notBefore, undated,
                 approvers, approving, retired, retiring, handler, inReply,
                 net, agentVars, faults>>

(* An administrator disables or enables an account, never their own. *)
SetUserDisabled(u) ==
  /\ approvers \ {u} # {}
  /\ approvers' = IF u \in approvers THEN approvers \ {u} ELSE approvers \cup {u}
  /\ UNCHANGED <<now, tableVars, approving, retired, retiring,
                 handler, inReply, net, agentVars, faults>>

RetireAgent(a) ==
  /\ approvers # {}
  /\ a \notin retired
  /\ retired' = retired \cup {a}
  /\ UNCHANGED <<now, tableVars, approvers, approving, retiring,
                 handler, inReply, net, agentVars, faults>>

-----------------------------------------------------------------------------
(* The heartbeat: authentication, then NextCommandForAgent, then the reply. *)

Idle(a) == handler[a] = "idle" /\ inReply \cap CommandsOf(a) = {}

(* The agent posts its heartbeat and AuthAgent admits it. *)
HeartbeatAuth(a) ==
  /\ a \in up
  /\ Idle(a)
  /\ a \notin retired
  /\ handler' = [handler EXCEPT ![a] = "authed"]
  /\ UNCHANGED <<now, tableVars, approvers, approving, retired, retiring,
                 inReply, net, agentVars, faults>>

\* mutant of Overdue: only what still waits for approval goes stale
OverduePending(a) == {c \in CommandsOf(a) : status[c] = "pending" /\ expires[c] < now}

Overdue(a) == {c \in CommandsOf(a) : /\ status[c] \in {"pending", "approved"}
                                     /\ expires[c] < now}
Eligible(a) == {c \in CommandsOf(a) \ Overdue(a) : /\ status[c] = "approved"
                                                   /\ notBefore[c] <= now}
Oldest(S) == {c \in S : \A d \in S : created[c] <= created[d]}

(* What the SELECT ... ORDER BY created_at LIMIT 1 may return. *)
Picks(a) == IF Eligible(a) = {} THEN {{}} ELSE {{c} : c \in Oldest(Eligible(a))}

\* mutants of Dispatched: the picked row stays approved; a transaction that
\* picks nothing rolls back
DispatchedUnmarked(a, picked) ==
  [c \in Commands |-> IF c \in Overdue(a) THEN "expired" ELSE status[c]]
DispatchedRollback(a, picked) ==
  [c \in Commands |-> IF c \in picked THEN "sent"
                      ELSE IF picked # {} /\ c \in Overdue(a) THEN "expired"
                      ELSE status[c]]

(* The status of each row after NextCommandForAgent picked the commands in
   picked (one or none): overdue work expires first, and handleHeartbeat fails
   a containment order this agent never agreed to. *)
Dispatched(a, picked) ==
  [c \in Commands |->
     IF c \in Overdue(a) THEN "expired"
     ELSE IF c \notin picked THEN status[c]
     ELSE IF KindOf(c) = "contain" /\ ~ContainAllowed(a) THEN "failed"
     ELSE "sent"]

NextCommandForAgent(a) ==
  /\ handler[a] \in {"authed", "orphan"}
  /\ \E picked \in Picks(a) :
       /\ status' = Dispatched(a, picked)
       /\ inReply' = IF handler[a] = "orphan" THEN inReply
                     ELSE inReply \cup {c \in picked : status'[c] # "failed"}
  /\ handler' = [handler EXCEPT ![a] = "idle"]
  /\ UNCHANGED <<now, approvedBy, created, expires, notBefore, undated,
                 approvers, approving, retired, retiring, net, agentVars,
                 faults>>

(* The agent gives up on a heartbeat: it timed out or its response is lost.
   A handler already past authentication goes on without its client. *)
LoseHeartbeat(a) ==
  /\ faults < MaxFaults
  /\ ~Idle(a)
  /\ handler[a] # "orphan"
  /\ faults' = faults + 1
  /\ handler' = [handler EXCEPT ![a] = IF @ = "authed" THEN "orphan" ELSE @]
  /\ inReply' = inReply \ CommandsOf(a)
  /\ UNCHANGED <<now, tableVars, approvers, approving, retired, retiring,
                 net, agentVars>>

(* beat() starts a goroutine for the command and goes back to its loop. *)
ReceiveCommand(c) ==
  /\ c \in inReply
  /\ AgentOf(c) \in up
  /\ inReply' = inReply \ {c}
  /\ task' = [task EXCEPT ![c] = "received"]
  /\ UNCHANGED <<now, tableVars, approvers, approving, retired, retiring,
                 handler, net, up, stopping, installed, overlooked, performed, faults>>

-----------------------------------------------------------------------------
(* The agent's execute(), one goroutine per command. *)

PostRunning(c) ==
  /\ task[c] = "received"
  /\ task' = [task EXCEPT ![c] = "working"]
  /\ net' = net \cup {[cmd |-> c, status |-> "running"]}
  /\ UNCHANGED <<now, tableVars, approvers, approving, retired, retiring,
                 handler, inReply, up, stopping, installed, overlooked, performed, faults>>

\* mutant of Refused: the host trusts the console's check
RefusedByKind(c) == KindOf(c) = "update_packs"

(* What runCommand turns away: containment this host did not opt in to, and
   the one kind the console knows and the agent does not. *)
Refused(c) ==
  \/ KindOf(c) = "contain" /\ AgentOf(c) \notin LocalOptIn
  \/ KindOf(c) = "update_packs"

Refuse(c) ==
  /\ task[c] = "working"
  /\ Refused(c)
  /\ task' = [task EXCEPT ![c] = "failed"]
  /\ UNCHANGED <<now, tableVars, approvers, approving, retired, retiring,
                 handler, inReply, net, up, stopping, installed, overlooked, performed,
                 faults>>

\* mutant of Removal: done is reported whatever could be deleted
RemovalUnchecked(c, outcome, blind) ==
  IF KindOf(c) # "uninstall" \/ blind THEN {FALSE} ELSE BOOLEAN

(* Whether the credential is removed.  PerformUninstall skips a file that it
   cannot stat and counts it neither as removed nor as failed; of what it looks
   at, done says that everything went, and failed leaves it open. *)
Removal(c, outcome, blind) ==
  IF KindOf(c) # "uninstall" \/ blind THEN {FALSE}
  ELSE IF outcome = "done" THEN {TRUE} ELSE BOOLEAN

Perform(c) ==
  /\ task[c] = "working"
  /\ ~Refused(c)
  /\ performed' = [performed EXCEPT ![c] = @ + 1]
  /\ \E outcome \in {"done", "failed"}, blind \in BOOLEAN :
       \E removed \in Removal(c, outcome, blind) :
         /\ task' = [task EXCEPT ![c] = outcome]
         /\ installed' = IF removed THEN installed \ {AgentOf(c)} ELSE installed
         /\ overlooked' = IF blind /\ KindOf(c) = "uninstall" THEN overlooked \cup {c}
                          ELSE overlooked
  /\ UNCHANGED <<now, tableVars, approvers, approving, retired, retiring,
                 handler, inReply, net, up, stopping, faults>>

EndsProcess(c) ==
  \/ KindOf(c) = "uninstall"
  \/ KindOf(c) = "upgrade" /\ task[c] = "done"

PostOutcome(c) ==
  /\ task[c] \in {"done", "failed"}
  /\ net' = net \cup {[cmd |-> c, status |-> task[c]]}
  /\ task' = [task EXCEPT ![c] = IF EndsProcess(c) THEN "closing" ELSE "over"]
  /\ UNCHANGED <<now, tableVars, approvers, approving, retired, retiring,
                 handler, inReply, up, stopping, installed, overlooked, performed, faults>>

(* An uninstall, or an upgrade whose re-exec failed, closes the shutdown
   channel; the run loop may still beat before it looks at it. *)
RequestShutdown(c) ==
  /\ task[c] = "closing"
  /\ task' = [task EXCEPT ![c] = "over"]
  /\ stopping' = stopping \cup {AgentOf(c)}
  /\ UNCHANGED <<now, tableVars, approvers, approving, retired, retiring,
                 handler, inReply, net, up, installed, overlooked, performed, faults>>

(* The end of agent a's process image: its goroutines and its connections go
   with it, whatever they were doing. *)
ProcessGone(a) ==
  /\ task' = [c \in Commands |-> IF AgentOf(c) = a /\ task[c] # "none"
                                 THEN "over" ELSE task[c]]
  /\ inReply' = inReply \ CommandsOf(a)
  /\ handler' = [handler EXCEPT ![a] = IF @ = "authed" THEN "orphan" ELSE @]

Reexec(c) ==
  /\ task[c] = "closing"
  /\ KindOf(c) = "upgrade"
  /\ ProcessGone(AgentOf(c))
  /\ stopping' = stopping \ {AgentOf(c)}
  /\ up' = IF AgentOf(c) \in installed THEN up ELSE up \ {AgentOf(c)}
  /\ UNCHANGED <<now, tableVars, approvers, approving, retired, retiring,
                 net, installed, overlooked, performed, faults>>

AgentExit(a) ==
  /\ a \in stopping
  /\ ProcessGone(a)
  /\ up' = up \ {a}
  /\ stopping' = stopping \ {a}
  /\ UNCHANGED <<now, tableVars, approvers, approving, retired, retiring,
                 net, installed, overlooked, performed, faults>>

AgentCrash(a) ==
  /\ faults < MaxFaults
  /\ a \in up
  /\ faults' = faults + 1
  /\ ProcessGone(a)
  /\ up' = up \ {a}
  /\ stopping' = stopping \ {a}
  /\ UNCHANGED <<now, tableVars, approvers, approving, retired, retiring,
                 net, installed, overlooked, performed>>

(* `connect` needs the credential on disk. *)
AgentStart(a) ==
  /\ a \in installed \ up
  /\ up' = up \cup {a}
  /\ UNCHANGED <<now, tableVars, approvers, approving, retired, retiring,
                 handler, inReply, net, stopping, installed, overlooked, task, performed,
                 faults>>

-----------------------------------------------------------------------------
(* Results, and the environment. *)

\* mutants of CompleteCommand: any row may be completed; only a sent one may
CompleteAnything(m) == [status EXCEPT ![m.cmd] = m.status]
CompleteSentOnly(m) ==
  IF status[m.cmd] = "sent" THEN [status EXCEPT ![m.cmd] = m.status] ELSE status

(* The row a result leaves behind: CompleteCommand touches only dispatched
   commands. *)
CompleteCommand(m) ==
  IF status[m.cmd] \in {"sent", "running"}
  THEN [status EXCEPT ![m.cmd] = m.status] ELSE status

\* mutant of ConfirmsUninstall: the row read before the update is consulted
ConfirmsUninstallStale(m) == KindOf(m.cmd) = "uninstall" /\ status[m.cmd] = "done"

ConfirmsUninstall(m) == KindOf(m.cmd) = "uninstall" /\ m.status = "done"

(* handleCommandResult: a retired agent is turned away, a completed uninstall
   is about to retire its agent. *)
DeliverResult(m) ==
  /\ m \in net
  /\ net' = net \ {m}
  /\ status' = IF AgentOf(m.cmd) \in retired THEN status ELSE CompleteCommand(m)
  /\ retiring' = IF ConfirmsUninstall(m) /\ status' # status
                 THEN retiring \cup {AgentOf(m.cmd)} ELSE retiring
  /\ UNCHANGED <<now, approvedBy, created, expires, notBefore, undated,
                 approvers, approving, retired, handler, inReply, agentVars,
                 faults>>

LoseResult(m) ==
  /\ faults < MaxFaults
  /\ m \in net
  /\ faults' = faults + 1
  /\ net' = net \ {m}
  /\ UNCHANGED <<now, tableVars, approvers, approving, retired, retiring,
                 handler, inReply, agentVars>>

RetireUninstalled(a) ==
  /\ a \in retiring
  /\ retired' = retired \cup {a}
  /\ retiring' = retiring \ {a}
  /\ UNCHANGED <<now, tableVars, approvers, approving, handler, inReply, net,
                 agentVars, faults>>

(* The console's process ends: the table stays, half-served requests do not. *)
ConsoleRestart ==
  /\ faults < MaxFaults
  /\ faults' = faults + 1
  /\ undated' = {} /\ retiring' = {} /\ inReply' = {}
  /\ approving' = [u \in Users |-> {}]
  /\ handler' = [a \in Agents |-> "idle"]
  /\ UNCHANGED <<now, status, approvedBy, created, expires, notBefore,
                 approvers, retired, net, agentVars>>

Tick ==
  /\ now < MaxTime
  /\ now' = now + 1
  /\ UNCHANGED <<tableVars, approvers, approving, retired, retiring,
                 handler, inReply, net, agentVars, faults>>

-----------------------------------------------------------------------------
CommandStep(c) ==
  \/ CreateCommand(c) \/ CreateCommandAt(c) \/ SetNotBefore(c)
  \/ CancelCommand(c)
  \/ ReceiveCommand(c) \/ PostRunning(c) \/ Refuse(c) \/ Perform(c)
  \/ PostOutcome(c) \/ RequestShutdown(c) \/ Reexec(c)

UserStep(u) ==
  \/ SetUserDisabled(u)
  \/ \E c \in Commands : ApproveCheck(u, c) \/ ApproveWrite(u, c)

AgentStep(a) ==
  \/ HeartbeatAuth(a) \/ NextCommandForAgent(a) \/ LoseHeartbeat(a)
  \/ RetireAgent(a) \/ RetireUninstalled(a)
  \/ AgentExit(a) \/ AgentCrash(a) \/ AgentStart(a)

Next ==
  \/ \E c \in Commands : CommandStep(c)
  \/ \E u \in Users : UserStep(u)
  \/ \E a \in Agents : AgentStep(a)
  \/ \E m \in net : DeliverResult(m) \/ LoseResult(m)
  \/ ConsoleRestart
  \/ Tick

Spec == Init /\ [][Next]_vars

(***************************************************************************)
(* Fairness.  The console serves what it accepted, the agent's goroutines  *)
(* run, its ticker keeps beating, its supervisor starts it again, and time *)
(* passes.  Nothing is assumed of people: no order, approval, cancellation *)
(* or retirement has to happen.                                            *)
(***************************************************************************)
Fairness ==
  /\ WF_vars(Tick)
  /\ \A c \in Commands :
       /\ WF_vars(SetNotBefore(c))
       /\ WF_vars(ReceiveCommand(c)) /\ WF_vars(PostRunning(c))
       /\ WF_vars(Refuse(c) \/ Perform(c)) /\ WF_vars(PostOutcome(c))
       /\ WF_vars(RequestShutdown(c) \/ Reexec(c))
       /\ WF_vars(\E m \in net : m.cmd = c /\ DeliverResult(m))
  /\ \A a \in Agents :
       /\ WF_vars(HeartbeatAuth(a)) /\ WF_vars(NextCommandForAgent(a))
       /\ WF_vars(RetireUninstalled(a))
       /\ WF_vars(AgentExit(a)) /\ WF_vars(AgentStart(a))

FairSpec == Spec /\ Fairness

-----------------------------------------------------------------------------
(* What the channel promises, CommandLedger, and how it is implemented. *)
Phase(c) ==
  CASE status[c] = "none"                  -> "absent"
    [] status[c] = "pending"               -> "waiting"
    [] status[c] = "approved"              -> "ready"
    [] status[c] \in {"sent", "running"}   -> "out"
    [] status[c] = "done"                  -> "done"
    [] status[c] = "failed"                -> "failed"
    [] status[c] \in {"cancelled", "expired"} -> "withdrawn"

Ledger == INSTANCE CommandLedger WITH
            Guarded <- {c \in Commands : KindOf(c) \in DestructiveKinds},
            phase  <- [c \in Commands |-> Phase(c)],
            worked <- performed

-----------------------------------------------------------------------------
(* Every variable has its type (all handlers). *)
TypeOK ==
  /\ now \in Nat /\ faults \in Nat
  /\ status     \in [Commands -> Statuses]
  /\ approvedBy \in [Commands -> Users \cup {Nobody}]
  /\ created    \in [Commands -> Nat]
  /\ expires    \in [Commands -> Nat]
  /\ notBefore  \in [Commands -> Nat]
  /\ undated \in SUBSET Commands
  /\ approvers \in SUBSET Users
  /\ approving \in [Users -> SUBSET Commands]
  /\ retired \in SUBSET Agents /\ retiring \in SUBSET Agents
  /\ handler \in [Agents -> {"idle", "authed", "orphan"}]
  /\ inReply \in SUBSET Commands /\ net \in SUBSET Message
  /\ up \in SUBSET Agents /\ stopping \in SUBSET Agents
  /\ installed \in SUBSET Agents /\ overlooked \in SUBSET Commands
  /\ task \in [Commands -> Stages]
  /\ performed \in [Commands -> Nat]

(* Whatever is lost, delayed or restarted, no agent begins the work of a
   command twice: NextCommandForAgent marks a command sent in the transaction
   that picks it, and nothing ever makes it eligible again. *)
AtMostOnce == \A c \in Commands : performed[c] <= 1

(* No destructive work happens on an agent unless a person approved it after
   it was created (README, "separately approved by a human before it is ever
   handed to an agent"). *)
HumanApproved ==
  \A c \in Commands :
    performed[c] > 0 /\ KindOf(c) \in DestructiveKinds => approvedBy[c] # Nobody

(* Containment happens only where the token granted it, the console recorded
   the opt-in and the host's own state permits it: each side checks its key. *)
TwoKeys ==
  \A c \in Commands :
    performed[c] > 0 /\ KindOf(c) = "contain" =>
      AgentOf(c) \in Granted \cap ServerOptIn \cap LocalOptIn

(* A row that says done is about work an agent did.  One that says an uninstall
   is done is about an agent whose credential is gone, unless the uninstall
   could not look at it: uninstall() deletes first and reports what failed, and
   PerformUninstall counts no file it cannot stat as failed. *)
HonestOutcome ==
  \A c \in Commands : status[c] = "done" =>
    /\ performed[c] > 0
    /\ KindOf(c) = "uninstall" => AgentOf(c) \notin installed \/ c \in overlooked

(* A command that ended stays as it ended, however late a result, an approval
   or a cancellation arrives (the WHERE clauses of the four UPDATEs). *)
TerminalIsFinal ==
  [][\A c \in Commands : status[c] \in Terminal => status'[c] = status[c]]_vars

(* Every step of the channel is a step of the ledger, or none of its business. *)
ImplementsLedger == Ledger!Spec

(* A command past its time is never handed out, even when a long-offline agent
   returns: stale work expires before the next command is picked. *)
NoStaleDispatch ==
  [][\A c \in Commands :
       status[c] = "approved" /\ status'[c] = "sent" => now <= expires[c]]_vars

(* While two accounts could approve at all times, no command is ever approved
   by its creator. *)
NotByCreator == \A c \in Commands : approvedBy[c] # Order[c].creator
FourEyes == [](CountApprovers > 1) => []NotByCreator

(* An approved command does not wait for ever: it is handed out, cancelled or
   expired, unless its agent left the fleet. *)
ApprovedMovesOn ==
  \A c \in Commands :
    status[c] = "approved" ~>
      \/ status[c] # "approved"
      \/ AgentOf(c) \in retired
      \/ AgentOf(c) \notin installed

(* When nothing is lost or restarted, a command handed out reaches an outcome
   the console knows, unless its agent was retired or ended its own process
   meanwhile. *)
DispatchedCompletes ==
  \A c \in Commands :
    status[c] = "sent" ~>
      \/ status[c] \in {"done", "failed"}
      \/ AgentOf(c) \in retired
      \/ \E d \in CommandsOf(AgentOf(c)) \ {c} :
            KindOf(d) \in {"uninstall", "upgrade"} /\ performed[d] > 0

(* While nothing fails, a confirmed uninstall retires its agent, so that the
   silence which follows is not taken for an intrusion. *)
UninstallRetires ==
  \A c \in Commands :
    status[c] = "done" /\ KindOf(c) = "uninstall" ~> AgentOf(c) \in retired
=============================================================================
