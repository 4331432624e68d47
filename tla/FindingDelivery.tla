-------------------------- MODULE FindingDelivery ---------------------------
(***************************************************************************)
(* How a detection becomes a row: the queue of undelivered findings of a    *)
(* managed agent, the batches it posts to /v1/events, the console's handler *)
(* storing a batch finding by finding, and the operators who triage the     *)
(* rows meanwhile.                                                          *)
(*                                                                         *)
(* Detections are numbered in the order they are made; KeyOf gives each the *)
(* row (agent and dedupe key) it belongs to.  Two goroutines of the agent   *)
(* may flush at a time: its run loop and the one executing an upgrade.  A   *)
(* handler outlives the client that gave up on it.                          *)
(***************************************************************************)
EXTENDS Naturals, Sequences, FiniteSets

CONSTANTS
  Keys,           \* rows a finding of this agent may belong to
  KeyOf,          \* the row of each detection
  MaxDetections,  \* bound on detections
  Capacity,       \* maxPendingFindings (5000 in the code)
  BatchCap,       \* maxBatch of handleEvents (2000 in the code)
  BodyCap,        \* findings that fit in maxEventsBody (4 MiB in the code)
  Flushers,       \* goroutines that call flushEvents
  Handlers,       \* requests the console serves at a time (bound)
  NoClient,       \* the client of a handler whose client gave up
  MaxFaults       \* bound on lost requests, failed statements and restarts

Detections == 1..MaxDetections

ASSUME BoundsAssumption ==
  /\ MaxDetections \in Nat /\ MaxFaults \in Nat
  /\ Capacity \in Nat \ {0} /\ BatchCap \in Nat \ {0} /\ BodyCap \in Nat \ {0}
ASSUME KeysAssumption == KeyOf \in [Detections -> Keys]
ASSUME ClientsAssumption == NoClient \notin Flushers

VARIABLES
  detected,   \* detections made so far
  pending,    \* the agent's queue, oldest first
  flight,     \* per flusher: the batch it waits for, <<>> when it waits for none
  handler,    \* the console's handlers of /v1/events
  state,      \* findings.state, "absent" while there is no row
  view,       \* the bulk action: idle, the list is shown, or its count is checked
  shown,      \* the rows on the operator's page
  faults,     \* faults so far
  stored,     \* detections some handler stored (history)
  dropped,    \* detections the full queue let go (history)
  lost,       \* detections that died with the agent's process (history)
  cut         \* detections beyond BatchCap of an acknowledged batch (history)

triageVars  == <<view, shown>>
historyVars == <<stored, dropped, lost, cut>>
vars == <<detected, pending, flight, handler, state, triageVars, faults, historyVars>>

Triage == {"open", "contained", "dismissed", "resolved"}
States == {"absent"} \cup Triage

Elements(q) == {q[i] : i \in 1..Len(q)}
Smaller(m, n) == IF m <= n THEN m ELSE n

Idle == [busy |-> FALSE, client |-> NoClient, batch |-> <<>>, next |-> 1,
         missing |-> FALSE, failed |-> FALSE]
Serving(f, batch) == [busy |-> TRUE, client |-> f, batch |-> batch, next |-> 1,
                      missing |-> FALSE, failed |-> FALSE]
Handler == [busy: BOOLEAN, client: Flushers \cup {NoClient}, batch: Seq(Detections),
            next: Nat \ {0}, missing: BOOLEAN, failed: BOOLEAN]

Init ==
  /\ detected = 0 /\ faults = 0
  /\ pending = <<>> /\ flight = [f \in Flushers |-> <<>>]
  /\ handler = [h \in Handlers |-> Idle]
  /\ state = [k \in Keys |-> "absent"]
  /\ view = "idle" /\ shown = {}
  /\ stored = {} /\ dropped = {} /\ lost = {} /\ cut = {}

-----------------------------------------------------------------------------
(* The agent: the monitor's sink, flushEvents and requeue.                  *)

(* A full queue refuses the new detection. *)
Detect ==
  /\ detected < MaxDetections
  /\ detected' = detected + 1
  /\ IF Len(pending) < Capacity
     THEN pending' = Append(pending, detected') /\ UNCHANGED dropped
     ELSE dropped' = dropped \cup {detected'} /\ UNCHANGED pending
  /\ UNCHANGED <<flight, handler, state, triageVars, faults, stored, lost, cut>>

(* flushEvents takes the whole queue and posts it. *)
Flush(f) ==
  /\ flight[f] = <<>> /\ pending # <<>>
  /\ flight' = [flight EXCEPT ![f] = pending]
  /\ pending' = <<>>
  /\ \E h \in Handlers :
       /\ ~handler[h].busy
       /\ handler' = [handler EXCEPT ![h] = Serving(f, pending)]
  /\ UNCHANGED <<detected, state, triageVars, faults, historyVars>>

\* mutant of Overflow: off by one
OverflowLess(q) == IF Len(q) > Capacity THEN Len(q) - Capacity - 1 ELSE 0

(* How many detections a returned batch pushes out at the front. *)
Overflow(q) == IF Len(q) > Capacity THEN Len(q) - Capacity ELSE 0

\* mutants of Requeue: the end goes instead of the front; nothing comes back
RequeueOldest(batch) ==
  LET q == batch \o pending IN
    /\ pending' = SubSeq(q, 1, Len(q) - Overflow(q))
    /\ dropped' = dropped \cup {q[i] : i \in (Len(q) - Overflow(q) + 1)..Len(q)}
RequeueNothing(batch) == UNCHANGED <<pending, dropped>>

(* The batch goes back in front of what was queued since, and the front of
   the result goes if it is too long. *)
Requeue(batch) ==
  LET q == batch \o pending IN
    /\ pending' = SubSeq(q, Overflow(q) + 1, Len(q))
    /\ dropped' = dropped \cup {q[i] : i \in 1..Overflow(q)}

(* The post failed: no handler will answer this client any more. *)
GiveUp(f) ==
  /\ flight[f] # <<>>
  /\ \A h \in Handlers : handler[h].client # f
  /\ Requeue(flight[f])
  /\ flight' = [flight EXCEPT ![f] = <<>>]
  /\ UNCHANGED <<detected, handler, state, triageVars, faults, stored, lost, cut>>

-----------------------------------------------------------------------------
(* The console: handleEvents and UpsertFinding.                             *)

(* A body over maxEventsBody is answered 400, with nothing stored. *)
Fits(h)   == Len(handler[h].batch) <= BodyCap
Limit(h)  == Smaller(Len(handler[h].batch), BatchCap)
AtWork(h) == handler[h].busy /\ Fits(h) /\ handler[h].next <= Limit(h)
Current(h) == handler[h].batch[handler[h].next]

\* A mutant of Seen: every sighting reopens.
SeenReopensAll(s) == "open"

(* The state a sighting leaves a row in. *)
Seen(s) == IF s = "resolved" THEN "open" ELSE s

(* The UPDATE of UpsertFinding; no row, and the INSERT is next. *)
UpdateRow(h) ==
  /\ AtWork(h) /\ ~handler[h].missing
  /\ LET n == Current(h)  k == KeyOf[n] IN
       IF state[k] # "absent"
       THEN /\ state' = [state EXCEPT ![k] = Seen(@)]
            /\ handler' = [handler EXCEPT ![h].next = @ + 1]
            /\ stored' = stored \cup {n}
       ELSE /\ handler' = [handler EXCEPT ![h].missing = TRUE]
            /\ UNCHANGED <<state, stored>>
  /\ UNCHANGED <<detected, pending, flight, triageVars, faults, dropped, lost, cut>>

(* The unique index refuses a row another handler inserted meanwhile. *)
Refused(h) == state[KeyOf[Current(h)]] # "absent"

InsertRow(h) ==
  /\ AtWork(h) /\ handler[h].missing
  /\ LET n == Current(h) IN
       IF Refused(h)
       THEN /\ handler' = [handler EXCEPT ![h].next = @ + 1, ![h].missing = FALSE,
                                          ![h].failed = TRUE]
            /\ UNCHANGED <<state, stored>>
       ELSE /\ state' = [state EXCEPT ![KeyOf[n]] = "open"]
            /\ stored' = stored \cup {n}
            /\ handler' = [handler EXCEPT ![h].next = @ + 1, ![h].missing = FALSE]
  /\ UNCHANGED <<detected, pending, flight, triageVars, faults, dropped, lost, cut>>

(* Either statement fails: the finding is counted, logged and skipped. *)
StoreError(h) ==
  /\ faults < MaxFaults
  /\ AtWork(h)
  /\ faults' = faults + 1
  /\ handler' = [handler EXCEPT ![h].next = @ + 1, ![h].missing = FALSE, ![h].failed = TRUE]
  /\ UNCHANGED <<detected, pending, flight, state, triageVars, historyVars>>

\* mutant of Undelivered: a 200 is taken for delivery
UndeliveredNever(h) == ~Fits(h)

(* The client puts the batch back when the answer is an error or counts
   failures. *)
Undelivered(h) == ~Fits(h) \/ handler[h].failed

(* The answer: with no failure counted, the client forgets the whole batch. *)
Respond(h) ==
  /\ handler[h].busy /\ ~AtWork(h)
  /\ LET f == handler[h].client IN
       IF f = NoClient THEN UNCHANGED <<pending, flight, dropped, cut>>
       ELSE /\ flight' = [flight EXCEPT ![f] = <<>>]
            /\ IF Undelivered(h)
               THEN Requeue(flight[f]) /\ UNCHANGED cut
               ELSE /\ cut' = cut \cup {flight[f][i] : i \in (BatchCap + 1)..Len(flight[f])}
                    /\ UNCHANGED <<pending, dropped>>
  /\ handler' = [handler EXCEPT ![h] = Idle]
  /\ UNCHANGED <<detected, state, triageVars, faults, stored, lost>>

-----------------------------------------------------------------------------
(* Faults.                                                                  *)

(* The request is lost on its way, or only its client is gone: it timed out
   or the answer will not reach it. *)
LoseRequest(h) ==
  /\ faults < MaxFaults
  /\ handler[h].client # NoClient
  /\ faults' = faults + 1
  /\ \/ handler' = [handler EXCEPT ![h] = Idle]
     \/ handler' = [handler EXCEPT ![h].client = NoClient]
  /\ UNCHANGED <<detected, pending, flight, state, triageVars, historyVars>>

AgentCrash ==
  /\ faults < MaxFaults
  /\ faults' = faults + 1
  /\ lost' = lost \cup Elements(pending) \cup UNION {Elements(flight[f]) : f \in Flushers}
  /\ pending' = <<>>
  /\ flight' = [f \in Flushers |-> <<>>]
  /\ handler' = [h \in Handlers |-> [handler[h] EXCEPT !.client = NoClient]]
  /\ UNCHANGED <<detected, state, triageVars, stored, dropped, cut>>

ConsoleRestart ==
  /\ faults < MaxFaults
  /\ faults' = faults + 1
  /\ handler' = [h \in Handlers |-> Idle]
  /\ view' = "idle" /\ shown' = {}
  /\ UNCHANGED <<detected, pending, flight, state, historyVars>>

-----------------------------------------------------------------------------
(* The operators: one row, or every open row of a list they looked at.      *)

SetFindingState(k, s) ==
  /\ state[k] # "absent"
  /\ state' = [state EXCEPT ![k] = s]
  /\ UNCHANGED <<detected, pending, flight, handler, triageVars, faults, historyVars>>

Matching == {k \in Keys : state[k] = "open"}

ShowFindings ==
  /\ view = "idle" /\ Matching # {}
  /\ view' = "shown" /\ shown' = Matching
  /\ UNCHANGED <<detected, pending, flight, handler, state, faults, historyVars>>

(* CountFindings against Expect: a changed count is refused. *)
BulkCount ==
  /\ view = "shown"
  /\ IF Cardinality(Matching) = Cardinality(shown)
     THEN view' = "counted" /\ UNCHANGED shown
     ELSE view' = "idle" /\ shown' = {}
  /\ UNCHANGED <<detected, pending, flight, handler, state, faults, historyVars>>

(* SetFindingStatesByFilter evaluates the filter again. *)
BulkUpdate(s) ==
  /\ view = "counted"
  /\ state' = [k \in Keys |-> IF k \in Matching THEN s ELSE state[k]]
  /\ view' = "idle" /\ shown' = {}
  /\ UNCHANGED <<detected, pending, flight, handler, faults, historyVars>>

-----------------------------------------------------------------------------
AgentStep == Detect \/ AgentCrash \/ \E f \in Flushers : Flush(f) \/ GiveUp(f)

ConsoleStep ==
  \/ ConsoleRestart
  \/ \E h \in Handlers :
       UpdateRow(h) \/ InsertRow(h) \/ StoreError(h) \/ Respond(h) \/ LoseRequest(h)

OperatorStep ==
  \/ \E s \in Triage : BulkUpdate(s) \/ \E k \in Keys : SetFindingState(k, s)
  \/ ShowFindings \/ BulkCount

Next == AgentStep \/ ConsoleStep \/ OperatorStep

Spec == Init /\ [][Next]_vars

(* The run loop flushes at every heartbeat (nothing is assumed of the goroutine
   of an upgrade), posts end (the client has a timeout), and the console serves
   what it accepted. *)
Fairness ==
  /\ WF_vars(\E f \in Flushers : Flush(f))
  /\ \A f \in Flushers : WF_vars(GiveUp(f))
  /\ \A h \in Handlers : WF_vars(UpdateRow(h) \/ InsertRow(h)) /\ WF_vars(Respond(h))

FairSpec == Spec /\ Fairness

-----------------------------------------------------------------------------
(* Every variable has its type. *)
TypeOK ==
  /\ detected \in 0..MaxDetections /\ faults \in Nat
  /\ pending \in Seq(Detections)
  /\ flight \in [Flushers -> Seq(Detections)]
  /\ handler \in [Handlers -> Handler]
  /\ state \in [Keys -> States]
  /\ view \in {"idle", "shown", "counted"} /\ shown \in SUBSET Keys
  /\ stored \in SUBSET Detections /\ dropped \in SUBSET Detections
  /\ lost \in SUBSET Detections /\ cut \in SUBSET Detections

WithAgent == Elements(pending) \cup UNION {Elements(flight[f]) : f \in Flushers}

(* A detection is never just gone: the agent still holds it, the console
   stored it, or it is one of the three admitted losses (a full queue, a dead
   process, the console's cap on a batch).  flushEvents puts a batch back on
   every error and on every answer that counts a failure. *)
Accounted ==
  \A n \in 1..detected : n \in WithAgent \cup stored \cup dropped \cup lost \cup cut

(* The queue never outgrows its bound, whichever batches come back to it. *)
QueueBounded == Len(pending) <= Capacity

(* Types, and the bound of the one that could grow. *)
WellFormed == TypeOK /\ QueueBounded

(* Only an operator moves a row out of contained or dismissed: triage is not
   undone by the next report (UpsertFinding), however late it arrives. *)
TriageStands ==
  [][\A k \in Keys :
       (/\ state[k] \in {"contained", "dismissed"}
        /\ state'[k] # state[k])  => handler' = handler]_vars

(* A detection the agent holds is stored in the end, or is one of the admitted
   losses, whatever was lost, refused or restarted meanwhile ("queued and
   shipped on the next heartbeat", runMonitor).  It needs every queue to fit
   in one body. *)
Delivered ==
  \A n \in Detections :
    n \in WithAgent ~> n \in stored \cup dropped \cup lost \cup cut

(* The agent is told how many findings the console could not store
   (handleEvents): an acknowledged batch is stored to the last finding. *)
AckMeansStored == cut \subseteq stored

(* A batch that comes back never pushes out what was queued while it was away
   (requeue: "keeping the NEWEST detections"), also when several come back. *)
QueuedSurvives ==
  [][dropped' # dropped /\ detected' = detected =>
       Elements(pending) \subseteq Elements(pending')]_vars

(* What the delivery promises, FindingLedger, and how it is implemented: owed is
   what the agent holds, in its queue or on its way. *)
Ledger == INSTANCE FindingLedger WITH
            made <- detected,
            owed <- WithAgent,
            kept <- stored,
            gone <- dropped \cup lost \cup cut

(* Every step settles detections that are stored or admitted as lost, and none
   of them is owed again: no batch returns what was acknowledged, and none is in
   two batches (flushEvents, requeue, handleEvents). *)
ImplementsLedger == Ledger!Spec

(* A batch that returns spares what was queued, and the agent's queue and the
   console's table keep the ledger between them. *)
DeliveryPromises == QueuedSurvives /\ ImplementsLedger
=============================================================================
