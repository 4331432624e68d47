-------------------------- MODULE WebhookDelivery ---------------------------
(***************************************************************************)
(* Tickets from findings: the console's webhook pass.  Once a minute one    *)
(* goroutine walks the enabled webhooks; for each it selects artefacts (a   *)
(* rule and a digest, on however many hosts), claims a row of              *)
(* webhook_deliveries, posts, and records how it went.  Every statement is *)
(* a step of its own: agents report, operators triage and webhooks are      *)
(* disabled or deleted in between, and the console may stop.               *)
(***************************************************************************)
EXTENDS Naturals, FiniteSets

CONSTANTS
  NumHooks,      \* webhooks that may be created; ids are never reused
  Findings,      \* findings: one artefact on one host
  ArtefactOf,    \* the artefact of each finding
  Scope,         \* per webhook: the findings of its estate (all without one)
  Floor,         \* per webhook: min_severity
  Reported,      \* severities the agents report (bound)
  Limit,         \* webhookBatch (25 in the code)
  MaxSightings,  \* bound on reports
  MaxFaults      \* bound on failed posts, failed statements and restarts

Hooks      == 1..NumHooks
Artefacts  == {ArtefactOf[f] : f \in Findings}
Severities == {"critical", "high", "medium", "low", "info"}

ASSUME BoundsAssumption ==
  /\ NumHooks \in Nat /\ Limit \in Nat \ {0}
  /\ MaxSightings \in Nat /\ MaxFaults \in Nat
ASSUME FindingsAssumption == IsFiniteSet(Findings)
ASSUME ConfigAssumption ==
  /\ Scope \in [Hooks -> SUBSET Findings]
  /\ Floor \in [Hooks -> Severities]
  /\ Reported \subseteq Severities

VARIABLES
  state,       \* findings.state, "absent" while there is no row
  severity,    \* findings.severity
  seen,        \* findings.last_seen: the number of the last sighting, 0 without one
  hooks,       \* webhooks: not yet created, enabled, disabled or deleted
  failing,     \* webhooks with fail_count > 0
  row,         \* webhook_deliveries: none, claimed or delivered
  stage,       \* what the goroutine does next
  listed,      \* the webhooks that were enabled when the pass listed them
  current,     \* the webhook it works on
  items,       \* the artefacts selected for it and not yet done with, each
               \* with the last_seen it is ordered by
  ok,          \* whether the last post succeeded
  received,    \* tickets each receiver got per artefact (history)
  sightings,   \* reports so far
  faults       \* faults so far

findingVars == <<state, severity, seen, sightings>>
passVars    == <<stage, listed, current, items, ok>>
vars == <<findingVars, hooks, failing, row, passVars, received, faults>>

Init ==
  /\ state = [f \in Findings |-> "absent"]
  /\ severity = [f \in Findings |-> "info"]
  /\ seen = [f \in Findings |-> 0] /\ sightings = 0 /\ faults = 0
  /\ hooks = [w \in Hooks |-> "none"] /\ failing = {}
  /\ row = [p \in Hooks \X Artefacts |-> "none"]
  /\ stage = "idle" /\ listed = {} /\ current = 1 /\ items = {} /\ ok = FALSE
  /\ received = [p \in Hooks \X Artefacts |-> 0]

-----------------------------------------------------------------------------
(* PendingWebhookArtefacts.                                                 *)

Rank(s) == CASE s = "critical" -> 4 [] s = "high" -> 3 [] s = "medium" -> 2
             [] s = "low" -> 1 [] OTHER -> 0

(* SQL compares the severities as text. *)
Alphabetical(s) == CASE s = "critical" -> 1 [] s = "high" -> 2 [] s = "info" -> 3
                     [] s = "low" -> 4 [] OTHER -> 5

OpenOf(w, a) == {f \in Scope[w] : state[f] = "open" /\ ArtefactOf[f] = a}

(* MIN(f.severity) of the group. *)
GroupSeverity(w, a) ==
  CHOOSE s \in {severity[f] : f \in OpenOf(w, a)} :
    \A f \in OpenOf(w, a) : Alphabetical(s) <= Alphabetical(severity[f])

MeetsFloor(w, a) == Rank(GroupSeverity(w, a)) >= Rank(Floor[w])

(* One row per artefact: its newest open finding (MAX(f.last_seen)). *)
Rows(w) == {f \in Scope[w] : /\ state[f] = "open"
                             /\ \A g \in OpenOf(w, ArtefactOf[f]) : seen[g] <= seen[f]}

(* ORDER BY MAX(f.last_seen) DESC, then at most n of them. *)
First(rows, n) == {f \in rows : Cardinality({g \in rows : seen[g] > seen[f]}) < n}

(* The severity filter of the loop over the rows. *)
Filtered(w, rows) == {f \in rows : MeetsFloor(w, ArtefactOf[f])}

(* Four times the limit is fetched, and the severity filter applied to that. *)
Pending(w) == First(Filtered(w, First(Rows(w), 4 * Limit)), Limit)

-----------------------------------------------------------------------------
(* deliverWebhooks.                                                         *)

Enabled == {w \in Hooks : hooks[w] = "enabled"}

BeginPass ==
  /\ stage = "idle"
  /\ listed' = Enabled /\ current' = 1 /\ stage' = "select" /\ items' = {}
  /\ UNCHANGED <<findingVars, hooks, failing, row, ok, received, faults>>

(* The next webhook of the list; the pass ends behind the last. *)
SelectArtefacts ==
  /\ stage = "select"
  /\ IF current > NumHooks
     THEN stage' = "idle" /\ UNCHANGED <<current, items>>
     ELSE IF current \in listed
          THEN /\ stage' = "claim" /\ UNCHANGED current
               /\ items' = {<<seen[f], ArtefactOf[f]>> : f \in Pending(current)}
          ELSE current' = current + 1 /\ UNCHANGED <<stage, items>>
  /\ UNCHANGED <<findingVars, hooks, failing, row, listed, ok, received, faults>>

NextHook == current' = current + 1 /\ stage' = "select" /\ items' = {}

(* The newest of the artefacts left. *)
ThisItem == CHOOSE i \in items : \A j \in items : j[1] <= i[1]
ThisPair == <<current, ThisItem[2]>>

\* mutants of ClaimRefused: a ticketed artefact is claimed again; a failed one
\* is not
ClaimRefusedNever(w) == hooks[w] = "deleted"
ClaimRefusedOnce(w)  == hooks[w] = "deleted" \/ row[ThisPair] # "none"

(* Ticketed already, or the webhook is gone and the foreign key refuses. *)
ClaimRefused(w) == hooks[w] = "deleted" \/ row[ThisPair] = "delivered"

ClaimDelivery ==
  /\ stage = "claim"
  /\ IF items = {} THEN NextHook /\ UNCHANGED row
     ELSE IF ClaimRefused(current)
          THEN items' = items \ {ThisItem} /\ UNCHANGED <<stage, current, row>>
          ELSE /\ row' = [row EXCEPT ![ThisPair] = IF @ = "none" THEN "claimed" ELSE @]
               /\ stage' = "send" /\ UNCHANGED <<items, current>>
  /\ UNCHANGED <<findingVars, hooks, failing, listed, ok, received, faults>>

(* The receiver takes the ticket. *)
PostWebhook ==
  /\ stage = "send"
  /\ received' = [received EXCEPT ![ThisPair] = @ + 1]
  /\ ok' = TRUE /\ stage' = "mark"
  /\ UNCHANGED <<findingVars, hooks, failing, row, listed, current, items, faults>>

(* It refuses, is out of reach, or its answer is late or an error although it
   took the ticket. *)
PostFails ==
  /\ stage = "send"
  /\ faults < MaxFaults
  /\ faults' = faults + 1
  /\ \/ UNCHANGED received
     \/ received' = [received EXCEPT ![ThisPair] = @ + 1]
  /\ ok' = FALSE /\ stage' = "mark"
  /\ UNCHANGED <<findingVars, hooks, failing, row, listed, current, items>>

\* mutants of Outcome: an attempt counts as a delivery; no delivery is recorded
OutcomeAlways == "delivered"
OutcomeNever  == "claimed"
OutcomeSent   == IF ok THEN "sent" ELSE "claimed"

(* What MarkDelivered leaves in the row. *)
Outcome == IF ok THEN "delivered" ELSE "claimed"

(* MarkDelivered; without the row (the webhook was deleted) it does nothing,
   and a failure of the statement is ignored. *)
MarkDelivered ==
  /\ stage = "mark"
  /\ \/ /\ row' = IF row[ThisPair] = "none" THEN row ELSE [row EXCEPT ![ThisPair] = Outcome]
        /\ UNCHANGED faults
     \/ /\ faults < MaxFaults /\ faults' = faults + 1
        /\ UNCHANGED row
  /\ stage' = "record"
  /\ UNCHANGED <<findingVars, hooks, failing, listed, current, items, ok, received>>

(* RecordWebhookResult; the first failure ends the work for this webhook. *)
RecordWebhookResult ==
  /\ stage = "record"
  /\ failing' = IF ok \/ hooks[current] = "deleted" THEN failing \ {current}
                ELSE failing \cup {current}
  /\ IF ok THEN items' = items \ {ThisItem} /\ stage' = "claim" /\ UNCHANGED current
     ELSE NextHook
  /\ UNCHANGED <<findingVars, hooks, row, listed, ok, received, faults>>

ConsoleRestart ==
  /\ faults < MaxFaults
  /\ stage # "idle"
  /\ faults' = faults + 1
  /\ stage' = "idle" /\ items' = {} /\ listed' = {} /\ current' = 1 /\ ok' = FALSE
  /\ UNCHANGED <<findingVars, hooks, failing, row, received>>

-----------------------------------------------------------------------------
(* Around the pass: agents, analysts and administrators.                    *)

(* UpsertFinding: severity and last_seen follow the sighting. *)
UpsertFinding(f, s) ==
  /\ sightings < MaxSightings
  /\ sightings' = sightings + 1
  /\ state' = [state EXCEPT ![f] = IF @ \in {"absent", "resolved"} THEN "open" ELSE @]
  /\ severity' = [severity EXCEPT ![f] = s]
  /\ seen' = [seen EXCEPT ![f] = sightings']
  /\ UNCHANGED <<hooks, failing, row, passVars, received, faults>>

SetFindingState(f, s) ==
  /\ state[f] \notin {"absent", s}
  /\ state' = [state EXCEPT ![f] = s]
  /\ UNCHANGED <<severity, seen, sightings, hooks, failing, row, passVars, received, faults>>

CreateWebhook(w) ==
  /\ hooks[w] = "none"
  /\ hooks' = [hooks EXCEPT ![w] = "enabled"]
  /\ UNCHANGED <<findingVars, failing, row, passVars, received, faults>>

SetWebhookEnabled(w, s) ==
  /\ hooks[w] \in {"enabled", "disabled"} \ {s}
  /\ hooks' = [hooks EXCEPT ![w] = s]
  /\ UNCHANGED <<findingVars, failing, row, passVars, received, faults>>

(* The rows of webhook_deliveries go with it (ON DELETE CASCADE). *)
DeleteWebhook(w) ==
  /\ hooks[w] \in {"enabled", "disabled"}
  /\ hooks' = [hooks EXCEPT ![w] = "deleted"]
  /\ failing' = failing \ {w}
  /\ row' = [p \in Hooks \X Artefacts |-> IF p[1] = w THEN "none" ELSE row[p]]
  /\ UNCHANGED <<findingVars, passVars, received, faults>>

-----------------------------------------------------------------------------
PassStep ==
  \/ BeginPass \/ SelectArtefacts \/ ClaimDelivery
  \/ PostWebhook \/ MarkDelivered \/ RecordWebhookResult

Surroundings ==
  \/ \E f \in Findings : \/ \E s \in Reported : UpsertFinding(f, s)
                         \/ \E s \in {"open", "dismissed", "resolved"} : SetFindingState(f, s)
  \/ \E w \in Hooks : \/ CreateWebhook(w) \/ DeleteWebhook(w)
                      \/ \E s \in {"enabled", "disabled"} : SetWebhookEnabled(w, s)

Next == PassStep \/ PostFails \/ ConsoleRestart \/ Surroundings

Spec == Init /\ [][Next]_vars

(* The ticker fires for ever, and a pass never waits for anything but a post,
   which has a timeout. *)
FairSpec == Spec /\ WF_vars(PassStep)

-----------------------------------------------------------------------------
(* Every variable has its type. *)
TypeOK ==
  /\ state \in [Findings -> {"absent", "open", "dismissed", "resolved"}]
  /\ severity \in [Findings -> Severities]
  /\ seen \in [Findings -> 0..MaxSightings]
  /\ hooks \in [Hooks -> {"none", "enabled", "disabled", "deleted"}]
  /\ failing \subseteq Hooks
  /\ row \in [Hooks \X Artefacts -> {"none", "claimed", "delivered"}]
  /\ stage \in {"idle", "select", "claim", "send", "mark", "record"}
  /\ listed \subseteq Hooks /\ current \in 1..(NumHooks + 1)
  /\ items \subseteq (0..MaxSightings) \X Artefacts /\ ok \in BOOLEAN
  /\ received \in [Hooks \X Artefacts -> Nat]
  /\ sightings \in 0..MaxSightings /\ faults \in Nat

(* A console that dies mid-delivery risks one duplicate, not a loop of them
   (ClaimDelivery): tickets beyond the first are paid for by a fault each. *)
NoTicketLoop ==
  \A p \in Hooks \X Artefacts : received[p] <= 1 + faults

(* A row that says delivered is about a ticket the receiver got: a crash or a
   failure after the claim never passes for a delivery. *)
DeliveredWasReceived ==
  \A p \in Hooks \X Artefacts : row[p] = "delivered" => received[p] > 0

(* Once recorded as delivered an artefact is never sent again by this webhook
   ("Delivery is idempotent forever"). *)
TicketedOnce ==
  [][\A p \in Hooks \X Artefacts :
       row[p] = "delivered" => received'[p] = received[p]]_vars

Due(w, a) ==
  /\ hooks[w] = "enabled" /\ row[<<w, a>>] # "delivered"
  /\ OpenOf(w, a) # {} /\ MeetsFloor(w, a)

(* An artefact a webhook should ticket is ticketed, whatever failed before
   ("Deduplicated by ARTEFACT", PendingWebhookArtefacts returns "artefacts a
   webhook has not yet ticketed"), or it is no longer due. *)
Ticketed ==
  \A w \in Hooks, a \in Artefacts : Due(w, a) ~> ~Due(w, a)
=============================================================================
