----------------------- MODULE WebhookDeliveryProofs ------------------------
(***************************************************************************)
(* Proofs about the webhook pass, for every number of webhooks, findings,   *)
(* reports and faults.  What the pass selects matters to its types only.   *)
(***************************************************************************)
EXTENDS WebhookDelivery, TLAPS

Pairs == Hooks \X Artefacts

(* The types the argument needs. *)
Types ==
  /\ row \in [Pairs -> {"none", "claimed", "delivered"}]
  /\ received \in [Pairs -> Nat]
  /\ hooks \in [Hooks -> {"none", "enabled", "disabled", "deleted"}]
  /\ faults \in Nat

(* The pair whose ticket the receiver has and whose row does not say so yet. *)
Unrecorded(p) == stage = "mark" /\ ok /\ p = ThisPair

(* Only an unrecorded, delivered or deleted pair has a ticket no fault paid. *)
Paid ==
  \A p \in Pairs :
    /\ received[p] <= 1 + faults
    /\ (/\ row[p] # "delivered" /\ hooks[p[1]] # "deleted"
        /\ ~Unrecorded(p)) => received[p] <= faults

(* What the goroutine may rely on after a claim: the row is its own until the
   webhook is deleted, and the next ticket is the first or is paid for. *)
Claimed ==
  \A p \in Pairs : p = ThisPair =>
    /\ stage = "send" => row[p] # "delivered" /\ received[p] <= faults
    /\ (stage \in {"send", "mark"} /\ hooks[p[1]] # "deleted") => row[p] = "claimed"
    /\ (stage = "mark" /\ ok) => received[p] > 0

TicketInv == Types /\ Paid /\ Claimed /\ DeliveredWasReceived

\* TicketInv holds initially.
LEMMA InitTickets == Init => TicketInv
<1> SUFFICES ASSUME Init PROVE TicketInv
  OBVIOUS
<1>1. Types
  BY DEF Init, Types, Pairs
<1>2. stage = "idle" /\ \A p \in Pairs : row[p] = "none" /\ received[p] = 0
  BY DEF Init, Pairs
<1>3. Paid /\ Claimed /\ DeliveredWasReceived
  BY <1>1, <1>2 DEF Types, Paid, Claimed, DeliveredWasReceived, Pairs
<1>4. QED BY <1>1, <1>3 DEF TicketInv

\* A step of the pass, a failed statement and a restart keep TicketInv.
LEMMA PassStepTickets ==
  ASSUME TicketInv, PassStep \/ PostFails \/ ConsoleRestart
  PROVE  TicketInv'
<1> USE DEF TicketInv, Types, Paid, Claimed, DeliveredWasReceived, Unrecorded, findingVars
<1> HIDE DEF ThisPair
<1>0. \A p \in Pairs : p[1] \in Hooks
  BY DEF Pairs
<1> USE DEF Pairs
<1>1. CASE BeginPass
  BY <1>1 DEF BeginPass
<1>2. CASE SelectArtefacts
  BY <1>2 DEF SelectArtefacts
<1>3. CASE ClaimDelivery
  <2>1. CASE stage' # "send"
    BY <1>3, <2>1 DEF ClaimDelivery, NextHook
  <2>2. CASE stage' = "send"
    <3>1. /\ row' = [row EXCEPT ![ThisPair] = IF @ = "none" THEN "claimed" ELSE @]
          /\ hooks[current] # "deleted" /\ row[ThisPair] # "delivered"
          /\ ThisPair' = ThisPair /\ stage = "claim" /\ ThisPair[1] = current
          /\ UNCHANGED <<hooks, ok, received, faults>>
      BY <1>3, <2>2 DEF ClaimDelivery, NextHook, ClaimRefused, ThisPair, ThisItem
    <3>2. QED BY <1>0, <2>2, <3>1
  <2>3. QED BY <2>1, <2>2
<1>4. CASE PostWebhook
  <2>1. /\ ThisPair' = ThisPair /\ stage = "send" /\ stage' = "mark" /\ ok' = TRUE
        /\ received' = [received EXCEPT ![ThisPair] = @ + 1]
        /\ UNCHANGED <<hooks, row, faults>>
    BY <1>4 DEF PostWebhook, ThisPair, ThisItem
  <2>2. \A p \in Pairs : p # ThisPair => received'[p] = received[p]
    BY <2>1
  <2>3. \A p \in Pairs : p = ThisPair =>
          received'[p] = received[p] + 1 /\ received[p] <= faults
    BY <2>1
  <2>4. Types'
    <3>1. \A p \in Pairs : received[p] + 1 \in Nat
      OBVIOUS
    <3>2. /\ received' = [received EXCEPT ![ThisPair] = @ + 1]
          /\ UNCHANGED <<hooks, row, faults>>
      BY <2>1
    <3>3. received' \in [Pairs -> Nat]
      BY <3>1, <3>2 DEF Types
    <3>4. QED BY <3>2, <3>3 DEF Types
  <2>5. Paid'
    BY <1>0, <2>1, <2>2, <2>3
  <2>6. Claimed' /\ DeliveredWasReceived'
    BY <1>0, <2>1, <2>2, <2>3
  <2>7. QED BY <2>4, <2>5, <2>6
<1>5. CASE PostFails
  <2>1. /\ ThisPair' = ThisPair /\ stage = "send" /\ stage' = "mark" /\ ok' = FALSE
        /\ received' \in {received, [received EXCEPT ![ThisPair] = @ + 1]}
        /\ faults' = faults + 1
        /\ UNCHANGED <<hooks, row>>
    BY <1>5 DEF PostFails, ThisPair, ThisItem
  <2>2. \A p \in Pairs : p # ThisPair => received'[p] = received[p]
    BY <2>1
  <2>3. \A p \in Pairs : p = ThisPair =>
          /\ received'[p] \in {received[p], received[p] + 1}
          /\ received[p] <= faults
    BY <2>1
  <2>4. Types'
    BY <2>1
  <2>5. Paid'
    BY <1>0, <2>1, <2>2, <2>3
  <2>6. Claimed' /\ DeliveredWasReceived'
    BY <1>0, <2>1, <2>2, <2>3
  <2>7. QED BY <2>4, <2>5, <2>6
<1>6. CASE MarkDelivered
  <2>1. /\ ThisPair' = ThisPair /\ stage = "mark" /\ stage' = "record"
        /\ \/ /\ row' = IF row[ThisPair] = "none" THEN row
                        ELSE [row EXCEPT ![ThisPair] = Outcome]
              /\ faults' = faults
           \/ row' = row /\ faults' = faults + 1
        /\ UNCHANGED <<hooks, ok, received>>
    BY <1>6 DEF MarkDelivered, ThisPair, ThisItem
  <2>2. CASE row' = row /\ faults' = faults + 1
    BY <1>0, <2>1, <2>2
  <2>3. CASE row[ThisPair] = "none" /\ row' = row /\ faults' = faults
    BY <1>0, <2>1, <2>3
  <2>4. CASE row' = [row EXCEPT ![ThisPair] = Outcome] /\ faults' = faults
    BY <1>0, <2>1, <2>4 DEF Outcome
  <2>5. QED BY <2>1, <2>2, <2>3, <2>4
<1>7. CASE RecordWebhookResult
  BY <1>7 DEF RecordWebhookResult, NextHook
<1>8. CASE ConsoleRestart
  <2>1. /\ stage' = "idle" /\ faults' = faults + 1 /\ ok' = FALSE
        /\ UNCHANGED <<hooks, row, received>>
    BY <1>8 DEF ConsoleRestart
  <2>2. Types' /\ DeliveredWasReceived'
    BY <2>1
  <2>3. Paid' /\ Claimed'
    BY <1>0, <2>1
  <2>4. QED BY <2>2, <2>3
<1>9. QED BY <1>1, <1>2, <1>3, <1>4, <1>5, <1>6, <1>7, <1>8 DEF PassStep

\* Reports, triage and changes to webhooks keep TicketInv.
LEMMA SurroundingsTickets ==
  ASSUME TicketInv, Surroundings
  PROVE  TicketInv'
<1> USE DEF TicketInv, Types, Paid, Claimed, DeliveredWasReceived, Unrecorded, ThisPair, ThisItem,
            findingVars, passVars
<1>0. \A p \in Pairs : p[1] \in Hooks
  BY DEF Pairs
<1>1. ASSUME NEW f \in Findings, NEW s, UpsertFinding(f, s) PROVE TicketInv'
  BY <1>1 DEF UpsertFinding
<1>2. ASSUME NEW f \in Findings, NEW s, SetFindingState(f, s) PROVE TicketInv'
  BY <1>2 DEF SetFindingState
<1>3. ASSUME NEW w \in Hooks, CreateWebhook(w) PROVE TicketInv'
  BY <1>0, <1>3 DEF CreateWebhook
<1>4. ASSUME NEW w \in Hooks, NEW s \in {"enabled", "disabled"}, SetWebhookEnabled(w, s)
      PROVE  TicketInv'
  BY <1>0, <1>4 DEF SetWebhookEnabled
<1>5. ASSUME NEW w \in Hooks, DeleteWebhook(w) PROVE TicketInv'
  <2>1. /\ hooks' = [hooks EXCEPT ![w] = "deleted"]
        /\ row' = [p \in Pairs |-> IF p[1] = w THEN "none" ELSE row[p]]
        /\ UNCHANGED <<stage, ok, current, items, received, faults>>
    BY <1>5 DEF DeleteWebhook, Pairs
  <2>2. QED BY <1>0, <2>1 DEF Pairs
<1>6. QED BY <1>1, <1>2, <1>3, <1>4, <1>5 DEF Surroundings

\* Every step keeps TicketInv.
LEMMA StepTickets == TicketInv /\ [Next]_vars => TicketInv'
<1>1. TicketInv /\ UNCHANGED vars => TicketInv'
  BY DEF TicketInv, Types, Paid, Claimed, DeliveredWasReceived, Unrecorded, ThisPair, ThisItem,
         vars, findingVars, passVars
<1>2. QED BY <1>1, PassStepTickets, SurroundingsTickets DEF Next

(* A receiver gets one ticket per artefact and one more per fault at most:
   claiming before the post makes duplicates bounded, whoever deletes or
   disables webhooks meanwhile (ClaimDelivery, MarkDelivered). *)
THEOREM TicketsAreBounded == Spec => []NoTicketLoop
<1>1. TicketInv => NoTicketLoop
  BY DEF TicketInv, Paid, NoTicketLoop, Pairs
<1>2. QED BY <1>1, InitTickets, StepTickets, PTL DEF Spec

(* No row says delivered for a ticket that never arrived (MarkDelivered). *)
THEOREM DeliveredIsReal == Spec => []DeliveredWasReceived
<1>1. TicketInv => DeliveredWasReceived
  BY DEF TicketInv
<1>2. QED BY <1>1, InitTickets, StepTickets, PTL DEF Spec

(* An artefact recorded as delivered is never sent again by its webhook. *)
THEOREM DeliveryIsFinal == Spec => TicketedOnce
<1>1. TicketInv /\ [Next]_vars =>
        [\A p \in Hooks \X Artefacts :
           row[p] = "delivered" => received'[p] = received[p]]_vars
  <2> SUFFICES ASSUME TicketInv, Next, NEW p \in Pairs, row[p] = "delivered"
               PROVE  received'[p] = received[p]
    BY DEF Pairs
  <2>1. CASE PostWebhook \/ PostFails
    <3>1. stage = "send" /\ received' \in {received, [received EXCEPT ![ThisPair] = @ + 1]}
      BY <2>1 DEF PostWebhook, PostFails
    <3>2. p # ThisPair
      BY <3>1 DEF TicketInv, Claimed
    <3>3. QED BY <3>1, <3>2 DEF TicketInv, Types
  <2>2. CASE ~(PostWebhook \/ PostFails)
    BY <2>2 DEF Next, PassStep, Surroundings, BeginPass, SelectArtefacts, ClaimDelivery,
                MarkDelivered, RecordWebhookResult, ConsoleRestart, UpsertFinding,
                SetFindingState, CreateWebhook, SetWebhookEnabled, DeleteWebhook
  <2>3. QED BY <2>1, <2>2
<1>2. QED BY <1>1, InitTickets, StepTickets, PTL DEF Spec, TicketedOnce

(* While the pass works for a webhook, that is one of the webhooks. *)
TypeInv == TypeOK /\ (stage \notin {"idle", "select"} => current \in Hooks)

\* The artefacts a selection returns are artefacts with the number of a sighting.
LEMMA SelectionTyped ==
  ASSUME TypeOK, current \in Hooks
  PROVE  {<<seen[f], ArtefactOf[f]>> : f \in Pending(current)}
           \subseteq (0..MaxSightings) \X Artefacts
<1>1. Scope[current] \subseteq Findings
  BY ConfigAssumption
<1>2. Pending(current) \subseteq Findings
  BY <1>1 DEF Pending, Filtered, First, Rows
<1>3. \A f \in Findings : seen[f] \in 0..MaxSightings /\ ArtefactOf[f] \in Artefacts
  BY DEF TypeOK, Artefacts
<1>4. QED BY <1>2, <1>3

\* A step of the pass, a failed statement and a restart keep the types.
LEMMA PassStepTyped ==
  ASSUME TypeInv, PassStep \/ PostFails \/ ConsoleRestart
  PROVE  TypeInv'
<1> USE BoundsAssumption DEF TypeInv, findingVars
<1>0. Hooks = 1..NumHooks
  BY DEF Hooks
<1>1. CASE BeginPass
  BY <1>1 DEF BeginPass, TypeOK, Enabled
<1>2. CASE SelectArtefacts
  <2>1. CASE current > NumHooks
    BY <1>2, <2>1 DEF SelectArtefacts, TypeOK
  <2>2. CASE current \notin listed /\ ~(current > NumHooks)
    BY <1>2, <2>2 DEF SelectArtefacts, TypeOK
  <2>3. CASE current \in listed /\ ~(current > NumHooks)
    <3>1. current \in Hooks
      BY <2>3 DEF TypeOK
    <3>2. items' \subseteq (0..MaxSightings) \X Artefacts
      BY <1>2, <2>3, <3>1, SelectionTyped DEF SelectArtefacts
    <3>3. /\ stage' = "claim"
          /\ UNCHANGED <<current, findingVars, hooks, failing, row, listed, ok, received, faults>>
      BY <1>2, <2>3 DEF SelectArtefacts
    <3>4. QED BY <3>1, <3>2, <3>3 DEF TypeOK
  <2>4. QED BY <2>1, <2>2, <2>3
<1>3. CASE ClaimDelivery
  BY <1>0, <1>3 DEF ClaimDelivery, NextHook, TypeOK
<1>4. CASE PostWebhook \/ PostFails
  <2>1. /\ received' \in {received, [received EXCEPT ![ThisPair] = @ + 1]}
        /\ faults' \in {faults, faults + 1} /\ ok' \in BOOLEAN /\ stage' = "mark"
        /\ stage = "send"
        /\ UNCHANGED <<findingVars, hooks, failing, row, listed, current, items>>
    BY <1>4 DEF PostWebhook, PostFails
  <2>2. received' \in [Hooks \X Artefacts -> Nat]
    BY <2>1 DEF TypeOK
  <2>3. QED BY <2>1, <2>2 DEF TypeOK
<1>5. CASE MarkDelivered
  <2>1. /\ row' \in {row, [row EXCEPT ![ThisPair] = Outcome]}
        /\ faults' \in {faults, faults + 1} /\ stage' = "record" /\ stage = "mark"
        /\ UNCHANGED <<findingVars, hooks, failing, listed, current, items, ok, received>>
    BY <1>5 DEF MarkDelivered
  <2>2. row' \in [Hooks \X Artefacts -> {"none", "claimed", "delivered"}]
    BY <2>1 DEF TypeOK, Outcome
  <2>3. QED BY <2>1, <2>2 DEF TypeOK
<1>6. CASE RecordWebhookResult
  BY <1>0, <1>6 DEF RecordWebhookResult, NextHook, TypeOK
<1>7. CASE ConsoleRestart
  <2>1. 1 \in 1..(NumHooks + 1)
    OBVIOUS
  <2>2. faults' \in Nat
    BY <1>7 DEF ConsoleRestart, TypeOK
  <2>3. /\ stage' = "idle" /\ items' = {} /\ listed' = {} /\ current' = 1 /\ ok' = FALSE
        /\ UNCHANGED <<findingVars, hooks, failing, row, received>>
    BY <1>7 DEF ConsoleRestart
  <2>4. QED BY <2>1, <2>2, <2>3 DEF TypeOK
<1>8. QED BY <1>1, <1>2, <1>3, <1>4, <1>5, <1>6, <1>7 DEF PassStep

\* Reports, triage and changes to webhooks keep the types.
LEMMA SurroundingsTyped ==
  ASSUME TypeInv, Surroundings
  PROVE  TypeInv'
<1> USE DEF TypeInv, TypeOK, findingVars, passVars
<1>1. ASSUME NEW f \in Findings, NEW s \in Reported, UpsertFinding(f, s) PROVE TypeInv'
  <2>1. sightings' \in 0..MaxSightings
    BY <1>1, BoundsAssumption DEF UpsertFinding
  <2>2. seen' \in [Findings -> 0..MaxSightings]
    BY <1>1, <2>1 DEF UpsertFinding
  <2>3. severity' \in [Findings -> Severities]
    BY <1>1, ConfigAssumption DEF UpsertFinding
  <2>4. state' \in [Findings -> {"absent", "open", "dismissed", "resolved"}]
    BY <1>1 DEF UpsertFinding
  <2>5. UNCHANGED <<hooks, failing, row, passVars, received, faults>>
    BY <1>1 DEF UpsertFinding
  <2>6. QED BY <2>1, <2>2, <2>3, <2>4, <2>5
<1>2. ASSUME NEW f \in Findings, NEW s \in {"open", "dismissed", "resolved"},
             SetFindingState(f, s)
      PROVE  TypeInv'
  BY <1>2 DEF SetFindingState
<1>3. ASSUME NEW w \in Hooks, CreateWebhook(w) PROVE TypeInv'
  BY <1>3 DEF CreateWebhook
<1>4. ASSUME NEW w \in Hooks, NEW s \in {"enabled", "disabled"}, SetWebhookEnabled(w, s)
      PROVE  TypeInv'
  BY <1>4 DEF SetWebhookEnabled
<1>5. ASSUME NEW w \in Hooks, DeleteWebhook(w) PROVE TypeInv'
  BY <1>5 DEF DeleteWebhook
<1>6. QED BY <1>1, <1>2, <1>3, <1>4, <1>5 DEF Surroundings

(* Every variable of the webhook pass keeps its type: what it selects are
   artefacts of reported findings, and it works for a webhook that exists
   (PendingWebhookArtefacts, deliverWebhooks). *)
THEOREM WebhookTyping == Spec => []TypeOK
<1>1. ASSUME Init PROVE TypeInv
  <2>1. 1 \in 1..(NumHooks + 1) /\ 0 \in 0..MaxSightings
    BY BoundsAssumption
  <2>2. "info" \in Severities
    BY DEF Severities
  <2>3. /\ state \in [Findings -> {"absent", "open", "dismissed", "resolved"}]
        /\ severity \in [Findings -> Severities] /\ seen \in [Findings -> 0..MaxSightings]
        /\ hooks \in [Hooks -> {"none", "enabled", "disabled", "deleted"}]
        /\ row \in [Hooks \X Artefacts -> {"none", "claimed", "delivered"}]
        /\ received \in [Hooks \X Artefacts -> Nat]
    BY <1>1, <2>1, <2>2 DEF Init
  <2>4. QED BY <1>1, <2>1, <2>3 DEF Init, TypeInv, TypeOK
<1>2. TypeInv /\ [Next]_vars => TypeInv'
  <2>1. TypeInv /\ UNCHANGED vars => TypeInv'
    BY DEF TypeInv, TypeOK, vars, findingVars, passVars
  <2>2. QED BY <2>1, PassStepTyped, SurroundingsTyped DEF Next
<1>3. TypeInv => TypeOK
  BY DEF TypeInv
<1>4. QED BY <1>1, <1>2, <1>3, PTL DEF Spec
=============================================================================
