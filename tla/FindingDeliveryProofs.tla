----------------------- MODULE FindingDeliveryProofs ------------------------
(***************************************************************************)
(* Proofs about the delivery of findings, for every number of detections,  *)
(* rows, flushing goroutines, handlers and faults, every capacity of the   *)
(* queue and every cap on a batch.                                         *)
(***************************************************************************)
EXTENDS FindingDelivery, SequenceTheorems, TLAPS

\* A detection is a number and belongs to a row.
LEMMA DetectionTypes == /\ Detections \subseteq Nat
                        /\ \A n \in Detections : KeyOf[n] \in Keys
BY KeysAssumption, BoundsAssumption DEF Detections

\* Appending adds one element.
LEMMA ElementsOfAppend ==
  ASSUME NEW S, NEW q \in Seq(S), NEW n \in S
  PROVE  Elements(Append(q, n)) = Elements(q) \cup {n}
<1>1. /\ Len(Append(q, n)) = Len(q) + 1 /\ Len(q) \in Nat
      /\ \A i \in 1..Len(q) : Append(q, n)[i] = q[i]
      /\ Append(q, n)[Len(q) + 1] = n
  BY AppendProperties, LenProperties
<1>2. 1..(Len(q) + 1) = 1..Len(q) \cup {Len(q) + 1}
  BY <1>1
<1>3. QED
  BY <1>1, <1>2 DEF Elements

\* Joining two sequences joins their elements.
LEMMA ElementsOfConcat ==
  ASSUME NEW S, NEW b \in Seq(S), NEW q \in Seq(S)
  PROVE  Elements(b \o q) = Elements(b) \cup Elements(q)
<1> DEFINE r == b \o q
<1>1. /\ Len(r) = Len(b) + Len(q) /\ Len(b) \in Nat /\ Len(q) \in Nat
      /\ \A i \in 1..(Len(b) + Len(q)) :
           r[i] = IF i <= Len(b) THEN b[i] ELSE q[i - Len(b)]
  BY ConcatProperties, LenProperties
<1> HIDE DEF r
<1>2. ASSUME NEW x \in Elements(r) PROVE x \in Elements(b) \cup Elements(q)
  <2>1. PICK i \in 1..(Len(b) + Len(q)) : x = r[i]
    BY <1>1 DEF Elements
  <2>2. CASE i <= Len(b)
    BY <1>1, <2>1, <2>2 DEF Elements
  <2>3. CASE i > Len(b)
    <3>1. i - Len(b) \in 1..Len(q) /\ x = q[i - Len(b)]
      BY <1>1, <2>1, <2>3
    <3>2. QED BY <3>1 DEF Elements
  <2>4. QED BY <1>1, <2>2, <2>3
<1>3. ASSUME NEW x \in Elements(b) PROVE x \in Elements(r)
  <2>1. PICK i \in 1..Len(b) : x = b[i]
    BY DEF Elements
  <2>2. i \in 1..Len(r) /\ r[i] = x
    BY <1>1, <2>1
  <2>3. QED BY <2>2 DEF Elements
<1>4. ASSUME NEW x \in Elements(q) PROVE x \in Elements(r)
  <2>1. PICK i \in 1..Len(q) : x = q[i]
    BY DEF Elements
  <2>2. Len(b) + i \in 1..Len(r) /\ r[Len(b) + i] = x
    BY <1>1, <2>1
  <2>3. QED BY <2>2 DEF Elements
<1>5. QED BY <1>2, <1>3, <1>4 DEF r

(* Cutting a sequence in two loses none of its elements. *)
LEMMA CutKeepsAll ==
  ASSUME NEW S, NEW q \in Seq(S), NEW k \in Nat, k <= Len(q)
  PROVE  /\ SubSeq(q, k + 1, Len(q)) \in Seq(S)
         /\ Len(SubSeq(q, k + 1, Len(q))) = Len(q) - k
         /\ Elements(q) = Elements(SubSeq(q, k + 1, Len(q))) \cup {q[i] : i \in 1..k}
<1> DEFINE t == SubSeq(q, k + 1, Len(q))
<1>1. Len(q) \in Nat /\ \A i \in 1..Len(q) : q[i] \in S
  BY LenProperties, ElementOfSeq
<1>2. \A i \in (k + 1)..Len(q) : q[i] \in S
  BY <1>1
<1>3. /\ t \in Seq(S)
      /\ Len(t) = IF k + 1 <= Len(q) THEN Len(q) - (k + 1) + 1 ELSE 0
      /\ \A i \in 1..(Len(q) - (k + 1) + 1) : t[i] = q[(k + 1) + i - 1]
  BY <1>1, <1>2, SubSeqProperties
<1>4. Len(t) = Len(q) - k /\ \A i \in 1..(Len(q) - k) : t[i] = q[k + i]
  BY <1>1, <1>3
<1> HIDE DEF t
<1>5. ASSUME NEW x \in Elements(q)
      PROVE  x \in Elements(t) \cup {q[i] : i \in 1..k}
  <2>1. PICK i \in 1..Len(q) : x = q[i]
    BY DEF Elements
  <2>2. CASE i > k
    <3>1. i - k \in 1..Len(t) /\ t[i - k] = x
      BY <1>1, <1>4, <2>1, <2>2
    <3>2. QED BY <3>1 DEF Elements
  <2>3. QED BY <1>1, <2>1, <2>2
<1>6. ASSUME NEW x \in Elements(t) PROVE x \in Elements(q)
  <2>1. PICK i \in 1..Len(t) : x = t[i]
    BY DEF Elements
  <2>2. k + i \in 1..Len(q) /\ q[k + i] = x
    BY <1>1, <1>4, <2>1
  <2>3. QED BY <2>2 DEF Elements
<1>7. \A i \in 1..k : q[i] \in Elements(q)
  BY <1>1 DEF Elements
<1>8. QED BY <1>3, <1>4, <1>5, <1>6, <1>7 DEF t

(* A returned batch: the queue keeps its type and its bound, and every
   detection of the batch and of the queue stays in the queue or is dropped. *)
LEMMA RequeueKeepsAll ==
  ASSUME NEW batch \in Seq(Detections), pending \in Seq(Detections),
         dropped \in SUBSET Detections, Requeue(batch)
  PROVE  /\ pending' \in Seq(Detections) /\ dropped' \in SUBSET Detections
         /\ Len(pending') <= Capacity
         /\ dropped \subseteq dropped'
         /\ Elements(batch) \cup Elements(pending) \subseteq Elements(pending') \cup dropped'
<1> DEFINE q == batch \o pending
<1>1. q \in Seq(Detections) /\ Elements(q) = Elements(batch) \cup Elements(pending)
  BY ConcatProperties, ElementsOfConcat
<1>2. /\ pending' = SubSeq(q, Overflow(q) + 1, Len(q))
      /\ dropped' = dropped \cup {q[i] : i \in 1..Overflow(q)}
  BY DEF Requeue
<1> HIDE DEF q
<1>3. Len(q) \in Nat /\ \A i \in 1..Len(q) : q[i] \in Detections
  BY <1>1, LenProperties, ElementOfSeq
<1>4. Overflow(q) \in Nat /\ Overflow(q) <= Len(q) /\ Len(q) - Overflow(q) <= Capacity
  BY <1>3, BoundsAssumption DEF Overflow
<1>5. /\ pending' \in Seq(Detections)
      /\ Len(pending') = Len(q) - Overflow(q)
      /\ Elements(q) = Elements(pending') \cup {q[i] : i \in 1..Overflow(q)}
  BY <1>1, <1>2, <1>4, CutKeepsAll
<1>6. {q[i] : i \in 1..Overflow(q)} \subseteq Detections
  BY <1>3, <1>4
<1>7. QED BY <1>1, <1>2, <1>4, <1>5, <1>6

-----------------------------------------------------------------------------
(* Types and the bound of the queue. *)

\* The types hold initially.
LEMMA InitTypeOK == Init => TypeOK /\ QueueBounded
BY BoundsAssumption, EmptySeq
   DEF Init, TypeOK, QueueBounded, States, Idle, Handler, Detections

(* A handler that goes on to the next finding keeps its type. *)
LEMMA HandlerTypes ==
  ASSUME TypeOK, NEW h \in Handlers
  PROVE  /\ handler[h] \in Handler
         /\ handler[h].batch \in Seq(Detections) /\ Len(handler[h].batch) \in Nat
         /\ Limit(h) \in Nat /\ Limit(h) <= Len(handler[h].batch)
         /\ AtWork(h) => Current(h) \in Detections /\ KeyOf[Current(h)] \in Keys
<1>1. handler[h] \in Handler
  BY DEF TypeOK
<1>2. handler[h].batch \in Seq(Detections) /\ handler[h].next \in Nat
  BY <1>1 DEF Handler
<1>3. Len(handler[h].batch) \in Nat
  BY <1>2, LenProperties
<1>4. Limit(h) \in Nat /\ Limit(h) <= Len(handler[h].batch)
  BY <1>3, BoundsAssumption DEF Limit, Smaller
<1>5. ASSUME AtWork(h)
      PROVE  Current(h) \in Detections
  BY <1>1, <1>2, <1>3, <1>4, <1>5, ElementOfSeq DEF AtWork, Current, Handler
<1>6. QED BY <1>1, <1>2, <1>3, <1>4, <1>5, DetectionTypes

(* What a step makes of one handler is a handler again. *)
LEMMA HandlerUpdates ==
  ASSUME NEW r \in Handler
  PROVE  /\ [r EXCEPT !.next = @ + 1] \in Handler
         /\ [r EXCEPT !.missing = TRUE] \in Handler
         /\ [r EXCEPT !.client = NoClient] \in Handler
         /\ [r EXCEPT !.next = @ + 1, !.missing = FALSE] \in Handler
         /\ [r EXCEPT !.next = @ + 1, !.missing = FALSE, !.failed = TRUE] \in Handler
<1> DEFINE N == Nat \ {0}  B == Seq(Detections)  C == Flushers \cup {NoClient}
<1>1. Handler = [busy: BOOLEAN, client: C, batch: B, next: N, missing: BOOLEAN,
                 failed: BOOLEAN]
  BY Zenon DEF Handler
<1>2. r.next + 1 \in N /\ NoClient \in C
  BY DEF Handler
<1> HIDE DEF N, B, C
<1>3. QED BY <1>1, <1>2

\* What a handler starts with is a handler's state.
LEMMA ServingTypes ==
  ASSUME NEW f \in Flushers, NEW b \in Seq(Detections)
  PROVE  Serving(f, b) \in Handler
<1> DEFINE N == Nat \ {0}  B == Seq(Detections)  C == Flushers \cup {NoClient}
<1>1. Handler = [busy: BOOLEAN, client: C, batch: B, next: N, missing: BOOLEAN,
                 failed: BOOLEAN]
  BY Zenon DEF Handler
<1>2. 1 \in N /\ f \in C /\ b \in B /\ TRUE \in BOOLEAN /\ FALSE \in BOOLEAN
  OBVIOUS
<1> HIDE DEF N, B, C
<1>3. QED BY <1>1, <1>2 DEF Serving

(* Every step of the agent preserves types and bound. *)
LEMMA AgentStepTypeOK ==
  ASSUME TypeOK, QueueBounded, AgentStep
  PROVE  TypeOK' /\ QueueBounded'
<1> USE DEF TypeOK, QueueBounded, triageVars, historyVars
<1>1. CASE Detect
  <2>1. detected' = detected + 1 /\ detected' \in Detections
    BY <1>1, BoundsAssumption DEF Detect, Detections
  <2>2. CASE Len(pending) < Capacity
    <3>1. /\ pending' = Append(pending, detected')
          /\ Append(pending, detected') \in Seq(Detections)
          /\ Len(Append(pending, detected')) = Len(pending) + 1
      BY <1>1, <2>1, <2>2, AppendProperties DEF Detect
    <3>2. Len(pending) \in Nat
      BY LenProperties
    <3>3. Len(pending') <= Capacity
      BY <2>2, <3>1, <3>2, BoundsAssumption
    <3>4. detected' \in 0..MaxDetections
      BY <2>1 DEF Detections
    <3>5. QED BY <1>1, <2>2, <3>1, <3>3, <3>4 DEF Detect
  <2>3. CASE ~(Len(pending) < Capacity)
    <3>1. detected' \in 0..MaxDetections
      BY <2>1 DEF Detections
    <3>2. QED BY <1>1, <2>1, <2>3, <3>1 DEF Detect
  <2>4. QED BY <2>2, <2>3
<1>2. CASE AgentCrash
  <2>1. \A q \in Seq(Detections) : Elements(q) \subseteq Detections
    BY LenProperties, ElementOfSeq DEF Elements
  <2>2. lost' \in SUBSET Detections
    BY <1>2, <2>1 DEF AgentCrash
  <2>3. handler' \in [Handlers -> Handler]
    BY <1>2, HandlerUpdates DEF AgentCrash
  <2>4. QED BY <1>2, <2>2, <2>3, EmptySeq, BoundsAssumption DEF AgentCrash
<1>3. ASSUME NEW f \in Flushers, Flush(f)
      PROVE  TypeOK' /\ QueueBounded'
  <2>1. Serving(f, pending) \in Handler
    BY ServingTypes
  <2>2. handler' \in [Handlers -> Handler]
    BY <1>3, <2>1 DEF Flush
  <2>3. QED BY <1>3, <2>2, EmptySeq, BoundsAssumption DEF Flush
<1>4. ASSUME NEW f \in Flushers, GiveUp(f)
      PROVE  TypeOK' /\ QueueBounded'
  <2>1. /\ pending' \in Seq(Detections) /\ dropped' \in SUBSET Detections
        /\ Len(pending') <= Capacity
    BY <1>4, RequeueKeepsAll DEF GiveUp
  <2>2. flight' \in [Flushers -> Seq(Detections)]
    BY <1>4, EmptySeq DEF GiveUp
  <2>3. QED BY <1>4, <2>1, <2>2 DEF GiveUp
<1>5. QED BY <1>1, <1>2, <1>3, <1>4 DEF AgentStep

(* The console's handlers preserve types and bound. *)
LEMMA ConsoleStepTypeOK ==
  ASSUME TypeOK, QueueBounded, ConsoleStep
  PROVE  TypeOK' /\ QueueBounded'
<1> USE DEF TypeOK, QueueBounded, triageVars, historyVars
<1>1. CASE ConsoleRestart
  BY <1>1, EmptySeq DEF ConsoleRestart, Idle, Handler
<1>2. ASSUME NEW h \in Handlers, UpdateRow(h)
      PROVE  TypeOK' /\ QueueBounded'
  <2>1. Current(h) \in Detections /\ KeyOf[Current(h)] \in Keys /\ handler[h] \in Handler
    BY <1>2, HandlerTypes DEF UpdateRow
  <2>2. handler' \in [Handlers -> Handler]
    BY <1>2, <2>1, HandlerUpdates DEF UpdateRow
  <2>3. state' \in [Keys -> States]
    BY <1>2, <2>1 DEF UpdateRow, Seen, States, Triage
  <2>4. stored' \in SUBSET Detections
    BY <1>2, <2>1 DEF UpdateRow
  <2>5. QED BY <1>2, <2>2, <2>3, <2>4 DEF UpdateRow
<1>3. ASSUME NEW h \in Handlers, InsertRow(h)
      PROVE  TypeOK' /\ QueueBounded'
  <2>1. Current(h) \in Detections /\ KeyOf[Current(h)] \in Keys /\ handler[h] \in Handler
    BY <1>3, HandlerTypes DEF InsertRow
  <2>2. handler' \in [Handlers -> Handler]
    BY <1>3, <2>1, HandlerUpdates DEF InsertRow
  <2>3. state' \in [Keys -> States]
    BY <1>3, <2>1 DEF InsertRow, States, Triage
  <2>4. stored' \in SUBSET Detections
    BY <1>3, <2>1 DEF InsertRow
  <2>5. QED BY <1>3, <2>2, <2>3, <2>4 DEF InsertRow
<1>4. ASSUME NEW h \in Handlers, StoreError(h)
      PROVE  TypeOK' /\ QueueBounded'
  <2>1. handler[h] \in Handler
    BY HandlerTypes
  <2>2. handler' \in [Handlers -> Handler]
    BY <1>4, <2>1, HandlerUpdates DEF StoreError
  <2>3. faults' \in Nat
    BY <1>4 DEF StoreError
  <2>4. QED BY <1>4, <2>2, <2>3 DEF StoreError
<1>5. ASSUME NEW h \in Handlers, Respond(h)
      PROVE  TypeOK' /\ QueueBounded'
  <2>1. Idle \in Handler
    BY EmptySeq DEF Idle, Handler
  <2>2. handler' \in [Handlers -> Handler]
    BY <1>5, <2>1 DEF Respond
  <2>3. CASE handler[h].client = NoClient
    BY <1>5, <2>2, <2>3 DEF Respond
  <2>4. CASE handler[h].client # NoClient
    <3> DEFINE f == handler[h].client
    <3>1. f \in Flushers /\ flight[f] \in Seq(Detections)
      BY <2>4 DEF Handler
    <3>2. flight' \in [Flushers -> Seq(Detections)]
      BY <1>5, <2>4, EmptySeq DEF Respond
    <3>3. CASE Undelivered(h)
      <4>1. Requeue(flight[f]) /\ UNCHANGED cut
        BY <1>5, <2>4, <3>3 DEF Respond
      <4>2. /\ pending' \in Seq(Detections) /\ dropped' \in SUBSET Detections
            /\ Len(pending') <= Capacity
        BY <3>1, <4>1, RequeueKeepsAll
      <4>3. QED BY <1>5, <2>2, <3>2, <4>1, <4>2 DEF Respond
    <3>4. CASE ~Undelivered(h)
      <4>1. /\ cut' = cut \cup {flight[f][i] : i \in (BatchCap + 1)..Len(flight[f])}
            /\ UNCHANGED <<pending, dropped>>
        BY <1>5, <2>4, <3>4 DEF Respond
      <4>2. \A i \in (BatchCap + 1)..Len(flight[f]) : flight[f][i] \in Detections
        BY <3>1, LenProperties, ElementOfSeq, BoundsAssumption
      <4>3. QED BY <1>5, <2>2, <3>2, <4>1, <4>2 DEF Respond
    <3>5. QED BY <3>3, <3>4
  <2>5. QED BY <2>3, <2>4
<1>6. ASSUME NEW h \in Handlers, LoseRequest(h)
      PROVE  TypeOK' /\ QueueBounded'
  <2>1. Idle \in Handler
    BY EmptySeq DEF Idle, Handler
  <2>2. handler[h] \in Handler
    BY HandlerTypes
  <2>3. handler' \in [Handlers -> Handler]
    BY <1>6, <2>1, <2>2, HandlerUpdates DEF LoseRequest
  <2>4. faults' \in Nat
    BY <1>6 DEF LoseRequest
  <2>5. QED BY <1>6, <2>3, <2>4 DEF LoseRequest
<1>7. QED BY <1>1, <1>2, <1>3, <1>4, <1>5, <1>6 DEF ConsoleStep

(* So do the operators, who touch rows and views only. *)
LEMMA OperatorStepTypeOK ==
  ASSUME TypeOK, QueueBounded, OperatorStep
  PROVE  TypeOK' /\ QueueBounded'
<1> USE BoundsAssumption DEF TypeOK, QueueBounded, triageVars, historyVars, States, Triage
<1>1. ASSUME NEW s \in Triage, BulkUpdate(s) PROVE TypeOK' /\ QueueBounded'
  BY <1>1 DEF BulkUpdate
<1>2. ASSUME NEW s \in Triage, NEW k \in Keys, SetFindingState(k, s)
      PROVE  TypeOK' /\ QueueBounded'
  BY <1>2 DEF SetFindingState
<1>3. CASE ShowFindings
  BY <1>3 DEF ShowFindings, Matching
<1>4. CASE BulkCount
  BY <1>4 DEF BulkCount
<1>5. QED BY <1>1, <1>2, <1>3, <1>4 DEF OperatorStep

\* Every step keeps types and the bound of the queue.
LEMMA StepTypeOK == TypeOK /\ QueueBounded /\ [Next]_vars => TypeOK' /\ QueueBounded'
<1> SUFFICES ASSUME TypeOK, QueueBounded, [Next]_vars PROVE TypeOK' /\ QueueBounded'
  OBVIOUS
<1>1. CASE Next
  BY <1>1, AgentStepTypeOK, ConsoleStepTypeOK, OperatorStepTypeOK DEF Next
<1>2. CASE UNCHANGED vars
  BY <1>2 DEF TypeOK, QueueBounded, vars, triageVars, historyVars
<1>3. QED BY <1>1, <1>2

\* Types and the bound of the queue always hold.
LEMMA TypedAndBounded == Spec => []TypeOK /\ []QueueBounded
BY InitTypeOK, StepTypeOK, PTL DEF Spec

(* Every variable keeps its type, whatever the bounds are, and the agent's queue
   never outgrows maxPendingFindings, whichever batches come back to it and in
   whichever order (queueFinding, requeue). *)
THEOREM TypeCorrect == Spec => []WellFormed
<1>1. TypeOK /\ QueueBounded => WellFormed
  BY DEF WellFormed
<1>2. QED BY <1>1, TypedAndBounded, PTL

-----------------------------------------------------------------------------
(* No detection is just gone.  Accounted is not inductive: an acknowledged    *)
(* batch leaves the agent at Respond, and that it was stored is known only    *)
(* from what its handler did so far.                                         *)

(* A handler somebody waits for works on that client's batch. *)
ServesClient ==
  \A h \in Handlers : handler[h].client # NoClient =>
                        /\ handler[h].busy
                        /\ handler[h].batch = flight[handler[h].client]
                        /\ flight[handler[h].client] # <<>>

(* A flusher waits for one handler at most. *)
OneHandler ==
  \A h1, h2 \in Handlers :
    (handler[h1].client # NoClient /\ handler[h1].client = handler[h2].client) => h1 = h2

(* A handler that counted no failure stored all it went through. *)
WorkStored ==
  \A h \in Handlers : ~handler[h].failed =>
    \A i \in 1..Len(handler[h].batch) : i < handler[h].next => handler[h].batch[i] \in stored

DeliveryInv == TypeOK /\ QueueBounded /\ ServesClient /\ OneHandler /\ WorkStored /\ Accounted

\* DeliveryInv holds initially.
LEMMA InitDelivery == Init => DeliveryInv
<1> SUFFICES ASSUME Init PROVE DeliveryInv
  OBVIOUS
<1>1. TypeOK /\ QueueBounded
  BY InitTypeOK
<1>2. ServesClient /\ OneHandler
  BY DEF Init, ServesClient, OneHandler, Idle
<1>3. WorkStored
  BY DEF Init, WorkStored, Idle
<1>4. Accounted
  BY DEF Init, Accounted
<1>5. QED BY <1>1, <1>2, <1>3, <1>4 DEF DeliveryInv

\* What the agent does keeps the parts of DeliveryInv it can disturb.
LEMMA AgentStepDelivery ==
  ASSUME DeliveryInv, AgentStep
  PROVE  ServesClient' /\ OneHandler' /\ WorkStored' /\ Accounted'
<1> USE DEF triageVars, historyVars
<1>0. /\ TypeOK /\ QueueBounded /\ ServesClient /\ OneHandler /\ WorkStored /\ Accounted
      /\ detected \in Nat
  BY BoundsAssumption DEF DeliveryInv, TypeOK
<1>1. CASE Detect
  <2>1. UNCHANGED <<handler, flight, stored>>
    BY <1>1 DEF Detect
  <2>2. ServesClient' /\ OneHandler' /\ WorkStored'
    BY <1>0, <2>1 DEF ServesClient, OneHandler, WorkStored
  <2>3. /\ detected' \in Detections
        /\ 1..detected' = 1..detected \cup {detected'}
    BY <1>0, <1>1, BoundsAssumption DEF Detect, Detections
  <2>4. /\ Elements(pending) \subseteq Elements(pending') /\ dropped \subseteq dropped'
        /\ detected' \in Elements(pending') \cup dropped'
    <3>1. CASE Len(pending) < Capacity
      <4>1. pending' = Append(pending, detected') /\ dropped' = dropped
        BY <1>1, <3>1 DEF Detect
      <4>2. Elements(pending') = Elements(pending) \cup {detected'}
        BY <1>0, <2>3, <4>1, ElementsOfAppend DEF TypeOK
      <4>3. QED BY <4>1, <4>2
    <3>2. CASE ~(Len(pending) < Capacity)
      BY <1>1, <3>2 DEF Detect
    <3>3. QED BY <3>1, <3>2
  <2>5. Accounted'
    BY <1>0, <1>1, <2>3, <2>4 DEF Detect, Accounted, WithAgent
  <2>6. QED BY <2>2, <2>5
<1>2. CASE AgentCrash
  <2>1. ServesClient' /\ OneHandler'
    <3>1. \A h \in Handlers : handler'[h].client = NoClient
      BY <1>0, <1>2 DEF AgentCrash, TypeOK, Handler
    <3>2. QED BY <3>1 DEF ServesClient, OneHandler
  <2>2. WorkStored'
    <3>1. \A h \in Handlers : /\ handler'[h].failed = handler[h].failed
                              /\ handler'[h].batch = handler[h].batch
                              /\ handler'[h].next = handler[h].next
      BY <1>0, <1>2 DEF AgentCrash, TypeOK, Handler
    <3>2. QED BY <1>0, <1>2, <3>1 DEF AgentCrash, WorkStored
  <2>3. Accounted'
    BY <1>0, <1>2 DEF AgentCrash, Accounted, WithAgent
  <2>4. QED BY <2>1, <2>2, <2>3
<1>3. ASSUME NEW f \in Flushers, Flush(f)
      PROVE  ServesClient' /\ OneHandler' /\ WorkStored' /\ Accounted'
  <2>1. PICK h \in Handlers :
          ~handler[h].busy /\ handler' = [handler EXCEPT ![h] = Serving(f, pending)]
    BY <1>3 DEF Flush
  <2>2. /\ \A g \in Handlers \ {h} : handler'[g] = handler[g]
        /\ handler'[h] = Serving(f, pending)
        /\ flight'[f] = pending /\ flight[f] = <<>> /\ pending # <<>>
        /\ \A g \in Flushers \ {f} : flight'[g] = flight[g]
        /\ stored' = stored
    BY <1>0, <1>3, <2>1 DEF Flush, TypeOK
  <2>3. \A g \in Handlers : handler[g].client # f
    BY <1>0, <2>2, ClientsAssumption DEF ServesClient
  <2>4. ServesClient'
    <3>1. \A g \in Handlers \ {h} : handler[g].client \in (Flushers \ {f}) \cup {NoClient}
      BY <1>0, <2>3 DEF TypeOK, Handler
    <3>2. handler'[h].busy /\ handler'[h].client = f /\ handler'[h].batch = pending
      BY <2>2 DEF Serving
    <3>3. QED BY <1>0, <2>2, <3>1, <3>2 DEF ServesClient
  <2>5. OneHandler'
    BY <1>0, <2>2, <2>3 DEF OneHandler, Serving
  <2>6. WorkStored'
    BY <1>0, <2>2 DEF WorkStored, Serving
  <2>7. Accounted'
    BY <1>0, <1>3, <2>2 DEF Flush, Accounted, WithAgent
  <2>8. QED BY <2>4, <2>5, <2>6, <2>7
<1>4. ASSUME NEW f \in Flushers, GiveUp(f)
      PROVE  ServesClient' /\ OneHandler' /\ WorkStored' /\ Accounted'
  <2>1. /\ UNCHANGED <<handler, stored, detected, lost, cut>>
        /\ \A g \in Flushers \ {f} : flight'[g] = flight[g]
        /\ \A h \in Handlers : handler[h].client # f
    BY <1>0, <1>4 DEF GiveUp, TypeOK
  <2>2. ServesClient' /\ OneHandler' /\ WorkStored'
    BY <1>0, <2>1 DEF ServesClient, OneHandler, WorkStored, TypeOK, Handler
  <2>3. /\ dropped \subseteq dropped'
        /\ Elements(flight[f]) \cup Elements(pending) \subseteq Elements(pending') \cup dropped'
    BY <1>0, <1>4, RequeueKeepsAll DEF GiveUp, TypeOK
  <2>4. Accounted'
    BY <1>0, <2>1, <2>3 DEF Accounted, WithAgent
  <2>5. QED BY <2>2, <2>4
<1>5. QED BY <1>1, <1>2, <1>3, <1>4 DEF AgentStep

\* What a handler does keeps the parts of DeliveryInv it can disturb.
LEMMA ConsoleStepDelivery ==
  ASSUME DeliveryInv, ConsoleStep
  PROVE  ServesClient' /\ OneHandler' /\ WorkStored' /\ Accounted'
<1> USE DEF triageVars, historyVars
<1>0. TypeOK /\ QueueBounded /\ ServesClient /\ OneHandler /\ WorkStored /\ Accounted
  BY DEF DeliveryInv
<1>1. CASE ConsoleRestart
  BY <1>0, <1>1 DEF ConsoleRestart, Idle, ServesClient, OneHandler, WorkStored,
                    Accounted, WithAgent
(* One more finding of h is done with: stored, or counted as failed. *)
<1>2. ASSUME NEW h \in Handlers, UpdateRow(h) \/ InsertRow(h) \/ StoreError(h)
      PROVE  ServesClient' /\ OneHandler' /\ WorkStored' /\ Accounted'
  <2>1. /\ \A g \in Handlers \ {h} : handler'[g] = handler[g]
        /\ handler'[h].busy = handler[h].busy /\ handler'[h].client = handler[h].client
        /\ handler'[h].batch = handler[h].batch
        /\ \/ handler'[h].failed
           \/ handler'[h].failed = handler[h].failed /\ handler'[h].next = handler[h].next
           \/ /\ handler'[h].failed = handler[h].failed
              /\ handler'[h].next = handler[h].next + 1
              /\ Current(h) \in stored'
    BY <1>0, <1>2 DEF UpdateRow, InsertRow, StoreError, TypeOK, Handler
  <2>2. stored \subseteq stored' /\ UNCHANGED <<detected, pending, flight, dropped, lost, cut>>
    BY <1>2 DEF UpdateRow, InsertRow, StoreError
  <2>3. ServesClient' /\ OneHandler'
    BY <1>0, <2>1, <2>2 DEF ServesClient, OneHandler
  <2>4. WorkStored'
    <3>1. handler[h].next \in Nat /\ Len(handler[h].batch) \in Nat
      BY <1>0, HandlerTypes DEF Handler
    <3>2. ASSUME ~handler'[h].failed, NEW i \in 1..Len(handler[h].batch),
                 i < handler'[h].next
          PROVE  handler[h].batch[i] \in stored'
      <4>1. i < handler[h].next \/ i = handler[h].next
        BY <2>1, <3>1, <3>2
      <4>2. CASE i < handler[h].next
        BY <1>0, <2>1, <2>2, <3>2, <4>2 DEF WorkStored
      <4>3. CASE i = handler[h].next
        BY <2>1, <3>1, <3>2, <4>3 DEF Current
      <4>4. QED BY <4>1, <4>2, <4>3
    <3>3. QED BY <1>0, <2>1, <2>2, <3>2 DEF WorkStored
  <2>5. Accounted'
    BY <1>0, <2>2 DEF Accounted, WithAgent
  <2>6. QED BY <2>3, <2>4, <2>5
<1>3. ASSUME NEW h \in Handlers, LoseRequest(h)
      PROVE  ServesClient' /\ OneHandler' /\ WorkStored' /\ Accounted'
  <2>1. /\ \A g \in Handlers \ {h} : handler'[g] = handler[g]
        /\ handler'[h].client = NoClient
        /\ \/ handler'[h] = Idle
           \/ /\ handler'[h].failed = handler[h].failed
              /\ handler'[h].batch = handler[h].batch
              /\ handler'[h].next = handler[h].next
    <3>1. /\ \/ handler' = [handler EXCEPT ![h] = Idle]
             \/ handler' = [handler EXCEPT ![h] = [handler[h] EXCEPT !.client = NoClient]]
          /\ handler[h] \in Handler
      BY <1>0, <1>3 DEF LoseRequest, TypeOK
    <3>2. Idle.client = NoClient
      BY DEF Idle
    <3>3. CASE handler' = [handler EXCEPT ![h] = Idle]
      BY <1>0, <3>2, <3>3 DEF TypeOK
    <3>4. CASE handler' = [handler EXCEPT ![h] = [handler[h] EXCEPT !.client = NoClient]]
      BY <1>0, <3>1, <3>4 DEF TypeOK, Handler
    <3>5. QED BY <3>1, <3>3, <3>4
  <2>2. UNCHANGED <<detected, pending, flight, stored, dropped, lost, cut>>
    BY <1>3 DEF LoseRequest
  <2>3. ServesClient' /\ OneHandler'
    BY <1>0, <2>1, <2>2 DEF ServesClient, OneHandler
  <2>4. WorkStored'
    BY <1>0, <2>1, <2>2 DEF WorkStored, Idle
  <2>5. Accounted'
    BY <1>0, <2>2 DEF Accounted, WithAgent
  <2>6. QED BY <2>3, <2>4, <2>5
<1>4. ASSUME NEW h \in Handlers, Respond(h)
      PROVE  ServesClient' /\ OneHandler' /\ WorkStored' /\ Accounted'
  <2> DEFINE f == handler[h].client
  <2>1. /\ \A g \in Handlers \ {h} : handler'[g] = handler[g]
        /\ handler'[h] = Idle /\ UNCHANGED <<detected, stored, lost>>
    BY <1>0, <1>4 DEF Respond, TypeOK
  <2>2. \A g \in Flushers : g # f => flight'[g] = flight[g]
    BY <1>0, <1>4 DEF Respond, TypeOK
  <2>3. ServesClient'
    <3>1. ASSUME NEW g \in Handlers \ {h}, handler[g].client # NoClient
          PROVE  handler[g].client \in Flushers /\ handler[g].client # f
      BY <1>0, <3>1 DEF OneHandler, TypeOK, Handler
    <3>2. QED BY <1>0, <2>1, <2>2, <3>1 DEF ServesClient, Idle
  <2>4. OneHandler' /\ WorkStored'
    BY <1>0, <2>1 DEF OneHandler, WorkStored, Idle
  <2>5. Accounted'
    <3>1. CASE f = NoClient
      <4>1. UNCHANGED <<pending, flight, dropped, cut>>
        BY <1>4, <3>1 DEF Respond
      <4>2. QED BY <1>0, <2>1, <4>1 DEF Accounted, WithAgent
    <3>2. CASE f # NoClient
      <4>1. f \in Flushers /\ flight[f] \in Seq(Detections) /\ handler[h].batch = flight[f]
        BY <1>0, <3>2 DEF TypeOK, Handler, ServesClient
      <4>2. CASE Undelivered(h)
        <5>1. Requeue(flight[f]) /\ UNCHANGED cut
          BY <1>4, <3>2, <4>2 DEF Respond
        <5>2. /\ dropped \subseteq dropped'
              /\ Elements(flight[f]) \cup Elements(pending) \subseteq Elements(pending') \cup dropped'
          BY <1>0, <4>1, <5>1, RequeueKeepsAll DEF TypeOK
        <5>3. QED BY <1>0, <2>1, <2>2, <5>1, <5>2 DEF Accounted, WithAgent
      <4>3. CASE ~Undelivered(h)
        <5>1. /\ cut' = cut \cup {flight[f][i] : i \in (BatchCap + 1)..Len(flight[f])}
              /\ UNCHANGED <<pending, dropped>>
          BY <1>4, <3>2, <4>3 DEF Respond
        <5>2. Elements(flight[f]) \subseteq stored \cup cut'
          <6>1. ASSUME NEW i \in 1..Len(flight[f]), i <= BatchCap
                PROVE  flight[f][i] \in stored
            <7>1. handler[h].next > Limit(h) /\ Limit(h) \in Nat /\ handler[h].next \in Nat
              BY <1>0, <1>4, <4>3, HandlerTypes DEF Respond, AtWork, Undelivered, Handler
            <7>2. i <= Limit(h)
              BY <4>1, <6>1, BoundsAssumption, LenProperties DEF Limit, Smaller
            <7>3. i < handler[h].next
              BY <7>1, <7>2
            <7>4. QED BY <1>0, <4>1, <4>3, <7>3 DEF WorkStored, Undelivered
          <6>2. \A i \in 1..Len(flight[f]) : i <= BatchCap \/ i \in (BatchCap + 1)..Len(flight[f])
            BY <4>1, LenProperties, BoundsAssumption
          <6>3. QED BY <5>1, <6>1, <6>2 DEF Elements
        <5>3. QED BY <1>0, <2>1, <2>2, <5>1, <5>2 DEF Accounted, WithAgent
      <4>4. QED BY <4>2, <4>3
    <3>3. QED BY <3>1, <3>2
  <2>6. QED BY <2>3, <2>4, <2>5
<1>5. QED BY <1>1, <1>2, <1>3, <1>4 DEF ConsoleStep

\* Every step keeps DeliveryInv.
LEMMA StepDelivery == DeliveryInv /\ [Next]_vars => DeliveryInv'
<1> SUFFICES ASSUME DeliveryInv, [Next]_vars PROVE DeliveryInv'
  OBVIOUS
<1>1. TypeOK' /\ QueueBounded'
  BY StepTypeOK DEF DeliveryInv
<1>2. CASE OperatorStep
  <2>1. UNCHANGED <<detected, pending, flight, handler, stored, dropped, lost, cut>>
    BY <1>2 DEF OperatorStep, BulkUpdate, SetFindingState, ShowFindings, BulkCount, historyVars
  <2>2. QED BY <1>1, <2>1 DEF DeliveryInv, ServesClient, OneHandler, WorkStored,
                              Accounted, WithAgent
<1>3. CASE UNCHANGED vars
  BY <1>1, <1>3 DEF DeliveryInv, ServesClient, OneHandler, WorkStored, Accounted, WithAgent,
                    vars, triageVars, historyVars
<1>4. QED BY <1>1, <1>2, <1>3, AgentStepDelivery, ConsoleStepDelivery DEF Next, DeliveryInv

(* Every detection made is with the agent or stored, or one of the admitted
   losses: an acknowledgement without failures covers all its handler was given
   up to the cap on a batch (flushEvents, handleEvents). *)
THEOREM NothingJustGone == Spec => []Accounted
<1>1. DeliveryInv => Accounted
  BY DEF DeliveryInv
<1>2. QED BY <1>1, InitDelivery, StepDelivery, PTL DEF Spec

-----------------------------------------------------------------------------
(* Reports do not undo triage (UpsertFinding): of all the steps that write a  *)
(* row only the operators' change one that is contained or dismissed.         *)
THEOREM TriageIsKept == Spec => TriageStands
<1> DEFINE Kept == \A k \in Keys :
                     (/\ state[k] \in {"contained", "dismissed"}
                      /\ state'[k] # state[k]) => handler' = handler
<1>1. TypeOK /\ [Next]_vars => [Kept]_vars
  <2> SUFFICES ASSUME TypeOK, [Next]_vars, NEW k \in Keys, state[k] \in {"contained", "dismissed"},
                      state'[k] # state[k]
               PROVE  handler' = handler
    OBVIOUS
  <2>1. CASE UNCHANGED vars
    BY <2>1 DEF vars
  <2>2. CASE AgentStep
    BY <2>2 DEF AgentStep, Detect, AgentCrash, Flush, GiveUp
  <2>3. CASE ConsoleStep
    <3>1. ASSUME NEW h \in Handlers, UpdateRow(h) PROVE FALSE
      BY <3>1 DEF UpdateRow, Seen, TypeOK
    <3>2. ASSUME NEW h \in Handlers, InsertRow(h) PROVE FALSE
      BY <3>2 DEF InsertRow, Refused, TypeOK
    <3>3. QED BY <2>3, <3>1, <3>2 DEF ConsoleStep, ConsoleRestart, StoreError, Respond, LoseRequest
  <2>4. CASE OperatorStep
    BY <2>4 DEF OperatorStep, BulkUpdate, SetFindingState, ShowFindings, BulkCount
  <2>5. QED BY <2>1, <2>2, <2>3, <2>4 DEF Next
<1>2. QED BY <1>1, TypedAndBounded, PTL DEF Spec, TriageStands

-----------------------------------------------------------------------------
(* What was queued while a batch was away is at the end of the joined queue,  *)
(* and a queue within its bound is never longer than what stays (requeue).    *)
LEMMA RequeueKeepsPending ==
  ASSUME NEW batch \in Seq(Detections), pending \in Seq(Detections),
         Len(pending) <= Capacity, Requeue(batch)
  PROVE  Elements(pending) \subseteq Elements(pending')
<1> DEFINE q == batch \o pending
           k == Overflow(q)
<1>1. /\ q \in Seq(Detections) /\ pending' = SubSeq(q, k + 1, Len(q))
      /\ Len(q) = Len(batch) + Len(pending)
      /\ Len(batch) \in Nat /\ Len(pending) \in Nat
      /\ \A i \in 1..(Len(batch) + Len(pending)) :
           q[i] = IF i <= Len(batch) THEN batch[i] ELSE pending[i - Len(batch)]
  BY ConcatProperties, LenProperties DEF Requeue
<1> HIDE DEF q
<1>2. k \in Nat /\ k <= Len(batch)
  BY <1>1, BoundsAssumption DEF Overflow
<1> HIDE DEF k
<1>3. \A i \in (k + 1)..Len(q) : q[i] \in Detections
  BY <1>1, <1>2, ElementOfSeq
<1>4. /\ Len(pending') = IF k + 1 <= Len(q) THEN Len(q) - (k + 1) + 1 ELSE 0
      /\ \A i \in 1..(Len(q) - (k + 1) + 1) : pending'[i] = q[(k + 1) + i - 1]
  BY <1>1, <1>2, <1>3, SubSeqProperties
<1>5. ASSUME NEW i \in 1..Len(pending)
      PROVE  pending[i] \in Elements(pending')
  <2> DEFINE j == Len(batch) + i - k
  <2>1. j \in 1..Len(pending') /\ j \in 1..(Len(q) - (k + 1) + 1)
    BY <1>1, <1>2, <1>4
  <2>2. pending'[j] = q[Len(batch) + i]
    BY <1>1, <1>2, <1>4, <2>1
  <2>3. q[Len(batch) + i] = pending[i]
    BY <1>1
  <2>4. QED BY <2>1, <2>2, <2>3 DEF Elements
<1>6. QED BY <1>5 DEF Elements

(* A batch that comes back pushes out detections of its own, never one that was
   queued while it was away (requeue). *)
THEOREM ReturnSparesTheQueued == Spec => QueuedSurvives
<1> DEFINE Spared == dropped' # dropped /\ detected' = detected =>
                       Elements(pending) \subseteq Elements(pending')
<1>1. TypeOK /\ QueueBounded /\ [Next]_vars => [Spared]_vars
  <2> SUFFICES ASSUME TypeOK, QueueBounded, Next, dropped' # dropped, detected' = detected
               PROVE  Elements(pending) \subseteq Elements(pending')
    OBVIOUS
  <2>1. \A f \in Flushers : flight[f] \in Seq(Detections)
    BY DEF TypeOK
  <2>2. CASE AgentStep
    <3>1. CASE Detect
      BY <3>1 DEF Detect, TypeOK
    <3>2. ASSUME NEW f \in Flushers, GiveUp(f)
          PROVE  Elements(pending) \subseteq Elements(pending')
      BY <2>1, <3>2, RequeueKeepsPending DEF GiveUp, TypeOK, QueueBounded
    <3>3. QED BY <2>2, <3>1, <3>2 DEF AgentStep, AgentCrash, Flush, historyVars
  <2>3. CASE ConsoleStep
    <3>1. ASSUME NEW h \in Handlers, Respond(h)
          PROVE  Elements(pending) \subseteq Elements(pending')
      <4>1. handler[h].client \in Flushers \cup {NoClient}
        BY HandlerTypes DEF TypeOK, Handler
      <4>2. CASE handler[h].client = NoClient
        BY <3>1, <4>2 DEF Respond
      <4>3. CASE handler[h].client # NoClient
        <5>1. Requeue(flight[handler[h].client])
          BY <3>1, <4>3 DEF Respond
        <5>2. QED BY <2>1, <4>1, <4>3, <5>1, RequeueKeepsPending DEF TypeOK, QueueBounded
      <4>4. QED BY <4>2, <4>3
    <3>2. QED BY <2>3, <3>1 DEF ConsoleStep, ConsoleRestart, UpdateRow, InsertRow, StoreError,
                               LoseRequest, historyVars
  <2>4. CASE OperatorStep
    BY <2>4 DEF OperatorStep, BulkUpdate, SetFindingState, ShowFindings, BulkCount, historyVars
  <2>5. QED BY <2>2, <2>3, <2>4 DEF Next
<1>2. QED BY <1>1, TypedAndBounded, PTL DEF Spec, QueuedSurvives

-----------------------------------------------------------------------------
(* The delivery implements FindingLedger.  A settled detection is not owed    *)
(* again only because the agent holds each in one place, once: the queue and  *)
(* the batches under way share none, and a handler was given only what was    *)
(* detected.                                                                 *)

Once(q) == \A i, j \in 1..Len(q) : q[i] = q[j] => i = j

(* The queue and the batches have each detection once between them. *)
HeldOnce ==
  /\ Once(pending)
  /\ \A f \in Flushers : Once(flight[f]) /\ Elements(pending) \cap Elements(flight[f]) = {}
  /\ \A f, g \in Flushers : f # g => Elements(flight[f]) \cap Elements(flight[g]) = {}

(* Only what was detected is held, or in a handler. *)
OnlyDetected ==
  /\ \A n \in WithAgent : n \in 1..detected
  /\ \A h \in Handlers : \A n \in Elements(handler[h].batch) : n \in 1..detected

LedgerInv == DeliveryInv /\ HeldOnce /\ OnlyDetected

Gone == dropped \cup lost \cup cut

\* A new detection is queued once.
LEMMA OnceAppend ==
  ASSUME NEW S, NEW q \in Seq(S), NEW n \in S, n \notin Elements(q), Once(q)
  PROVE  Once(Append(q, n))
<1>1. /\ Len(Append(q, n)) = Len(q) + 1 /\ Len(q) \in Nat
      /\ \A i \in 1..Len(q) : Append(q, n)[i] = q[i]
      /\ Append(q, n)[Len(q) + 1] = n
  BY AppendProperties, LenProperties
<1>2. \A i \in 1..(Len(q) + 1) : i \in 1..Len(q) \/ i = Len(q) + 1
  BY <1>1
<1>3. \A i \in 1..Len(q) : q[i] # n
  BY DEF Elements
<1> HIDE DEF Once
<1>4. \A i, j \in 1..Len(q) : q[i] = q[j] => i = j
  BY DEF Once
<1>5. \A i, j \in 1..(Len(q) + 1) : Append(q, n)[i] = Append(q, n)[j] => i = j
  BY <1>1, <1>2, <1>3, <1>4
<1>6. QED BY <1>1, <1>5 DEF Once

\* Two sequences that share nothing have each element once when they are joined.
LEMMA OnceConcat ==
  ASSUME NEW S, NEW b \in Seq(S), NEW q \in Seq(S), Once(b), Once(q),
         Elements(b) \cap Elements(q) = {}
  PROVE  Once(b \o q)
<1> DEFINE r == b \o q
<1>1. /\ Len(r) = Len(b) + Len(q) /\ Len(b) \in Nat /\ Len(q) \in Nat
      /\ \A i \in 1..(Len(b) + Len(q)) :
           r[i] = IF i <= Len(b) THEN b[i] ELSE q[i - Len(b)]
  BY ConcatProperties, LenProperties
<1> HIDE DEF r
<1>2. ASSUME NEW i \in 1..Len(r), NEW j \in 1..Len(r), r[i] = r[j], i <= Len(b), j > Len(b)
      PROVE  FALSE
  <2>1. i \in 1..Len(b) /\ r[i] = b[i]
    BY <1>1, <1>2
  <2>2. j - Len(b) \in 1..Len(q) /\ r[j] = q[j - Len(b)]
    BY <1>1, <1>2
  <2>3. r[i] \in Elements(b) /\ r[j] \in Elements(q)
    BY <2>1, <2>2 DEF Elements
  <2>4. QED BY <1>2, <2>3
<1>3. ASSUME NEW i \in 1..Len(r), NEW j \in 1..Len(r), r[i] = r[j], i <= Len(b), j <= Len(b)
      PROVE  i = j
  <2>1. i \in 1..Len(b) /\ r[i] = b[i] /\ j \in 1..Len(b) /\ r[j] = b[j]
    BY <1>1, <1>3
  <2>2. QED BY <1>3, <2>1 DEF Once
<1>4. ASSUME NEW i \in 1..Len(r), NEW j \in 1..Len(r), r[i] = r[j], i > Len(b), j > Len(b)
      PROVE  i = j
  <2>1. /\ i - Len(b) \in 1..Len(q) /\ r[i] = q[i - Len(b)]
        /\ j - Len(b) \in 1..Len(q) /\ r[j] = q[j - Len(b)]
    BY <1>1, <1>4
  <2>2. i - Len(b) = j - Len(b)
    BY <1>4, <2>1 DEF Once
  <2>3. QED BY <1>1, <2>2
<1>5. \A i, j \in 1..Len(r) : r[i] = r[j] => i = j
  <2>1. \A i \in 1..Len(r) : i <= Len(b) \/ i > Len(b)
    BY <1>1
  <2>2. QED BY <1>2, <1>3, <1>4, <2>1
<1>6. QED BY <1>5 DEF Once, r

\* What is cut off the front of such a sequence is not in the rest.
LEMMA OnceCut ==
  ASSUME NEW S, NEW q \in Seq(S), NEW k \in Nat, k <= Len(q), Once(q)
  PROVE  /\ Once(SubSeq(q, k + 1, Len(q)))
         /\ Elements(SubSeq(q, k + 1, Len(q))) = Elements(q) \ {q[i] : i \in 1..k}
<1> DEFINE t == SubSeq(q, k + 1, Len(q))
<1>1. Len(q) \in Nat /\ \A i \in 1..Len(q) : q[i] \in S
  BY LenProperties, ElementOfSeq
<1>2. \A i \in (k + 1)..Len(q) : q[i] \in S
  BY <1>1
<1>3. /\ Len(t) = IF k + 1 <= Len(q) THEN Len(q) - (k + 1) + 1 ELSE 0
      /\ \A i \in 1..(Len(q) - (k + 1) + 1) : t[i] = q[(k + 1) + i - 1]
  BY <1>1, <1>2, SubSeqProperties
<1>4. Len(t) = Len(q) - k /\ \A i \in 1..(Len(q) - k) : t[i] = q[k + i]
  BY <1>1, <1>3
<1>5. Elements(q) = Elements(t) \cup {q[i] : i \in 1..k}
  BY CutKeepsAll
<1> HIDE DEF t
<1>6. \A i \in 1..Len(t) : k + i \in 1..Len(q) /\ t[i] = q[k + i]
  BY <1>1, <1>4
<1>7. ASSUME NEW i \in 1..Len(t), NEW j \in 1..Len(t), t[i] = t[j]
      PROVE  i = j
  <2>1. k + i = k + j
    BY <1>6, <1>7 DEF Once
  <2>2. QED BY <1>1, <2>1
<1>8. ASSUME NEW i \in 1..Len(t), NEW j \in 1..k, t[i] = q[j]
      PROVE  FALSE
  <2>1. j \in 1..Len(q)
    BY <1>1
  <2>2. k + i = j
    BY <1>6, <1>8, <2>1 DEF Once
  <2>3. QED BY <1>1, <2>2
<1>9. Elements(t) \cap {q[i] : i \in 1..k} = {}
  BY <1>8 DEF Elements
<1>10. QED BY <1>5, <1>7, <1>9 DEF Once, t

(* A returned batch: what the queue keeps of both, and what it drops, are
   different detections. *)
LEMMA RequeueParts ==
  ASSUME NEW batch \in Seq(Detections), pending \in Seq(Detections), Once(batch), Once(pending),
         Elements(pending) \cap Elements(batch) = {}, Requeue(batch)
  PROVE  /\ Once(pending')
         /\ \E T \in SUBSET (Elements(batch) \cup Elements(pending)) :
              /\ dropped' = dropped \cup T
              /\ Elements(pending') = (Elements(batch) \cup Elements(pending)) \ T
<1> DEFINE q == batch \o pending
           T == {q[i] : i \in 1..Overflow(q)}
<1>1. /\ q \in Seq(Detections) /\ Elements(q) = Elements(batch) \cup Elements(pending)
      /\ Once(q)
  BY ConcatProperties, ElementsOfConcat, OnceConcat
<1>2. pending' = SubSeq(q, Overflow(q) + 1, Len(q)) /\ dropped' = dropped \cup T
  BY DEF Requeue
<1> HIDE DEF q
<1>3. Len(q) \in Nat
  BY <1>1, LenProperties
<1>4. Overflow(q) \in Nat /\ Overflow(q) <= Len(q)
  BY <1>3, BoundsAssumption DEF Overflow
<1>5. Once(pending') /\ Elements(pending') = Elements(q) \ T
  BY <1>1, <1>2, <1>4, OnceCut
<1>6. T \subseteq Elements(q)
  BY <1>3, <1>4 DEF Elements
<1>7. QED BY <1>1, <1>2, <1>5, <1>6

\* What the agent holds is in its queue or in a batch.
LEMMA HeldWhere ==
  \A n : n \in WithAgent <=> n \in Elements(pending) \/ \E f \in Flushers : n \in Elements(flight[f])
BY DEF WithAgent

\* And so after a step.
LEMMA HeldWhereNext ==
  \A n : n \in WithAgent' <=> n \in Elements(pending') \/ \E f \in Flushers : n \in Elements(flight'[f])
BY DEF WithAgent

\* A step that settles some detections is a step of the ledger.
LEMMA SettleIsNext ==
  ASSUME NEW some \in SUBSET WithAgent, NEW losses \in SUBSET some, some \ losses \subseteq stored,
         WithAgent' = WithAgent \ some, Gone' = Gone \cup losses,
         detected' = detected, stored' = stored
  PROVE  Ledger!Next
BY DEF Ledger!Next, Ledger!Settle, Gone

\* A step that touches nothing the ledger sees.
LEMMA LedgerStutters ==
  ASSUME WithAgent' = WithAgent, Gone' = Gone, detected' = detected, stored' = stored
  PROVE  UNCHANGED Ledger!vars
BY DEF Ledger!vars, Gone

\* A batch that comes back settles what the queue drops for it.
LEMMA ReturnSettles ==
  ASSUME LedgerInv, NEW f \in Flushers, Requeue(flight[f]),
         flight' = [flight EXCEPT ![f] = <<>>], UNCHANGED <<detected, stored, lost, cut>>
  PROVE  HeldOnce' /\ WithAgent' \subseteq WithAgent /\ Ledger!Next
<1>0. /\ TypeOK /\ HeldOnce /\ flight[f] \in Seq(Detections) /\ pending \in Seq(Detections)
      /\ flight \in [Flushers -> Seq(Detections)]
  BY DEF LedgerInv, DeliveryInv, TypeOK
<1>1. /\ Once(pending) /\ Once(flight[f]) /\ Elements(pending) \cap Elements(flight[f]) = {}
  BY <1>0 DEF HeldOnce
<1>2. /\ Once(pending')
      /\ \E T \in SUBSET (Elements(flight[f]) \cup Elements(pending)) :
           /\ dropped' = dropped \cup T
           /\ Elements(pending') = (Elements(flight[f]) \cup Elements(pending)) \ T
  BY <1>0, <1>1, RequeueParts
<1>3. PICK T \in SUBSET (Elements(flight[f]) \cup Elements(pending)) :
           /\ dropped' = dropped \cup T
           /\ Elements(pending') = (Elements(flight[f]) \cup Elements(pending)) \ T
  BY <1>2
<1>4. Elements(<<>>) = {}
  BY DEF Elements
<1>5. flight'[f] = <<>> /\ \A g \in Flushers \ {f} : flight'[g] = flight[g]
  BY <1>0
<1>6. \A g \in Flushers \ {f} : /\ Elements(flight[g]) \cap Elements(flight[f]) = {}
                                /\ Elements(flight[g]) \cap Elements(pending) = {}
  BY <1>0 DEF HeldOnce
<1>7. HeldOnce'
  <2>1. Once(<<>>)
    BY DEF Once
  <2>2. \A g \in Flushers : Once(flight'[g]) /\ Elements(pending') \cap Elements(flight'[g]) = {}
    BY <1>0, <1>3, <1>4, <1>5, <1>6, <2>1 DEF HeldOnce
  <2>3. \A g, k \in Flushers : g # k => Elements(flight'[g]) \cap Elements(flight'[k]) = {}
    BY <1>0, <1>4, <1>5 DEF HeldOnce
  <2>4. QED BY <1>2, <2>2, <2>3 DEF HeldOnce
<1>8. WithAgent' = WithAgent \ T
  <2>1. \A n : n \in WithAgent' => n \in WithAgent /\ n \notin T
    BY <1>3, <1>4, <1>5, <1>6, HeldWhere, HeldWhereNext
  <2>2. \A n : n \in WithAgent /\ n \notin T => n \in WithAgent'
    BY <1>3, <1>5, HeldWhere, HeldWhereNext
  <2>3. QED BY <2>1, <2>2
<1>9. T \in SUBSET WithAgent
  BY HeldWhere
<1>10. Gone' = Gone \cup T
  BY <1>3 DEF Gone
<1>11. Ledger!Next
  BY <1>8, <1>9, <1>10, SettleIsNext
<1>12. QED BY <1>7, <1>8, <1>11

\* What the agent does keeps the ledger, and what LedgerInv says of it.
LEMMA AgentStepLedger ==
  ASSUME LedgerInv, AgentStep
  PROVE  HeldOnce' /\ OnlyDetected' /\ (Ledger!Next \/ UNCHANGED Ledger!vars)
<1> USE DEF triageVars, historyVars
<1>0. /\ TypeOK /\ ServesClient /\ HeldOnce /\ OnlyDetected
      /\ pending \in Seq(Detections) /\ flight \in [Flushers -> Seq(Detections)]
      /\ detected \in Nat
  BY BoundsAssumption DEF LedgerInv, DeliveryInv, TypeOK
<1>e. Elements(<<>>) = {} /\ Once(<<>>)
  BY DEF Elements, Once
<1>1. CASE Detect
  <2>1. /\ UNCHANGED <<handler, flight, stored, lost, cut>>
        /\ detected' = detected + 1
        /\ detected' \in Detections /\ detected' \notin 1..detected
        /\ \A n \in 1..detected : n \in 1..detected'
        /\ detected' \in 1..detected'
    BY <1>0, <1>1, BoundsAssumption DEF Detect, Detections
  <2>2. detected' \notin WithAgent
    BY <1>0, <2>1 DEF OnlyDetected
  <2>3. CASE Len(pending) < Capacity
    <3>1. pending' = Append(pending, detected') /\ dropped' = dropped
      BY <1>1, <2>3 DEF Detect
    <3>2. Elements(pending') = Elements(pending) \cup {detected'}
      BY <1>0, <2>1, <3>1, ElementsOfAppend
    <3>3. Once(pending')
      <4>1. detected' \notin Elements(pending)
        BY <2>2, HeldWhere
      <4>2. QED BY <1>0, <2>1, <3>1, <4>1, OnceAppend DEF HeldOnce
    <3>4. WithAgent' = WithAgent \cup {detected'}
      BY <2>1, <3>2, HeldWhere, HeldWhereNext
    <3>5. HeldOnce'
      <4>1. \A f \in Flushers : detected' \notin Elements(flight[f])
        BY <2>2, HeldWhere
      <4>2. \A f \in Flushers : /\ Once(flight'[f])
                                /\ Elements(pending') \cap Elements(flight'[f]) = {}
        BY <1>0, <2>1, <3>2, <4>1 DEF HeldOnce
      <4>3. \A f, g \in Flushers : f # g => Elements(flight'[f]) \cap Elements(flight'[g]) = {}
        BY <1>0, <2>1 DEF HeldOnce
      <4>4. QED BY <3>3, <4>2, <4>3 DEF HeldOnce
    <3>6. OnlyDetected'
      BY <1>0, <2>1, <3>4 DEF OnlyDetected
    <3>7. Ledger!Make
      BY <2>1, <3>1, <3>4 DEF Ledger!Make
    <3>8. QED BY <3>5, <3>6, <3>7 DEF Ledger!Next
  <2>4. CASE ~(Len(pending) < Capacity)
    <3>1. UNCHANGED pending /\ dropped' = dropped \cup {detected'}
      BY <1>1, <2>4 DEF Detect
    <3>2. WithAgent' = WithAgent
      BY <2>1, <3>1 DEF WithAgent
    <3>3. HeldOnce'
      BY <1>0, <2>1, <3>1 DEF HeldOnce
    <3>4. OnlyDetected'
      BY <1>0, <2>1, <3>2 DEF OnlyDetected
    <3>5. Gone' = Gone \cup {detected'}
      BY <2>1, <3>1 DEF Gone
    <3>6. Ledger!Make
      BY <2>1, <3>2, <3>5 DEF Ledger!Make, Gone
    <3>7. QED BY <3>3, <3>4, <3>6 DEF Ledger!Next
  <2>5. QED BY <2>3, <2>4
<1>2. CASE AgentCrash
  <2>1. /\ UNCHANGED <<detected, stored, dropped, cut>> /\ pending' = <<>>
        /\ lost' = lost \cup WithAgent
        /\ \A f \in Flushers : flight'[f] = <<>>
        /\ \A h \in Handlers : handler'[h].batch = handler[h].batch
    BY <1>0, <1>2 DEF AgentCrash, WithAgent, TypeOK, Handler
  <2>2. WithAgent' = {}
    BY <1>e, <2>1, HeldWhereNext
  <2>3. HeldOnce'
    BY <1>e, <2>1 DEF HeldOnce
  <2>4. OnlyDetected'
    BY <1>0, <2>1, <2>2 DEF OnlyDetected
  <2>5. Gone' = Gone \cup WithAgent
    BY <2>1 DEF Gone
  <2>6. WithAgent' = WithAgent \ WithAgent /\ WithAgent \ WithAgent \subseteq stored
    BY <2>2
  <2>7. Ledger!Next
    BY <2>1, <2>5, <2>6, SettleIsNext
  <2>8. QED BY <2>3, <2>4, <2>7
(* The queue becomes a batch. *)
<1>3. ASSUME NEW f \in Flushers, Flush(f)
      PROVE  HeldOnce' /\ OnlyDetected' /\ UNCHANGED Ledger!vars
  <2>1. PICK h \in Handlers :
          ~handler[h].busy /\ handler' = [handler EXCEPT ![h] = Serving(f, pending)]
    BY <1>3 DEF Flush
  <2>2. /\ UNCHANGED <<detected, stored, dropped, lost, cut>>
        /\ pending' = <<>> /\ flight[f] = <<>> /\ flight'[f] = pending
        /\ \A g \in Flushers \ {f} : flight'[g] = flight[g]
        /\ handler'[h].batch = pending
        /\ \A g \in Handlers \ {h} : handler'[g] = handler[g]
    BY <1>0, <1>3, <2>1 DEF Flush, TypeOK, Serving
  <2>3. WithAgent' = WithAgent
    <3>1. \A n : n \in WithAgent' => n \in WithAgent
      BY <1>e, <2>2, HeldWhere, HeldWhereNext
    <3>2. \A n : n \in WithAgent => n \in WithAgent'
      BY <1>e, <2>2, HeldWhere, HeldWhereNext
    <3>3. QED BY <3>1, <3>2
  <2>4. HeldOnce'
    <3>1. \A g \in Flushers : Once(flight'[g]) /\ Elements(pending') \cap Elements(flight'[g]) = {}
      BY <1>0, <1>e, <2>2 DEF HeldOnce
    <3>2. \A g, k \in Flushers : g # k => Elements(flight'[g]) \cap Elements(flight'[k]) = {}
      BY <1>0, <2>2 DEF HeldOnce
    <3>3. QED BY <1>e, <2>2, <3>1, <3>2 DEF HeldOnce
  <2>5. OnlyDetected'
    <3>1. \A n \in Elements(pending) : n \in 1..detected
      BY <1>0, HeldWhere DEF OnlyDetected
    <3>2. QED BY <1>0, <2>2, <2>3, <3>1 DEF OnlyDetected
  <2>6. Gone' = Gone
    BY <2>2 DEF Gone
  <2>7. QED BY <2>2, <2>3, <2>4, <2>5, <2>6, LedgerStutters
<1>4. ASSUME NEW f \in Flushers, GiveUp(f)
      PROVE  HeldOnce' /\ OnlyDetected' /\ Ledger!Next
  <2>1. /\ Requeue(flight[f]) /\ flight' = [flight EXCEPT ![f] = <<>>]
        /\ UNCHANGED <<detected, handler, stored, lost, cut>>
    BY <1>4 DEF GiveUp
  <2>2. HeldOnce' /\ WithAgent' \subseteq WithAgent /\ Ledger!Next
    BY <2>1, ReturnSettles
  <2>3. QED BY <1>0, <2>1, <2>2 DEF OnlyDetected
<1>5. QED BY <1>1, <1>2, <1>3, <1>4 DEF AgentStep

\* What the console does keeps the ledger, and what LedgerInv says of it.
LEMMA ConsoleStepLedger ==
  ASSUME LedgerInv, ConsoleStep
  PROVE  HeldOnce' /\ OnlyDetected' /\ (Ledger!Next \/ UNCHANGED Ledger!vars)
<1> USE DEF triageVars, historyVars
<1>0. /\ TypeOK /\ ServesClient /\ WorkStored /\ HeldOnce /\ OnlyDetected
      /\ pending \in Seq(Detections) /\ flight \in [Flushers -> Seq(Detections)]
  BY DEF LedgerInv, DeliveryInv, TypeOK
<1>e. Elements(<<>>) = {} /\ Once(<<>>) /\ Idle.batch = <<>>
  BY DEF Elements, Once, Idle
<1>1. ASSUME UNCHANGED <<detected, pending, flight, stored, dropped, lost, cut>>,
             \A g \in Handlers : handler'[g].batch \in {handler[g].batch, <<>>}
      PROVE  HeldOnce' /\ OnlyDetected' /\ UNCHANGED Ledger!vars
  <2>1. WithAgent' = WithAgent /\ Gone' = Gone
    BY <1>1 DEF WithAgent, Gone
  <2>2. HeldOnce'
    BY <1>0, <1>1 DEF HeldOnce
  <2>3. OnlyDetected'
    <3>1. \A g \in Handlers : \A n \in Elements(handler'[g].batch) : n \in 1..detected
      BY <1>0, <1>1, <1>e DEF OnlyDetected
    <3>2. QED BY <1>0, <1>1, <2>1, <3>1 DEF OnlyDetected
  <2>4. QED BY <1>1, <2>1, <2>2, <2>3, LedgerStutters
<1>2. CASE ConsoleRestart
  <2>1. \A g \in Handlers : handler'[g].batch = <<>>
    BY <1>2, <1>e DEF ConsoleRestart
  <2>2. QED BY <1>1, <1>2, <2>1 DEF ConsoleRestart
(* Of its batch a handler stores the current finding, or none. *)
<1>3. ASSUME NEW h \in Handlers, UpdateRow(h) \/ InsertRow(h) \/ StoreError(h)
      PROVE  HeldOnce' /\ OnlyDetected' /\ (Ledger!Next \/ UNCHANGED Ledger!vars)
  <2>1. /\ \A g \in Handlers : handler'[g].batch = handler[g].batch
        /\ UNCHANGED <<detected, pending, flight, dropped, lost, cut>>
        /\ AtWork(h)
        /\ stored' = stored \/ stored' = stored \cup {Current(h)}
    <3>1. \A g \in Handlers : handler'[g].batch = handler[g].batch
      <4>1. handler[h] \in Handler /\ handler \in [Handlers -> Handler]
        BY <1>0 DEF TypeOK
      <4>2. CASE UpdateRow(h)
        <5>1. \/ handler' = [handler EXCEPT ![h] = [handler[h] EXCEPT !.next = @ + 1]]
              \/ handler' = [handler EXCEPT ![h] = [handler[h] EXCEPT !.missing = TRUE]]
          BY <4>2 DEF UpdateRow
        <5>2. CASE handler' = [handler EXCEPT ![h] = [handler[h] EXCEPT !.next = @ + 1]]
          BY <4>1, <5>2 DEF Handler
        <5>3. CASE handler' = [handler EXCEPT ![h] = [handler[h] EXCEPT !.missing = TRUE]]
          BY <4>1, <5>3 DEF Handler
        <5>4. QED BY <5>1, <5>2, <5>3
      <4>3. CASE InsertRow(h)
        BY <4>1, <4>3 DEF InsertRow, Handler
      <4>4. CASE StoreError(h)
        BY <4>1, <4>4 DEF StoreError, Handler
      <4>5. QED BY <1>3, <4>2, <4>3, <4>4
    <3>2. UNCHANGED <<detected, pending, flight, dropped, lost, cut>> /\ AtWork(h)
      BY <1>3 DEF UpdateRow, InsertRow, StoreError
    <3>3. stored' = stored \/ stored' = stored \cup {Current(h)}
      BY <1>3 DEF UpdateRow, InsertRow, StoreError
    <3>4. QED BY <3>1, <3>2, <3>3
  <2>2. CASE stored' = stored
    BY <1>1, <2>1, <2>2
  <2>3. CASE stored' = stored \cup {Current(h)}
    <3>1. Current(h) \in Elements(handler[h].batch)
      <4>1. /\ handler[h].next \in Nat \ {0} /\ handler[h].next <= Limit(h)
            /\ Limit(h) \in Nat /\ Limit(h) <= Len(handler[h].batch) /\ Len(handler[h].batch) \in Nat
        BY <1>0, <2>1, HandlerTypes DEF AtWork, Handler
      <4>2. handler[h].next \in 1..Len(handler[h].batch)
        BY <4>1
      <4>3. QED BY <4>2 DEF Current, Elements
    <3>2. Current(h) \in 1..detected
      BY <1>0, <3>1 DEF OnlyDetected
    <3>3. WithAgent' = WithAgent /\ Gone' = Gone
      BY <2>1 DEF WithAgent, Gone
    <3>4. Ledger!Keep
      BY <2>1, <2>3, <3>2, <3>3 DEF Ledger!Keep, Gone
    <3>5. HeldOnce'
      BY <1>0, <2>1 DEF HeldOnce
    <3>6. OnlyDetected'
      BY <1>0, <2>1, <3>3 DEF OnlyDetected
    <3>7. QED BY <3>4, <3>5, <3>6 DEF Ledger!Next
  <2>4. QED BY <2>1, <2>2, <2>3
<1>4. ASSUME NEW h \in Handlers, LoseRequest(h)
      PROVE  HeldOnce' /\ OnlyDetected' /\ UNCHANGED Ledger!vars
  <2>1. /\ \/ handler' = [handler EXCEPT ![h] = Idle]
           \/ handler' = [handler EXCEPT ![h] = [handler[h] EXCEPT !.client = NoClient]]
        /\ UNCHANGED <<detected, pending, flight, stored, dropped, lost, cut>>
    BY <1>4 DEF LoseRequest
  <2>2. \A g \in Handlers : handler'[g].batch \in {handler[g].batch, <<>>}
    <3>1. handler[h] \in Handler /\ handler \in [Handlers -> Handler]
      BY <1>0 DEF TypeOK
    <3>2. CASE handler' = [handler EXCEPT ![h] = Idle]
      BY <1>e, <3>1, <3>2
    <3>3. CASE handler' = [handler EXCEPT ![h] = [handler[h] EXCEPT !.client = NoClient]]
      BY <3>1, <3>3 DEF Handler
    <3>4. QED BY <2>1, <3>2, <3>3
  <2>3. QED BY <1>1, <2>1, <2>2
<1>5. ASSUME NEW h \in Handlers, Respond(h)
      PROVE  HeldOnce' /\ OnlyDetected' /\ (Ledger!Next \/ UNCHANGED Ledger!vars)
  <2> DEFINE f == handler[h].client
  <2>1. /\ UNCHANGED <<detected, stored, lost>>
        /\ \A g \in Handlers : handler'[g].batch \in {handler[g].batch, <<>>}
    BY <1>0, <1>5, <1>e DEF Respond, TypeOK
  <2>2. CASE f = NoClient
    BY <1>1, <1>5, <2>1, <2>2 DEF Respond
  <2>3. CASE f # NoClient
    <3>1. /\ f \in Flushers /\ flight[f] \in Seq(Detections) /\ handler[h].batch = flight[f]
          /\ flight' = [flight EXCEPT ![f] = <<>>]
      BY <1>0, <1>5, <2>3 DEF Respond, TypeOK, Handler, ServesClient
    <3>2. ASSUME WithAgent' \subseteq WithAgent
          PROVE  OnlyDetected'
      <4>1. \A g \in Handlers : \A n \in Elements(handler'[g].batch) : n \in 1..detected
        BY <1>0, <1>e, <2>1 DEF OnlyDetected
      <4>2. QED BY <1>0, <2>1, <3>2, <4>1 DEF OnlyDetected
    <3>3. CASE Undelivered(h)
      <4>1. Requeue(flight[f]) /\ UNCHANGED cut
        BY <1>5, <2>3, <3>3 DEF Respond
      <4>2. HeldOnce' /\ WithAgent' \subseteq WithAgent /\ Ledger!Next
        BY <2>1, <3>1, <4>1, ReturnSettles
      <4>3. QED BY <3>2, <4>2
    <3>4. CASE ~Undelivered(h)
      <4> DEFINE T == {flight[f][i] : i \in (BatchCap + 1)..Len(flight[f])}
                 some == Elements(flight[f])
      <4>1. cut' = cut \cup T /\ UNCHANGED <<pending, dropped>>
        BY <1>5, <2>3, <3>4 DEF Respond
      <4>2. Len(flight[f]) \in Nat /\ BatchCap \in Nat \ {0}
        BY <3>1, LenProperties, BoundsAssumption
      <4>3. T \in SUBSET some
        BY <4>2 DEF Elements
      <4>4. some \ T \subseteq stored
        <5>1. ASSUME NEW i \in 1..Len(flight[f]), i <= BatchCap
              PROVE  flight[f][i] \in stored
          <6>1. handler[h].next > Limit(h) /\ Limit(h) \in Nat /\ handler[h].next \in Nat
            BY <1>0, <1>5, <3>4, HandlerTypes DEF Respond, AtWork, Undelivered, Handler
          <6>2. i <= Limit(h)
            BY <3>1, <4>2, <5>1 DEF Limit, Smaller
          <6>3. i < handler[h].next
            BY <6>1, <6>2
          <6>4. QED BY <1>0, <3>1, <3>4, <6>3 DEF WorkStored, Undelivered
        <5>2. \A i \in 1..Len(flight[f]) : i <= BatchCap \/ i \in (BatchCap + 1)..Len(flight[f])
          BY <4>2
        <5>3. QED BY <5>1, <5>2 DEF Elements
      <4>5. flight'[f] = <<>> /\ \A g \in Flushers \ {f} : flight'[g] = flight[g]
        BY <1>0, <3>1
      <4>6. \A g \in Flushers \ {f} : Elements(flight[g]) \cap some = {}
        BY <1>0, <3>1 DEF HeldOnce
      <4>7. Elements(pending) \cap some = {}
        BY <1>0, <3>1 DEF HeldOnce
      <4>8. WithAgent' = WithAgent \ some
        <5>1. \A n : n \in WithAgent' => n \in WithAgent /\ n \notin some
          BY <1>e, <4>1, <4>5, <4>6, <4>7, HeldWhere, HeldWhereNext
        <5>2. \A n : n \in WithAgent /\ n \notin some => n \in WithAgent'
          BY <4>1, <4>5, HeldWhere, HeldWhereNext
        <5>3. QED BY <5>1, <5>2
      <4>9. some \in SUBSET WithAgent
        BY <3>1, HeldWhere
      <4>10. Gone' = Gone \cup T
        BY <2>1, <4>1 DEF Gone
      <4>11. HeldOnce'
        <5>1. \A g \in Flushers : Once(flight'[g]) /\ Elements(pending') \cap Elements(flight'[g]) = {}
          BY <1>0, <1>e, <4>1, <4>5 DEF HeldOnce
        <5>2. \A g, k \in Flushers : g # k => Elements(flight'[g]) \cap Elements(flight'[k]) = {}
          BY <1>0, <1>e, <4>5 DEF HeldOnce
        <5>3. QED BY <1>0, <4>1, <5>1, <5>2 DEF HeldOnce
      <4> HIDE DEF T, some
      <4>12. Ledger!Next
        BY <2>1, <4>3, <4>4, <4>8, <4>9, <4>10, SettleIsNext
      <4>13. QED BY <3>2, <4>8, <4>11, <4>12
    <3>5. QED BY <3>3, <3>4
  <2>4. QED BY <2>2, <2>3
<1>6. QED BY <1>2, <1>3, <1>4, <1>5 DEF ConsoleStep

\* Every step is one of the ledger, or none.
LEMMA StepLedger ==
  LedgerInv /\ [Next]_vars => HeldOnce' /\ OnlyDetected' /\ [Ledger!Next]_(Ledger!vars)
<1> SUFFICES ASSUME LedgerInv, [Next]_vars
             PROVE  HeldOnce' /\ OnlyDetected' /\ (Ledger!Next \/ UNCHANGED Ledger!vars)
  OBVIOUS
<1>1. ASSUME UNCHANGED <<detected, pending, flight, handler, stored, dropped, lost, cut>>
      PROVE  HeldOnce' /\ OnlyDetected' /\ UNCHANGED Ledger!vars
  <2>1. WithAgent' = WithAgent /\ Gone' = Gone
    BY <1>1 DEF WithAgent, Gone
  <2>2. HeldOnce' /\ OnlyDetected'
    BY <1>1, <2>1 DEF LedgerInv, HeldOnce, OnlyDetected
  <2>3. QED BY <1>1, <2>1, <2>2, LedgerStutters
<1>2. CASE OperatorStep
  <2>1. UNCHANGED <<detected, pending, flight, handler, stored, dropped, lost, cut>>
    BY <1>2 DEF OperatorStep, BulkUpdate, SetFindingState, ShowFindings, BulkCount, historyVars
  <2>2. QED BY <1>1, <2>1
<1>3. CASE UNCHANGED vars
  BY <1>1, <1>3 DEF vars, historyVars
<1>4. QED BY <1>2, <1>3, AgentStepLedger, ConsoleStepLedger DEF Next

(* The delivery implements the ledger of findings: in every step the detections
   that leave the agent are stored or admitted as lost, none of them comes back,
   and what is stored stays so, whatever the goroutines, handlers and operators
   do and whichever requests are lost (flushEvents, requeue, handleEvents). *)
THEOREM DeliveryImplementsLedger == Spec => ImplementsLedger
<1>1. Init => HeldOnce /\ OnlyDetected /\ Ledger!Init
  <2> SUFFICES ASSUME Init PROVE HeldOnce /\ OnlyDetected /\ Ledger!Init
    OBVIOUS
  <2>1. Elements(<<>>) = {} /\ Once(<<>>)
    BY DEF Elements, Once
  <2>2. WithAgent = {}
    BY <2>1, HeldWhere DEF Init
  <2>3. HeldOnce
    BY <2>1 DEF Init, HeldOnce
  <2>4. OnlyDetected
    BY <2>1, <2>2 DEF Init, OnlyDetected, Idle
  <2>5. Ledger!Init
    BY <2>2 DEF Init, Ledger!Init
  <2>6. QED BY <2>3, <2>4, <2>5
<1>2. Init => LedgerInv
  BY <1>1, InitDelivery DEF LedgerInv
<1>3. LedgerInv /\ [Next]_vars => LedgerInv'
  BY StepDelivery, StepLedger DEF LedgerInv
<1>4. QED BY <1>1, <1>2, <1>3, StepLedger, PTL DEF Spec, ImplementsLedger, Ledger!Spec

(* A batch that comes back spares what was queued meanwhile, and delivery as a
   whole keeps the ledger (requeue, flushEvents, handleEvents). *)
THEOREM DeliveryKeepsItsPromises == Spec => DeliveryPromises
BY ReturnSparesTheQueued, DeliveryImplementsLedger DEF DeliveryPromises
=============================================================================
