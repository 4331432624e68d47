----------------------------- MODULE Forwarder -----------------------------
(***************************************************************************)
(* The console's syslog forwarder (internal/console/forward.go).           *)
(*                                                                         *)
(* Ingest handlers and API handlers call enqueue concurrently; a bounded   *)
(* Go channel holds the messages; one goroutine (run) takes them out and   *)
(* writes them on a TLS connection, retrying a message once.  enqueue is   *)
(* two selects in a loop, so other goroutines run between "the queue is    *)
(* full" and "take the oldest out".                                        *)
(*                                                                         *)
(* A message is the number it got when the channel accepted it.  The wire  *)
(* is external: a write either passes the whole frame to the connection or *)
(* fails after a part of it, and what reaches a connection after a part of *)
(* a frame is unreadable, since RFC 5425 frames by octet counts.  Waiting  *)
(* times (backoff, dial and write timeouts) are abstracted to "it takes a  *)
(* while"; the content of a message is its syslog severity.                *)
(***************************************************************************)
EXTENDS Naturals, Sequences, FiniteSets

CONSTANTS
    FwdProducers,   \* goroutines that may be inside enqueue
    FwdDepth,       \* forwardQueueDepth: capacity of the channel
    FwdMaxCalls     \* bound on the calls of enqueue

ASSUME FwdDepthAssumption == FwdDepth \in Nat \ {0}
ASSUME FwdMaxCallsAssumption == FwdMaxCalls \in Nat

VARIABLES
    fwdQueue,     \* f.queue: the messages waiting, oldest first
    fwdCall,      \* per producer: where it is in enqueue, and how many messages
                  \* left the channel since it last found the channel full
    fwdCalls,     \* calls of enqueue so far
    fwdAccepted,  \* messages the channel took so far; the last one's number
    fwdWorker,    \* run: its program point and the message it holds
    fwdConn,      \* f.conn: none, clean, or torn (a part of a frame was written)
    fwdDone,      \* f.done is closed; Close is running or has returned
    fwdSent,      \* f.sent
    fwdDropped,   \* f.dropped
    fwdGivenUp,   \* calls that left through the second default branch
    fwdReceived,  \* the whole frames the collector could read, in order
    fwdGarbled    \* frames counted as sent that the collector cannot read

fwdVars == <<fwdQueue, fwdCall, fwdCalls, fwdAccepted, fwdWorker, fwdConn, fwdDone,
             fwdSent, fwdDropped, fwdGivenUp, fwdReceived, fwdGarbled>>

FwdNoMsg == 0
FwdCallStates == {"out", "offer", "evict"}
FwdWorkerStates == {"select", "write", "backoff", "rewrite", "stopped"}

FwdInit ==
    /\ fwdQueue = <<>>
    /\ fwdCall = [p \in FwdProducers |-> [pc |-> "out", taken |-> 0]]
    /\ fwdCalls = 0
    /\ fwdAccepted = 0
    /\ fwdWorker = [pc |-> "select", msg |-> FwdNoMsg]
    /\ fwdConn = "none"
    /\ fwdDone = "open"
    /\ fwdSent = 0
    /\ fwdDropped = 0
    /\ fwdGivenUp = 0
    /\ fwdReceived = <<>>
    /\ fwdGarbled = {}

-----------------------------------------------------------------------------
(* enqueue *)

\* A mutant of FwdTaken: the count runs down.
FwdTakenDown(calls) ==
    [p \in FwdProducers |->
        IF calls[p].pc = "out" THEN calls[p] ELSE [calls[p] EXCEPT !.taken = @ - 1]]

\* One message left the channel: every producer between its two selects
\* has one more free place than it saw.
FwdTaken(calls) ==
    [p \in FwdProducers |->
        IF calls[p].pc = "out" THEN calls[p]
        ELSE [calls[p] EXCEPT !.taken = @ + 1]]

\* ForwardFinding, ForwardAudit or ForwardScan calls enqueue.
FwdEnqueue(p) ==
    /\ fwdCall[p].pc = "out"
    /\ fwdCalls < FwdMaxCalls
    /\ fwdCalls' = fwdCalls + 1
    /\ fwdCall' = [fwdCall EXCEPT ![p] = [pc |-> "offer", taken |-> 0]]
    /\ UNCHANGED <<fwdQueue, fwdAccepted, fwdWorker, fwdConn, fwdDone, fwdSent,
                   fwdDropped, fwdGivenUp, fwdReceived, fwdGarbled>>

\* First select: the channel has room and takes the message.
FwdOffer(p) ==
    /\ fwdCall[p].pc = "offer"
    /\ Len(fwdQueue) < FwdDepth
    /\ fwdAccepted' = fwdAccepted + 1
    /\ fwdQueue' = Append(fwdQueue, fwdAccepted + 1)
    /\ fwdCall' = [fwdCall EXCEPT ![p] = [pc |-> "out", taken |-> 0]]
    /\ UNCHANGED <<fwdCalls, fwdWorker, fwdConn, fwdDone, fwdSent,
                   fwdDropped, fwdGivenUp, fwdReceived, fwdGarbled>>

\* First select: the channel is full.
FwdFull(p) ==
    /\ fwdCall[p].pc = "offer"
    /\ Len(fwdQueue) = FwdDepth
    /\ fwdCall' = [fwdCall EXCEPT ![p] = [pc |-> "evict", taken |-> 0]]
    /\ UNCHANGED <<fwdQueue, fwdCalls, fwdAccepted, fwdWorker, fwdConn, fwdDone,
                   fwdSent, fwdDropped, fwdGivenUp, fwdReceived, fwdGarbled>>

\* Second select: take the oldest message out, count it, and try again.
FwdEvict(p) ==
    /\ fwdCall[p].pc = "evict"
    /\ fwdQueue # <<>>
    /\ fwdQueue' = Tail(fwdQueue)
    /\ fwdDropped' = fwdDropped + 1
    /\ fwdCall' = [FwdTaken(fwdCall) EXCEPT ![p].pc = "offer"]
    /\ UNCHANGED <<fwdCalls, fwdAccepted, fwdWorker, fwdConn, fwdDone, fwdSent,
                   fwdGivenUp, fwdReceived, fwdGarbled>>

\* A mutant of FwdGiveUp: the second default is taken whatever the queue holds.
FwdGiveUpAnyhow(p) ==
    /\ fwdCall[p].pc = "evict"
    /\ fwdGivenUp' = fwdGivenUp + 1
    /\ fwdCall' = [fwdCall EXCEPT ![p].pc = "out"]
    /\ UNCHANGED <<fwdQueue, fwdCalls, fwdAccepted, fwdWorker, fwdConn, fwdDone,
                   fwdSent, fwdDropped, fwdReceived, fwdGarbled>>

\* Second select: others emptied the channel meanwhile; enqueue returns
\* without having queued its message and without counting it.
FwdGiveUp(p) ==
    /\ fwdCall[p].pc = "evict"
    /\ fwdQueue = <<>>
    /\ fwdGivenUp' = fwdGivenUp + 1
    /\ fwdCall' = [fwdCall EXCEPT ![p].pc = "out"]
    /\ UNCHANGED <<fwdQueue, fwdCalls, fwdAccepted, fwdWorker, fwdConn, fwdDone,
                   fwdSent, fwdDropped, fwdReceived, fwdGarbled>>

-----------------------------------------------------------------------------
(* run, write and dropConn *)

\* run's select takes the oldest message.
FwdTake ==
    /\ fwdWorker.pc = "select"
    /\ fwdQueue # <<>>
    /\ fwdWorker' = [pc |-> "write", msg |-> Head(fwdQueue)]
    /\ fwdQueue' = Tail(fwdQueue)
    /\ fwdCall' = FwdTaken(fwdCall)
    /\ UNCHANGED <<fwdCalls, fwdAccepted, fwdConn, fwdDone, fwdSent, fwdDropped,
                   fwdGivenUp, fwdReceived, fwdGarbled>>

\* Frames the collector reads after m was written on connection c.
FwdDeliverTo(c, m) ==
    IF c = "torn"
    THEN fwdGarbled' = fwdGarbled \cup {m} /\ UNCHANGED fwdReceived
    ELSE fwdReceived' = Append(fwdReceived, m) /\ UNCHANGED fwdGarbled

\* write succeeds, the first time or the second: dial when there is no
\* connection, put the frame on it, reset the backoff and count the message.
FwdWriteOK ==
    /\ fwdWorker.pc \in {"write", "rewrite"}
    /\ FwdDeliverTo(fwdConn, fwdWorker.msg)
    /\ fwdConn' = IF fwdConn = "none" THEN "clean" ELSE fwdConn
    /\ fwdSent' = fwdSent + 1
    /\ fwdWorker' = [pc |-> "select", msg |-> FwdNoMsg]
    /\ UNCHANGED <<fwdQueue, fwdCall, fwdCalls, fwdAccepted, fwdDone, fwdDropped,
                   fwdGivenUp>>

\* What a failed write leaves: no connection when the dial failed, or one on
\* which a part of the frame may have gone out.
FwdAfterFailedWrite == IF fwdConn = "none" THEN {"none", "torn"} ELSE {"torn"}

\* dropConn closes whatever connection there is.
FwdDropConn(c) == "none"

\* The first write fails: close the connection and wait before the retry.
FwdWriteFails ==
    /\ fwdWorker.pc = "write"
    /\ \E c \in FwdAfterFailedWrite : fwdConn' = FwdDropConn(c)
    /\ fwdWorker' = [fwdWorker EXCEPT !.pc = "backoff"]
    /\ UNCHANGED <<fwdQueue, fwdCall, fwdCalls, fwdAccepted, fwdDone, fwdSent,
                   fwdDropped, fwdGivenUp, fwdReceived, fwdGarbled>>

\* The backoff is over.
FwdBackoffEnds ==
    /\ fwdWorker.pc = "backoff"
    /\ fwdWorker' = [fwdWorker EXCEPT !.pc = "rewrite"]
    /\ UNCHANGED <<fwdQueue, fwdCall, fwdCalls, fwdAccepted, fwdConn, fwdDone,
                   fwdSent, fwdDropped, fwdGivenUp, fwdReceived, fwdGarbled>>

\* The retry fails too: the message is dropped and counted.
FwdRewriteFails ==
    /\ fwdWorker.pc = "rewrite"
    /\ \E c \in FwdAfterFailedWrite : fwdConn' = FwdDropConn(c)
    /\ fwdDropped' = fwdDropped + 1
    /\ fwdWorker' = [pc |-> "select", msg |-> FwdNoMsg]
    /\ UNCHANGED <<fwdQueue, fwdCall, fwdCalls, fwdAccepted, fwdDone, fwdSent,
                   fwdGivenUp, fwdReceived, fwdGarbled>>

-----------------------------------------------------------------------------
(* Close *)

\* Close closes f.done and waits for run.
FwdClose ==
    /\ fwdDone = "open"
    /\ fwdDone' = "closing"
    /\ UNCHANGED <<fwdQueue, fwdCall, fwdCalls, fwdAccepted, fwdWorker, fwdConn,
                   fwdSent, fwdDropped, fwdGivenUp, fwdReceived, fwdGarbled>>

\* A mutant of FwdStop: only the wait for the retry looks at f.done.
FwdStopInBackoff ==
    /\ fwdDone = "closing"
    /\ fwdWorker.pc = "backoff"
    /\ fwdWorker' = [fwdWorker EXCEPT !.pc = "stopped"]
    /\ UNCHANGED <<fwdQueue, fwdCall, fwdCalls, fwdAccepted, fwdConn, fwdDone,
                   fwdSent, fwdDropped, fwdGivenUp, fwdReceived, fwdGarbled>>

\* Either select of run may see f.done and return; Go picks at random when
\* a message is ready as well.  A message that was waiting for its retry is
\* gone and counted nowhere, and so is what the channel holds.
FwdStop ==
    /\ fwdDone = "closing"
    /\ fwdWorker.pc \in {"select", "backoff"}
    /\ fwdWorker' = [fwdWorker EXCEPT !.pc = "stopped"]
    /\ UNCHANGED <<fwdQueue, fwdCall, fwdCalls, fwdAccepted, fwdConn, fwdDone,
                   fwdSent, fwdDropped, fwdGivenUp, fwdReceived, fwdGarbled>>

\* wg.Wait returns: Close closes the connection and returns.
FwdClosed ==
    /\ fwdDone = "closing"
    /\ fwdWorker.pc = "stopped"
    /\ fwdConn' = FwdDropConn(fwdConn)
    /\ fwdDone' = "closed"
    /\ UNCHANGED <<fwdQueue, fwdCall, fwdCalls, fwdAccepted, fwdWorker,
                   fwdSent, fwdDropped, fwdGivenUp, fwdReceived, fwdGarbled>>

FwdInEnqueue(p) == FwdOffer(p) \/ FwdFull(p) \/ FwdEvict(p) \/ FwdGiveUp(p)
FwdRun == FwdTake \/ FwdWriteOK \/ FwdWriteFails \/ FwdBackoffEnds \/ FwdRewriteFails

FwdNext ==
    \/ \E p \in FwdProducers : FwdEnqueue(p) \/ FwdInEnqueue(p)
    \/ FwdRun
    \/ FwdClose \/ FwdStop \/ FwdClosed

\* A goroutine inside enqueue is never blocked and keeps running.  Nothing is
\* assumed of run until Close has begun; from then on it goes on, as its writes
\* and dials have deadlines, and its select sees f.done at the latest when the
\* channel stays empty (before that, Go takes one of two ready cases at random).
FwdFairness ==
    /\ \A p \in FwdProducers : WF_fwdVars(FwdInEnqueue(p))
    /\ WF_fwdVars(fwdDone # "open" /\ FwdRun)
    /\ WF_fwdVars(FwdStop)
    /\ WF_fwdVars(FwdClosed)

FwdSpec == FwdInit /\ [][FwdNext]_fwdVars /\ FwdFairness

-----------------------------------------------------------------------------
(* What the forwarder promises, MessageQueue, and how it is implemented: what *)
(* run holds comes before what the channel holds.                          *)

FwdHeld == (IF fwdWorker.msg = FwdNoMsg THEN <<>> ELSE <<fwdWorker.msg>>) \o fwdQueue

FwdLossyQueue == INSTANCE MessageQueue WITH
                     Room <- FwdDepth + 1,
                     held <- FwdHeld,
                     delivered <- fwdReceived,
                     lost <- fwdDropped

-----------------------------------------------------------------------------
(* Properties *)

FwdTypeOK ==
    /\ fwdQueue \in Seq(Nat)
    /\ fwdCall \in [FwdProducers -> [pc : FwdCallStates, taken : Nat]]
    /\ fwdCalls \in Nat
    /\ fwdAccepted \in Nat
    /\ fwdWorker \in [pc : FwdWorkerStates, msg : Nat]
    /\ fwdConn \in {"none", "clean", "torn"}
    /\ fwdDone \in {"open", "closing", "closed"}
    /\ fwdSent \in Nat
    /\ fwdDropped \in Nat
    /\ fwdGivenUp \in Nat
    /\ fwdReceived \in Seq(Nat)
    /\ fwdGarbled \subseteq Nat

FwdInHand == IF fwdWorker.msg = FwdNoMsg THEN 0 ELSE 1

\* Every message the channel took is sent, counted as dropped, still queued,
\* or in run's hand (where Close may leave it): the counters Stats shows
\* account for all of them, whatever producers and run do to each other.
FwdBooks == fwdAccepted = fwdSent + fwdDropped + Len(fwdQueue) + FwdInHand

\* Drop-oldest keeps the newest: the queue holds an unbroken run of
\* messages that ends with the last one accepted, and never overflows.
FwdNewestKept ==
    /\ Len(fwdQueue) <= FwdDepth
    /\ \A i \in 1..Len(fwdQueue) : fwdQueue[i] + Len(fwdQueue) = fwdAccepted + i

\* The collector receives messages in the order the channel took them and
\* none twice, across retries, reconnections and evictions.
FwdInOrder ==
    \A i, j \in 1..Len(fwdReceived) : i < j => fwdReceived[i] < fwdReceived[j]

\* No frame is written after a part of another one on the same connection:
\* what Stats counts as sent, the collector can read.
FwdStreamAligned == fwdGarbled = {}

\* enqueue leaves a message uncounted only when, since it found the channel
\* full, at least a whole channel of messages was taken out by others.
FwdGiveUpNeedsDrain ==
    [][\A p \in FwdProducers :
          fwdCall[p].pc = "evict" /\ fwdCall'[p].pc = "out"
             => fwdCall[p].taken >= FwdDepth]_fwdVars

\* Ingest is never stalled: a call of enqueue returns even if run never
\* takes another message, because the collector is slow or dead.
FwdEnqueueReturns ==
    \A p \in FwdProducers : fwdCall[p].pc # "out" ~> fwdCall[p].pc = "out"

\* Close returns, whatever the collector does and however much is queued.
FwdCloseReturns == fwdDone = "closing" ~> fwdDone = "closed"

\* What Stats counts, what the queue keeps and what the collector reads agree.
FwdSafe == FwdBooks /\ FwdNewestKept /\ FwdInOrder /\ FwdStreamAligned

\* Every step of producers, run and Close is one of a queue that delivers in
\* order and counts its losses, or changes nothing that is seen of it.
FwdImplementsQueue == FwdLossyQueue!Spec

\* The books are right whatever enqueue, run and Close do to each other,
\* enqueue gives a message up only for cause, and to the outside it is a queue.
FwdPromises == []FwdSafe /\ FwdGiveUpNeedsDrain /\ FwdImplementsQueue
=============================================================================
