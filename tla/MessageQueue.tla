---------------------------- MODULE MessageQueue ----------------------------
(***************************************************************************)
(* What a bounded forwarder promises to who hands it messages, without     *)
(* goroutines, connections or retries.  Messages are numbered as they are  *)
(* taken.  They leave in that order, each once: delivered, or lost from    *)
(* the front, where the first may be in hand already and the one behind it *)
(* is the oldest that waits.  Every loss is counted.                       *)
(***************************************************************************)
EXTENDS Naturals, Sequences

CONSTANT Room     \* how many messages it holds at most

VARIABLES held,        \* taken and neither delivered nor lost, oldest first
          delivered,   \* what came out, in order
          lost         \* how many were lost

vars == <<held, delivered, lost>>

Init == held = <<>> /\ delivered = <<>> /\ lost = 0

Taken == Len(delivered) + lost + Len(held)

Accept == /\ Len(held) < Room
          /\ held' = Append(held, Taken + 1)
          /\ UNCHANGED <<delivered, lost>>

Deliver == /\ held # <<>>
           /\ delivered' = Append(delivered, Head(held))
           /\ held' = Tail(held)
           /\ UNCHANGED lost

LoseFirst == /\ held # <<>>
             /\ held' = Tail(held)
             /\ lost' = lost + 1
             /\ UNCHANGED delivered

LoseSecond == /\ Len(held) > 1
              /\ held' = <<Head(held)>> \o Tail(Tail(held))
              /\ lost' = lost + 1
              /\ UNCHANGED delivered

Next == Accept \/ Deliver \/ LoseFirst \/ LoseSecond

Spec == Init /\ [][Next]_vars
=============================================================================
