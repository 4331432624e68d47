---------------------------- MODULE FindingLedger ----------------------------
(***************************************************************************)
(* What the delivery of findings promises, without queues, batches, bodies *)
(* or handlers: a detection is owed to the console until it is kept there, *)
(* or gone for one of the admitted reasons.  What was settled is not owed  *)
(* again, what is kept stays kept, and what is gone is gone once.          *)
(***************************************************************************)
EXTENDS Naturals

VARIABLES made,   \* detections so far, numbered from 1
          owed,   \* those the agent still has to deliver
          kept,   \* those the console has stored
          gone    \* the admitted losses

vars == <<made, owed, kept, gone>>

Init == made = 0 /\ owed = {} /\ kept = {} /\ gone = {}

Make == /\ made' = made + 1
        /\ \/ owed' = owed \cup {made'} /\ UNCHANGED gone
           \/ gone' = gone \cup {made'} /\ UNCHANGED owed
        /\ UNCHANGED kept

(* The console may store one that is settled: a request can be late. *)
Keep == /\ \E n \in 1..made : kept' = kept \cup {n}
        /\ UNCHANGED <<made, owed, gone>>

(* Some are settled at once: those that are not kept by then are losses. *)
Settle == /\ \E some \in SUBSET owed : \E losses \in SUBSET some :
               /\ some \ losses \subseteq kept
               /\ owed' = owed \ some
               /\ gone' = gone \cup losses
          /\ UNCHANGED <<made, kept>>

Next == Make \/ Keep \/ Settle

Spec == Init /\ [][Next]_vars
=============================================================================
