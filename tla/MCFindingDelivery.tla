------------------------- MODULE MCFindingDelivery --------------------------
(* Small instances of FindingDelivery: two rows, the second sighting of one
   of them before and after the first sighting of the other. *)
EXTENDS FindingDelivery, TLC

CONSTANTS k1, k2, f1, f2, h1, h2

(* The detections see k1, k1, k2 (and k2 again). *)
MCKeyOf3 == 1 :> k1 @@ 2 :> k1 @@ 3 :> k2
MCKeyOf == MCKeyOf3 @@ 4 :> k2
=============================================================================
