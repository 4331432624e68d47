-------------------------- MODULE MCWebhookDelivery -------------------------
(* Small instances of WebhookDelivery. *)
EXTENDS WebhookDelivery, TLC

CONSTANTS a1, a2, g1, g2, g3

(* g1 and g2 are one artefact on two hosts, g3 is another. *)
MCArtefactOf == g1 :> a1 @@ g2 :> a1 @@ g3 :> a2

MCArtefactOf2 == g2 :> a1 @@ g3 :> a2

(* A webhook for the whole fleet. *)
MCScope == [w \in Hooks |-> Findings]

MCFloor == [w \in Hooks |-> "medium"]
=============================================================================
