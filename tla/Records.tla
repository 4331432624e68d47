------------------------------- MODULE Records --------------------------------
(***************************************************************************)
(* What a scan knows of a file beyond its bytes: the manifests its         *)
(* publishers give out (Provenance), and the record an earlier run made of *)
(* the site (Baseline).  They share no state.                              *)
(***************************************************************************)
EXTENDS Provenance, Baseline

-----------------------------------------------------------------------------
(* Property *)

\* What a scan says of a file by what is known of it is so: whether it was
\* ever deployed, by the published manifests (provenance.go), and how it
\* differs from a record of the site (baseline.go).
RecordsTellTrue == ProvSafe /\ BaseSafe
=============================================================================
