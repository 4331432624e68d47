------------------------------ MODULE SafetyTypes ------------------------------
(***************************************************************************)
(* The types of the components whose promises say what never happens: the  *)
(* console's accounts, enrollment, attestations and ingest, the limiters,  *)
(* the upgrade and what a scan knows of a file.  They share no state.      *)
(***************************************************************************)
EXTENDS Accounts, Enrollment, Consensus, ReportIngest, Limits, Upgrade, Records

-----------------------------------------------------------------------------
(* Property *)

\* What every variable of these components may hold.
SafetyTypeOK ==
    /\ AccTypeOK /\ EnrTypeOK /\ ConTypeOK /\ IngTypeOK
    /\ LimTypeOK /\ GovTypeOK /\ UpgTypeOK
    /\ ProvTypeOK /\ BaseTypeOK
=============================================================================
