----------------------------- MODULE ProgressTypes -----------------------------
(***************************************************************************)
(* The types of the components that also promise to get somewhere: the     *)
(* console's forwarder, scheduler and watchdog, and the monitor, sweep,    *)
(* containment and scan of a host.  They share no state.                   *)
(***************************************************************************)
EXTENDS Forwarder, Scheduler, AgentPresence, Monitor, Hosts, Scan

-----------------------------------------------------------------------------
(* Property *)

\* What every variable of these components may hold.
ProgressTypeOK ==
    /\ FwdTypeOK /\ SchTypeOK /\ PreTypeOK
    /\ MonTypeOK /\ CtlTypeOK /\ ContTypeOK /\ ScanTypeOK
=============================================================================
