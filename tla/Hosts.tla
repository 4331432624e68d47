--------------------------------- MODULE Hosts ---------------------------------
(***************************************************************************)
(* What is done to hosts: a sweep that brings the agent there and takes it *)
(* away again (Controller, internal/controller), and containment there     *)
(* (Containment, internal/agent/contain.go).  They share no state.         *)
(***************************************************************************)
EXTENDS Controller, Containment

\* A host is left as it was told to be left: the sweep reports what its
\* agents said and leaves nothing behind that it should not (run.go), and
\* containment acts on what is confirmed, as it was when it was found, keeps
\* the site serving and its evidence, and leaves nothing half done (contain.go).
HostsKept == CtlSafe /\ ContSafe
=============================================================================
