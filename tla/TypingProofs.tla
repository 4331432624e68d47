----------------------------- MODULE TypingProofs -----------------------------
(***************************************************************************)
(* The types of all components that run side by side, for every value of   *)
(* the constants: each follows from its component's inductive invariant.   *)
(***************************************************************************)
EXTENDS ProgressTypes, SafetyTypes, ConsoleProofs, HostProofs, IntakeProofs, RecordsProofs, TLAPS

-----------------------------------------------------------------------------
(* One component each *)

\* Containment's report, processes, launchers and files (contain.go).
LEMMA ContTyping == ContSpec => []ContTypeOK
<1>1. ContSpec => []ContInv
  BY ContInitInv, ContStepInv, PTL DEF ContSpec
<1>2. ContInv => ContTypeOK
  BY DEF ContInv
<1> QED BY <1>1, <1>2, PTL

\* The scan's walk, channel, workers, books and sink (agent.go, emit.go).
LEMMA ScanTyping == ScanSpec => []ScanTypeOK
<1>1. ScanSpec => ScanInit /\ [][ScanNext]_scanVars
  BY PTL DEF ScanSpec
<1>2. ScanInv => ScanTypeOK
  BY DEF ScanInv
<1> QED BY <1>1, <1>2, ScanInvInit, ScanInvStep, PTL

\* The rows, rulings and packs of the consensus (consensus.go).
LEMMA ConTyping == ConSpec => []ConTypeOK
<1> QED BY ConInitTypeOK, ConStepTypeOK, PTL DEF ConSpec

\* The limiter's windows (server.go).
LEMMA LimTyping == LimSpec => []LimTypeOK
<1>1. LimInv => LimTypeOK
  BY DEF LimInv
<1> QED BY <1>1, LimInvInit, LimInvStep, PTL DEF LimSpec

\* The governor's bucket and flags (govern.go).
LEMMA GovTyping == GovSpec => []GovTypeOK
<1>1. GovInv => GovTypeOK
  BY DEF GovInv
<1> QED BY <1>1, GovInvInit, GovInvStep, PTL DEF GovSpec

\* The three paths of an upgrade and where its runs are (upgrade_exec.go).
LEMMA UpgTyping == UpgSpec => []UpgTypeOK
<1>1. UpgInv => UpgTypeOK
  BY DEF UpgInv
<1> QED BY <1>1, UpgInvariant, PTL

\* The manifests, their cache and what was judged by them (provenance.go).
LEMMA ProvTyping == ProvSpec => []ProvTypeOK
<1>1. ProvInv => ProvTypeOK
  BY DEF ProvInv
<1> QED BY <1>1, ProvInvInit, ProvInvStep, PTL DEF ProvSpec

\* The record of a site and what was compared with it (baseline.go).
LEMMA BaseTyping == BaseSpec => []BaseTypeOK
<1>1. BaseInv => BaseTypeOK
  BY DEF BaseInv
<1> QED BY <1>1, BaseInvInit, BaseInvStep, PTL DEF BaseSpec

-----------------------------------------------------------------------------
(* All of them *)

\* What the forwarder, the scheduler, the watchdog and what runs on a host keep
\* has its type and stays in its bounds, in the order the code keeps it in.
THEOREM ProgressTyped ==
  FwdSpec /\ SchSpec /\ PreSpec /\ MonSpec /\ CtlSpec /\ ContSpec /\ ScanSpec => []ProgressTypeOK
<1>1. /\ FwdTypeOK /\ SchTypeOK /\ PreTypeOK
      /\ MonTypeOK /\ CtlTypeOK /\ ContTypeOK /\ ScanTypeOK
      => ProgressTypeOK
  BY DEF ProgressTypeOK
<1> QED BY <1>1, FwdTyping, SchTyping, PreTyping, MonTyping, CtlTyping, ContTyping, ScanTyping, PTL

\* What accounts, enrollment, consensus, ingest, the limiters, the upgrade,
\* provenance and the baseline keep has its type and stays in its bounds.
THEOREM SafetyTyped ==
  AccSpec /\ EnrSpec /\ ConSpec /\ IngSpec /\ LimSpec /\ GovSpec /\ UpgSpec /\ ProvSpec /\ BaseSpec
    => []SafetyTypeOK
<1>1. /\ AccTypeOK /\ EnrTypeOK /\ ConTypeOK /\ IngTypeOK
      /\ LimTypeOK /\ GovTypeOK /\ UpgTypeOK
      /\ ProvTypeOK /\ BaseTypeOK
      => SafetyTypeOK
  BY DEF SafetyTypeOK
<1> QED BY <1>1, AccTyping, EnrTyping, ConTyping, IngTyping, LimTyping, GovTyping, UpgTyping,
           ProvTyping, BaseTyping, PTL
=============================================================================
