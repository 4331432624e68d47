------------------------------ MODULE HostProofs ------------------------------
(***************************************************************************)
(* Proofs about what is done on a host: the sweep that takes the agent     *)
(* there, the agent that replaces itself, the scan, containment and the    *)
(* real-time monitor.                                                      *)
(***************************************************************************)
EXTENDS Hosts, Scan, Upgrade, Monitor, FiniteSetTheorems, SequenceTheorems, TLAPS

-----------------------------------------------------------------------------
(***************************************************************************)
(* The sweep over ssh, for every inventory, whatever entries share accounts *)
(* and whatever is cut off.                                                *)
(***************************************************************************)

CtlVerdicts == {"clean", "partial", "dirty"}
CtlPlaces == {"queued", "done"} \cup CtlActive

CtlTyped ==
    /\ ctlAt \in [CtlEntries -> CtlPlaces]
    /\ ctlErr \in [CtlEntries -> BOOLEAN]
    /\ ctlReports \in [CtlEntries -> Seq(CtlVerdicts)]
    /\ ctlRunning \in [CtlEntries -> {"none", "old", "part", "whole"}]
    /\ ctlAgent \in [CtlAccounts -> {"none", "old", "part", "whole"}]
    /\ ctlNew \in [CtlAccounts -> {"none", "part", "whole"}]

(* What an entry knows of its account while nobody else uses it. *)
CtlKnows(e) ==
    LET a == CtlAccount[e]
    IN  /\ ctlAgent[a] # "part"
        /\ ctlAt[e] = "uploading" => ctlNew[a] = "part"
        /\ ctlAt[e] = "install" => ctlNew[a] = "whole"
        /\ ctlAt[e] \in {"packs", "start"} => ctlAgent[a] = "whole"
        /\ ctlRunning[e] \in {"none", "whole"}

CtlAllKnow == \A e \in CtlEntries : CtlAlone(e) => CtlKnows(e)

(* Reports begin with the run; an error ends a goroutine that has none. *)
CtlColumn(e) ==
    /\ ctlReports[e] # <<>> => ctlAt[e] \in {"run", "tidy", "done"}
    /\ ctlErr[e] => ctlAt[e] = "done"
    /\ ctlAt[e] = "tidy" => ctlReports[e] # <<>>
    /\ ctlAt[e] = "done" => (ctlReports[e] = <<>> <=> ctlErr[e])

CtlColumns == \A e \in CtlEntries : CtlColumn(e)

CtlInv == CtlTyped /\ CtlAllKnow /\ CtlColumns

\* CtlInv holds initially.
LEMMA CtlInitInv == CtlInit => CtlInv
BY EmptySeq
DEF CtlInit, CtlInv, CtlTyped, CtlAllKnow, CtlKnows, CtlColumns, CtlColumn, CtlPlaces, CtlAccounts

(* A step of one entry's goroutine leaves the others where they are: what is
   to be shown is what it does to its own entry and account. *)
LEMMA CtlOneEntry ==
  ASSUME CtlInv, NEW e \in CtlEntries, CtlTyped',
         \A o \in CtlEntries \ {e} :
            /\ ctlAt'[o] = ctlAt[o] /\ ctlReports'[o] = ctlReports[o]
            /\ ctlErr'[o] = ctlErr[o] /\ ctlRunning'[o] = ctlRunning[o],
         \A a \in CtlAccounts \ {CtlAccount[e]} :
            ctlAgent'[a] = ctlAgent[a] /\ ctlNew'[a] = ctlNew[a],
         CtlAlone(e) => CtlKnows(e)',
         CtlColumn(e)'
  PROVE  CtlInv'
<1>1. CtlColumns'
  BY DEF CtlInv, CtlColumns, CtlColumn
<1>2. CtlAllKnow'
  <2> SUFFICES ASSUME NEW o \in CtlEntries, CtlAlone(o), o # e
               PROVE  CtlKnows(o)'
    BY DEF CtlAllKnow, CtlAlone
  <2>1. CtlAccount[o] \in CtlAccounts \ {CtlAccount[e]}
    BY DEF CtlAlone, CtlAccounts
  <2>2. CtlKnows(o)
    BY DEF CtlInv, CtlAllKnow
  <2>3. QED BY <2>1, <2>2 DEF CtlKnows
<1>3. QED BY <1>1, <1>2 DEF CtlInv

(* Before the run and after it: the reports and what was started stay. *)
LEMMA CtlStartStep ==
  ASSUME CtlInv, NEW e \in CtlEntries, CtlStart(e)
  PROVE  CtlInv'
<1>1. CtlTyped'
  BY DEF CtlInv, CtlTyped, CtlStart, CtlGoes, CtlRemote, CtlStays, CtlPlaces, CtlActive
<1>2. CtlColumn(e)'
  BY DEF CtlInv, CtlTyped, CtlColumns, CtlColumn, CtlStart, CtlGoes
<1>3. CtlAlone(e) => CtlKnows(e)'
  BY DEF CtlInv, CtlTyped, CtlAllKnow, CtlKnows, CtlStart, CtlGoes, CtlRemote
<1>4. QED
  BY <1>1, <1>2, <1>3, CtlOneEntry DEF CtlInv, CtlTyped, CtlStart, CtlGoes, CtlRemote

(* An error ends the goroutine of an entry that has no report. *)
LEMMA CtlFailsColumn ==
  ASSUME CtlInv, NEW e \in CtlEntries, NEW at \in CtlActive \ {"run", "tidy"}, CtlFails(e, at)
  PROVE  /\ CtlColumn(e)'
         /\ ctlAt' \in [CtlEntries -> CtlPlaces]
         /\ ctlErr' \in [CtlEntries -> BOOLEAN]
         /\ ctlAt'[e] = "done"
         /\ \A o \in CtlEntries \ {e} : ctlAt'[o] = ctlAt[o] /\ ctlErr'[o] = ctlErr[o]
BY DEF CtlInv, CtlTyped, CtlColumns, CtlColumn, CtlFails, CtlGoes, CtlPlaces, CtlActive

\* An entry that goes on keeps what is known of its host.
LEMMA CtlSucceedsColumn ==
  ASSUME CtlInv, NEW e \in CtlEntries, NEW at \in CtlActive \ {"run", "tidy"},
         NEW next \in CtlActive \ {"tidy"}, CtlSucceeds(e, at, next)
  PROVE  /\ CtlColumn(e)'
         /\ ctlAt' \in [CtlEntries -> CtlPlaces]
         /\ ctlAt'[e] = next
         /\ \A o \in CtlEntries \ {e} : ctlAt'[o] = ctlAt[o]
BY DEF CtlInv, CtlTyped, CtlColumns, CtlColumn, CtlSucceeds, CtlGoes, CtlPlaces, CtlActive

(* A step that fails, whatever it left on the host: nothing in part is
   installed by it. *)
LEMMA CtlFailStep ==
  ASSUME CtlInv, NEW e \in CtlEntries, NEW at \in CtlActive \ {"run", "tidy"}, CtlFails(e, at),
         ctlAgent' \in [CtlAccounts -> {"none", "old", "part", "whole"}],
         ctlNew' \in [CtlAccounts -> {"none", "part", "whole"}],
         \A a \in CtlAccounts \ {CtlAccount[e]} :
            ctlAgent'[a] = ctlAgent[a] /\ ctlNew'[a] = ctlNew[a],
         CtlAlone(e) => ctlAgent'[CtlAccount[e]] # "part"
  PROVE  CtlInv'
<1>1. /\ CtlColumn(e)' /\ ctlAt' \in [CtlEntries -> CtlPlaces]
      /\ ctlErr' \in [CtlEntries -> BOOLEAN] /\ ctlAt'[e] = "done"
      /\ \A o \in CtlEntries \ {e} : ctlAt'[o] = ctlAt[o] /\ ctlErr'[o] = ctlErr[o]
  BY CtlFailsColumn
<1>2. UNCHANGED <<ctlReports, ctlRunning>>
  BY DEF CtlFails
<1>3. CtlTyped'
  BY <1>1, <1>2 DEF CtlInv, CtlTyped
<1>4. CtlAlone(e) => CtlKnows(e)'
  BY <1>1, <1>2 DEF CtlInv, CtlAllKnow, CtlKnows
<1>5. QED BY <1>1, <1>2, <1>3, <1>4, CtlOneEntry

\* A probe, and packs that are shipped, keep CtlInv.
LEMMA CtlProbeStep ==
  ASSUME CtlInv, NEW e \in CtlEntries, CtlProbe(e) \/ CtlShipPacks(e)
  PROVE  CtlInv'
<1>0. CtlAccount[e] \in CtlAccounts
  BY DEF CtlAccounts
<1>1. CASE CtlProbe(e) /\ CtlSucceeds(e, "probe", IF ctlAgent[CtlAccount[e]] = "whole" THEN "packs" ELSE "upload")
           /\ UNCHANGED <<ctlRunning, CtlRemote>>
  <2>1. PICK next \in {"packs", "upload"} :
           /\ CtlSucceeds(e, "probe", next)
           /\ next = "packs" => ctlAgent[CtlAccount[e]] = "whole"
    BY <1>1
  <2>2. /\ CtlColumn(e)' /\ ctlAt' \in [CtlEntries -> CtlPlaces] /\ ctlAt'[e] = next
        /\ \A o \in CtlEntries \ {e} : ctlAt'[o] = ctlAt[o]
    BY <2>1, CtlSucceedsColumn DEF CtlActive
  <2>3. UNCHANGED <<ctlReports, ctlErr, ctlRunning, ctlAgent, ctlNew>>
    BY <1>1, <2>1 DEF CtlSucceeds, CtlRemote
  <2>4. CtlTyped'
    BY <2>2, <2>3 DEF CtlInv, CtlTyped
  <2>5. CtlAlone(e) => CtlKnows(e)'
    BY <2>1, <2>2, <2>3 DEF CtlInv, CtlAllKnow, CtlKnows
  <2>6. QED BY <2>2, <2>3, <2>4, <2>5, CtlOneEntry
<1>2. CASE CtlSucceeds(e, "packs", "start") /\ UNCHANGED <<ctlRunning, CtlRemote>>
  <2>2. /\ CtlColumn(e)' /\ ctlAt' \in [CtlEntries -> CtlPlaces] /\ ctlAt'[e] = "start"
        /\ \A o \in CtlEntries \ {e} : ctlAt'[o] = ctlAt[o]
    BY <1>2, CtlSucceedsColumn DEF CtlActive
  <2>3. UNCHANGED <<ctlReports, ctlErr, ctlRunning, ctlAgent, ctlNew>> /\ ctlAt[e] = "packs"
    BY <1>2 DEF CtlSucceeds, CtlRemote
  <2>4. CtlTyped'
    BY <2>2, <2>3 DEF CtlInv, CtlTyped
  <2>5. CtlAlone(e) => CtlKnows(e)'
    BY <2>2, <2>3 DEF CtlInv, CtlAllKnow, CtlKnows
  <2>6. QED BY <2>2, <2>3, <2>4, <2>5, CtlOneEntry
<1>3. CASE \E at \in {"probe", "packs"} : CtlFails(e, at) /\ UNCHANGED CtlRemote
  <2>1. PICK at \in {"probe", "packs"} : CtlFails(e, at) /\ UNCHANGED CtlRemote
    BY <1>3
  <2>2. CtlAlone(e) => ctlAgent[CtlAccount[e]] # "part"
    BY DEF CtlInv, CtlAllKnow, CtlKnows
  <2>3. QED
    BY <2>1, <2>2, CtlFailStep DEF CtlInv, CtlTyped, CtlRemote, CtlActive
<1>4. QED BY <1>1, <1>2, <1>3 DEF CtlProbe, CtlShipPacks

\* An upload that begins keeps CtlInv.
LEMMA CtlUploadStep ==
  ASSUME CtlInv, NEW e \in CtlEntries, CtlUpload(e)
  PROVE  CtlInv'
<1> DEFINE a == CtlAccount[e]
<1>0. a \in CtlAccounts
  BY DEF CtlAccounts
<1>1. CASE /\ CtlSucceeds(e, "upload", "uploading")
           /\ ctlNew' = [ctlNew EXCEPT ![a] = "part"]
           /\ UNCHANGED <<ctlRunning, ctlAgent>>
  <2>1. /\ CtlColumn(e)' /\ ctlAt' \in [CtlEntries -> CtlPlaces] /\ ctlAt'[e] = "uploading"
        /\ \A o \in CtlEntries \ {e} : ctlAt'[o] = ctlAt[o]
    BY <1>1, CtlSucceedsColumn DEF CtlActive
  <2>2. UNCHANGED <<ctlReports, ctlErr>>
    BY <1>1 DEF CtlSucceeds
  <2>3. /\ ctlNew' \in [CtlAccounts -> {"none", "part", "whole"}] /\ ctlNew'[a] = "part"
        /\ \A b \in CtlAccounts \ {a} : ctlNew'[b] = ctlNew[b]
    BY <1>0, <1>1 DEF CtlInv, CtlTyped
  <2>4. CtlTyped'
    BY <1>1, <2>1, <2>2, <2>3 DEF CtlInv, CtlTyped
  <2>5. CtlAlone(e) => CtlKnows(e)'
    BY <1>1, <2>1, <2>3 DEF CtlInv, CtlAllKnow, CtlKnows
  <2>6. QED BY <1>1, <2>1, <2>2, <2>3, <2>4, <2>5, CtlOneEntry
<1>2. CASE CtlFails(e, "upload") /\ UNCHANGED CtlRemote
  <2>1. CtlAlone(e) => ctlAgent[a] # "part"
    BY DEF CtlInv, CtlAllKnow, CtlKnows
  <2>2. QED
    BY <1>2, <2>1, CtlFailStep DEF CtlInv, CtlTyped, CtlRemote, CtlActive
<1>3. QED BY <1>1, <1>2 DEF CtlUpload

\* An upload that ends, whole or cut, keeps CtlInv.
LEMMA CtlUploadedStep ==
  ASSUME CtlInv, NEW e \in CtlEntries, CtlUploaded(e)
  PROVE  CtlInv'
<1> DEFINE a == CtlAccount[e]
<1>0. a \in CtlAccounts
  BY DEF CtlAccounts
<1>1. CASE /\ CtlSucceeds(e, "uploading", "install")
           /\ ctlNew' = [ctlNew EXCEPT ![a] = IF @ = "part" THEN "whole" ELSE @]
           /\ ctlAgent' = [ctlAgent EXCEPT ![a] = IF @ = "part" THEN "whole" ELSE @]
           /\ UNCHANGED ctlRunning
  <2>1. /\ CtlColumn(e)' /\ ctlAt' \in [CtlEntries -> CtlPlaces] /\ ctlAt'[e] = "install"
        /\ \A o \in CtlEntries \ {e} : ctlAt'[o] = ctlAt[o]
    BY <1>1, CtlSucceedsColumn DEF CtlActive
  <2>2. UNCHANGED <<ctlReports, ctlErr>> /\ ctlAt[e] = "uploading"
    BY <1>1 DEF CtlSucceeds
  <2>3. /\ ctlNew' \in [CtlAccounts -> {"none", "part", "whole"}]
        /\ ctlNew[a] = "part" => ctlNew'[a] = "whole"
        /\ ctlAgent' \in [CtlAccounts -> {"none", "old", "part", "whole"}]
        /\ ctlAgent[a] # "part" => ctlAgent'[a] = ctlAgent[a]
        /\ \A b \in CtlAccounts \ {a} : ctlNew'[b] = ctlNew[b] /\ ctlAgent'[b] = ctlAgent[b]
    BY <1>0, <1>1 DEF CtlInv, CtlTyped
  <2>4. CtlTyped'
    BY <1>1, <2>1, <2>2, <2>3 DEF CtlInv, CtlTyped
  <2>5. CtlAlone(e) => CtlKnows(e)'
    BY <1>1, <2>1, <2>2, <2>3 DEF CtlInv, CtlAllKnow, CtlKnows
  <2>6. QED BY <1>1, <2>1, <2>2, <2>3, <2>4, <2>5, CtlOneEntry
<1>2. CASE CtlFails(e, "uploading") /\ UNCHANGED CtlRemote
  <2>1. CtlAlone(e) => ctlAgent[a] # "part"
    BY DEF CtlInv, CtlAllKnow, CtlKnows
  <2>2. QED
    BY <1>2, <2>1, CtlFailStep DEF CtlInv, CtlTyped, CtlRemote, CtlActive
<1>3. QED BY <1>1, <1>2 DEF CtlUploaded

(* The rename: what an entry alone on its account moves is whole. *)
LEMMA CtlInstallStep ==
  ASSUME CtlInv, NEW e \in CtlEntries, CtlInstall(e)
  PROVE  CtlInv'
<1> DEFINE a == CtlAccount[e]
           moved == /\ ctlNew[a] # "none"
                    /\ ctlAgent' = [ctlAgent EXCEPT ![a] = ctlNew[a]]
                    /\ ctlNew' = [ctlNew EXCEPT ![a] = "none"]
<1>0. a \in CtlAccounts
  BY DEF CtlAccounts
<1>1. ctlAt[e] = "install"
  BY DEF CtlInstall, CtlSucceeds, CtlFails
<1>2. CtlAlone(e) => ctlNew[a] = "whole" /\ ctlAgent[a] # "part"
  BY <1>1 DEF CtlInv, CtlAllKnow, CtlKnows
<1>3. ASSUME moved
      PROVE  /\ ctlAgent' \in [CtlAccounts -> {"none", "old", "part", "whole"}]
             /\ ctlNew' \in [CtlAccounts -> {"none", "part", "whole"}]
             /\ CtlAlone(e) => ctlAgent'[a] = "whole"
             /\ \A b \in CtlAccounts \ {a} : ctlAgent'[b] = ctlAgent[b] /\ ctlNew'[b] = ctlNew[b]
  BY <1>0, <1>2, <1>3 DEF CtlInv, CtlTyped
<1>4. CASE CtlSucceeds(e, "install", "packs") /\ moved /\ UNCHANGED ctlRunning
  <2>1. /\ CtlColumn(e)' /\ ctlAt' \in [CtlEntries -> CtlPlaces] /\ ctlAt'[e] = "packs"
        /\ \A o \in CtlEntries \ {e} : ctlAt'[o] = ctlAt[o]
    BY <1>4, CtlSucceedsColumn DEF CtlActive
  <2>2. UNCHANGED <<ctlReports, ctlErr>>
    BY <1>4 DEF CtlSucceeds
  <2>3. CtlTyped'
    BY <1>3, <1>4, <2>1, <2>2 DEF CtlInv, CtlTyped
  <2>4. CtlAlone(e) => CtlKnows(e)'
    BY <1>3, <1>4, <2>1 DEF CtlInv, CtlAllKnow, CtlKnows
  <2>5. QED BY <1>3, <1>4, <2>1, <2>2, <2>3, <2>4, CtlOneEntry
<1>5. CASE CtlFails(e, "install") /\ moved
  BY <1>3, <1>5, CtlFailStep DEF CtlActive
<1>6. CASE CtlFails(e, "install") /\ UNCHANGED CtlRemote
  BY <1>2, <1>6, CtlFailStep DEF CtlInv, CtlTyped, CtlRemote, CtlActive
<1>7. QED BY <1>4, <1>5, <1>6 DEF CtlInstall

\* The rename and start of the agent keep CtlInv.
LEMMA CtlStartAgentStep ==
  ASSUME CtlInv, NEW e \in CtlEntries, CtlStartAgent(e)
  PROVE  CtlInv'
<1> DEFINE a == CtlAccount[e]
<1>0. a \in CtlAccounts
  BY DEF CtlAccounts
<1>1. CASE /\ CtlSucceeds(e, "start", "run")
           /\ ctlRunning' = [ctlRunning EXCEPT ![e] = ctlAgent[a]]
           /\ UNCHANGED CtlRemote
  <2>1. /\ CtlColumn(e)' /\ ctlAt' \in [CtlEntries -> CtlPlaces] /\ ctlAt'[e] = "run"
        /\ \A o \in CtlEntries \ {e} : ctlAt'[o] = ctlAt[o]
    BY <1>1, CtlSucceedsColumn DEF CtlActive
  <2>2. UNCHANGED <<ctlReports, ctlErr, ctlAgent, ctlNew>> /\ ctlAt[e] = "start"
    BY <1>1 DEF CtlSucceeds, CtlRemote
  <2>3. /\ ctlRunning' \in [CtlEntries -> {"none", "old", "part", "whole"}]
        /\ ctlRunning'[e] = ctlAgent[a]
        /\ \A o \in CtlEntries \ {e} : ctlRunning'[o] = ctlRunning[o]
    BY <1>0, <1>1 DEF CtlInv, CtlTyped
  <2>4. CtlTyped'
    BY <2>1, <2>2, <2>3 DEF CtlInv, CtlTyped
  <2>5. CtlAlone(e) => CtlKnows(e)'
    BY <2>1, <2>2, <2>3 DEF CtlInv, CtlAllKnow, CtlKnows
  <2>6. QED BY <2>1, <2>2, <2>3, <2>4, <2>5, CtlOneEntry
<1>2. CASE CtlFails(e, "start") /\ UNCHANGED CtlRemote
  <2>1. CtlAlone(e) => ctlAgent[a] # "part"
    BY DEF CtlInv, CtlAllKnow, CtlKnows
  <2>2. QED
    BY <1>2, <2>1, CtlFailStep DEF CtlInv, CtlTyped, CtlRemote, CtlActive
<1>3. QED BY <1>1, <1>2 DEF CtlStartAgent

\* A report read from the agent keeps CtlInv.
LEMMA CtlReportStep ==
  ASSUME CtlInv, NEW e \in CtlEntries, CtlReport(e)
  PROVE  CtlInv'
<1> DEFINE r == ctlReports[e]
           v == CtlSites[e][Len(r) + 1]
<1>1. r \in Seq(CtlVerdicts) /\ CtlSites[e] \in Seq(CtlVerdicts)
  BY CtlAssumption DEF CtlInv, CtlTyped, CtlVerdicts
<1>2. Len(r) \in Nat /\ Len(CtlSites[e]) \in Nat /\ Len(r) < Len(CtlSites[e])
  BY <1>1, LenProperties DEF CtlReport
<1>3. v \in CtlVerdicts
  BY <1>1, <1>2, ElementOfSeq
<1>4. Append(r, v) \in Seq(CtlVerdicts) /\ Append(r, v) # <<>>
  BY <1>1, <1>3, AppendProperties, EmptySeq
<1>5. /\ ctlReports' \in [CtlEntries -> Seq(CtlVerdicts)]
      /\ ctlReports'[e] # <<>>
      /\ \A o \in CtlEntries \ {e} : ctlReports'[o] = ctlReports[o]
  BY <1>4 DEF CtlInv, CtlTyped, CtlReport
<1>6. UNCHANGED <<ctlAt, ctlErr, ctlRunning, ctlAgent, ctlNew>> /\ ctlAt[e] = "run"
  BY DEF CtlReport, CtlRemote
<1>7. CtlTyped'
  BY <1>5, <1>6 DEF CtlInv, CtlTyped
<1>8. CtlColumn(e)'
  BY <1>5, <1>6 DEF CtlInv, CtlColumns, CtlColumn
<1>9. CtlAlone(e) => CtlKnows(e)'
  BY <1>6 DEF CtlInv, CtlAllKnow, CtlKnows
<1>10. QED BY <1>5, <1>6, <1>7, <1>8, <1>9, CtlOneEntry

\* A run that ends, or is cut off, keeps CtlInv.
LEMMA CtlRunEndsStep ==
  ASSUME CtlInv, NEW e \in CtlEntries, CtlRunEnds(e)
  PROVE  CtlInv'
<1>1. UNCHANGED <<ctlReports, ctlRunning, ctlAgent, ctlNew>> /\ ctlAt[e] = "run"
  BY DEF CtlRunEnds, CtlRemote
<1>2. /\ ctlAt' \in [CtlEntries -> CtlPlaces] /\ ctlErr' \in [CtlEntries -> BOOLEAN]
      /\ ctlAt'[e] \in {"done", "tidy"}
      /\ ctlReports[e] # <<>> => ctlErr'[e] = ctlErr[e]
      /\ ctlReports[e] = <<>> => ctlAt'[e] = "done" /\ ctlErr'[e]
      /\ \A o \in CtlEntries \ {e} : ctlAt'[o] = ctlAt[o] /\ ctlErr'[o] = ctlErr[o]
  BY DEF CtlInv, CtlTyped, CtlRunEnds, CtlGoes, CtlPlaces, CtlActive
<1>3. CtlTyped'
  BY <1>1, <1>2 DEF CtlInv, CtlTyped
<1>4. CtlColumn(e)'
  BY <1>1, <1>2 DEF CtlInv, CtlColumns, CtlColumn
<1>5. CtlAlone(e) => CtlKnows(e)'
  BY <1>1, <1>2 DEF CtlInv, CtlAllKnow, CtlKnows
<1>6. QED BY <1>1, <1>2, <1>3, <1>4, <1>5, CtlOneEntry

\* Tidying up keeps CtlInv.
LEMMA CtlTidyStep ==
  ASSUME CtlInv, NEW e \in CtlEntries, CtlTidy(e)
  PROVE  CtlInv'
<1>0. CtlAccount[e] \in CtlAccounts
  BY DEF CtlAccounts
<1>1. UNCHANGED <<ctlReports, ctlErr, ctlRunning, ctlNew>> /\ ctlAt[e] = "tidy"
  BY DEF CtlTidy
<1>2. /\ ctlAt' \in [CtlEntries -> CtlPlaces] /\ ctlAt'[e] = "done"
      /\ \A o \in CtlEntries \ {e} : ctlAt'[o] = ctlAt[o]
  BY DEF CtlInv, CtlTyped, CtlTidy, CtlGoes, CtlPlaces
<1>3. /\ ctlAgent' \in [CtlAccounts -> {"none", "old", "part", "whole"}]
      /\ ctlAgent'[CtlAccount[e]] \in {"none", ctlAgent[CtlAccount[e]]}
      /\ \A b \in CtlAccounts \ {CtlAccount[e]} : ctlAgent'[b] = ctlAgent[b]
  BY <1>0 DEF CtlInv, CtlTyped, CtlTidy
<1>4. CtlTyped'
  BY <1>1, <1>2, <1>3 DEF CtlInv, CtlTyped
<1>5. CtlColumn(e)'
  BY <1>1, <1>2 DEF CtlInv, CtlColumns, CtlColumn
<1>6. CtlAlone(e) => CtlKnows(e)'
  BY <1>1, <1>2, <1>3 DEF CtlInv, CtlAllKnow, CtlKnows
<1>7. QED BY <1>1, <1>2, <1>3, <1>4, <1>5, <1>6, CtlOneEntry

(* A new sweep begins from what the last one left on the hosts. *)
LEMMA CtlAgainStep ==
  ASSUME CtlInv, CtlSweepAgain
  PROVE  CtlInv'
BY EmptySeq
DEF CtlInv, CtlTyped, CtlAllKnow, CtlKnows, CtlColumns, CtlColumn, CtlSweepAgain, CtlRemote, CtlPlaces

\* Every step keeps CtlInv.
LEMMA CtlStep == CtlInv /\ [CtlNext]_ctlVars => CtlInv'
<1> SUFFICES ASSUME CtlInv, [CtlNext]_ctlVars PROVE CtlInv'
  OBVIOUS
<1>1. CASE UNCHANGED ctlVars \/ CtlCancel
  BY <1>1
  DEF CtlInv, CtlTyped, CtlAllKnow, CtlKnows, CtlColumns, CtlColumn, CtlCancel, CtlRemote, ctlVars
<1>2. CASE \E e \in CtlEntries : CtlHost(e)
  BY <1>2, CtlStartStep, CtlProbeStep, CtlUploadStep, CtlUploadedStep, CtlInstallStep,
     CtlStartAgentStep, CtlReportStep, CtlRunEndsStep, CtlTidyStep DEF CtlHost
<1>3. CASE CtlSweepAgain
  BY <1>3, CtlAgainStep
<1>4. QED BY <1>1, <1>2, <1>3 DEF CtlNext

-----------------------------------------------------------------------------
(* What a host reported is in the range of its reports. *)
LEMMA CtlReported ==
  ASSUME NEW r \in Seq(CtlVerdicts)
  PROVE  /\ Range(r) \subseteq CtlVerdicts
         /\ r # <<>> => Range(r) # {}
<1>1. Len(r) \in Nat /\ DOMAIN r = 1..Len(r)
  BY LenProperties
<1>2. \A i \in 1..Len(r) : r[i] \in CtlVerdicts
  BY ElementOfSeq
<1>3. r # <<>> => 1 \in 1..Len(r)
  BY <1>1, EmptySeq
<1>4. QED BY <1>1, <1>2, <1>3 DEF Range

\* CtlInv implies what the controller promises.
LEMMA CtlInvSafe == CtlInv => CtlSafe
<1> SUFFICES ASSUME CtlInv PROVE CtlSafe
  OBVIOUS
<1>1. CtlWholeAgent
  BY DEF CtlInv, CtlAllKnow, CtlKnows, CtlWholeAgent
<1>2. ASSUME CtlReturned PROVE \A e \in CtlEntries : ctlReports[e] = <<>> <=> ctlErr[e]
  BY <1>2 DEF CtlInv, CtlColumns, CtlColumn, CtlReturned
<1>3. ASSUME CtlReturned, NEW e \in CtlEntries, ~ctlErr[e]
      PROVE  /\ CtlWorst(ctlReports[e]) = "clean" => Range(ctlReports[e]) = {"clean"}
             /\ CtlWorst(ctlReports[e]) = "partial" => "dirty" \notin Range(ctlReports[e])
  <2>1. Range(ctlReports[e]) \subseteq CtlVerdicts /\ Range(ctlReports[e]) # {}
    BY <1>2, <1>3, CtlReported DEF CtlInv, CtlTyped
  <2>2. QED BY <2>1 DEF CtlWorst, CtlVerdicts
<1>4. CtlUnknownNotClean
  BY <1>2, <1>3 DEF CtlUnknownNotClean, CtlFailed, CtlCounted
<1>5. QED BY <1>1, <1>4 DEF CtlSafe

(* run.go and aggregate.go: an entry alone on its account never starts half an
   agent, and a sweep that returned has every host in the right column. *)
THEOREM CtlSafety == CtlSpec => []CtlSafe
<1>1. CtlSpec => []CtlInv
  BY CtlInitInv, CtlStep, PTL DEF CtlSpec
<1>2. QED BY <1>1, CtlInvSafe, PTL

(* No report is a prefix of any. *)
LEMMA CtlEmptyPrefix == \A e \in CtlEntries : IsPrefix(<<>>, CtlSites[e])
<1> SUFFICES ASSUME NEW e \in CtlEntries PROVE IsPrefix(<<>>, CtlSites[e])
  OBVIOUS
<1>1. CtlSites[e] \in Seq(CtlVerdicts)
  BY CtlAssumption DEF CtlVerdicts
<1>2. Len(CtlSites[e]) \in Nat /\ Len(<<>>) = 0
  BY <1>1, LenProperties, EmptySeq
<1>3. SubSeq(<<>>, 1, 0) = <<>> /\ SubSeq(CtlSites[e], 1, 0) = <<>>
  BY SubSeqEmpty
<1>4. QED BY <1>2, <1>3 DEF IsPrefix

(* A report more is a prefix still, as far as the sites go. *)
LEMMA CtlPrefixGrows ==
  ASSUME NEW t \in Seq(CtlVerdicts), NEW s \in Seq(CtlVerdicts), IsPrefix(s, t), Len(s) < Len(t)
  PROVE  IsPrefix(Append(s, t[Len(s) + 1]), t)
<1> DEFINE n == Len(s)
           u == Append(s, t[n + 1])
<1>1. n \in Nat /\ Len(t) \in Nat /\ n + 1 \in 1..Len(t)
  BY LenProperties
<1>2. t[n + 1] \in CtlVerdicts
  BY <1>1, ElementOfSeq
<1>3. u \in Seq(CtlVerdicts) /\ Len(u) = n + 1
  BY <1>2, AppendProperties
<1>4. SubSeq(t, 1, n + 1) = SubSeq(t, 1, n) \o <<t[n + 1]>>
  BY <1>1, SubSeqRecursiveSecond
<1>5. SubSeq(t, 1, n) = s
  BY SubSeqFull DEF IsPrefix
<1>6. SubSeq(t, 1, n + 1) = u
  BY <1>2, <1>4, <1>5, AppendIsConcat
<1>7. SubSeq(u, 1, Len(u)) = u
  BY <1>3, SubSeqFull
<1>8. QED BY <1>1, <1>3, <1>6, <1>7 DEF IsPrefix

(* Reports come one at a time, in the order of the sites; sweeps are counted. *)
CtlInOrder ==
    /\ \A e \in CtlEntries : IsPrefix(ctlReports[e], CtlSites[e])
    /\ ctlSweep \in 1..CtlSweeps

\* Every step keeps the order of the reports and the count of the sweeps.
LEMMA CtlInOrderStep == CtlInv /\ CtlInOrder /\ [CtlNext]_ctlVars => CtlInOrder'
<1> SUFFICES ASSUME CtlInv, CtlInOrder, [CtlNext]_ctlVars PROVE CtlInOrder'
  OBVIOUS
<1>1. ASSUME NEW e \in CtlEntries, CtlReport(e) PROVE CtlInOrder'
  <2> DEFINE s == ctlReports[e]
  <2>1. s \in Seq(CtlVerdicts) /\ CtlSites[e] \in Seq(CtlVerdicts) /\ ctlReports \in [CtlEntries -> Seq(CtlVerdicts)]
    BY CtlAssumption DEF CtlInv, CtlTyped, CtlVerdicts
  <2>2. IsPrefix(Append(s, CtlSites[e][Len(s) + 1]), CtlSites[e])
    BY <1>1, <2>1, CtlPrefixGrows DEF CtlInOrder, CtlReport
  <2>3. /\ ctlReports'[e] = Append(s, CtlSites[e][Len(s) + 1])
        /\ \A o \in CtlEntries \ {e} : ctlReports'[o] = ctlReports[o]
        /\ ctlSweep' = ctlSweep
    BY <1>1, <2>1 DEF CtlReport
  <2>4. QED BY <2>2, <2>3 DEF CtlInOrder
<1>2. CASE CtlSweepAgain
  <2>1. \A e \in CtlEntries : IsPrefix(<<>>, CtlSites[e])
    BY CtlEmptyPrefix
  <2>2. ctlSweep' \in 1..CtlSweeps
    BY <1>2, CtlAssumption DEF CtlSweepAgain, CtlInOrder
  <2>3. QED BY <1>2, <2>1, <2>2 DEF CtlSweepAgain, CtlInOrder
<1>3. ASSUME UNCHANGED <<ctlReports, ctlSweep>> PROVE CtlInOrder'
  BY <1>3 DEF CtlInOrder
<1>4. ASSUME NEW e \in CtlEntries, CtlHost(e), ~CtlReport(e) PROVE UNCHANGED <<ctlReports, ctlSweep>>
  BY <1>4 DEF CtlHost, CtlStart, CtlProbe, CtlUpload, CtlUploaded, CtlInstall, CtlShipPacks, CtlStartAgent,
     CtlRunEnds, CtlTidy, CtlFails, CtlSucceeds, CtlStays
<1>5. QED BY <1>1, <1>2, <1>3, <1>4 DEF CtlNext, CtlCancel, ctlVars

(* What the controller keeps of a host has its type, the reports in the order
   of the sites (run.go). *)
THEOREM CtlTyping == CtlSpec => []CtlTypeOK
<1>1. CtlInit => CtlInOrder
  BY CtlEmptyPrefix, CtlAssumption DEF CtlInit, CtlInOrder
<1>2. CtlSpec => []CtlInv
  BY CtlInitInv, CtlStep, PTL DEF CtlSpec
<1>3. CtlSpec => []CtlInOrder
  BY <1>1, <1>2, CtlInOrderStep, PTL DEF CtlSpec
<1>4. CtlInv /\ CtlInOrder => CtlTypeOK
  BY DEF CtlInv, CtlTyped, CtlInOrder, CtlTypeOK, CtlPlaces
<1>5. QED BY <1>2, <1>3, <1>4, PTL

-----------------------------------------------------------------------------
(***************************************************************************)
(* The agent's replacement of its own binary, for every number of commands *)
(* and releases, and any bounds on faults and crashes.                     *)
(***************************************************************************)

\* A path holds what the build key signed, in whatever state, or one of the two
\* releases an administrator put there.
UpgOwn(content) ==
    \/ content = UpgNone
    \/ content.release.signed
    \/ content.release \in {UpgInstalled, UpgOutgoing}

UpgProvenance == \A content \in {upgSelf, upgNew, upgOld} : UpgOwn(content)

\* The binary is the release that runs; or one that may follow it.
UpgIntact == upgSelf = UpgWhole(upgRunning)
UpgFollowed(content) ==
    content.state = "whole" /\ UpgNewer(content.release.version, upgRunning.version)

\* Where an upgrade that is alone in its process stands, and what it has made
\* of the three paths, while at most one call failed.
UpgStands(g) ==
    LET at == upgRun[g].at IN
    /\ at \in {"idle", "fetched", "writing", "staged"} => upgBefore[g] = UpgNone
    /\ at \in {"fetched", "writing", "staged", "backup", "cleanup", "refused"} => UpgIntact
    /\ at \in {"cleanup", "refused"} => upgBefore[g] \in {UpgNone, upgSelf}
    /\ at \in {"backup", "install"} => UpgFollowed(upgNew)
    /\ at \in {"backup", "install", "restore"} => upgBefore[g] = UpgWhole(upgRunning)
    /\ at = "install" => \/ upgSelf = UpgNone /\ upgOld = upgBefore[g]
                         \/ UpgIntact /\ upgFaults = 1
    /\ at = "restore" => upgSelf = UpgNone /\ upgOld = upgBefore[g] /\ upgFaults = 1
    /\ at \in {"installed", "reexec"} => UpgFollowed(upgSelf)

UpgAllIdle == \A g \in UpgRuns : upgRun[g].at = "idle"

UpgAlone ==
    \A g, h \in UpgRuns : upgRun[g].at # "idle" /\ upgRun[h].at # "idle" => g = h

UpgSolo ==
    ~upgOverlap /\ upgFaults <= 1 =>
        /\ UpgAlone
        /\ UpgUp => /\ UpgAllIdle => UpgIntact
                    /\ \A g \in UpgRuns : UpgStands(g)
        /\ ~UpgUp => UpgAllIdle /\ upgOld.state = "whole"

UpgInv == UpgTypeOK /\ UpgProvenance /\ UpgSolo

-----------------------------------------------------------------------------
(* Types *)

\* What a release and a state of a file are: the empty release is none of those
\* that are known, a goroutine none of the other states.
LEMMA UpgNames ==
    /\ UpgNoRelease \notin UpgKnown
    /\ "absent" \notin UpgRuns /\ "whole" \notin UpgRuns /\ "broken" \notin UpgRuns
    /\ UpgReleases \subseteq UpgKnown /\ UpgInstalled \in UpgKnown /\ UpgOutgoing \in UpgKnown
    /\ \A r \in UpgKnown : UpgWhole(r) \in UpgContents
    /\ UpgNone \in UpgContents
    /\ \A r \in UpgKnown, g \in UpgRuns :
          [release |-> r, state |-> g] \in UpgContents
          /\ [release |-> r, state |-> "broken"] \in UpgContents
    /\ \A c \in UpgContents : c # UpgNone => c.release \in UpgKnown /\ c.state # "absent"
<1>1. /\ UpgNoRelease \notin UpgKnown
      /\ "absent" \notin UpgRuns /\ "whole" \notin UpgRuns /\ "broken" \notin UpgRuns
      /\ UpgReleases \subseteq UpgKnown /\ UpgInstalled \in UpgKnown /\ UpgOutgoing \in UpgKnown
  <2>1. \A r \in UpgKnown : r.version # <<>>
    BY UpgAssumption
  <2>2. UpgNoRelease.version = <<>>
    BY DEF UpgNoRelease
  <2> QED BY <2>1, <2>2, UpgAssumption DEF UpgKnown
<1> QED BY <1>1 DEF UpgContents, UpgWhole, UpgNone

\* A goroutine that goes on keeps the release it got.
LEMMA UpgGoesOn ==
    ASSUME upgRun \in [UpgRuns -> {UpgIdle} \cup [at : UpgPlaces, got : UpgReleases]],
           NEW g \in UpgRuns, NEW at \in UpgPlaces, upgRun[g].at # "idle", UpgGoes(g, at)
    PROVE  upgRun' \in [UpgRuns -> {UpgIdle} \cup [at : UpgPlaces, got : UpgReleases]]
<1>1. upgRun[g] \in [at : UpgPlaces, got : UpgReleases]
  BY DEF UpgIdle
<1>2. [upgRun[g] EXCEPT !.at = at] \in [at : UpgPlaces, got : UpgReleases]
  BY <1>1
<1> HIDE DEF UpgPlaces
<1> QED BY <1>2 DEF UpgGoes

\* The end of a write, and of a process, leave a content that is one, of the
\* same release.
LEMMA UpgContentKept ==
    ASSUME NEW c \in UpgContents, NEW g \in UpgRuns
    PROVE  /\ UpgWritten(c, g) \in UpgContents
           /\ UpgWritten(c, g).release = c.release
           /\ c.state \in {"absent", "whole"} => UpgWritten(c, g) = c
           /\ c = UpgNone => UpgWritten(c, g) = UpgNone
  BY UpgNames DEF UpgWritten, UpgContents, UpgNone

\* A write that breaks off leaves the release or a part of it.
LEMMA UpgLeavesContent ==
    ASSUME NEW c \in UpgContents
    PROVE  /\ UpgLeft(c) \in UpgContents
           /\ UpgLeft(c).release = c.release
           /\ c.state \in {"absent", "whole"} => UpgLeft(c) = c
           /\ c = UpgNone => UpgLeft(c) = UpgNone
  BY UpgNames DEF UpgLeft, UpgContents, UpgNone

\* Every variable holds what it may hold initially.
LEMMA UpgTypeInit == UpgInit => UpgTypeOK
<1> SUFFICES ASSUME UpgInit PROVE UpgTypeOK
  OBVIOUS
<1>1. upgRun \in [UpgRuns -> {UpgIdle} \cup [at : UpgPlaces, got : UpgReleases]]
  BY DEF UpgInit
<1>2. /\ upgBefore \in [UpgRuns -> UpgContents]
      /\ upgSelf \in UpgContents /\ upgNew \in UpgContents /\ upgOld \in UpgContents
  BY UpgNames DEF UpgInit
<1>3. upgRunning \in UpgKnown \cup {UpgNoRelease}
  BY UpgNames DEF UpgInit
<1>4. upgFaults \in 0..UpgMaxFaults /\ upgCrashes \in 0..UpgMaxCrashes /\ upgOverlap \in BOOLEAN
  <2>1. upgFaults \in 0..UpgMaxFaults /\ upgCrashes \in 0..UpgMaxCrashes
    BY UpgAssumption DEF UpgInit
  <2>2. upgOverlap \in BOOLEAN
    BY DEF UpgInit
  <2> QED BY <2>1, <2>2
<1>5. {upgSelf, upgNew, upgOld} \subseteq UpgContents
  BY <1>2
<1> QED BY ONLY <1>1, <1>2, <1>3, <1>4, <1>5 DEF UpgTypeOK

\* Every step keeps every variable to what it may hold.
LEMMA UpgTypeStep == UpgTypeOK /\ [UpgNext]_upgVars => UpgTypeOK'
<1> SUFFICES ASSUME UpgTypeOK, [UpgNext]_upgVars PROVE UpgTypeOK'
  OBVIOUS
<1> DEFINE RunOK == upgRun \in [UpgRuns -> {UpgIdle} \cup [at : UpgPlaces, got : UpgReleases]]
           FilesOK == upgSelf \in UpgContents /\ upgNew \in UpgContents /\ upgOld \in UpgContents
           BeforeOK == upgBefore \in [UpgRuns -> UpgContents]
           RunningOK == upgRunning \in UpgKnown \cup {UpgNoRelease}
           CountsOK == /\ upgFaults \in 0..UpgMaxFaults
                       /\ upgCrashes \in 0..UpgMaxCrashes
                       /\ upgOverlap \in BOOLEAN
<1>t. RunOK /\ FilesOK /\ BeforeOK /\ RunningOK /\ CountsOK
  BY DEF UpgTypeOK
<1>q. SUFFICES RunOK' /\ FilesOK' /\ BeforeOK' /\ RunningOK' /\ CountsOK'
  BY DEF UpgTypeOK
<1>g. ASSUME NEW g \in UpgRuns, NEW at \in UpgPlaces, upgRun[g].at # "idle", UpgGoes(g, at)
      PROVE  RunOK'
  BY <1>t, <1>g, UpgGoesOn
<1>p. \A at \in {"fetched", "writing", "staged", "backup", "install", "installed", "restore",
                "cleanup", "refused", "reexec"} : at \in UpgPlaces /\ at # "idle"
  BY DEF UpgPlaces
<1>n. UpgNone \in UpgContents
  BY UpgNames
<1>c. UpgFault => upgFaults' \in 0..UpgMaxFaults
  BY <1>t, UpgAssumption DEF UpgFault
<1> HIDE DEF RunOK
<1>1. ASSUME NEW g \in UpgRuns, FetchRelease(g)
      PROVE  RunOK' /\ FilesOK' /\ BeforeOK' /\ RunningOK' /\ CountsOK'
  <2>1. RunOK'
    BY <1>1, <1>t, <1>p DEF FetchRelease, RunOK
  <2> QED BY <1>1, <1>t, <2>1 DEF FetchRelease, UpgFiles
<1>2. ASSUME NEW g \in UpgRuns, StageRelease(g)
      PROVE  RunOK' /\ FilesOK' /\ BeforeOK' /\ RunningOK' /\ CountsOK'
  <2>1. RunOK'
    BY <1>2, <1>g, <1>p DEF StageRelease
  <2>2. upgRun[g].got \in UpgKnown
    BY <1>2, <1>t, UpgNames DEF RunOK, UpgIdle, StageRelease
  <2>3. upgNew' \in UpgContents
    BY <1>2, <1>t, <2>2, UpgNames DEF StageRelease
  <2> QED BY <1>2, <1>t, <2>1, <2>3 DEF StageRelease
<1>3. ASSUME NEW g \in UpgRuns, StageWritten(g)
      PROVE  RunOK' /\ FilesOK' /\ BeforeOK' /\ RunningOK' /\ CountsOK'
  <2>1. RunOK'
    BY <1>3, <1>g, <1>p DEF StageWritten
  <2>2. FilesOK'
    BY <1>3, <1>t, UpgContentKept DEF StageWritten, UpgFiles
  <2> QED BY <1>3, <1>t, <1>c, <2>1, <2>2 DEF StageWritten
<1>4. ASSUME NEW g \in UpgRuns, CheckStaged(g)
      PROVE  RunOK' /\ FilesOK' /\ BeforeOK' /\ RunningOK' /\ CountsOK'
  <2>1. RunOK'
    BY <1>4, <1>g, <1>p DEF CheckStaged
  <2> QED BY <1>4, <1>t, <2>1 DEF CheckStaged, UpgFiles
<1>5. ASSUME NEW g \in UpgRuns, BackUpSelf(g) \/ InstallStaged(g) \/ RestoreSelf(g)
      PROVE  RunOK' /\ FilesOK' /\ BeforeOK' /\ RunningOK' /\ CountsOK'
  <2>1. RunOK'
    BY <1>5, <1>g, <1>p DEF BackUpSelf, InstallStaged, RestoreSelf
  <2>2. FilesOK'
    BY <1>5, <1>t, <1>n DEF BackUpSelf, InstallStaged, RestoreSelf, UpgFiles
  <2>3. upgFaults' \in 0..UpgMaxFaults
    BY <1>5, <1>t, <1>c DEF BackUpSelf, InstallStaged, RestoreSelf
  <2> QED BY <1>5, <1>t, <2>1, <2>2, <2>3 DEF BackUpSelf, InstallStaged, RestoreSelf
<1>6. ASSUME NEW g \in UpgRuns, RemoveStaged(g)
      PROVE  RunOK' /\ FilesOK' /\ BeforeOK' /\ RunningOK' /\ CountsOK'
  <2>1. RunOK'
    BY <1>6, <1>g, <1>p DEF RemoveStaged
  <2> QED BY <1>6, <1>t, <1>n, <2>1 DEF RemoveStaged
<1>7. ASSUME NEW g \in UpgRuns, UpgradeRefused(g)
      PROVE  RunOK' /\ FilesOK' /\ BeforeOK' /\ RunningOK' /\ CountsOK'
  <2>1. RunOK' /\ BeforeOK'
    BY <1>7, <1>t, <1>n DEF UpgradeRefused, RunOK
  <2> QED BY <1>7, <1>t, <2>1 DEF UpgradeRefused, UpgFiles
<1>8. ASSUME UpgProcessEnds, upgFaults' = upgFaults, upgCrashes' \in 0..UpgMaxCrashes
      PROVE  RunOK' /\ FilesOK' /\ BeforeOK' /\ RunningOK' /\ CountsOK'
  <2>1. FilesOK'
    BY <1>8, <1>t, UpgLeavesContent DEF UpgProcessEnds
  <2>2. RunningOK'
    BY <1>8, <1>t, UpgNames DEF UpgProcessEnds, UpgNone
  <2>3. RunOK' /\ BeforeOK'
    BY <1>8, <1>n DEF UpgProcessEnds, RunOK
  <2> QED BY <1>8, <1>t, <2>1, <2>2, <2>3 DEF UpgProcessEnds
<1>9. ASSUME NEW g \in UpgRuns, Reexec(g)
      PROVE  RunOK' /\ FilesOK' /\ BeforeOK' /\ RunningOK' /\ CountsOK'
  BY <1>8, <1>9, <1>t DEF Reexec
<1>10. ASSUME AgentCrash
       PROVE  RunOK' /\ FilesOK' /\ BeforeOK' /\ RunningOK' /\ CountsOK'
  <2>1. upgCrashes' \in 0..UpgMaxCrashes
    BY <1>10, <1>t, UpgAssumption DEF AgentCrash
  <2> QED BY <1>8, <1>10, <2>1 DEF AgentCrash
<1>11. CASE UNCHANGED upgVars
  BY <1>11, <1>t DEF upgVars, RunOK
<1> QED
  BY <1>1, <1>2, <1>3, <1>4, <1>5, <1>6, <1>7, <1>9, <1>10, <1>11 DEF UpgNext

-----------------------------------------------------------------------------
(* Where the releases come from *)

\* Nothing but a signed release ever gets to a path, since signatures are
\* verified before the first write and renames bring nothing new.
LEMMA UpgProvenanceStep ==
    UpgTypeOK /\ UpgProvenance /\ [UpgNext]_upgVars => UpgProvenance'
<1> SUFFICES ASSUME UpgTypeOK, UpgProvenance, [UpgNext]_upgVars PROVE UpgProvenance'
  OBVIOUS
<1>f. upgSelf \in UpgContents /\ upgNew \in UpgContents /\ upgOld \in UpgContents
  BY DEF UpgTypeOK
<1>o. UpgOwn(upgSelf) /\ UpgOwn(upgNew) /\ UpgOwn(upgOld) /\ UpgOwn(UpgNone)
  BY DEF UpgProvenance, UpgOwn
<1>s. SUFFICES UpgOwn(upgSelf') /\ UpgOwn(upgNew') /\ UpgOwn(upgOld')
  BY DEF UpgProvenance, UpgOwn
<1>k. \A c \in UpgContents, g \in UpgRuns : UpgOwn(c) => UpgOwn(UpgWritten(c, g))
  BY UpgContentKept DEF UpgOwn
<1>1. ASSUME NEW g \in UpgRuns, FetchRelease(g) PROVE UNCHANGED UpgFiles
  BY <1>1 DEF FetchRelease
<1>2. ASSUME NEW g \in UpgRuns, StageRelease(g)
      PROVE  UpgOwn(upgNew') /\ upgSelf' = upgSelf /\ upgOld' = upgOld
  BY <1>2, <1>o DEF StageRelease, UpgOwn
<1>3. ASSUME NEW g \in UpgRuns, StageWritten(g)
      PROVE  UpgOwn(upgSelf') /\ UpgOwn(upgNew') /\ UpgOwn(upgOld')
  BY <1>3, <1>f, <1>o, <1>k DEF StageWritten, UpgFiles
<1>4. ASSUME NEW g \in UpgRuns, CheckStaged(g) \/ UpgradeRefused(g) PROVE UNCHANGED UpgFiles
  BY <1>4 DEF CheckStaged, UpgradeRefused
<1>5. ASSUME NEW g \in UpgRuns, BackUpSelf(g) \/ InstallStaged(g) \/ RestoreSelf(g) \/ RemoveStaged(g)
      PROVE  {upgSelf', upgNew', upgOld'} \subseteq {upgSelf, upgNew, upgOld, UpgNone}
  BY <1>5 DEF BackUpSelf, InstallStaged, RestoreSelf, RemoveStaged, UpgFiles
<1>6. ASSUME UpgProcessEnds PROVE UpgOwn(upgSelf') /\ UpgOwn(upgNew') /\ UpgOwn(upgOld')
  <2>1. \A c \in UpgContents : UpgOwn(c) => UpgOwn(UpgLeft(c))
    BY UpgLeavesContent DEF UpgOwn
  <2> QED BY <1>6, <1>f, <1>o, <2>1 DEF UpgProcessEnds
<1>7. CASE UNCHANGED upgVars
  BY <1>7, <1>o DEF upgVars
<1> QED
  BY <1>1, <1>2, <1>3, <1>4, <1>5, <1>6, <1>7, <1>o
     DEF UpgNext, UpgFiles, Reexec, AgentCrash

-----------------------------------------------------------------------------
(* One upgrade at a time *)

\* While one goroutine upgrades alone, the others are idle and what they noted is
\* nothing; so a step of it is judged by where it stands itself afterwards.
LEMMA UpgOneGoes ==
    ASSUME NEW g \in UpgRuns,
           \A h \in UpgRuns \ {g} :
              /\ upgRun[h].at = "idle" /\ UpgStands(h)
              /\ upgRun'[h] = upgRun[h] /\ upgBefore'[h] = upgBefore[h],
           UpgUp, upgRunning' = upgRunning,
           UpgStands(g)', upgRun'[g].at = "idle" => UpgIntact'
    PROVE  UpgSolo'
<1>1. ASSUME NEW h \in UpgRuns \ {g} PROVE upgRun'[h].at = "idle" /\ UpgStands(h)'
  <2>1. upgRun[h].at = "idle" /\ upgBefore[h] = UpgNone
    BY DEF UpgStands
  <2> QED BY <2>1 DEF UpgStands
<1>2. \A h \in UpgRuns : UpgStands(h)'
  BY <1>1
<1>3. UpgAlone'
  BY <1>1 DEF UpgAlone
<1>4. UpgAllIdle' => UpgIntact'
  BY DEF UpgAllIdle
<1> QED BY <1>2, <1>3, <1>4 DEF UpgSolo, UpgUp

\* Every step of an upgrade that is alone leaves the paths as it should.
LEMMA UpgSoloStep == UpgTypeOK /\ UpgSolo /\ [UpgNext]_upgVars => UpgSolo'
<1> SUFFICES ASSUME UpgTypeOK, UpgSolo, [UpgNext]_upgVars PROVE UpgSolo'
  OBVIOUS
<1>t. /\ upgRun \in [UpgRuns -> {UpgIdle} \cup [at : UpgPlaces, got : UpgReleases]]
      /\ upgSelf \in UpgContents /\ upgNew \in UpgContents /\ upgOld \in UpgContents
      /\ upgBefore \in [UpgRuns -> UpgContents]
      /\ upgRunning \in UpgKnown \cup {UpgNoRelease}
      /\ upgFaults \in Nat /\ upgOverlap \in BOOLEAN
  BY DEF UpgTypeOK
<1>m. CASE UNCHANGED upgVars
  BY <1>m DEF upgVars, UpgSolo, UpgAlone, UpgUp, UpgAllIdle, UpgIntact, UpgStands, UpgFollowed
<1>n. SUFFICES ASSUME UpgNext, ~upgOverlap', upgFaults' <= 1 PROVE UpgSolo'
  BY <1>m DEF UpgSolo
<1>s. /\ ~upgOverlap /\ upgFaults <= 1
  <2>1. ~upgOverlap
    BY <1>n, <1>t DEF UpgNext, FetchRelease, StageRelease, StageWritten, CheckStaged, BackUpSelf,
       InstallStaged, RestoreSelf, RemoveStaged, UpgradeRefused, Reexec, AgentCrash, UpgProcessEnds
  <2>2. upgFaults' \in {upgFaults, upgFaults + 1}
    BY <1>n DEF UpgNext, FetchRelease, StageRelease, StageWritten, CheckStaged, BackUpSelf,
       InstallStaged, RestoreSelf, RemoveStaged, UpgradeRefused, Reexec, AgentCrash, UpgFault
  <2> QED BY <2>1, <2>2, <1>n, <1>t
<1>u. UpgUp
  <2>1. ~UpgUp => UpgAllIdle
    BY <1>s DEF UpgSolo
  <2> QED
    BY <1>n, <2>1 DEF UpgNext, UpgAllIdle, FetchRelease, StageRelease, StageWritten, CheckStaged,
       BackUpSelf, InstallStaged, RestoreSelf, RemoveStaged, UpgradeRefused, Reexec, AgentCrash
<1>a. /\ UpgAlone /\ (UpgAllIdle => UpgIntact)
      /\ \A g \in UpgRuns : UpgStands(g)
  BY <1>s, <1>u DEF UpgSolo
<1>w. \A r : UpgWhole(r).state = "whole" /\ UpgWhole(r).release = r
  BY DEF UpgWhole
<1>g. ASSUME NEW g \in UpgRuns, upgRun[g].at # "idle", NEW at, UpgGoes(g, at)
      PROVE  /\ \A h \in UpgRuns \ {g} : upgRun[h].at = "idle" /\ UpgStands(h) /\ upgRun'[h] = upgRun[h]
             /\ upgRun'[g].at = at
  <2>1. \A h \in UpgRuns \ {g} : upgRun[h].at = "idle" /\ UpgStands(h)
    BY <1>a, <1>g DEF UpgAlone
  <2>2. upgRun'[g] = [upgRun[g] EXCEPT !.at = at]
    BY <1>t, <1>g DEF UpgGoes
  <2>3. upgRun[g] \in [at : UpgPlaces, got : UpgReleases]
    BY <1>t, <1>g DEF UpgIdle
  <2>4. upgRun'[g].at = at
    BY <2>2, <2>3
  <2>5. \A h \in UpgRuns \ {g} : upgRun'[h] = upgRun[h]
    BY <1>t, <1>g DEF UpgGoes
  <2> QED BY <2>1, <2>4, <2>5
<1>1. ASSUME NEW g \in UpgRuns, FetchRelease(g) PROVE UpgSolo'
  <2>1. \A h \in UpgRuns : upgRun[h].at = "idle"
    BY <1>1, <1>n DEF FetchRelease
  <2>2. upgRun'[g].at = "fetched" /\ \A h \in UpgRuns \ {g} : upgRun'[h] = upgRun[h]
    BY <1>1, <1>t DEF FetchRelease
  <2>3. UpgIntact' /\ upgRunning' = upgRunning /\ upgBefore' = upgBefore
    BY <1>1, <1>a, <2>1 DEF FetchRelease, UpgFiles, UpgAllIdle, UpgIntact
  <2>4. UpgStands(g)'
    BY <1>a, <2>1, <2>2, <2>3 DEF UpgStands
  <2> QED BY <1>a, <1>u, <2>1, <2>2, <2>3, <2>4, UpgOneGoes
<1>2. ASSUME NEW g \in UpgRuns, StageRelease(g) PROVE UpgSolo'
  <2>1. /\ upgRun[g].at = "fetched" /\ upgRunning' = upgRunning /\ upgBefore' = upgBefore
        /\ upgSelf' = upgSelf /\ (UpgGoes(g, "writing") \/ UpgGoes(g, "refused"))
    BY <1>2 DEF StageRelease
  <2>2. upgRun'[g].at \in {"writing", "refused"}
    BY <1>g, <2>1
  <2>3. UpgStands(g)'
    BY <1>a, <2>1, <2>2 DEF UpgStands, UpgIntact
  <2> QED BY <1>g, <1>u, <2>1, <2>2, <2>3, UpgOneGoes
<1>3. ASSUME NEW g \in UpgRuns, StageWritten(g) PROVE UpgSolo'
  <2>1. /\ upgRun[g].at = "writing" /\ upgRunning' = upgRunning /\ upgBefore' = upgBefore
        /\ UpgGoes(g, "staged") \/ UpgGoes(g, "cleanup")
    BY <1>3 DEF StageWritten
  <2>2. upgRun'[g].at \in {"staged", "cleanup"}
    BY <1>g, <2>1
  <2>3. upgSelf' = upgSelf
    <3>1. upgSelf = UpgWhole(upgRunning)
      BY <1>a, <2>1 DEF UpgStands, UpgIntact
    <3> QED BY <1>3, <1>t, <1>w, <3>1, UpgContentKept DEF StageWritten, UpgFiles
  <2>4. UpgStands(g)'
    BY <1>a, <2>1, <2>2, <2>3 DEF UpgStands, UpgIntact
  <2> QED BY <1>g, <1>u, <2>1, <2>2, <2>4, UpgOneGoes
<1>4. ASSUME NEW g \in UpgRuns, CheckStaged(g) PROVE UpgSolo'
  <2>1. upgRun[g].at = "staged" /\ upgRunning' = upgRunning /\ UNCHANGED UpgFiles
    BY <1>4 DEF CheckStaged
  <2>2. UpgIntact /\ upgBefore[g] = UpgNone
    BY <1>a, <2>1 DEF UpgStands
  <2>3. CASE UpgGoes(g, "backup") /\ UpgFollowed(upgNew) /\ upgBefore' = [upgBefore EXCEPT ![g] = upgSelf]
    <3>1. upgRun'[g].at = "backup" /\ upgBefore'[g] = upgSelf
      BY <1>g, <1>t, <2>1, <2>3
    <3>2. UpgStands(g)'
      BY <2>1, <2>2, <2>3, <3>1 DEF UpgStands, UpgIntact, UpgFollowed, UpgFiles
    <3>3. \A h \in UpgRuns \ {g} : upgBefore'[h] = upgBefore[h]
      BY <1>t, <2>3
    <3> QED BY <1>g, <1>u, <2>1, <2>3, <3>1, <3>2, <3>3, UpgOneGoes
  <2>4. CASE UpgGoes(g, "cleanup") /\ upgBefore' = upgBefore
    <3>1. upgRun'[g].at = "cleanup"
      BY <1>g, <2>1, <2>4
    <3>2. UpgStands(g)'
      BY <2>1, <2>2, <2>4, <3>1 DEF UpgStands, UpgIntact, UpgFiles
    <3> QED BY <1>g, <1>u, <2>1, <2>4, <3>1, <3>2, UpgOneGoes
  <2> QED BY <1>4, <2>3, <2>4 DEF CheckStaged, UpgFollowed
<1>5. ASSUME NEW g \in UpgRuns, BackUpSelf(g) PROVE UpgSolo'
  <2>1. /\ upgRun[g].at = "backup" /\ upgRunning' = upgRunning /\ upgBefore' = upgBefore
        /\ UpgGoes(g, "install")
    BY <1>5 DEF BackUpSelf
  <2>2. upgRun'[g].at = "install"
    BY <1>g, <2>1
  <2>3. /\ upgSelf = UpgWhole(upgRunning) /\ upgBefore[g] = upgSelf /\ UpgFollowed(upgNew)
        /\ upgSelf # UpgNone
    BY <1>a, <1>w, <2>1 DEF UpgStands, UpgIntact, UpgNone
  <2>4. upgNew' = upgNew
    BY <1>5 DEF BackUpSelf, UpgFiles
  <2>5. \/ upgSelf' = UpgNone /\ upgOld' = upgSelf
        \/ upgSelf' = upgSelf /\ upgFaults' = 1
    BY <1>5, <1>n, <1>t, <2>3 DEF BackUpSelf, UpgFiles, UpgFault
  <2>6. UpgStands(g)'
    BY <2>1, <2>2, <2>3, <2>4, <2>5 DEF UpgStands, UpgIntact, UpgFollowed
  <2> QED BY <1>g, <1>u, <2>1, <2>2, <2>6, UpgOneGoes
<1>6. ASSUME NEW g \in UpgRuns, InstallStaged(g) PROVE UpgSolo'
  <2>1. upgRun[g].at = "install" /\ upgRunning' = upgRunning /\ upgBefore' = upgBefore
    BY <1>6 DEF InstallStaged
  <2>2. /\ upgBefore[g] = UpgWhole(upgRunning) /\ UpgFollowed(upgNew) /\ upgNew # UpgNone
        /\ \/ upgSelf = UpgNone /\ upgOld = upgBefore[g]
           \/ upgFaults = 1
    BY <1>a, <2>1 DEF UpgStands, UpgFollowed, UpgNone
  <2>3. CASE upgSelf' = upgNew /\ UpgGoes(g, "installed")
    <3>1. upgRun'[g].at = "installed"
      BY <1>g, <2>1, <2>3
    <3>2. UpgStands(g)'
      BY <2>1, <2>2, <2>3, <3>1 DEF UpgStands, UpgFollowed
    <3> QED BY <1>g, <1>u, <2>1, <2>3, <3>1, <3>2, UpgOneGoes
  <2>4. CASE UpgFault /\ UNCHANGED UpgFiles /\ UpgGoes(g, "restore")
    <3>1. upgRun'[g].at = "restore"
      BY <1>g, <2>1, <2>4
    <3>2. upgFaults' = 1 /\ upgSelf' = UpgNone /\ upgOld' = upgBefore[g]
      BY <1>n, <1>t, <2>2, <2>4 DEF UpgFault, UpgFiles
    <3>3. UpgStands(g)'
      BY <2>1, <2>2, <3>1, <3>2 DEF UpgStands
    <3> QED BY <1>g, <1>u, <2>1, <2>4, <3>1, <3>3, UpgOneGoes
  <2> QED BY <1>6, <2>2, <2>3, <2>4 DEF InstallStaged
<1>7. ASSUME NEW g \in UpgRuns, RestoreSelf(g) PROVE UpgSolo'
  <2>1. /\ upgRun[g].at = "restore" /\ upgRunning' = upgRunning /\ upgBefore' = upgBefore
        /\ UpgGoes(g, "cleanup")
    BY <1>7 DEF RestoreSelf
  <2>2. upgRun'[g].at = "cleanup"
    BY <1>g, <2>1
  <2>3. /\ upgBefore[g] = UpgWhole(upgRunning) /\ upgOld = upgBefore[g] /\ upgFaults = 1
        /\ upgOld # UpgNone
    BY <1>a, <1>w, <2>1 DEF UpgStands, UpgNone
  <2>4. upgSelf' = upgOld
    BY <1>7, <1>n, <2>3 DEF RestoreSelf, UpgFault
  <2>5. UpgStands(g)'
    BY <2>1, <2>2, <2>3, <2>4 DEF UpgStands, UpgIntact
  <2> QED BY <1>g, <1>u, <2>1, <2>2, <2>5, UpgOneGoes
<1>8. ASSUME NEW g \in UpgRuns, RemoveStaged(g) PROVE UpgSolo'
  <2>1. /\ upgRunning' = upgRunning /\ upgBefore' = upgBefore /\ upgSelf' = upgSelf
        /\ \/ upgRun[g].at = "installed" /\ UpgGoes(g, "reexec")
           \/ upgRun[g].at = "cleanup" /\ UpgGoes(g, "refused")
    BY <1>8 DEF RemoveStaged
  <2>2. \/ upgRun[g].at = "installed" /\ upgRun'[g].at = "reexec"
        \/ upgRun[g].at = "cleanup" /\ upgRun'[g].at = "refused"
    BY <1>g, <2>1
  <2>3. UpgStands(g)'
    BY <1>a, <2>1, <2>2 DEF UpgStands, UpgIntact, UpgFollowed
  <2> QED BY <1>g, <1>u, <2>1, <2>2, <2>3, UpgOneGoes
<1>9. ASSUME NEW g \in UpgRuns, UpgradeRefused(g) PROVE UpgSolo'
  <2>1. /\ upgRun[g].at = "refused" /\ upgRunning' = upgRunning /\ upgSelf' = upgSelf
        /\ upgRun' = [upgRun EXCEPT ![g] = UpgIdle] /\ upgBefore' = [upgBefore EXCEPT ![g] = UpgNone]
    BY <1>9 DEF UpgradeRefused, UpgFiles
  <2>2. /\ upgRun'[g] = UpgIdle /\ upgBefore'[g] = UpgNone
        /\ \A h \in UpgRuns \ {g} : upgRun'[h] = upgRun[h] /\ upgBefore'[h] = upgBefore[h]
    BY <1>t, <2>1
  <2>3. \A h \in UpgRuns \ {g} : upgRun[h].at = "idle" /\ UpgStands(h)
    BY <1>a, <2>1 DEF UpgAlone
  <2>4. UpgIntact'
    BY <1>a, <2>1 DEF UpgStands, UpgIntact
  <2>5. UpgStands(g)'
    BY <2>2 DEF UpgStands, UpgIdle
  <2> QED BY <1>u, <2>1, <2>2, <2>3, <2>4, <2>5, UpgOneGoes
<1>10. ASSUME UpgProcessEnds PROVE UpgSolo'
  <2>1. UpgAllIdle' /\ UpgAlone' /\ \A g \in UpgRuns : UpgStands(g)'
    BY <1>10 DEF UpgProcessEnds, UpgAllIdle, UpgAlone, UpgStands, UpgIdle
  <2>2. CASE upgSelf.state = "whole"
    <3>1. upgSelf = UpgWhole(upgSelf.release) /\ upgSelf.release \in UpgKnown
      BY <1>t, <2>2, UpgNames DEF UpgContents, UpgWhole, UpgNone
    <3>2. upgSelf' = upgSelf /\ upgRunning' = upgSelf.release
      BY <1>10, <1>t, <2>2, UpgLeavesContent DEF UpgProcessEnds
    <3>3. UpgIntact' /\ UpgUp'
      BY <3>1, <3>2, UpgNames DEF UpgIntact, UpgUp
    <3> QED BY <2>1, <3>3 DEF UpgSolo
  <2>3. CASE upgSelf.state # "whole"
    <3>1. ~UpgIntact /\ ~UpgFollowed(upgSelf)
      BY <1>w, <2>3 DEF UpgIntact, UpgFollowed
    <3>2. PICK g \in UpgRuns : upgRun[g].at \notin {"idle", "fetched", "writing", "staged", "backup",
                                                    "cleanup", "refused", "installed", "reexec"}
      BY <1>a, <3>1 DEF UpgStands, UpgAllIdle
    <3>3. upgRun[g].at \in {"install", "restore"}
      BY <1>t, <3>2 DEF UpgPlaces, UpgIdle
    <3>4. upgOld = UpgWhole(upgRunning)
      BY <1>a, <3>1, <3>3 DEF UpgStands
    <3>5. upgOld' = upgOld
      BY <1>10, <1>t, <1>w, <3>4, UpgLeavesContent DEF UpgProcessEnds
    <3>6. ~UpgUp'
      BY <1>10, <2>3 DEF UpgProcessEnds, UpgUp
    <3> QED BY <1>w, <2>1, <3>4, <3>5, <3>6 DEF UpgSolo
  <2> QED BY <2>2, <2>3
<1> QED
  BY <1>n, <1>1, <1>2, <1>3, <1>4, <1>5, <1>6, <1>7, <1>8, <1>9, <1>10
     DEF UpgNext, Reexec, AgentCrash

-----------------------------------------------------------------------------
(* What it promises *)

\* The invariant: types, where the releases come from, and where one upgrade
\* stands that is alone.
LEMMA UpgInvariant == UpgSpec => []UpgInv
<1>1. UpgInit => UpgInv
  <2> SUFFICES ASSUME UpgInit PROVE UpgInv
    OBVIOUS
  <2>1. UpgTypeOK
    BY UpgTypeInit
  <2>2. UpgProvenance
    BY DEF UpgInit, UpgProvenance, UpgOwn, UpgWhole, UpgNone
  <2>3. UpgSolo
    BY UpgNames DEF UpgInit, UpgSolo, UpgAlone, UpgIntact, UpgStands, UpgIdle, UpgUp, UpgAllIdle
  <2> QED BY <2>1, <2>2, <2>3 DEF UpgInv
<1>2. UpgInv /\ [UpgNext]_upgVars => UpgInv'
  BY UpgTypeStep, UpgProvenanceStep, UpgSoloStep DEF UpgInv
<1> QED BY <1>1, <1>2, PTL DEF UpgSpec

\* isNewerVersion agrees with the order of releases.
LEMMA UpgNewerFollows ==
    ASSUME NEW v, NEW w, UpgNewer(v, w) PROVE UpgParses(v) /\ UpgFollows(v, w)
<1> DEFINE p == UpgPadded(v)
           q == UpgPadded(w)
<1>1. PICK i \in 1..3 : p[i] > q[i] /\ \A j \in 1..(i - 1) : p[j] = q[j]
  BY DEF UpgNewer
<1> HIDE DEF p, q
<1>2. /\ i = 1 => p[1] > q[1]
      /\ i = 2 => p[2] > q[2] /\ p[1] = q[1]
      /\ i = 3 => p[3] > q[3] /\ p[1] = q[1] /\ p[2] = q[2]
  BY <1>1
<1>3. \/ p[1] > q[1]
      \/ p[1] = q[1] /\ p[2] > q[2]
      \/ p[1] = q[1] /\ p[2] = q[2] /\ p[3] > q[3]
  BY <1>2
<1> QED BY <1>3 DEF UpgNewer, UpgFollows, p, q

\* A release that runs in the place of another was taken from the binary's path,
\* where one upgrade alone leaves what runs or what follows it.
LEMMA UpgForwardStep ==
    ASSUME UpgInv, [UpgNext]_upgVars, ~upgOverlap, upgFaults <= 1,
           upgRunning' # upgRunning, upgRunning # UpgNoRelease, upgRunning' # UpgNoRelease
    PROVE  UpgParses(upgRunning'.version) /\ UpgFollows(upgRunning'.version, upgRunning.version)
<1>1. UpgProcessEnds
  BY DEF UpgNext, FetchRelease, StageRelease, StageWritten, CheckStaged, BackUpSelf, InstallStaged,
     RestoreSelf, RemoveStaged, UpgradeRefused, Reexec, AgentCrash, upgVars
<1>2. upgSelf.state = "whole" /\ upgRunning' = upgSelf.release
  BY <1>1 DEF UpgProcessEnds
<1>3. (UpgAllIdle => UpgIntact) /\ \A g \in UpgRuns : UpgStands(g)
  BY DEF UpgInv, UpgSolo, UpgUp
<1>4. ~UpgIntact
  BY <1>2 DEF UpgIntact, UpgWhole
<1>5. PICK g \in UpgRuns : upgRun[g].at \notin {"idle", "fetched", "writing", "staged", "backup",
                                                "cleanup", "refused"}
  BY <1>3, <1>4 DEF UpgStands, UpgAllIdle
<1>6. upgRun[g].at \in {"install", "restore", "installed", "reexec"}
  BY <1>5 DEF UpgInv, UpgTypeOK, UpgPlaces, UpgIdle
<1>7. UpgFollowed(upgSelf)
  BY <1>2, <1>3, <1>4, <1>6 DEF UpgStands, UpgNone
<1> QED BY <1>2, <1>7, UpgNewerFollows DEF UpgFollowed

\* Whatever fails, crashes or upgrades beside it: only what is signed, or was
\* there before, is ever whole where the agent is started from; and one upgrade
\* alone with at most one failing call always leaves a whole release, reports an
\* error only over an untouched binary and never moves back (SelfUpgrade).
THEOREM UpgradePromises == UpgSpec => UpgPromises
<1>1. UpgInv => UpgOnlySigned
  <2> SUFFICES ASSUME UpgInv, NEW c \in {upgSelf, upgNew}, c.state = "whole"
               PROVE  c.release.signed \/ c.release \in {UpgInstalled, UpgOutgoing}
    BY DEF UpgOnlySigned, UpgGenuine
  <2>1. UpgOwn(c) /\ c # UpgNone
    BY DEF UpgInv, UpgProvenance, UpgNone
  <2> QED BY <2>1 DEF UpgOwn
<1>2. UpgInv => UpgRecoverable
  <2> SUFFICES ASSUME UpgInv, ~upgOverlap, upgFaults <= 1
               PROVE  upgSelf.state = "whole" \/ upgOld.state = "whole"
    BY DEF UpgRecoverable
  <2>1. ~UpgUp => upgOld.state = "whole"
    BY DEF UpgInv, UpgSolo
  <2>2. ASSUME UpgUp, ~UpgIntact, ~UpgFollowed(upgSelf) PROVE upgOld.state = "whole"
    <3>1. PICK g \in UpgRuns : upgRun[g].at \notin {"idle", "fetched", "writing", "staged", "backup",
                                                    "cleanup", "refused", "installed", "reexec"}
      BY <2>2 DEF UpgInv, UpgSolo, UpgStands, UpgAllIdle
    <3>2. upgRun[g].at \in {"install", "restore"} /\ UpgStands(g)
      BY <2>2, <3>1 DEF UpgInv, UpgSolo, UpgTypeOK, UpgPlaces, UpgIdle
    <3>3. upgOld = UpgWhole(upgRunning)
      BY <2>2, <3>2 DEF UpgStands
    <3> QED BY <3>3 DEF UpgWhole
  <2> QED BY <2>1, <2>2 DEF UpgIntact, UpgFollowed, UpgWhole
<1>3. UpgInv => UpgErrorChangesNothing
  <2> SUFFICES ASSUME UpgInv, NEW g \in UpgRuns, upgRun[g].at = "refused", upgBefore[g] # UpgNone,
                      ~upgOverlap, upgFaults <= 1
               PROVE  upgSelf = upgBefore[g]
    BY DEF UpgErrorChangesNothing
  <2>1. UpgUp
    BY DEF UpgInv, UpgSolo, UpgAllIdle
  <2> QED BY <2>1 DEF UpgInv, UpgSolo, UpgStands
<1>4. UpgInv /\ [UpgNext]_upgVars =>
        [~upgOverlap /\ upgFaults <= 1 /\ upgRunning' # upgRunning
           /\ {upgRunning, upgRunning'} \cap {UpgNoRelease} = {}
           => UpgParses(upgRunning'.version)
              /\ UpgFollows(upgRunning'.version, upgRunning.version)]_upgVars
  BY UpgForwardStep
<1>5. UpgSpec => UpgForward
  BY <1>4, UpgInvariant, PTL DEF UpgSpec, UpgForward
<1> QED BY <1>1, <1>2, <1>3, <1>5, UpgInvariant, PTL DEF UpgPromises

-----------------------------------------------------------------------------
(***************************************************************************)
(* Containment, for every report, set of pids and protected list, whatever *)
(* the host does meanwhile.                                                *)
(***************************************************************************)

ContFilePaths == ContPaths("file")
ContFacing == {"freeze", "capture", "kill"}

\* The pids of the processes in the report, and those that may be acted on
\* that hold a process of the payload.
ContFound == {p \in ContPids : \E f \in Range(ContFindings) : f.kind = "process" /\ f.pid = p}
ContAlive == {p \in ContPids \ ContProtected : contProc[p].who = "target"}
ContAllOff == \A l \in DOMAIN contLauncher : contLauncher[l] = "off"
ContStruck(p) == [pid |-> p, who |-> "target"] \in contHit

\* The stages of a process and of a file are those of the finding dealt with,
\* and the launchers come first.
ContStages ==
    /\ contPc = "launcher" => contNow # 0 /\ ContTarget.kind = "launcher"
    /\ contPc \in {"process", "respawn"} \cup ContFacing => contNow # 0 /\ ContTarget.kind = "process"
    /\ contPc \in {"file", "move", "settle"} => contNow # 0 /\ ContTarget.kind = "file"
    /\ contPc \in {"start", "launcher"} => contHit = {}
    /\ contPc \in {"process", "respawn", "file", "move", "settle"} \cup ContFacing =>
          \A i \in contTodo : ContFindings[i].kind # "launcher"
    /\ contHit # {} => \A i \in contTodo : ContFindings[i].kind # "launcher"

\* Whoever is about to be signalled is who was found, or it happened in between.
ContAimed ==
    contPc \in ContFacing =>
        /\ ~contDry /\ ContTarget.pid \notin ContProtected
        /\ \/ contProc[ContTarget.pid].who \in {"target", "twin"}
           \/ ContTarget.pid \in contRaced.pids

ContStopped ==
    \A p \in ContPids : contProc[p].stopped =>
        /\ contPc \in {"capture", "kill"} /\ ContTarget.pid = p
        /\ contProc[p].who # "none"

\* What of the payload still runs.
ContOutlived ==
    /\ ContAlive \subseteq ContFound \/ \E p \in ContPids : ContAlive \subseteq {p}
    /\ (ContAllOff /\ \E hit \in contHit : hit.who = "target") =>
          /\ ContAlive \subseteq ContFound
          /\ \A p \in ContAlive : ContStruck(p) => contPc \in {"capture", "kill"} /\ ContTarget.pid = p

\* The file about to be moved, and the one whose move is looked at.
ContMoving ==
    /\ contPc \in {"move", "settle"} => ~contDry
    /\ contPc = "move" => contFile[ContTarget.path] = "seen" \/ ContTarget.path \in contRaced.files
    /\ contPc = "settle" => contEvid[ContTarget.path] # "absent"
    /\ (contPc # "start" /\ contGate /\ ~contRaced.restore) =>
          \A f \in ContVital : contFile[f] = "absent" => contPc = "settle" /\ ContTarget.path = f

\* What is said of every moment of a run, not of its end.
ContActsRight == ContRightProcess /\ ContRightFile /\ ContNothingLost /\ ContDryTouchesNothing

ContInv ==
    /\ ContTypeOK /\ ContStages /\ ContAimed /\ ContStopped /\ ContOutlived /\ ContMoving
    /\ ContActsRight

\* ContInv implies what containment promises.
LEMMA ContInvSafe == ContInv => ContSafe
<1> SUFFICES ASSUME ContInv PROVE ContSafe
  OBVIOUS
<1>1. ContSiteKept
  BY DEF ContInv, ContMoving, ContSiteKept
<1>2. ContNoneFrozen
  BY DEF ContInv, ContStopped, ContNoneFrozen
<1>3. ContStaysDead
  BY DEF ContInv, ContOutlived, ContStaysDead, ContAllOff, ContAlive, ContFound, ContStruck
<1> QED BY <1>1, <1>2, <1>3 DEF ContInv, ContActsRight, ContSafe

-----------------------------------------------------------------------------
(* The initial states and the run *)

\* What is acted on is one of the findings, by its kind.
LEMMA ContTargetFacts ==
    ASSUME ContTypeOK, contNow # 0
    PROVE  /\ ContTarget \in Range(ContFindings)
           /\ ContTarget.kind = "process" => ContTarget.pid \in ContPids /\ ContTarget.pid \in ContFound
           /\ ContTarget.kind = "file" => ContTarget.path \in ContPaths("file")
           /\ ContTarget.kind = "launcher" => ContTarget.path \in ContPaths("launcher")
<1>1. contNow \in DOMAIN ContFindings
  BY DEF ContTypeOK, ContTargets
<1>2. ContTarget \in Range(ContFindings)
  BY <1>1 DEF Range, ContTarget
<1> QED BY <1>2, ContAssumption DEF ContPaths, ContFound

\* ContInv holds initially.
LEMMA ContInitInv == ContInit => ContInv
<1> SUFFICES ASSUME ContInit PROVE ContInv
  OBVIOUS
<1>1. ContTypeOK
  <2>1. contActions \in 0..ContMaxActions /\ contWorld \in 0..ContMaxWorld
    BY ContAssumption DEF ContInit
  <2>2. contProc \in [ContPids -> [who : {"target", "twin", "other", "none"}, stopped : BOOLEAN]]
    BY DEF ContInit
  <2> QED BY <2>1, <2>2 DEF ContInit, ContTypeOK
<1>2. ContStages /\ ContAimed /\ ContStopped
  BY DEF ContInit, ContStages, ContAimed, ContStopped, ContFacing
<1>3. ContOutlived
  <2>1. ContAlive \subseteq ContFound
    BY DEF ContInit, ContAlive, ContFound
  <2> QED BY <2>1 DEF ContInit, ContOutlived
<1>4. ContMoving
  BY DEF ContInit, ContMoving
<1>5. ContActsRight
  BY DEF ContInit, ContActsRight, ContRightProcess, ContRightFile, ContNothingLost, ContDryTouchesNothing
<1> QED BY <1>1, <1>2, <1>3, <1>4, <1>5 DEF ContInv

\* ContStart keeps ContInv.
LEMMA ContStartKeeps == ContInv /\ ContStart => ContInv'
<1> SUFFICES ASSUME ContInv, ContStart PROVE ContInv'
  OBVIOUS
<1> USE DEF contHost, contPlan
<1>1. ContTypeOK'
  BY DEF ContInv, ContTypeOK, ContStart, ContServing, ContGoes
<1>2. ContStages' /\ ContAimed' /\ ContStopped'
  BY DEF ContInv, ContStart, ContGoes, ContStages, ContAimed, ContStopped, ContFacing, ContTarget
<1>3. ContOutlived'
  BY DEF ContInv, ContStart, ContGoes, ContStages, ContOutlived, ContAlive, ContFound, ContAllOff, ContStruck
<1>4. ContMoving'
  BY DEF ContInv, ContStart, ContGoes, ContMoving, ContTarget, ContServing
<1>5. ContActsRight'
  BY DEF ContInv, ContStart, ContActsRight, ContRightProcess, ContRightFile, ContNothingLost, ContDryTouchesNothing
<1> QED BY <1>1, <1>2, <1>3, <1>4, <1>5 DEF ContInv

\* Launchers come before everything else.
LEMMA ContLaunchersFirst ==
    ASSUME NEW i \in ContTargets, NEW j \in ContTargets, ContBefore(i, j),
           ContFindings[i].kind # "launcher"
    PROVE  ContFindings[j].kind # "launcher"
<1>1. ContRank("launcher") = 1 /\ ContRank("process") = 2 /\ ContRank("file") = 3
  BY DEF ContRank
<1>2. ContFindings[i].kind \in ContKinds
  BY ContAssumption DEF ContTargets, Range
<1> QED BY <1>1, <1>2 DEF ContBefore, ContKinds

\* ContTake keeps ContInv.
LEMMA ContTakeKeeps == ContInv /\ ContTake => ContInv'
<1> SUFFICES ASSUME ContInv, ContTake PROVE ContInv'
  OBVIOUS
<1> USE DEF contHost, contPlan
<1>1. PICK i \in contTodo :
          /\ \A j \in contTodo \ {i} : ContBefore(i, j)
          /\ IF contActions >= ContMaxActions THEN ContGoes("done") /\ UNCHANGED contPlan
             ELSE /\ ContGoes(ContFindings[i].kind)
                  /\ contNow' = i /\ contTodo' = contTodo \ {i} /\ contActions' = contActions + 1
  BY DEF ContTake
<1>2. i \in ContTargets /\ i # 0 /\ ContFindings[i].kind \in ContKinds
  <2>1. i \in ContTargets /\ i \in DOMAIN ContFindings
    BY DEF ContInv, ContTypeOK, ContTargets
  <2>2. DOMAIN ContFindings = 1..Len(ContFindings) /\ Len(ContFindings) \in Nat
    BY ContAssumption
  <2>3. ContFindings[i] \in Range(ContFindings)
    BY <2>1 DEF Range
  <2> QED BY <2>1, <2>2, <2>3, ContAssumption
<1>3. contPc = "next" /\ UNCHANGED <<contDry, contGate, contHost, contHit, contRaced, contWorld>>
  BY DEF ContTake
<1>4. ASSUME contActions >= ContMaxActions PROVE ContInv'
  <2>1. ContGoes("done") /\ UNCHANGED contPlan
    BY <1>1, <1>4
  <2>2. ContTypeOK' /\ ContStages' /\ ContAimed' /\ ContStopped'
    BY <1>3, <2>1 DEF ContInv, ContTypeOK, ContStages, ContAimed, ContStopped, ContFacing, ContGoes
  <2>3. ContOutlived'
    BY <1>3, <2>1 DEF ContInv, ContOutlived, ContAlive, ContAllOff, ContStruck, ContGoes
  <2>4. ContMoving' /\ ContActsRight'
    BY <1>3, <2>1 DEF ContInv, ContMoving, ContGoes, ContActsRight, ContRightProcess, ContRightFile,
                      ContNothingLost, ContDryTouchesNothing
  <2> QED BY <2>2, <2>3, <2>4 DEF ContInv
<1>5. ASSUME ~(contActions >= ContMaxActions) PROVE ContInv'
  <2>1. contPc' = ContFindings[i].kind /\ contNow' = i /\ contTodo' = contTodo \ {i}
    BY <1>1, <1>5 DEF ContGoes
  <2>2. ContTypeOK'
    <3>1. contActions' = contActions + 1 /\ contActions' \in 0..ContMaxActions
      BY <1>1, <1>5, ContAssumption DEF ContInv, ContTypeOK
    <3> QED BY <1>2, <1>3, <2>1, <3>1 DEF ContInv, ContTypeOK, ContKinds
  <2>3. ContFindings[i].kind # "launcher" => \A j \in contTodo' : ContFindings[j].kind # "launcher"
    BY <1>1, <1>2, <2>1, ContLaunchersFirst DEF ContInv, ContTypeOK
  <2>4. ContStages'
    BY <1>2, <1>3, <2>1, <2>3 DEF ContInv, ContStages, ContKinds, ContFacing, ContTarget
  <2>5. ContAimed' /\ ContStopped'
    BY <1>2, <1>3, <2>1 DEF ContInv, ContAimed, ContStopped, ContFacing, ContKinds
  <2>6. ContOutlived'
    BY <1>3, <2>1 DEF ContInv, ContOutlived, ContAlive, ContAllOff, ContStruck
  <2>7. ContMoving' /\ ContActsRight'
    BY <1>2, <1>3, <2>1 DEF ContInv, ContMoving, ContKinds, ContActsRight, ContRightProcess,
                            ContRightFile, ContNothingLost, ContDryTouchesNothing
  <2> QED BY <2>2, <2>4, <2>5, <2>6, <2>7 DEF ContInv
<1> QED BY <1>4, <1>5

\* NeutralizePersistence keeps ContInv.
LEMMA NeutralizePersistenceKeeps == ContInv /\ NeutralizePersistence => ContInv'
<1> SUFFICES ASSUME ContInv, NeutralizePersistence PROVE ContInv'
  OBVIOUS
<1> USE DEF contHost, contPlan
<1>a. ContTarget.path \in ContPaths("launcher")
  BY ContTargetFacts DEF ContInv, ContStages, NeutralizePersistence
<1>1. ContTypeOK'
  BY <1>a DEF ContInv, NeutralizePersistence, ContNextTarget, ContTypeOK, ContStages, ContGoes
<1>2. ContStages'
  BY <1>a DEF ContInv, NeutralizePersistence, ContNextTarget, ContStages, ContFacing, ContTarget, ContGoes, ContTypeOK
<1>3. ContAimed'
  BY <1>a DEF ContInv, NeutralizePersistence, ContNextTarget, ContAimed, ContFacing, ContStages, ContTarget, ContGoes
<1>4. ContStopped'
  BY <1>a DEF ContInv, NeutralizePersistence, ContNextTarget, ContStopped, ContTarget, ContGoes
<1>5. ContOutlived'
  BY <1>a DEF ContInv, NeutralizePersistence, ContNextTarget, ContOutlived, ContStages, ContAlive, ContAllOff, ContStruck, ContTarget, ContGoes
<1>6. ContMoving'
  BY <1>a DEF ContInv, NeutralizePersistence, ContNextTarget, ContMoving, ContTarget, ContGoes
<1>7. ContActsRight'
  BY <1>a DEF ContInv, NeutralizePersistence, ContNextTarget, ContActsRight, ContRightProcess, ContRightFile, ContNothingLost, ContDryTouchesNothing
<1> QED BY <1>1, <1>2, <1>3, <1>4, <1>5, <1>6, <1>7 DEF ContInv

\* CheckProcess keeps ContInv.
LEMMA CheckProcessKeeps == ContInv /\ CheckProcess => ContInv'
<1> SUFFICES ASSUME ContInv, CheckProcess PROVE ContInv'
  OBVIOUS
<1> USE DEF contHost, contPlan
<1>1. ContTypeOK'
  BY DEF ContInv, CheckProcess, ContNextTarget, ContTypeOK, ContStages, ContGoes
<1>2. ContStages'
  BY DEF ContInv, CheckProcess, ContNextTarget, ContStages, ContFacing, ContTarget, ContGoes, ContTypeOK
<1>3. ContAimed'
  BY DEF ContInv, CheckProcess, ContNextTarget, ContAimed, ContFacing, ContStages, ContTarget, ContGoes
<1>4. ContStopped'
  BY DEF ContInv, CheckProcess, ContNextTarget, ContStopped, ContTarget, ContGoes
<1>5. ContOutlived'
  BY DEF ContInv, CheckProcess, ContNextTarget, ContOutlived, ContStages, ContAlive, ContAllOff, ContStruck, ContTarget, ContGoes
<1>6. ContMoving'
  BY DEF ContInv, CheckProcess, ContNextTarget, ContMoving, ContTarget, ContGoes
<1>7. ContActsRight'
  BY DEF ContInv, CheckProcess, ContNextTarget, ContActsRight, ContRightProcess, ContRightFile, ContNothingLost, ContDryTouchesNothing
<1> QED BY <1>1, <1>2, <1>3, <1>4, <1>5, <1>6, <1>7 DEF ContInv

\* FreezeProcess keeps ContInv.
LEMMA FreezeProcessKeeps == ContInv /\ FreezeProcess => ContInv'
<1> SUFFICES ASSUME ContInv, FreezeProcess PROVE ContInv'
  OBVIOUS
<1> USE DEF contHost, contPlan
<1> DEFINE p == ContTarget.pid
<1>1. p \in ContPids /\ p \in ContFound
  BY ContTargetFacts DEF ContInv, ContStages, ContFacing, FreezeProcess
<1>2. UNCHANGED <<contDry, contPlan, contGate, contLauncher, contFile, contEvid, contBroken,
                  contRaced, contWorld>> /\ contPc = "freeze" /\ ContTarget' = ContTarget
  BY DEF FreezeProcess, ContTarget
<1>3. ASSUME ContNextTarget, UNCHANGED <<contProc, contHit>> PROVE ContInv'
  <2>1. ContTypeOK' /\ ContStages' /\ ContAimed' /\ ContStopped'
    BY <1>2, <1>3 DEF ContInv, ContNextTarget, ContGoes, ContTypeOK, ContStages, ContAimed, ContStopped,
                      ContFacing
  <2>2. ContOutlived' /\ ContMoving'
    BY <1>2, <1>3 DEF ContInv, ContNextTarget, ContGoes, ContOutlived, ContAlive, ContAllOff, ContStruck,
                      ContMoving
  <2>3. ContActsRight'
    BY <1>2, <1>3 DEF ContInv, ContActsRight, ContRightProcess, ContRightFile, ContNothingLost,
                      ContDryTouchesNothing
  <2> QED BY <2>1, <2>2, <2>3 DEF ContInv
<1>4. ASSUME contProc[p].who # "none", contProc' = [contProc EXCEPT ![p].stopped = TRUE],
             ContSignal(p), ContGoes("capture")
      PROVE  ContInv'
  <2>1. /\ contProc[p].who \in {"target", "twin", "other"}
        /\ contHit' = contHit \cup {[pid |-> p, who |-> contProc[p].who]} /\ contPc' = "capture"
    BY <1>1, <1>4 DEF ContInv, ContTypeOK, ContSignal, ContGoes
  <2>2. \A q \in ContPids : /\ contProc'[q].who = contProc[q].who
                            /\ contProc'[q].stopped => q = p \/ contProc[q].stopped
    BY <1>1, <1>4 DEF ContInv, ContTypeOK
  <2> HIDE DEF p
  <2>3. ContTypeOK'
    <3>1. contProc' \in [ContPids -> [who : {"target", "twin", "other", "none"}, stopped : BOOLEAN]]
      BY <1>1, <1>4 DEF ContInv, ContTypeOK
    <3>2. contHit' \subseteq [pid : ContPids, who : {"target", "twin", "other"}]
      BY <1>1, <2>1 DEF ContInv, ContTypeOK
    <3> QED BY <1>2, <2>1, <3>1, <3>2 DEF ContInv, ContTypeOK
  <2>4. ContStages'
    BY <1>2, <2>1 DEF ContInv, ContStages, ContFacing
  <2>5. ContAimed' /\ ContStopped'
    BY <1>1, <1>2, <2>1, <2>2 DEF ContInv, ContAimed, ContStopped, ContFacing, p
  <2>6. ContOutlived'
    <3>1. ContAlive' = ContAlive
      BY <2>2 DEF ContAlive
    <3>2. ContAllOff' = ContAllOff
      BY <1>2 DEF ContAllOff
    <3>3. p \notin ContProtected
      BY <1>2 DEF ContInv, ContAimed, ContFacing, p
    <3>4. contProc[p].who = "target" => p \in ContAlive
      BY <1>1, <3>3 DEF ContAlive
    <3>5. (\E hit \in contHit' : hit.who = "target") =>
              p \in ContAlive \/ \E hit \in contHit : hit.who = "target"
      BY <2>1, <3>4
    <3>6. \A q \in ContAlive : ContStruck(q)' => q = p \/ ContStruck(q)
      BY <2>1 DEF ContStruck
    <3>7. ASSUME ContAllOff, \E hit \in contHit' : hit.who = "target"
          PROVE  ContAlive \subseteq ContFound /\ \A q \in ContAlive : ContStruck(q)' => q = p
      <4>1. CASE \E hit \in contHit : hit.who = "target"
        BY <1>2, <3>6, <3>7, <4>1 DEF ContInv, ContOutlived
      <4>2. CASE ~\E hit \in contHit : hit.who = "target"
        <5>1. p \in ContAlive
          BY <3>5, <3>7, <4>2
        <5>2. ContAlive \subseteq ContFound
          BY <1>1, <5>1 DEF ContInv, ContOutlived
        <5>3. \A q \in ContAlive : ~ContStruck(q)
          BY <4>2 DEF ContStruck
        <5> QED BY <3>6, <5>2, <5>3
      <4> QED BY <4>1, <4>2
    <3>8. ContAlive \subseteq ContFound \/ \E q \in ContPids : ContAlive \subseteq {q}
      BY DEF ContInv, ContOutlived
    <3>9. ContFound' = ContFound
      BY DEF ContFound
    <3> QED BY <1>2, <2>1, <3>1, <3>2, <3>7, <3>8, <3>9 DEF ContOutlived, p
  <2>7. ContMoving'
    BY <1>2, <2>1 DEF ContInv, ContMoving
  <2>8. ContActsRight'
    <3>1. ContRightProcess'
      BY <1>2, <2>1 DEF ContInv, ContActsRight, ContAimed, ContFacing, ContRightProcess, p
    <3> QED BY <1>2, <3>1 DEF ContInv, ContActsRight, ContRightFile, ContNothingLost,
                              ContDryTouchesNothing, ContAimed, ContFacing
  <2> QED BY <2>3, <2>4, <2>5, <2>6, <2>7, <2>8 DEF ContInv
<1> QED BY <1>3, <1>4 DEF FreezeProcess

\* CaptureProcess keeps ContInv.
LEMMA CaptureProcessKeeps == ContInv /\ CaptureProcess => ContInv'
<1> SUFFICES ASSUME ContInv, CaptureProcess PROVE ContInv'
  OBVIOUS
<1> USE DEF contHost, contPlan
<1>1. ContTypeOK'
  BY DEF ContInv, CaptureProcess, ContTypeOK, ContStages, ContGoes
<1>2. ContStages'
  BY DEF ContInv, CaptureProcess, ContStages, ContFacing, ContTarget, ContGoes, ContTypeOK
<1>3. ContAimed'
  BY DEF ContInv, CaptureProcess, ContAimed, ContFacing, ContStages, ContTarget, ContGoes
<1>4. ContStopped'
  BY DEF ContInv, CaptureProcess, ContStopped, ContTarget, ContGoes
<1>5. ContOutlived'
  BY DEF ContInv, CaptureProcess, ContOutlived, ContStages, ContAlive, ContAllOff, ContStruck, ContTarget, ContGoes
<1>6. ContMoving'
  BY DEF ContInv, CaptureProcess, ContMoving, ContTarget, ContGoes
<1>7. ContActsRight'
  BY DEF ContInv, CaptureProcess, ContActsRight, ContRightProcess, ContRightFile, ContNothingLost, ContDryTouchesNothing
<1> QED BY <1>1, <1>2, <1>3, <1>4, <1>5, <1>6, <1>7 DEF ContInv

\* KillProcess keeps ContInv.
LEMMA KillProcessKeeps == ContInv /\ KillProcess => ContInv'
<1> SUFFICES ASSUME ContInv, KillProcess PROVE ContInv'
  OBVIOUS
<1> USE DEF contHost, contPlan
<1> DEFINE p == ContTarget.pid
<1>1. p \in ContPids /\ p \in ContFound
  BY ContTargetFacts DEF ContInv, ContStages, ContFacing, KillProcess
<1>2. UNCHANGED <<contDry, contPlan, contGate, contLauncher, contFile, contEvid, contBroken,
                  contRaced, contWorld>> /\ contPc = "kill" /\ contPc' = "respawn"
      /\ ContTarget' = ContTarget
  BY DEF KillProcess, ContTarget, ContGoes
<1>3. \/ contProc[p].who = "none" /\ UNCHANGED <<contProc, contHit>>
      \/ /\ contProc[p].who # "none"
         /\ contProc' = [contProc EXCEPT ![p] = [who |-> "none", stopped |-> FALSE]]
         /\ contHit' = contHit \cup {[pid |-> p, who |-> contProc[p].who]}
  BY DEF KillProcess, ContSignal
<1>4. \A q \in ContPids \ {p} : contProc'[q] = contProc[q]
  BY <1>1, <1>3 DEF ContInv, ContTypeOK
<1>5. contProc'[p].who = "none" /\ ~contProc'[p].stopped
  BY <1>1, <1>3 DEF ContInv, ContTypeOK, ContStopped
<1> HIDE DEF p
<1>6. ContTypeOK'
  <2>1. contProc' \in [ContPids -> [who : {"target", "twin", "other", "none"}, stopped : BOOLEAN]]
    <3>1. [who |-> "none", stopped |-> FALSE]
              \in [who : {"target", "twin", "other", "none"}, stopped : BOOLEAN]
      OBVIOUS
    <3> QED BY <1>1, <1>3, <3>1 DEF ContInv, ContTypeOK
  <2>2. contHit' \subseteq [pid : ContPids, who : {"target", "twin", "other"}]
    BY <1>1, <1>3 DEF ContInv, ContTypeOK
  <2> QED BY <1>2, <2>1, <2>2 DEF ContInv, ContTypeOK
<1>7. ContStages' /\ ContAimed'
  BY <1>2 DEF ContInv, ContStages, ContAimed, ContFacing
<1>8. ContStopped'
  BY <1>2, <1>4, <1>5 DEF ContInv, ContStopped, p
<1>9. ContOutlived'
  <2>1. ContAlive' = ContAlive \ {p}
    BY <1>4, <1>5 DEF ContAlive
  <2>2. ContAllOff' = ContAllOff
    BY <1>2 DEF ContAllOff
  <2>3. p \notin ContProtected
    BY <1>2 DEF ContInv, ContAimed, ContFacing, p
  <2>4. contProc[p].who = "target" => p \in ContAlive
    BY <1>1, <2>3 DEF ContAlive
  <2>5. (\E hit \in contHit' : hit.who = "target") =>
            p \in ContAlive \/ \E hit \in contHit : hit.who = "target"
    BY <1>3, <2>4
  <2>6. \A q \in ContAlive' : ContStruck(q)' => ContStruck(q)
    BY <1>3, <2>1 DEF ContStruck
  <2>7. ContAlive' \subseteq ContFound \/ \E q \in ContPids : ContAlive' \subseteq {q}
    BY <2>1 DEF ContInv, ContOutlived
  <2>8. ASSUME ContAllOff', \E hit \in contHit' : hit.who = "target"
        PROVE  ContAlive' \subseteq ContFound /\ \A q \in ContAlive' : ~ContStruck(q)'
    <3>1. CASE \E hit \in contHit : hit.who = "target"
      BY <1>2, <2>1, <2>2, <2>6, <2>8, <3>1 DEF ContInv, ContOutlived, p
    <3>2. CASE ~\E hit \in contHit : hit.who = "target"
      <4>1. p \in ContAlive
        BY <2>5, <2>8, <3>2
      <4>2. ContAlive \subseteq ContFound
        BY <1>1, <4>1 DEF ContInv, ContOutlived
      <4>3. \A q \in ContAlive : ~ContStruck(q)
        BY <3>2 DEF ContStruck
      <4> QED BY <2>1, <2>6, <4>2, <4>3
    <3> QED BY <3>1, <3>2
  <2> QED BY <2>7, <2>8 DEF ContOutlived, ContFound
<1>10. ContMoving'
  BY <1>2 DEF ContInv, ContMoving
<1>11. ContActsRight'
  <2>1. ContRightProcess'
    <3>1. contProc[p].who # "none" => contProc[p].who \in {"target", "twin"} \/ p \in contRaced.pids
      BY <1>2 DEF ContInv, ContAimed, ContFacing, p
    <3>2. p \notin ContProtected
      BY <1>2 DEF ContInv, ContAimed, ContFacing, p
    <3> QED BY <1>2, <1>3, <3>1, <3>2 DEF ContInv, ContActsRight, ContRightProcess
  <2> QED BY <1>2, <2>1 DEF ContInv, ContActsRight, ContRightFile, ContNothingLost,
                            ContDryTouchesNothing, ContAimed, ContFacing
<1> QED BY <1>6, <1>7, <1>8, <1>9, <1>10, <1>11 DEF ContInv

\* FindRespawn keeps ContInv.
LEMMA FindRespawnKeeps == ContInv /\ FindRespawn => ContInv'
<1> SUFFICES ASSUME ContInv, FindRespawn PROVE ContInv'
  OBVIOUS
<1> USE DEF contHost, contPlan
<1>1. ContTypeOK'
  BY DEF ContInv, FindRespawn, ContNextTarget, ContTypeOK, ContStages, ContGoes
<1>2. ContStages'
  BY DEF ContInv, FindRespawn, ContNextTarget, ContStages, ContFacing, ContTarget, ContGoes, ContTypeOK
<1>3. ContAimed'
  BY DEF ContInv, FindRespawn, ContNextTarget, ContAimed, ContFacing, ContStages, ContTarget, ContGoes
<1>4. ContStopped'
  BY DEF ContInv, FindRespawn, ContNextTarget, ContStopped, ContTarget, ContGoes
<1>5. ContOutlived'
  BY DEF ContInv, FindRespawn, ContNextTarget, ContOutlived, ContStages, ContAlive, ContAllOff, ContStruck, ContTarget, ContGoes
<1>6. ContMoving'
  BY DEF ContInv, FindRespawn, ContNextTarget, ContMoving, ContTarget, ContGoes
<1>7. ContActsRight'
  BY DEF ContInv, FindRespawn, ContNextTarget, ContActsRight, ContRightProcess, ContRightFile, ContNothingLost, ContDryTouchesNothing
<1> QED BY <1>1, <1>2, <1>3, <1>4, <1>5, <1>6, <1>7 DEF ContInv

\* CheckFile keeps ContInv.
LEMMA CheckFileKeeps == ContInv /\ CheckFile => ContInv'
<1> SUFFICES ASSUME ContInv, CheckFile PROVE ContInv'
  OBVIOUS
<1> USE DEF contHost, contPlan
<1>1. ContTypeOK'
  BY DEF ContInv, CheckFile, ContNextTarget, ContTypeOK, ContStages, ContGoes
<1>2. ContStages'
  BY DEF ContInv, CheckFile, ContNextTarget, ContStages, ContFacing, ContTarget, ContGoes, ContTypeOK
<1>3. ContAimed'
  BY DEF ContInv, CheckFile, ContNextTarget, ContAimed, ContFacing, ContStages, ContTarget, ContGoes
<1>4. ContStopped'
  BY DEF ContInv, CheckFile, ContNextTarget, ContStopped, ContTarget, ContGoes
<1>5. ContOutlived'
  BY DEF ContInv, CheckFile, ContNextTarget, ContOutlived, ContStages, ContAlive, ContAllOff, ContStruck, ContTarget, ContGoes
<1>6. ContMoving'
  BY DEF ContInv, CheckFile, ContNextTarget, ContMoving, ContTarget, ContGoes
<1>7. ContActsRight'
  BY DEF ContInv, CheckFile, ContNextTarget, ContActsRight, ContRightProcess, ContRightFile, ContNothingLost, ContDryTouchesNothing
<1> QED BY <1>1, <1>2, <1>3, <1>4, <1>5, <1>6, <1>7 DEF ContInv

\* MoveFile keeps ContInv.
LEMMA MoveFileKeeps == ContInv /\ MoveFile => ContInv'
<1> SUFFICES ASSUME ContInv, MoveFile PROVE ContInv'
  OBVIOUS
<1> USE DEF contHost, contPlan
<1> DEFINE f == ContTarget.path
<1>1. f \in ContPaths("file")
  BY ContTargetFacts DEF ContInv, ContStages, MoveFile
<1>2. /\ UNCHANGED <<contDry, contPlan, contGate, contProc, contLauncher, contBroken, contHit, contRaced,
                     contWorld>>
      /\ contPc = "move" /\ ContTarget' = ContTarget
  BY DEF MoveFile, ContTarget
<1>3. contPc' \in {"next", "settle"} /\ (contPc' = "settle" => contFile' # contFile)
  BY <1>1 DEF ContInv, ContTypeOK, MoveFile, ContNextTarget, ContGoes
<1>4. \/ UNCHANGED <<contFile, contEvid>>
      \/ contFile[f] # "absent" /\ contEvid' = [contEvid EXCEPT ![f] = contFile[f]] /\ UNCHANGED contFile
      \/ /\ contFile[f] # "absent" /\ contEvid' = [contEvid EXCEPT ![f] = contFile[f]]
         /\ contFile' = [contFile EXCEPT ![f] = "absent"] /\ (contGate => contPc' = "settle")
  BY DEF MoveFile, ContGoes
<1>5. contFile[f] \in {"seen", "changed", "absent"} /\ ~contDry
      /\ (contFile[f] = "seen" \/ f \in contRaced.files)
  BY <1>1, <1>2 DEF ContInv, ContTypeOK, ContMoving
<1> HIDE DEF f
<1>6. ContTypeOK'
  BY <1>1, <1>2, <1>3, <1>4, <1>5 DEF ContInv, ContTypeOK
<1>7. ContStages' /\ ContAimed' /\ ContStopped'
  BY <1>2, <1>3 DEF ContInv, ContStages, ContAimed, ContStopped, ContFacing
<1>8. ContOutlived'
  BY <1>2, <1>3 DEF ContInv, ContOutlived, ContAlive, ContAllOff, ContStruck
<1>9. \A g \in ContPaths("file") : contEvid'[g] = contEvid[g] \/ (g = f /\ contEvid'[g] = contFile[f])
  BY <1>1, <1>4 DEF ContInv, ContTypeOK
<1>10. \A g \in ContPaths("file") : contFile'[g] = contFile[g]
                                    \/ (g = f /\ contFile[f] # "absent" /\ contEvid'[f] = contFile[f]
                                        /\ (contGate => contPc' = "settle"))
  BY <1>1, <1>4 DEF ContInv, ContTypeOK
<1>11. DOMAIN contEvid = ContPaths("file") /\ DOMAIN contFile = ContPaths("file")
       /\ DOMAIN contEvid' = ContPaths("file") /\ DOMAIN contFile' = ContPaths("file")
  BY <1>6 DEF ContInv, ContTypeOK
<1>12. ContMoving'
  <2>1. contPc' = "settle" => contEvid'[f] # "absent"
    BY <1>1, <1>3, <1>4 DEF ContInv, ContTypeOK
  <2>2. ASSUME contGate, ~contRaced.restore, NEW g \in ContVital, contFile'[g] = "absent"
        PROVE  contPc' = "settle" /\ g = f
    <3>1. g \in ContPaths("file") /\ contFile[g] # "absent"
      BY <1>2, <2>2, ContAssumption DEF ContInv, ContMoving
    <3> QED BY <1>10, <2>2, <3>1
  <2> QED BY <1>2, <1>3, <1>5, <2>1, <2>2 DEF ContMoving, f
<1>13. ContActsRight'
  <2>1. ContRightProcess'
    BY <1>2 DEF ContInv, ContActsRight, ContRightProcess
  <2>2. ContRightFile'
    BY <1>2, <1>5, <1>9, <1>11 DEF ContInv, ContActsRight, ContRightFile
  <2>3. ContNothingLost'
    <3>1. ASSUME NEW g \in ContPaths("file"), contFile'[g] = "absent" PROVE contEvid'[g] # "absent"
      <4>1. CASE contFile'[g] = contFile[g]
        <5>1. contEvid[g] # "absent" /\ contFile[g] = "absent"
          BY <1>11, <3>1, <4>1 DEF ContInv, ContActsRight, ContNothingLost
        <5>2. contEvid'[g] = contEvid[g] \/ contFile[f] # "absent"
          BY <1>4
        <5> QED BY <1>9, <5>1, <5>2
      <4>2. CASE contFile'[g] # contFile[g]
        BY <1>10, <4>2
      <4> QED BY <4>1, <4>2
    <3> QED BY <1>11, <3>1 DEF ContNothingLost
  <2>4. ContDryTouchesNothing'
    BY <1>2, <1>5 DEF ContDryTouchesNothing
  <2> QED BY <2>1, <2>2, <2>3, <2>4 DEF ContActsRight
<1> QED BY <1>6, <1>7, <1>8, <1>12, <1>13 DEF ContInv

\* SettleFile keeps ContInv.
LEMMA SettleFileKeeps == ContInv /\ SettleFile => ContInv'
<1> SUFFICES ASSUME ContInv, SettleFile PROVE ContInv'
  OBVIOUS
<1> USE DEF contHost, contPlan
<1> DEFINE f == ContTarget.path
<1>1. f \in ContPaths("file")
  BY ContTargetFacts DEF ContInv, ContStages, SettleFile
<1>2. /\ UNCHANGED <<contDry, contPlan, contGate, contProc, contLauncher, contBroken, contHit, contWorld>>
      /\ contPc = "settle" /\ contPc' \in {"next", "done"}
  BY DEF SettleFile, ContNextTarget, ContGoes
<1>3. contEvid[f] \in {"seen", "changed"} /\ ~contDry
  BY <1>1, <1>2 DEF ContInv, ContTypeOK, ContMoving
<1>4. \/ ContServing /\ UNCHANGED <<contFile, contEvid, contRaced>>
      \/ /\ contFile' = [contFile EXCEPT ![f] = contEvid[f]]
         /\ contEvid' \in {contEvid, [contEvid EXCEPT ![f] = "absent"]}
         /\ UNCHANGED contRaced
      \/ /\ contRaced' = [contRaced EXCEPT !.restore = TRUE]
         /\ UNCHANGED <<contFile, contEvid>>
  BY DEF SettleFile, RestoreQuarantine
<1> HIDE DEF f
<1>5. contRaced'.pids = contRaced.pids /\ contRaced'.files = contRaced.files
  BY <1>4 DEF ContInv, ContTypeOK
<1>6. ContTypeOK'
  BY <1>1, <1>2, <1>3, <1>4 DEF ContInv, ContTypeOK
<1>7. ContStages' /\ ContAimed' /\ ContStopped'
  BY <1>2 DEF ContInv, ContStages, ContAimed, ContStopped, ContFacing
<1>8. ContOutlived'
  BY <1>2 DEF ContInv, ContOutlived, ContAlive, ContAllOff, ContStruck
<1>9. \A g \in ContPaths("file") : contEvid'[g] \in {contEvid[g], "absent"}
                                   /\ (contEvid'[g] # contEvid[g] => g = f /\ contFile'[f] # "absent")
  BY <1>1, <1>3, <1>4 DEF ContInv, ContTypeOK
<1>10. \A g \in ContPaths("file") : contFile'[g] = contFile[g] \/ (g = f /\ contFile'[f] # "absent")
  BY <1>1, <1>3, <1>4 DEF ContInv, ContTypeOK
<1>11. DOMAIN contEvid = ContPaths("file") /\ DOMAIN contFile = ContPaths("file")
       /\ DOMAIN contEvid' = ContPaths("file") /\ DOMAIN contFile' = ContPaths("file")
  BY <1>6 DEF ContInv, ContTypeOK
<1>12. ContMoving'
  <2>1. ASSUME contGate, ~contRaced'.restore, NEW g \in ContVital PROVE contFile'[g] # "absent"
    <3>1. g \in ContPaths("file")
      BY ContAssumption
    <3>2. CASE ContServing /\ UNCHANGED <<contFile, contEvid, contRaced>>
      BY <3>2 DEF ContServing
    <3>3. CASE contFile' = [contFile EXCEPT ![f] = contEvid[f]] /\ UNCHANGED contRaced
      <4>1. g # f => contFile[g] # "absent"
        BY <1>2, <2>1, <3>3 DEF ContInv, ContMoving, f
      <4>2. contFile'[f] # "absent"
        BY <1>1, <1>3, <3>3 DEF ContInv, ContTypeOK
      <4> QED BY <1>10, <3>1, <4>1, <4>2
    <3>4. CASE contRaced' = [contRaced EXCEPT !.restore = TRUE]
      BY <2>1, <3>4 DEF ContInv, ContTypeOK
    <3> QED BY <1>4, <3>2, <3>3, <3>4
  <2> QED BY <1>2, <2>1 DEF ContMoving
<1>13. ContActsRight'
  <2>1. ContRightProcess'
    BY <1>2, <1>5 DEF ContInv, ContActsRight, ContRightProcess
  <2>2. ContRightFile'
    BY <1>5, <1>9, <1>11 DEF ContInv, ContActsRight, ContRightFile
  <2>3. ContNothingLost'
    BY <1>9, <1>10, <1>11 DEF ContInv, ContActsRight, ContNothingLost
  <2>4. ContDryTouchesNothing'
    BY <1>2, <1>3 DEF ContDryTouchesNothing
  <2> QED BY <2>1, <2>2, <2>3, <2>4 DEF ContActsRight
<1> QED BY <1>6, <1>7, <1>8, <1>12, <1>13 DEF ContInv

\* FlushOPcache keeps ContInv.
LEMMA FlushOPcacheKeeps == ContInv /\ FlushOPcache => ContInv'
<1> SUFFICES ASSUME ContInv, FlushOPcache PROVE ContInv'
  OBVIOUS
<1> USE DEF contHost, contPlan
<1>1. ContTypeOK'
  BY DEF ContInv, FlushOPcache, ContTypeOK, ContStages, ContGoes
<1>2. ContStages'
  BY DEF ContInv, FlushOPcache, ContStages, ContFacing, ContTarget, ContGoes, ContTypeOK
<1>3. ContAimed'
  BY DEF ContInv, FlushOPcache, ContAimed, ContFacing, ContStages, ContTarget, ContGoes
<1>4. ContStopped'
  BY DEF ContInv, FlushOPcache, ContStopped, ContTarget, ContGoes
<1>5. ContOutlived'
  BY DEF ContInv, FlushOPcache, ContOutlived, ContStages, ContAlive, ContAllOff, ContStruck, ContTarget, ContGoes
<1>6. ContMoving'
  BY DEF ContInv, FlushOPcache, ContMoving, ContTarget, ContGoes
<1>7. ContActsRight'
  BY DEF ContInv, FlushOPcache, ContActsRight, ContRightProcess, ContRightFile, ContNothingLost, ContDryTouchesNothing
<1> QED BY <1>1, <1>2, <1>3, <1>4, <1>5, <1>6, <1>7 DEF ContInv

-----------------------------------------------------------------------------
(* The host goes on *)

\* HostExit keeps ContInv.
LEMMA HostExitKeeps == ASSUME NEW p \in ContPids PROVE ContInv /\ HostExit(p) => ContInv'
<1> SUFFICES ASSUME ContInv, HostExit(p) PROVE ContInv'
  OBVIOUS
<1> USE DEF contPlan
<1>1. /\ UNCHANGED <<contDry, contPc, contPlan, contGate, contEvid, contHit, contLauncher, contFile,
                     contBroken>>
      /\ contPc # "done" /\ ContTarget' = ContTarget /\ contWorld' \in 0..ContMaxWorld
  BY ContAssumption DEF HostExit, ContWorldStep, ContTarget, ContInv, ContTypeOK
<1>2. /\ contProc' = [contProc EXCEPT ![p] = [who |-> "none", stopped |-> FALSE]]
      /\ contRaced' = IF contPc \in ContFacing /\ ContTarget.pid = p
                      THEN [contRaced EXCEPT !.pids = @ \cup {p}] ELSE contRaced
  BY DEF HostExit, ContRaceProcess, ContFacing
<1>3. /\ \A q \in ContPids \ {p} : contProc'[q] = contProc[q]
      /\ contProc'[p].who = "none" /\ ~contProc'[p].stopped
  BY <1>2 DEF ContInv, ContTypeOK
<1>4. /\ contRaced'.files = contRaced.files /\ contRaced'.restore = contRaced.restore
      /\ contRaced.pids \subseteq contRaced'.pids
      /\ (contPc \in ContFacing /\ ContTarget.pid = p => p \in contRaced'.pids)
  BY <1>2 DEF ContInv, ContTypeOK
<1>5. ContTypeOK'
  <2>1. [who |-> "none", stopped |-> FALSE]
            \in [who : {"target", "twin", "other", "none"}, stopped : BOOLEAN]
    OBVIOUS
  <2>2. contProc' \in [ContPids -> [who : {"target", "twin", "other", "none"}, stopped : BOOLEAN]]
    BY <1>2, <2>1 DEF ContInv, ContTypeOK
  <2> QED BY <1>1, <1>2, <2>2 DEF ContInv, ContTypeOK
<1>6. ContStages'
  BY <1>1 DEF ContInv, ContStages
<1>7. ContAimed'
  <2>1. ASSUME contPc \in ContFacing
        PROVE  contProc'[ContTarget.pid].who \in {"target", "twin"} \/ ContTarget.pid \in contRaced'.pids
    <3>1. ContTarget.pid \in ContPids
      BY <2>1, ContTargetFacts DEF ContInv, ContStages
    <3> QED BY <1>3, <1>4, <2>1, <3>1 DEF ContInv, ContAimed
  <2> QED BY <1>1, <2>1 DEF ContInv, ContAimed
<1>8. ContStopped'
  BY <1>1, <1>3 DEF ContInv, ContStopped
<1>9. ContOutlived'
  <2>1. ContAlive' \subseteq ContAlive
    BY <1>3 DEF ContAlive
  <2> QED BY <1>1, <2>1 DEF ContInv, ContOutlived, ContAllOff, ContStruck, ContFound
<1>10. ContMoving' /\ ContActsRight'
  BY <1>1, <1>4 DEF ContInv, ContMoving, ContActsRight, ContRightProcess, ContRightFile, ContNothingLost,
                    ContDryTouchesNothing
<1> QED BY <1>5, <1>6, <1>7, <1>8, <1>9, <1>10 DEF ContInv

\* A pid is given to a new process: of the payload's name or not.
LEMMA HostStartsKeep ==
    ASSUME NEW p \in ContPids, NEW who \in {"target", "twin", "other"}, ContInv, ContWorldStep,
           contProc[p].who = "none", contProc' = [contProc EXCEPT ![p].who = who],
           UNCHANGED <<contRaced, contLauncher, contFile, contBroken>>,
           who = "target" => ContAlive = {} /\ ~ContAllOff
    PROVE  ContInv'
<1> USE DEF contPlan
<1>1. /\ UNCHANGED <<contDry, contPc, contPlan, contGate, contEvid, contHit, contLauncher, contFile,
                     contBroken, contRaced>>
      /\ contPc # "done" /\ ContTarget' = ContTarget /\ contWorld' \in 0..ContMaxWorld
  BY ContAssumption DEF ContWorldStep, ContTarget, ContInv, ContTypeOK
<1>2. /\ \A q \in ContPids \ {p} : contProc'[q] = contProc[q]
      /\ contProc'[p].who = who /\ ~contProc'[p].stopped
  BY DEF ContInv, ContTypeOK, ContStopped
<1>3. ContTypeOK'
  <2>1. contProc' \in [ContPids -> [who : {"target", "twin", "other", "none"}, stopped : BOOLEAN]]
    BY DEF ContInv, ContTypeOK
  <2> QED BY <1>1, <2>1 DEF ContInv, ContTypeOK
<1>4. ContStages'
  BY <1>1 DEF ContInv, ContStages
<1>5. ContAimed'
  <2>1. ASSUME contPc \in ContFacing
        PROVE  contProc'[ContTarget.pid].who \in {"target", "twin"} \/ ContTarget.pid \in contRaced.pids
    <3>1. ContTarget.pid \in ContPids
      BY <2>1, ContTargetFacts DEF ContInv, ContStages
    <3> QED BY <1>2, <2>1, <3>1 DEF ContInv, ContAimed
  <2> QED BY <1>1, <2>1 DEF ContInv, ContAimed
<1>6. ContStopped'
  BY <1>1, <1>2 DEF ContInv, ContStopped
<1>7. ContOutlived'
  <2>1. CASE who = "target"
    <3>1. ContAlive' \subseteq {p} /\ ~ContAllOff'
      BY <1>1, <1>2, <2>1 DEF ContAlive, ContAllOff
    <3> QED BY <3>1 DEF ContOutlived
  <2>2. CASE who # "target"
    <3>1. ContAlive' = ContAlive
      BY <1>2, <2>2 DEF ContAlive
    <3> QED BY <1>1, <3>1 DEF ContInv, ContOutlived, ContAllOff, ContStruck, ContFound
  <2> QED BY <2>1, <2>2
<1>8. ContMoving' /\ ContActsRight'
  BY <1>1 DEF ContInv, ContMoving, ContActsRight, ContRightProcess, ContRightFile, ContNothingLost,
              ContDryTouchesNothing
<1> QED BY <1>3, <1>4, <1>5, <1>6, <1>7, <1>8 DEF ContInv

\* HostReuse keeps ContInv.
LEMMA HostReuseKeeps == ASSUME NEW p \in ContPids PROVE ContInv /\ HostReuse(p) => ContInv'
<1> SUFFICES ASSUME ContInv, HostReuse(p) PROVE ContInv'
  OBVIOUS
<1>1. PICK who \in {"twin", "other"} : contProc' = [contProc EXCEPT ![p].who = who]
  BY DEF HostReuse
<1>2. ContWorldStep /\ contProc[p].who = "none" /\ UNCHANGED <<contRaced, contLauncher, contFile, contBroken>>
  BY DEF HostReuse
<1> QED BY <1>1, <1>2, HostStartsKeep

\* HostRespawn keeps ContInv.
LEMMA HostRespawnKeeps == ASSUME NEW p \in ContPids PROVE ContInv /\ HostRespawn(p) => ContInv'
<1> SUFFICES ASSUME ContInv, HostRespawn(p) PROVE ContInv'
  OBVIOUS
<1>1. ContAlive = {} /\ ~ContAllOff
  BY DEF HostRespawn, ContAlive, ContAllOff
<1>2. /\ ContWorldStep /\ contProc[p].who = "none"
      /\ contProc' = [contProc EXCEPT ![p].who = "target"]
      /\ UNCHANGED <<contRaced, contLauncher, contFile, contBroken>>
  BY DEF HostRespawn
<1> QED BY <1>1, <1>2, HostStartsKeep

\* HostEdit keeps ContInv.
LEMMA HostEditKeeps == ContInv /\ HostEdit => ContInv'
<1> SUFFICES ASSUME ContInv, HostEdit PROVE ContInv'
  OBVIOUS
<1> USE DEF contPlan
<1>1. /\ UNCHANGED <<contDry, contPc, contPlan, contGate, contEvid, contHit, contProc, contBroken>>
      /\ contPc # "done" /\ ContTarget' = ContTarget /\ contWorld' \in 0..ContMaxWorld
  BY ContAssumption DEF HostEdit, ContWorldStep, ContTarget, ContInv, ContTypeOK
<1>2. ContStages' /\ ContStopped'
  BY <1>1 DEF ContInv, ContStages, ContStopped
<1>3. ASSUME NEW l \in DOMAIN contLauncher, contLauncher[l] = "active",
             contLauncher' = [contLauncher EXCEPT ![l] = "moved"], UNCHANGED <<contFile, contRaced>>
      PROVE  ContInv'
  <2>1. /\ DOMAIN contLauncher' = DOMAIN contLauncher
        /\ \A k \in DOMAIN contLauncher : contLauncher'[k] = "off" <=> contLauncher[k] = "off"
    BY <1>3 DEF ContInv, ContTypeOK
  <2>2. ContTypeOK'
    BY <1>1, <1>3 DEF ContInv, ContTypeOK
  <2>3. ContAimed' /\ ContMoving'
    BY <1>1, <1>3 DEF ContInv, ContAimed, ContMoving
  <2>4. ContOutlived'
    <3>1. ContAllOff' = ContAllOff
      BY <2>1 DEF ContAllOff
    <3> QED BY <1>1, <3>1 DEF ContInv, ContOutlived, ContAlive, ContStruck, ContFound
  <2>5. ContActsRight'
    BY <1>1, <1>3, <2>1 DEF ContInv, ContActsRight, ContRightProcess, ContRightFile, ContNothingLost,
                            ContDryTouchesNothing
  <2> QED BY <1>2, <2>2, <2>3, <2>4, <2>5 DEF ContInv
<1>4. ASSUME NEW f \in DOMAIN contFile, contFile' = [contFile EXCEPT ![f] = "changed"], ContRace(f),
             UNCHANGED contLauncher
      PROVE  ContInv'
  <2>1. /\ contRaced'.pids = contRaced.pids /\ contRaced'.restore = contRaced.restore
        /\ contRaced.files \subseteq contRaced'.files
        /\ (contPc = "move" /\ ContTarget.path = f => f \in contRaced'.files)
    BY <1>4 DEF ContInv, ContTypeOK, ContRace
  <2>2. \A g \in ContPaths("file") : contFile'[g] = contFile[g] \/ (g = f /\ contFile'[f] = "changed")
    BY <1>4 DEF ContInv, ContTypeOK
  <2>3. ContTypeOK'
    <3>1. contRaced' \in [pids : SUBSET ContPids, files : SUBSET ContPaths("file"), restore : BOOLEAN]
      BY <1>4 DEF ContInv, ContTypeOK, ContRace
    <3> QED BY <1>1, <1>4, <3>1 DEF ContInv, ContTypeOK
  <2>4. ContAimed' /\ ContOutlived'
    BY <1>1, <1>4, <2>1 DEF ContInv, ContAimed, ContOutlived, ContAlive, ContAllOff, ContStruck, ContFound
  <2>5. ContMoving'
    <3>1. ASSUME contPc = "move" PROVE contFile'[ContTarget.path] = "seen" \/ ContTarget.path \in contRaced'.files
      <4>1. ContTarget.path \in ContPaths("file")
        BY <3>1, ContTargetFacts DEF ContInv, ContStages
      <4> QED BY <2>1, <2>2, <3>1, <4>1 DEF ContInv, ContMoving
    <3>2. \A g \in ContVital : contFile'[g] = "absent" => contFile[g] = "absent"
      BY <2>2, ContAssumption
    <3> QED BY <1>1, <2>1, <3>1, <3>2 DEF ContInv, ContMoving
  <2>6. ContActsRight'
    <3>1. DOMAIN contFile' = ContPaths("file") /\ DOMAIN contFile = ContPaths("file")
      BY <1>4 DEF ContInv, ContTypeOK
    <3> QED BY <1>1, <1>4, <2>1, <2>2, <3>1 DEF ContInv, ContActsRight, ContRightProcess, ContRightFile,
                                                ContNothingLost, ContDryTouchesNothing
  <2> QED BY <1>2, <2>3, <2>4, <2>5, <2>6 DEF ContInv
<1> QED BY <1>3, <1>4 DEF HostEdit

\* HostBreaks keeps ContInv.
LEMMA HostBreaksKeeps == ContInv /\ HostBreaks => ContInv'
<1> SUFFICES ASSUME ContInv, HostBreaks PROVE ContInv'
  OBVIOUS
<1> USE DEF contPlan
<1>1. /\ UNCHANGED <<contDry, contPc, contPlan, contGate, contEvid, contHit, contProc, contLauncher,
                     contFile, contRaced>>
      /\ ContTarget' = ContTarget /\ contWorld' \in 0..ContMaxWorld /\ contBroken' \in BOOLEAN
  BY ContAssumption DEF HostBreaks, ContWorldStep, ContTarget, ContInv, ContTypeOK
<1>2. ContTypeOK' /\ ContStages' /\ ContAimed' /\ ContStopped'
  BY <1>1 DEF ContInv, ContTypeOK, ContStages, ContAimed, ContStopped
<1>3. ContOutlived' /\ ContMoving'
  BY <1>1 DEF ContInv, ContOutlived, ContAlive, ContAllOff, ContStruck, ContFound, ContMoving
<1>4. ContActsRight'
  BY <1>1 DEF ContInv, ContActsRight, ContRightProcess, ContRightFile, ContNothingLost, ContDryTouchesNothing
<1> QED BY <1>2, <1>3, <1>4 DEF ContInv

\* Stuttering keeps ContInv.
LEMMA ContStutterKeeps == ContInv /\ UNCHANGED contVars => ContInv'
<1> SUFFICES ASSUME ContInv, UNCHANGED contVars PROVE ContInv'
  OBVIOUS
<1> USE DEF contVars
<1>1. ContTypeOK' /\ ContStages' /\ ContAimed' /\ ContStopped'
  BY DEF ContInv, ContTypeOK, ContStages, ContAimed, ContStopped, ContTarget
<1>2. ContOutlived' /\ ContMoving'
  BY DEF ContInv, ContOutlived, ContAlive, ContAllOff, ContStruck, ContFound, ContMoving, ContTarget
<1>3. ContActsRight'
  BY DEF ContInv, ContActsRight, ContRightProcess, ContRightFile, ContNothingLost, ContDryTouchesNothing
<1> QED BY <1>1, <1>2, <1>3 DEF ContInv

\* Every step keeps ContInv.
LEMMA ContStepInv == ContInv /\ [ContNext]_contVars => ContInv'
<1> SUFFICES ASSUME ContInv, [ContNext]_contVars PROVE ContInv'
  OBVIOUS
<1>1. CASE ContAgent
  BY <1>1, ContStartKeeps, ContTakeKeeps, NeutralizePersistenceKeeps, CheckProcessKeeps, FreezeProcessKeeps,
     CaptureProcessKeeps, KillProcessKeeps, FindRespawnKeeps, CheckFileKeeps, MoveFileKeeps,
     SettleFileKeeps, FlushOPcacheKeeps DEF ContAgent
<1>2. CASE \E p \in ContPids : HostExit(p) \/ HostReuse(p) \/ HostRespawn(p)
  BY <1>2, HostExitKeeps, HostReuseKeeps, HostRespawnKeeps
<1> QED BY <1>1, <1>2, HostEditKeeps, HostBreaksKeeps, ContStutterKeeps DEF ContNext

\* Containment acts on what the scan saw and on nothing else, keeps the site
\* serving and its evidence and leaves nothing half done, whatever the host
\* does meanwhile (runContainment, contain.go).
THEOREM ContainmentActsRight == ContSpec => []ContSafe
<1>1. ContSpec => []ContInv
  BY ContInitInv, ContStepInv, PTL DEF ContSpec
<1> QED BY <1>1, ContInvSafe, PTL

\* What is done to hosts leaves them as it was told to: the sweep that takes
\* the agent there (run.go) and containment (contain.go).
THEOREM HostsAreKept == CtlSpec /\ ContSpec => []HostsKept
<1>1. CtlSafe /\ ContSafe => HostsKept
  BY DEF HostsKept
<1> QED BY <1>1, CtlSafety, ContainmentActsRight, PTL

-----------------------------------------------------------------------------
(***************************************************************************)
(* The scan, for every tree, number of workers, channel and batch size,    *)
(* and any bound on faults.                                                *)
(***************************************************************************)

\* Where a file is: the walk has passed it, has it in hand, or sent it, or a
\* worker has it.
ScanBusy(w) == scanAt[w].stage \notin {"take", "returned"}
ScanSeen(f) == \E i \in 1..scanWalked : ScanTree[i] = f
ScanQueued(f) == \E i \in 1..Len(scanJobs) : scanJobs[i] = f
ScanHeld(f) == \E w \in ScanWorkers : ScanBusy(w) /\ scanAt[w].file = f
ScanOver(f) == f \in scanDone \cup scanUnstat

\* A file is in one place at most, and in none before the walk passes it.
ScanPlaced(f) ==
    /\ f = scanHand => ScanSeen(f) /\ ~ScanQueued(f) /\ ~ScanHeld(f) /\ ~ScanOver(f)
    /\ ScanQueued(f) => ScanSeen(f) /\ ~ScanHeld(f) /\ ~ScanOver(f)
    /\ ScanHeld(f) => ScanSeen(f) /\ ~ScanOver(f)
    /\ ScanOver(f) => ScanSeen(f)

ScanApart ==
    /\ \A i, j \in 1..Len(scanJobs) : scanJobs[i] = scanJobs[j] => i = j
    /\ \A v, w \in ScanWorkers :
          ScanBusy(v) /\ ScanBusy(w) /\ scanAt[v].file = scanAt[w].file => v = w
    /\ \A w \in ScanWorkers : ScanBusy(w) => scanAt[w].file \in ScanFiles

\* What was passed and is nowhere any more.
ScanLost ==
    {f \in ScanFiles : ScanSeen(f) /\ f # scanHand /\ ~ScanQueued(f) /\ ~ScanHeld(f) /\ ~ScanOver(f)}

\* The context was not seen to end while it mattered.
ScanComplete ==
    /\ scanRep.errors = 0
    /\ scanPc \in {"report", "closed"} \/ ~scanExpired

\* What is lost is counted.
ScanBooks == ScanComplete => IsFiniteSet(ScanLost) /\ Cardinality(ScanLost) = ScanCounted

\* Where the run stands.
ScanEnded == {"others", "finalize", "report", "closed"}
ScanStands ==
    /\ scanPc # "walk" => scanHand = ScanNone
    /\ scanPc = "interrupted" => scanExpired
    /\ scanPc = "drain" => scanWalked = Len(ScanTree)
    /\ scanPc \in ScanEnded =>
          /\ \A w \in ScanWorkers : scanAt[w].stage = "returned"
          /\ ScanComplete => scanWalked = Len(ScanTree) /\ scanJobs = <<>>
    /\ (~scanExpired /\ \E w \in ScanWorkers : scanAt[w].stage = "returned") =>
          scanJobs = <<>> /\ scanPc # "walk"
    /\ IF scanPc \in {"report", "closed"} THEN scanRep.verdict = Verdict(scanRep)
       ELSE scanRep.verdict = ScanNone

\* An engine has looked at the worker's file and found what it holds.
ScanBefore(e, d) == (e = "rules" /\ d # "rules") \/ (e = "heuristics" /\ d = "yara")
ScanEmitted(w) ==
    LET h == ScanHolds[scanAt[w].file]
        e == scanAt[w].engine
    IN  ScanBefore(h, e) \/ (h = e /\ scanAt[w].stage \in {"stream", "flush", "post", "next"})

ScanLooks(w) ==
    ScanBusy(w) =>
        /\ scanAt[w].file \in scanRep.findings <=> ScanEmitted(w)
        /\ scanAt[w].stage \in {"emit", "stream", "flush", "post"} =>
              ScanHolds[scanAt[w].file] = scanAt[w].engine
        /\ scanAt[w].stage = "read" => scanAt[w].engine = "rules"

ScanFound ==
    /\ \A f \in scanDone : ScanHolds[f] \in ScanEngines => f \in scanRep.findings
    /\ \A f \in scanRep.findings : ScanSeen(f) /\ f # scanHand /\ ~ScanQueued(f)

\* Where a finding is in the sink.
ScanInBuf(f) == \E k \in 1..Len(scanSink.buf) : scanSink.buf[k] = f
ScanInBatch(w, f) == \E k \in 1..Len(scanAt[w].batch) : scanAt[w].batch[k] = f
ScanInPosted(f) ==
    \E i \in 1..Len(scanSink.posted) :
        \E k \in 1..Len(scanSink.posted[i]) : scanSink.posted[i][k] = f

\* What was posted holds no finding twice.
ScanPostedOnce(p) ==
    \A i, j \in 1..Len(p) :
        \A k \in 1..Len(p[i]), l \in 1..Len(p[j]) : p[i][k] = p[j][l] => i = j /\ k = l

\* A finding is in it once, unless its worker still has to hand it over.
ScanSunk(f) ==
    /\ ScanInBuf(f) => ~ScanInPosted(f)
    /\ \A w \in ScanWorkers : ScanInBatch(w, f) => ~ScanInBuf(f) /\ ~ScanInPosted(f)
    /\ \A v, w \in ScanWorkers : ScanInBatch(v, f) /\ ScanInBatch(w, f) => v = w
    /\ LET sunk == ScanInBuf(f) \/ ScanInPosted(f) \/ \E w \in ScanWorkers : ScanInBatch(w, f)
           due == \E w \in ScanWorkers : scanAt[w].stage = "stream" /\ scanAt[w].file = f
       IN  sunk <=> f \in scanRep.findings /\ ~due

ScanOnce(s) == \A k, l \in 1..Len(s) : s[k] = s[l] => k = l
ScanSinkOnce ==
    /\ ScanOnce(scanSink.buf) /\ \A w \in ScanWorkers : ScanOnce(scanAt[w].batch)
    /\ ScanPostedOnce(scanSink.posted)
    /\ \A w \in ScanWorkers : scanAt[w].batch # <<>> => scanAt[w].stage = "post"
    /\ scanPc = "closed" => scanSink.buf = <<>>

ScanInv ==
    /\ ScanTypeOK
    /\ (\A f \in ScanFiles : ScanPlaced(f)) /\ ScanApart /\ ScanBooks
    /\ ScanStands
    /\ (\A w \in ScanWorkers : ScanLooks(w)) /\ ScanFound
    /\ (\A f \in ScanFiles : ScanSunk(f)) /\ ScanSinkOnce

-----------------------------------------------------------------------------
(* Parts *)

\* The walk passes every file once.
LEMMA ScanTreeFacts ==
    /\ Len(ScanTree) \in Nat
    /\ \A i \in 1..Len(ScanTree) : ScanTree[i] \in DOMAIN ScanHolds
    /\ \A i, j \in 1..Len(ScanTree) : ScanTree[i] = ScanTree[j] => i = j
    /\ \A f \in ScanFiles : \E i \in 1..Len(ScanTree) : ScanTree[i] = f
<1>1. Len(ScanTree) \in Nat /\ DOMAIN ScanTree = 1..Len(ScanTree)
  BY ScanAssumption, LenProperties
<1>2. \A i \in 1..Len(ScanTree) : ScanTree[i] \in DOMAIN ScanHolds
  BY ScanAssumption, ElementOfSeq
<1> QED BY <1>1, <1>2, ScanAssumption DEF IsInjective, Range

\* The files are not the constants of the model.
LEMMA ScanConstants ==
    /\ ScanChannel \in Nat \ {0} /\ ScanBatch \in Nat \ {0} /\ ScanMaxFaults \in Nat
    /\ ScanNone \notin ScanFiles /\ ScanWorkers # {}
    /\ \A f \in ScanFiles : ScanHolds[f] \in {"clean", "published"} \cup ScanEngines
    /\ <<>> \in Seq(ScanFiles) /\ Len(<<>>) = 0
<1>1. \A f \in ScanFiles : ScanHolds[f] \in {"clean", "published"} \cup ScanEngines
  BY ScanAssumption DEF ScanFiles
<1> QED BY <1>1, ScanAssumption

\* A step that leaves a file where it is.
ScanSame(f) ==
    /\ ScanSeen(f)' <=> ScanSeen(f)
    /\ (f = scanHand') <=> (f = scanHand)
    /\ ScanQueued(f)' <=> ScanQueued(f)
    /\ ScanHeld(f)' <=> ScanHeld(f)
    /\ ScanOver(f)' <=> ScanOver(f)

\* A file nothing happened to is where it was.
LEMMA ScanSamePlaced ==
    ASSUME NEW f, ScanSame(f), ScanPlaced(f)
    PROVE  ScanPlaced(f)'
  BY DEF ScanSame, ScanPlaced

\* If nothing happened to any file, the lost ones are the same.
LEMMA ScanSameLost ==
    ASSUME \A f \in ScanFiles : ScanSame(f)
    PROVE  ScanLost' = ScanLost
  BY DEF ScanSame, ScanLost

\* One file moves, and is lost or is not.
LEMMA ScanMovesLost ==
    ASSUME NEW g \in ScanFiles, \A f \in ScanFiles \ {g} : ScanSame(f), g \notin ScanLost
    PROVE  /\ g \notin ScanLost' => ScanLost' = ScanLost
           /\ g \in ScanLost' => ScanLost' = ScanLost \cup {g}
<1>1. \A f \in ScanFiles \ {g} : f \in ScanLost' <=> f \in ScanLost
  BY DEF ScanSame, ScanLost
<1>2. ScanLost \subseteq ScanFiles /\ ScanLost' \subseteq ScanFiles
  BY DEF ScanLost
<1> QED BY <1>1, <1>2

\* The books when nothing is lost, and when one file is.
LEMMA ScanBooksStay ==
    ASSUME ScanBooks, ScanComplete' => ScanComplete, ScanLost' = ScanLost,
           ScanComplete => ScanCounted' = ScanCounted
    PROVE  ScanBooks'
  BY DEF ScanBooks

\* One more lost file, counted once, keeps the books.
LEMMA ScanBooksGrow ==
    ASSUME ScanTypeOK, ScanBooks, ScanComplete' => ScanComplete,
           NEW g, g \notin ScanLost, ScanLost' = ScanLost \cup {g},
           ScanCounted' = ScanCounted + 1
    PROVE  ScanBooks'
<1> SUFFICES ASSUME ScanComplete
             PROVE  IsFiniteSet(ScanLost') /\ Cardinality(ScanLost') = ScanCounted'
  BY DEF ScanBooks
<1>1. IsFiniteSet(ScanLost) /\ Cardinality(ScanLost) = ScanCounted
  BY DEF ScanBooks
<1> QED BY <1>1, FS_AddElement

\* A step of a worker.
LEMMA ScanAtFields ==
    ASSUME ScanTypeOK, NEW w \in ScanWorkers, NEW s,
           s \in {"take", "read", "look", "emit", "stream", "flush", "post", "next", "returned"},
           ScanWorkerTo(w, s)
    PROVE  /\ scanAt' \in [ScanWorkers -> ScanAts]
           /\ scanAt'[w].stage = s /\ scanAt'[w].engine = scanAt[w].engine
           /\ scanAt'[w].file = scanAt[w].file /\ scanAt'[w].batch = scanAt[w].batch
           /\ \A v \in ScanWorkers \ {w} : scanAt'[v] = scanAt[v]
<1>1. scanAt \in [ScanWorkers -> ScanAts] /\ scanAt[w] \in ScanAts
  BY DEF ScanTypeOK
<1>2. scanAt' = [scanAt EXCEPT ![w] = [scanAt[w] EXCEPT !.stage = s]]
  BY <1>1 DEF ScanWorkerTo
<1>3. [scanAt[w] EXCEPT !.stage = s] \in ScanAts
  BY <1>1 DEF ScanAts
<1>4. scanAt'[w] = [scanAt[w] EXCEPT !.stage = s] /\ scanAt' \in [ScanWorkers -> ScanAts]
  BY <1>1, <1>2, <1>3
<1>5. /\ scanAt'[w].stage = s /\ scanAt'[w].engine = scanAt[w].engine
      /\ scanAt'[w].file = scanAt[w].file /\ scanAt'[w].batch = scanAt[w].batch
  BY <1>1, <1>4 DEF ScanAts
<1> QED BY <1>1, <1>2, <1>4, <1>5

\* The report's fields.
LEMMA ScanRepFields ==
    ASSUME ScanTypeOK
    PROVE  /\ scanRep.findings \subseteq ScanFiles /\ scanRep.checks \subseteq ScanChecks
           /\ scanRep.errors \in Nat /\ scanRep.readErrors \in Nat /\ scanRep.slow \in Nat
           /\ scanRep.verdict \in {ScanNone, "clean", "dirty", "partial"}
           /\ ScanCounted \in Nat
  BY DEF ScanTypeOK, ScanReports, ScanCounted

-----------------------------------------------------------------------------
(* The walk *)

\* The walk leaves the workers and the sink alone.
LEMMA ScanMainFrame ==
    ASSUME ScanInv, scanAt' = scanAt, scanSink' = scanSink, scanRep'.findings = scanRep.findings,
           scanPc' # "closed"
    PROVE  /\ \A w \in ScanWorkers : ScanLooks(w)'
           /\ \A f \in ScanFiles : ScanSunk(f)'
           /\ ScanSinkOnce'
           /\ \A f : ScanHeld(f)' <=> ScanHeld(f)
  BY DEF ScanInv, ScanLooks, ScanEmitted, ScanBusy, ScanSunk, ScanInBuf, ScanInBatch, ScanInPosted,
     ScanSinkOnce, ScanOnce, ScanHeld

\* ScanVisit keeps ScanInv.
LEMMA ScanVisitKeeps == ScanInv /\ ScanVisit => ScanInv'
<1> SUFFICES ASSUME ScanInv, ScanVisit PROVE ScanInv'
  OBVIOUS
<1>0. PICK g : g = ScanTree[scanWalked + 1]
  OBVIOUS
<1>1. /\ scanPc = "walk" /\ ~scanExpired /\ scanHand = ScanNone /\ scanWalked < Len(ScanTree)
      /\ scanWalked' = scanWalked + 1
      /\ UNCHANGED <<scanPc, scanJobs, scanAt, scanExpired, scanSink, scanDone>>
  BY DEF ScanVisit
<1>2. \/ g \notin ScanFiles /\ UNCHANGED <<scanHand, scanRep, scanUnstat, scanFaults>>
      \/ g \in ScanFiles /\ scanHand' = g /\ UNCHANGED <<scanRep, scanUnstat, scanFaults>>
      \/ /\ g \in ScanFiles /\ scanFaults < ScanMaxFaults /\ scanFaults' = scanFaults + 1
         /\ scanHand' = scanHand
         /\ \/ scanRep' = [scanRep EXCEPT !.errors = @ + 1] /\ scanUnstat' = scanUnstat
            \/ scanUnstat' = scanUnstat \cup {g} /\ scanRep' = scanRep
  BY <1>0 DEF ScanVisit
<1>3. /\ scanWalked \in Nat /\ Len(ScanTree) \in Nat /\ scanWalked + 1 \in 1..Len(ScanTree)
      /\ scanFaults \in 0..ScanMaxFaults /\ ScanMaxFaults \in Nat
  BY <1>1, ScanTreeFacts, ScanConstants DEF ScanInv, ScanTypeOK
<1>4. \A f : ScanSeen(f)' <=> ScanSeen(f) \/ f = g
  BY <1>0, <1>1, <1>3 DEF ScanSeen
<1>5. ~ScanSeen(g)
  BY <1>0, <1>3, ScanTreeFacts DEF ScanSeen
<1>6. /\ scanRep' \in ScanReports /\ scanRep'.findings = scanRep.findings
      /\ scanRep'.checks = scanRep.checks /\ scanRep'.verdict = scanRep.verdict
      /\ scanRep'.readErrors = scanRep.readErrors /\ scanRep'.slow = scanRep.slow
      /\ scanRep'.errors = 0 => scanRep.errors = 0
      /\ scanRep' # scanRep => scanRep'.errors # 0
  <2>1. scanRep \in ScanReports
    BY DEF ScanInv, ScanTypeOK
  <2>2. CASE scanRep' = scanRep
    BY <2>1, <2>2
  <2>3. CASE scanRep' = [scanRep EXCEPT !.errors = @ + 1]
    <3>1. scanRep.errors \in Nat
      BY <2>1 DEF ScanReports
    <3>2. scanRep.errors + 1 \in Nat /\ scanRep.errors + 1 # 0
      BY <3>1
    <3> QED BY <2>1, <2>3, <3>2 DEF ScanReports
  <2> QED BY <1>2, <2>2, <2>3
<1>7. ScanTypeOK'
  <2>1. scanFaults' \in 0..ScanMaxFaults
    BY <1>2, <1>3
  <2>2. scanWalked' \in 0..Len(ScanTree)
    BY <1>1, <1>3
  <2>3. scanHand' \in ScanFiles \cup {ScanNone} /\ scanUnstat' \subseteq ScanFiles
    BY <1>2 DEF ScanInv, ScanTypeOK
  <2> QED BY <1>1, <1>6, <2>1, <2>2, <2>3 DEF ScanInv, ScanTypeOK
<1>8. /\ \A w \in ScanWorkers : ScanLooks(w)'
      /\ \A f \in ScanFiles : ScanSunk(f)'
      /\ ScanSinkOnce'
      /\ \A f : ScanHeld(f)' <=> ScanHeld(f)
  BY <1>1, <1>6, ScanMainFrame
<1>9. \A f : ScanQueued(f)' <=> ScanQueued(f)
  BY <1>1 DEF ScanQueued
<1>10. \A f \in ScanFiles \ {g} : ScanSame(f)
  BY <1>1, <1>2, <1>4, <1>8, <1>9, ScanConstants DEF ScanSame, ScanOver
<1>11. g \in ScanFiles => /\ ~ScanQueued(g) /\ ~ScanHeld(g) /\ ~ScanOver(g) /\ g # scanHand
                          /\ g \notin ScanLost
  BY <1>5 DEF ScanInv, ScanPlaced, ScanLost
<1>12. ASSUME NEW f \in ScanFiles PROVE ScanPlaced(f)'
  <2>1. CASE f # g
    BY <1>10, <2>1, ScanSamePlaced DEF ScanInv
  <2>2. CASE f = g
    <3>1. ScanSeen(g)' /\ ~ScanQueued(g)' /\ ~ScanHeld(g)'
      BY <1>4, <1>8, <1>9, <1>11, <2>2
    <3>2. g = scanHand' => ~ScanOver(g)'
      BY <1>1, <1>2, <1>11, <2>2, ScanConstants DEF ScanOver
    <3> QED BY <2>2, <3>1, <3>2 DEF ScanPlaced
  <2> QED BY <2>1, <2>2
<1>13. ScanApart'
  BY <1>1 DEF ScanInv, ScanApart, ScanBusy
<1>14. ScanBooks'
  <2>1. CASE scanRep' # scanRep
    BY <1>6, <2>1 DEF ScanBooks, ScanComplete
  <2>2. CASE scanRep' = scanRep
    <3>1. ScanComplete' => ScanComplete
      BY <1>1, <2>2 DEF ScanComplete
    <3>2. ScanLost' = ScanLost
      <4>1. CASE g \notin ScanFiles
        BY <1>10, <4>1, ScanSameLost
      <4>2. CASE g \in ScanFiles
        <5>1. g = scanHand' \/ ScanOver(g)'
          <6>1. CASE scanHand' = g
            BY <6>1
          <6>2. CASE scanHand' # g
            <7> DEFINE worse == [scanRep EXCEPT !.errors = @ + 1]
            <7>1. scanRep # worse
              <8>1. scanRep \in ScanReports /\ scanRep.errors \in Nat
                BY ScanRepFields DEF ScanInv, ScanTypeOK
              <8>2. worse.errors = scanRep.errors + 1
                BY <8>1 DEF ScanReports
              <8>3. scanRep.errors + 1 # scanRep.errors
                BY <8>1
              <8> HIDE DEF worse
              <8> QED BY <8>2, <8>3
            <7>2. scanRep' = worse \/ scanUnstat' = scanUnstat \cup {g}
              BY <1>2, <4>2, <6>2
            <7> HIDE DEF worse
            <7> QED BY <2>2, <7>1, <7>2 DEF ScanOver
          <6> QED BY <6>1, <6>2
        <5>2. g \notin ScanLost'
          BY <5>1 DEF ScanLost
        <5> QED BY <1>10, <1>11, <4>2, <5>2, ScanMovesLost
      <4> QED BY <4>1, <4>2
    <3> QED BY <2>2, <3>1, <3>2, ScanBooksStay DEF ScanInv, ScanCounted
  <2> QED BY <2>1, <2>2
<1>15. ScanStands'
  BY <1>1, <1>6 DEF ScanInv, ScanStands, ScanEnded
<1>16. ScanFound'
  <2>1. \A f \in scanRep.findings : ScanSeen(f) /\ f # scanHand /\ ~ScanQueued(f) /\ f \in ScanFiles
    BY ScanRepFields DEF ScanInv, ScanFound
  <2>2. \A f \in scanRep.findings : f # g
    BY <1>5, <2>1
  <2>3. \A f \in scanRep.findings : f # scanHand'
    BY <1>2, <2>1, <2>2
  <2> QED BY <1>1, <1>4, <1>6, <1>9, <2>1, <2>3 DEF ScanInv, ScanFound
<1> QED BY <1>7, <1>8, <1>12, <1>13, <1>14, <1>15, <1>16 DEF ScanInv

\* ScanSend keeps ScanInv.
LEMMA ScanSendKeeps == ScanInv /\ ScanSend => ScanInv'
<1> SUFFICES ASSUME ScanInv, ScanSend PROVE ScanInv'
  OBVIOUS
<1>0. PICK g : g = scanHand
  OBVIOUS
<1>1. /\ scanPc = "walk" /\ g # ScanNone /\ Len(scanJobs) < ScanChannel
      /\ scanJobs' = Append(scanJobs, g) /\ scanHand' = ScanNone
      /\ UNCHANGED <<scanPc, scanWalked, scanAt, scanExpired, scanRep, scanSink>>
      /\ UNCHANGED <<scanDone, scanUnstat, scanFaults>>
  BY <1>0 DEF ScanSend
<1>2. g \in ScanFiles /\ scanJobs \in Seq(ScanFiles) /\ Len(scanJobs) \in Nat
  BY <1>0, <1>1, LenProperties DEF ScanInv, ScanTypeOK
<1>3. /\ scanJobs' \in Seq(ScanFiles) /\ Len(scanJobs') = Len(scanJobs) + 1
      /\ \A i \in 1..Len(scanJobs) : scanJobs'[i] = scanJobs[i]
      /\ scanJobs'[Len(scanJobs) + 1] = g
  BY <1>1, <1>2, AppendProperties
<1>4. ScanTypeOK'
  <2>1. Len(scanJobs') <= ScanChannel
    BY <1>1, <1>2, <1>3, ScanConstants
  <2> QED BY <1>1, <1>3, <2>1 DEF ScanInv, ScanTypeOK
<1>5. \A f : ScanQueued(f)' <=> ScanQueued(f) \/ f = g
  BY <1>2, <1>3 DEF ScanQueued
<1>6. /\ \A w \in ScanWorkers : ScanLooks(w)'
      /\ \A f \in ScanFiles : ScanSunk(f)'
      /\ ScanSinkOnce'
      /\ \A f : ScanHeld(f)' <=> ScanHeld(f)
  BY <1>1, ScanMainFrame
<1>7. \A f : (ScanSeen(f)' <=> ScanSeen(f)) /\ (ScanOver(f)' <=> ScanOver(f))
  BY <1>1 DEF ScanSeen, ScanOver
<1>8. \A f \in ScanFiles \ {g} : ScanSame(f)
  BY <1>0, <1>1, <1>5, <1>6, <1>7, ScanConstants DEF ScanSame
<1>9. ScanSeen(g) /\ ~ScanQueued(g) /\ ~ScanHeld(g) /\ ~ScanOver(g) /\ g \notin ScanLost
  BY <1>0, <1>2 DEF ScanInv, ScanPlaced, ScanLost
<1>10. ASSUME NEW f \in ScanFiles PROVE ScanPlaced(f)'
  <2>1. CASE f # g
    BY <1>8, <2>1, ScanSamePlaced DEF ScanInv
  <2>2. CASE f = g
    <3>1. ScanSeen(g)' /\ ~ScanHeld(g)' /\ ~ScanOver(g)' /\ g # scanHand'
      BY <1>1, <1>6, <1>7, <1>9
    <3> QED BY <2>2, <3>1 DEF ScanPlaced
  <2> QED BY <2>1, <2>2
<1>11. ScanApart'
  <2>1. \A i \in 1..Len(scanJobs) : scanJobs[i] # g
    BY <1>9 DEF ScanQueued
  <2>2. \A i, j \in 1..(Len(scanJobs) + 1) : scanJobs'[i] = scanJobs'[j] => i = j
    <3> SUFFICES ASSUME NEW i \in 1..(Len(scanJobs) + 1), NEW j \in 1..(Len(scanJobs) + 1),
                        scanJobs'[i] = scanJobs'[j]
                 PROVE  i = j
      OBVIOUS
    <3>1. i \in 1..Len(scanJobs) \/ i = Len(scanJobs) + 1
      BY <1>2
    <3>2. j \in 1..Len(scanJobs) \/ j = Len(scanJobs) + 1
      BY <1>2
    <3> QED BY <1>3, <2>1, <3>1, <3>2 DEF ScanInv, ScanApart
  <2> QED BY <1>1, <1>3, <2>2 DEF ScanInv, ScanApart, ScanBusy
<1>12. ScanBooks'
  <2>1. g \notin ScanLost'
    BY <1>5 DEF ScanLost
  <2>2. ScanLost' = ScanLost
    BY <1>2, <1>8, <1>9, <2>1, ScanMovesLost
  <2> QED BY <1>1, <2>2, ScanBooksStay DEF ScanInv, ScanCounted, ScanComplete
<1>13. ScanStands'
  BY <1>1 DEF ScanInv, ScanStands, ScanEnded
<1>14. ScanFound'
  <2>1. \A f \in scanRep.findings : f # g /\ f # ScanNone
    BY <1>0, ScanRepFields, ScanConstants DEF ScanInv, ScanFound
  <2> QED BY <1>1, <1>5, <1>7, <2>1 DEF ScanInv, ScanFound
<1> QED BY <1>4, <1>6, <1>10, <1>11, <1>12, <1>13, <1>14 DEF ScanInv

\* A file in hand may be dropped only by a walk that is cut off.
LEMMA ScanWalkEndsKeeps == ScanInv /\ ScanWalkEnds => ScanInv'
<1> SUFFICES ASSUME ScanInv, ScanWalkEnds PROVE ScanInv'
  OBVIOUS
<1>1. /\ scanPc = "walk" /\ scanHand' = ScanNone
      /\ \/ scanWalked = Len(ScanTree) /\ scanHand = ScanNone /\ scanPc' = "drain"
         \/ scanExpired /\ scanPc' = "interrupted"
      /\ UNCHANGED <<scanWalked, scanJobs, scanAt, scanExpired, scanRep, scanSink>>
      /\ UNCHANGED <<scanDone, scanUnstat, scanFaults>>
  BY DEF ScanWalkEnds
<1>2. ScanTypeOK'
  BY <1>1 DEF ScanInv, ScanTypeOK
<1>3. /\ \A w \in ScanWorkers : ScanLooks(w)'
      /\ \A f \in ScanFiles : ScanSunk(f)'
      /\ ScanSinkOnce'
      /\ \A f : ScanHeld(f)' <=> ScanHeld(f)
  BY <1>1, ScanMainFrame
<1>4. \A f : /\ ScanSeen(f)' <=> ScanSeen(f)
             /\ ScanOver(f)' <=> ScanOver(f)
             /\ ScanQueued(f)' <=> ScanQueued(f)
  BY <1>1 DEF ScanSeen, ScanOver, ScanQueued
<1>5. ASSUME NEW f \in ScanFiles PROVE ScanPlaced(f)'
  <2>1. f # scanHand'
    BY <1>1, ScanConstants
  <2> QED BY <1>3, <1>4, <2>1 DEF ScanInv, ScanPlaced
<1>6. ScanApart'
  BY <1>1 DEF ScanInv, ScanApart, ScanBusy
<1>7. ScanBooks'
  <2>1. CASE scanExpired
    BY <1>1, <2>1 DEF ScanBooks, ScanComplete
  <2>2. CASE ~scanExpired
    <3>1. \A f \in ScanFiles : ScanSame(f)
      BY <1>1, <1>3, <1>4, <2>2 DEF ScanSame
    <3> QED BY <1>1, <3>1, ScanSameLost, ScanBooksStay DEF ScanInv, ScanCounted, ScanComplete
  <2> QED BY <2>1, <2>2
<1>8. ScanStands'
  BY <1>1 DEF ScanInv, ScanStands, ScanEnded
<1>9. ScanFound'
  <2>1. \A f \in scanRep.findings : f # ScanNone
    BY ScanRepFields, ScanConstants DEF ScanInv
  <2> QED BY <1>1, <1>4, <2>1 DEF ScanInv, ScanFound
<1> QED BY <1>2, <1>3, <1>5, <1>6, <1>7, <1>8, <1>9 DEF ScanInv

\* ScanExpire keeps ScanInv.
LEMMA ScanExpireKeeps == ScanInv /\ ScanExpire => ScanInv'
<1> SUFFICES ASSUME ScanInv, ScanExpire PROVE ScanInv'
  OBVIOUS
<1>1. /\ ~scanExpired /\ scanPc # "closed" /\ scanExpired' = TRUE
      /\ UNCHANGED <<scanPc, scanWalked, scanHand, scanJobs, scanAt, scanRep, scanSink>>
      /\ UNCHANGED <<scanDone, scanUnstat, scanFaults>>
  BY DEF ScanExpire
<1>2. ScanTypeOK'
  BY <1>1 DEF ScanInv, ScanTypeOK
<1>3. /\ \A w \in ScanWorkers : ScanLooks(w)'
      /\ \A f \in ScanFiles : ScanSunk(f)'
      /\ ScanSinkOnce'
      /\ \A f : ScanHeld(f)' <=> ScanHeld(f)
  BY <1>1, ScanMainFrame
<1>4. \A f \in ScanFiles : ScanSame(f)
  BY <1>1, <1>3 DEF ScanSame, ScanSeen, ScanOver, ScanQueued
<1>5. ASSUME NEW f \in ScanFiles PROVE ScanPlaced(f)'
  BY <1>4, ScanSamePlaced DEF ScanInv
<1>6. ScanApart'
  BY <1>1 DEF ScanInv, ScanApart, ScanBusy
<1>7. ScanComplete' => ScanComplete
  BY <1>1 DEF ScanComplete
<1>8. ScanBooks'
  BY <1>1, <1>4, <1>7, ScanSameLost, ScanBooksStay DEF ScanInv, ScanCounted
<1>9. ScanStands'
  BY <1>1, <1>7 DEF ScanInv, ScanStands, ScanEnded, ScanComplete
<1>10. ScanFound'
  BY <1>1 DEF ScanInv, ScanFound, ScanSeen, ScanQueued
<1> QED BY <1>2, <1>3, <1>5, <1>6, <1>8, <1>9, <1>10 DEF ScanInv

-----------------------------------------------------------------------------
(* A worker *)

\* Whoever has not returned works before the end of the run.
LEMMA ScanAtWork ==
    ASSUME ScanInv, NEW w \in ScanWorkers, scanAt[w].stage # "returned"
    PROVE  scanPc \notin ScanEnded
  BY DEF ScanInv, ScanStands

\* A step that brings nothing into the sink, and takes nothing out.
LEMMA ScanSinkFrame ==
    ASSUME ScanInv, scanSink' = scanSink, scanRep'.findings = scanRep.findings,
           scanPc' # "closed",
           \A v \in ScanWorkers :
              /\ scanAt'[v].batch = scanAt[v].batch
              /\ scanAt[v].batch # <<>> => scanAt'[v].stage = "post"
              /\ \A f \in ScanFiles : (scanAt'[v].stage = "stream" /\ scanAt'[v].file = f)
                            <=> (scanAt[v].stage = "stream" /\ scanAt[v].file = f)
    PROVE  (\A f \in ScanFiles : ScanSunk(f)') /\ ScanSinkOnce'
<1>1. \A f : ScanInBuf(f)' <=> ScanInBuf(f)
  BY DEF ScanInBuf
<1>2. \A f : ScanInPosted(f)' <=> ScanInPosted(f)
  BY DEF ScanInPosted
<1>3. \A f : \A v \in ScanWorkers : ScanInBatch(v, f)' <=> ScanInBatch(v, f)
  BY DEF ScanInBatch
<1>4. ASSUME NEW f \in ScanFiles PROVE ScanSunk(f)'
  <2>1. ScanSunk(f)
    BY DEF ScanInv
  <2> QED BY <1>1, <1>2, <1>3, <2>1 DEF ScanSunk
<1>5. ScanSinkOnce'
  BY DEF ScanInv, ScanSinkOnce, ScanOnce
<1> QED BY <1>4, <1>5

\* A job is taken.
LEMMA ScanTakesJob ==
    ASSUME ScanInv, NEW w \in ScanWorkers, ScanTake(w), scanJobs # <<>>
    PROVE  ScanInv'
<1>0. PICK g : g = Head(scanJobs)
  OBVIOUS
<1>1. /\ scanAt[w].stage = "take" /\ scanJobs' = Tail(scanJobs)
      /\ scanAt' = [scanAt EXCEPT ![w] =
                 [ScanIdle EXCEPT !.stage = IF scanExpired THEN "returned" ELSE "read",
                                  !.file = g]]
      /\ UNCHANGED <<scanPc, scanWalked, scanHand, scanExpired, scanUnstat>>
      /\ UNCHANGED <<scanRep, scanSink, scanDone, scanFaults>>
  BY <1>0 DEF ScanTake, ScanMainStays
<1>2. /\ scanJobs \in Seq(ScanFiles) /\ scanAt \in [ScanWorkers -> ScanAts]
      /\ Len(scanJobs) <= ScanChannel
  BY DEF ScanInv, ScanTypeOK
<1>3. /\ Tail(scanJobs) \in Seq(ScanFiles) /\ g \in ScanFiles
      /\ Len(Tail(scanJobs)) = Len(scanJobs) - 1 /\ Len(scanJobs) \in Nat \ {0}
      /\ g = scanJobs[1]
      /\ \A i \in 1..Len(Tail(scanJobs)) : Tail(scanJobs)[i] = scanJobs[i + 1]
  BY <1>0, <1>2, HeadTailProperties, EmptySeq, LenProperties
<1>4. /\ scanAt'[w].stage = IF scanExpired THEN "returned" ELSE "read"
      /\ scanAt'[w].engine = "rules" /\ scanAt'[w].file = g /\ scanAt'[w].batch = <<>>
      /\ \A v \in ScanWorkers \ {w} : scanAt'[v] = scanAt[v]
      /\ scanAt' \in [ScanWorkers -> ScanAts]
  BY <1>1, <1>2, <1>3, ScanConstants DEF ScanIdle, ScanAts, ScanEngines
<1>5. ScanTypeOK'
  <2>1. Len(scanJobs') <= ScanChannel
    BY <1>1, <1>2, <1>3, ScanConstants
  <2> QED BY <1>1, <1>3, <1>4, <2>1 DEF ScanInv, ScanTypeOK
<1>6. scanAt[w].batch = <<>>
  BY <1>1 DEF ScanInv, ScanSinkOnce
<1>7. scanPc \notin ScanEnded
  BY <1>1, ScanAtWork
<1>8. \A f \in ScanFiles \ {g} : ScanQueued(f)' <=> ScanQueued(f)
  <2> TAKE f \in ScanFiles \ {g}
  <2>1. ASSUME NEW i \in 1..Len(scanJobs), scanJobs[i] = f
        PROVE  i - 1 \in 1..Len(Tail(scanJobs)) /\ Tail(scanJobs)[i - 1] = f
    <3>1. i - 1 \in 1..Len(Tail(scanJobs)) /\ (i - 1) + 1 = i
      BY <1>3, <2>1
    <3> QED BY <1>3, <2>1, <3>1
  <2>2. ASSUME NEW i \in 1..Len(Tail(scanJobs)), Tail(scanJobs)[i] = f
        PROVE  i + 1 \in 1..Len(scanJobs) /\ scanJobs[i + 1] = f
    BY <1>3, <2>2
  <2> QED BY <1>1, <2>1, <2>2 DEF ScanQueued
<1>9. ScanQueued(g) /\ ~ScanQueued(g)'
  <2>1. ScanQueued(g)
    BY <1>3 DEF ScanQueued
  <2>2. ASSUME NEW i \in 1..Len(Tail(scanJobs)), Tail(scanJobs)[i] = g PROVE FALSE
    <3>1. i + 1 \in 1..Len(scanJobs) /\ 1 \in 1..Len(scanJobs) /\ i + 1 # 1
      BY <1>3
    <3> QED BY <1>3, <2>2, <3>1 DEF ScanInv, ScanApart
  <2> QED BY <1>1, <2>1, <2>2 DEF ScanQueued
<1>10. \A f \in ScanFiles \ {g} : ScanSame(f)
  <2>1. \A f \in ScanFiles \ {g} : ScanHeld(f)' <=> ScanHeld(f)
    BY <1>1, <1>4 DEF ScanHeld, ScanBusy
  <2> QED BY <1>1, <1>8, <2>1 DEF ScanSame, ScanSeen, ScanOver
<1>11. ScanSeen(g) /\ ~ScanHeld(g) /\ ~ScanOver(g) /\ g # scanHand /\ g \notin ScanLost
  BY <1>3, <1>9 DEF ScanInv, ScanPlaced, ScanLost
<1>12. ScanSeen(g)' /\ ~ScanOver(g)' /\ g # scanHand'
  BY <1>1, <1>11 DEF ScanSeen, ScanOver
<1>13. ASSUME NEW f \in ScanFiles PROVE ScanPlaced(f)'
  <2>1. CASE f # g
    BY <1>10, <2>1, ScanSamePlaced DEF ScanInv
  <2>2. CASE f = g
    BY <1>9, <1>12, <2>2 DEF ScanPlaced
  <2> QED BY <2>1, <2>2
<1>14. ScanApart'
  <2>1. \A i, j \in 1..Len(Tail(scanJobs)) : Tail(scanJobs)[i] = Tail(scanJobs)[j] => i = j
    <3> SUFFICES ASSUME NEW i \in 1..Len(Tail(scanJobs)), NEW j \in 1..Len(Tail(scanJobs)),
                        Tail(scanJobs)[i] = Tail(scanJobs)[j]
                 PROVE  i = j
      OBVIOUS
    <3>1. i + 1 \in 1..Len(scanJobs) /\ j + 1 \in 1..Len(scanJobs)
      BY <1>3
    <3>2. i + 1 = j + 1
      BY <1>3, <3>1 DEF ScanInv, ScanApart
    <3> QED BY <3>2
  <2>2. \A v \in ScanWorkers \ {w} : ScanBusy(v) => scanAt[v].file # g
    BY <1>11 DEF ScanHeld
  <2>3. ASSUME NEW v \in ScanWorkers, NEW u \in ScanWorkers, ScanBusy(v)', ScanBusy(u)',
               scanAt'[v].file = scanAt'[u].file
        PROVE  v = u
    BY <1>4, <2>2, <2>3 DEF ScanInv, ScanApart, ScanBusy
  <2>4. \A v \in ScanWorkers : ScanBusy(v)' => scanAt'[v].file \in ScanFiles
    BY <1>3, <1>4 DEF ScanInv, ScanApart, ScanBusy
  <2> QED BY <1>1, <2>1, <2>3, <2>4 DEF ScanApart
<1>15. ScanBooks'
  <2>1. CASE scanExpired
    BY <1>1, <1>7, <2>1 DEF ScanBooks, ScanComplete, ScanEnded
  <2>2. CASE ~scanExpired
    <3>1. ScanBusy(w)' /\ scanAt'[w].file = g
      BY <1>4, <2>2 DEF ScanBusy
    <3>2. g \notin ScanLost'
      BY <3>1 DEF ScanLost, ScanHeld
    <3>3. ScanLost' = ScanLost
      BY <1>3, <1>10, <1>11, <3>2, ScanMovesLost
    <3> QED BY <1>1, <3>3, ScanBooksStay DEF ScanInv, ScanCounted, ScanComplete
  <2> QED BY <2>1, <2>2
<1>16. ScanStands'
  BY <1>1, <1>4, <1>7 DEF ScanInv, ScanStands, ScanEnded
<1>17. \A v \in ScanWorkers : ScanLooks(v)'
  <2>1. g \notin scanRep.findings
    BY <1>9 DEF ScanInv, ScanFound
  <2>2. ScanLooks(w)'
    BY <1>1, <1>4, <2>1 DEF ScanLooks, ScanEmitted, ScanBefore
  <2>3. \A v \in ScanWorkers \ {w} : ScanLooks(v)'
    BY <1>1, <1>4 DEF ScanInv, ScanLooks, ScanEmitted, ScanBusy
  <2> QED BY <2>2, <2>3
<1>18. ScanFound'
  <2>1. \A f \in scanRep.findings : f \in ScanFiles /\ f # g /\ ~ScanQueued(f)
    BY <1>9, ScanRepFields DEF ScanInv, ScanFound
  <2> QED BY <1>1, <1>8, <2>1 DEF ScanInv, ScanFound, ScanSeen
<1>19. (\A f \in ScanFiles : ScanSunk(f)') /\ ScanSinkOnce'
  <2>1. ASSUME NEW v \in ScanWorkers
        PROVE  /\ scanAt'[v].batch = scanAt[v].batch
               /\ scanAt[v].batch # <<>> => scanAt'[v].stage = "post"
               /\ \A f \in ScanFiles : (scanAt'[v].stage = "stream" /\ scanAt'[v].file = f)
                             <=> (scanAt[v].stage = "stream" /\ scanAt[v].file = f)
    BY <1>1, <1>4, <1>6 DEF ScanInv, ScanSinkOnce
  <2> QED BY <1>1, <1>7, <2>1, ScanSinkFrame DEF ScanEnded
<1> QED BY <1>5, <1>13, <1>14, <1>15, <1>16, <1>17, <1>18, <1>19 DEF ScanInv

\* A worker without a job returns.
LEMMA ScanReturnsKeeps ==
    ASSUME ScanInv, NEW w \in ScanWorkers, ScanTake(w), scanJobs = <<>>
    PROVE  ScanInv'
<1>1. /\ scanAt[w].stage = "take" /\ scanPc \in {"drain", "interrupted"}
      /\ ScanWorkerTo(w, "returned")
      /\ UNCHANGED <<scanPc, scanWalked, scanHand, scanExpired, scanUnstat, scanJobs>>
      /\ UNCHANGED <<scanRep, scanSink, scanDone, scanFaults>>
  BY DEF ScanTake, ScanMainStays
<1>2. /\ scanAt' \in [ScanWorkers -> ScanAts]
      /\ scanAt'[w].stage = "returned" /\ scanAt'[w].engine = scanAt[w].engine
      /\ scanAt'[w].file = scanAt[w].file /\ scanAt'[w].batch = scanAt[w].batch
      /\ \A v \in ScanWorkers \ {w} : scanAt'[v] = scanAt[v]
  BY <1>1, ScanAtFields DEF ScanInv
<1>3. ScanTypeOK'
  BY <1>1, <1>2 DEF ScanInv, ScanTypeOK
<1>4. \A v \in ScanWorkers : /\ ScanBusy(v)' <=> ScanBusy(v)
                             /\ scanAt'[v].file = scanAt[v].file
  BY <1>1, <1>2 DEF ScanBusy
<1>5. \A f \in ScanFiles : ScanSame(f)
  BY <1>1, <1>4 DEF ScanSame, ScanSeen, ScanQueued, ScanHeld, ScanOver
<1>6. ASSUME NEW f \in ScanFiles PROVE ScanPlaced(f)'
  BY <1>5, ScanSamePlaced DEF ScanInv
<1>7. ScanApart'
  BY <1>1, <1>4 DEF ScanInv, ScanApart
<1>8. ScanBooks'
  BY <1>1, <1>5, ScanSameLost, ScanBooksStay DEF ScanInv, ScanCounted, ScanComplete
<1>9. ScanStands'
  BY <1>1, <1>2 DEF ScanInv, ScanStands, ScanEnded
<1>10. \A v \in ScanWorkers : ScanLooks(v)'
  <2>1. ScanLooks(w)'
    BY <1>2 DEF ScanLooks, ScanBusy
  <2>2. \A v \in ScanWorkers \ {w} : ScanLooks(v)'
    BY <1>1, <1>2 DEF ScanInv, ScanLooks, ScanEmitted, ScanBusy
  <2> QED BY <2>1, <2>2
<1>11. ScanFound'
  BY <1>1 DEF ScanInv, ScanFound, ScanSeen, ScanQueued
<1>12. (\A f \in ScanFiles : ScanSunk(f)') /\ ScanSinkOnce'
  <2>1. ASSUME NEW v \in ScanWorkers
        PROVE  /\ scanAt'[v].batch = scanAt[v].batch
               /\ scanAt[v].batch # <<>> => scanAt'[v].stage = "post"
               /\ \A f \in ScanFiles : (scanAt'[v].stage = "stream" /\ scanAt'[v].file = f)
                             <=> (scanAt[v].stage = "stream" /\ scanAt[v].file = f)
    BY <1>1, <1>2 DEF ScanInv, ScanSinkOnce
  <2> QED BY <1>1, <2>1, ScanSinkFrame
<1> QED BY <1>3, <1>6, <1>7, <1>8, <1>9, <1>10, <1>11, <1>12 DEF ScanInv

\* A worker is through with its file: it is done, or it is counted.
LEMMA ScanReleases ==
    ASSUME ScanInv, NEW w \in ScanWorkers, scanAt[w].stage \in {"read", "next"},
           ScanWorkerTo(w, "take"), ScanMainStays,
           scanJobs' = scanJobs, scanSink' = scanSink, scanFaults' \in 0..ScanMaxFaults,
           scanRep' \in ScanReports, scanRep'.findings = scanRep.findings,
           scanRep'.errors = scanRep.errors, scanRep'.verdict = scanRep.verdict,
           \/ /\ scanDone' = scanDone \cup {scanAt[w].file} /\ ScanCounted' = ScanCounted
              /\ ScanHolds[scanAt[w].file] \in ScanEngines => scanAt[w].file \in scanRep.findings
           \/ scanDone' = scanDone /\ ScanCounted' = ScanCounted + 1
    PROVE  ScanInv'
<1>0. PICK g : g = scanAt[w].file
  OBVIOUS
<1>1. UNCHANGED <<scanPc, scanWalked, scanHand, scanExpired, scanUnstat, scanJobs, scanSink>>
  BY DEF ScanMainStays
<1>2. /\ scanAt' \in [ScanWorkers -> ScanAts]
      /\ scanAt'[w].stage = "take" /\ scanAt'[w].engine = scanAt[w].engine
      /\ scanAt'[w].file = scanAt[w].file /\ scanAt'[w].batch = scanAt[w].batch
      /\ \A v \in ScanWorkers \ {w} : scanAt'[v] = scanAt[v]
  BY ScanAtFields DEF ScanInv
<1>3. ScanBusy(w) /\ g \in ScanFiles /\ scanPc \notin ScanEnded
  BY <1>0, ScanAtWork DEF ScanInv, ScanApart, ScanBusy
<1>4. /\ scanDone' = scanDone \cup {g} \/ scanDone' = scanDone
      /\ \A f \in scanDone' : ScanHolds[f] \in ScanEngines => f \in scanRep.findings
  BY <1>0 DEF ScanInv, ScanFound
<1>5. ScanTypeOK'
  BY <1>1, <1>2, <1>3, <1>4 DEF ScanInv, ScanTypeOK
<1>6. ScanSeen(g) /\ g # scanHand /\ ~ScanQueued(g) /\ ScanHeld(g) /\ ~ScanOver(g) /\ g \notin ScanLost
  BY <1>0, <1>3 DEF ScanInv, ScanPlaced, ScanHeld, ScanLost
<1>7. ~ScanBusy(w)' /\ ~ScanHeld(g)'
  BY <1>0, <1>2, <1>3 DEF ScanInv, ScanApart, ScanHeld, ScanBusy
<1>8. \A f : /\ ScanSeen(f)' <=> ScanSeen(f)
             /\ ScanQueued(f)' <=> ScanQueued(f)
             /\ (f = scanHand') <=> (f = scanHand)
  BY <1>1 DEF ScanSeen, ScanQueued
<1>9. \A f \in ScanFiles \ {g} : ScanSame(f)
  <2>1. \A f \in ScanFiles \ {g} : ScanHeld(f)' <=> ScanHeld(f)
    BY <1>0, <1>2, <1>7 DEF ScanHeld, ScanBusy
  <2> QED BY <1>1, <1>4, <1>8, <2>1 DEF ScanSame, ScanOver
<1>10. ASSUME NEW f \in ScanFiles PROVE ScanPlaced(f)'
  <2>1. CASE f # g
    BY <1>9, <2>1, ScanSamePlaced DEF ScanInv
  <2>2. CASE f = g
    <3>1. ScanSeen(g)' /\ g # scanHand' /\ ~ScanQueued(g)' /\ ~ScanHeld(g)'
      BY <1>6, <1>7, <1>8
    <3> QED BY <2>2, <3>1 DEF ScanPlaced
  <2> QED BY <2>1, <2>2
<1>11. ScanApart'
  BY <1>1, <1>2, <1>7 DEF ScanInv, ScanApart, ScanBusy
<1>12. ScanComplete' => ScanComplete
  BY <1>1 DEF ScanComplete
<1>13. ScanBooks'
  <2>1. CASE scanDone' = scanDone \cup {g} /\ ScanCounted' = ScanCounted
    <3>1. g \notin ScanLost'
      BY <2>1 DEF ScanLost, ScanOver
    <3>2. ScanLost' = ScanLost
      BY <1>3, <1>6, <1>9, <3>1, ScanMovesLost
    <3> QED BY <1>12, <2>1, <3>2, ScanBooksStay DEF ScanInv
  <2>2. CASE scanDone' = scanDone /\ ScanCounted' = ScanCounted + 1
    <3>1. g \in ScanLost'
      BY <1>1, <1>3, <1>6, <1>7, <1>8, <2>2 DEF ScanLost, ScanOver
    <3>2. ScanLost' = ScanLost \cup {g}
      BY <1>3, <1>6, <1>9, <3>1, ScanMovesLost
    <3> QED BY <1>6, <1>12, <2>2, <3>2, ScanBooksGrow DEF ScanInv
  <2> QED BY <1>0, <2>1, <2>2
<1>14. ScanStands'
  BY <1>1, <1>2, <1>3 DEF ScanInv, ScanStands, ScanEnded
<1>15. \A v \in ScanWorkers : ScanLooks(v)'
  <2>1. ScanLooks(w)'
    BY <1>7 DEF ScanLooks
  <2>2. \A v \in ScanWorkers \ {w} : ScanLooks(v)'
    BY <1>2 DEF ScanInv, ScanLooks, ScanEmitted, ScanBusy
  <2> QED BY <2>1, <2>2
<1>16. ScanFound'
  BY <1>1, <1>4, <1>8 DEF ScanInv, ScanFound
<1>17. (\A f \in ScanFiles : ScanSunk(f)') /\ ScanSinkOnce'
  <2>1. ASSUME NEW v \in ScanWorkers
        PROVE  /\ scanAt'[v].batch = scanAt[v].batch
               /\ scanAt[v].batch # <<>> => scanAt'[v].stage = "post"
               /\ \A f \in ScanFiles : (scanAt'[v].stage = "stream" /\ scanAt'[v].file = f)
                             <=> (scanAt[v].stage = "stream" /\ scanAt[v].file = f)
    BY <1>2 DEF ScanInv, ScanSinkOnce
  <2> QED BY <1>1, <1>3, <2>1, ScanSinkFrame DEF ScanEnded
<1> QED BY <1>5, <1>10, <1>11, <1>13, <1>14, <1>15, <1>16, <1>17 DEF ScanInv

\* A worker goes on with its file; only the sink is left to look at.
ScanRest ==
    /\ ScanTypeOK
    /\ (\A f \in ScanFiles : ScanPlaced(f)) /\ ScanApart /\ ScanBooks
    /\ ScanStands /\ ScanFound

\* A worker that only moves on within its file keeps ScanInv.
LEMMA ScanGoesOn ==
    ASSUME ScanInv, NEW w \in ScanWorkers, ScanBusy(w), scanAt' \in [ScanWorkers -> ScanAts],
           \A v \in ScanWorkers \ {w} : scanAt'[v] = scanAt[v],
           scanAt'[w].file = scanAt[w].file,
           scanAt'[w].stage \in {"look", "emit", "stream", "flush", "post", "next"},
           ScanMainStays, scanJobs' = scanJobs, scanDone' = scanDone, scanFaults' = scanFaults,
           scanRep' \in ScanReports, scanRep'.errors = scanRep.errors,
           scanRep'.verdict = scanRep.verdict, ScanCounted' = ScanCounted,
           \/ scanRep'.findings = scanRep.findings
           \/ scanRep'.findings = scanRep.findings \cup {scanAt[w].file},
           scanSink' \in [buf : Seq(ScanFiles), posted : Seq(Seq(ScanFiles))]
    PROVE  /\ ScanRest' /\ scanPc' # "closed"
           /\ \A v \in ScanWorkers \ {w} : ScanLooks(v)'
           /\ scanAt[w].file \in ScanFiles
<1>0. PICK g : g = scanAt[w].file
  OBVIOUS
<1>1. UNCHANGED <<scanPc, scanWalked, scanHand, scanExpired, scanUnstat>>
  BY DEF ScanMainStays
<1>3. g \in ScanFiles /\ scanPc \notin ScanEnded
  BY <1>0, ScanAtWork DEF ScanInv, ScanApart, ScanBusy
<1>4. ScanTypeOK'
  BY <1>1 DEF ScanInv, ScanTypeOK
<1>5. \A v \in ScanWorkers : /\ ScanBusy(v)' <=> ScanBusy(v)
                             /\ scanAt'[v].file = scanAt[v].file
  BY DEF ScanBusy
<1>6. \A f \in ScanFiles : ScanSame(f)
  BY <1>1, <1>5 DEF ScanSame, ScanSeen, ScanQueued, ScanHeld, ScanOver
<1>7. ASSUME NEW f \in ScanFiles PROVE ScanPlaced(f)'
  BY <1>6, ScanSamePlaced DEF ScanInv
<1>8. ScanApart'
  BY <1>5 DEF ScanInv, ScanApart
<1>9. ScanBooks'
  BY <1>1, <1>6, ScanSameLost, ScanBooksStay DEF ScanInv, ScanComplete
<1>10. ScanStands'
  BY <1>1, <1>3 DEF ScanInv, ScanStands, ScanEnded, ScanBusy
<1>11. ScanSeen(g) /\ g # scanHand /\ ~ScanQueued(g)
  BY <1>0, <1>3 DEF ScanInv, ScanPlaced, ScanHeld
<1>12. ScanFound'
  <2>1. \A f \in scanRep'.findings : f = g \/ f \in scanRep.findings
    BY <1>0
  <2>2. \A f \in scanRep'.findings : ScanSeen(f) /\ f # scanHand /\ ~ScanQueued(f)
    BY <1>11, <2>1 DEF ScanInv, ScanFound
  <2>3. \A f \in scanRep.findings : f \in scanRep'.findings
    OBVIOUS
  <2> QED BY <1>1, <2>2, <2>3 DEF ScanInv, ScanFound, ScanSeen, ScanQueued
<1>13. ASSUME NEW v \in ScanWorkers \ {w} PROVE ScanLooks(v)'
  <2>1. ScanBusy(v) => scanAt[v].file # scanAt[w].file
    BY DEF ScanInv, ScanApart
  <2>2. ScanLooks(v)
    BY DEF ScanInv
  <2> QED BY <2>1, <2>2 DEF ScanLooks, ScanEmitted, ScanBusy
<1> QED BY <1>0, <1>1, <1>3, <1>4, <1>7, <1>8, <1>9, <1>10, <1>12, <1>13 DEF ScanRest, ScanEnded

\* ScanRead keeps ScanInv.
LEMMA ScanReadKeeps ==
    ASSUME ScanInv, NEW w \in ScanWorkers, ScanRead(w)
    PROVE  ScanInv'
<1>1. /\ scanAt[w].stage = "read" /\ scanJobs' = scanJobs /\ scanSink' = scanSink /\ ScanMainStays
  BY DEF ScanRead
<1>2. /\ scanRep \in ScanReports /\ scanFaults \in 0..ScanMaxFaults /\ ScanMaxFaults \in Nat
      /\ scanRep.readErrors \in Nat /\ scanRep.slow \in Nat
  BY ScanRepFields, ScanConstants DEF ScanInv, ScanTypeOK
<1>3. CASE ScanWorkerTo(w, "look") /\ UNCHANGED <<scanRep, scanDone, scanFaults>>
  <2>1. /\ scanAt' \in [ScanWorkers -> ScanAts]
        /\ scanAt'[w].stage = "look" /\ scanAt'[w].engine = scanAt[w].engine
        /\ scanAt'[w].file = scanAt[w].file /\ scanAt'[w].batch = scanAt[w].batch
        /\ \A v \in ScanWorkers \ {w} : scanAt'[v] = scanAt[v]
    BY <1>3, ScanAtFields DEF ScanInv
  <2>2. ScanRest' /\ scanPc' # "closed" /\ \A v \in ScanWorkers \ {w} : ScanLooks(v)'
    BY <1>1, <1>2, <1>3, <2>1, ScanGoesOn DEF ScanBusy, ScanInv, ScanTypeOK, ScanCounted
  <2>3. ScanLooks(w)'
    BY <1>1, <1>3, <2>1 DEF ScanInv, ScanLooks, ScanEmitted, ScanBusy
  <2>4. (\A f \in ScanFiles : ScanSunk(f)') /\ ScanSinkOnce'
    <3>1. ASSUME NEW v \in ScanWorkers
          PROVE  /\ scanAt'[v].batch = scanAt[v].batch
                 /\ scanAt[v].batch # <<>> => scanAt'[v].stage = "post"
                 /\ \A f \in ScanFiles : (scanAt'[v].stage = "stream" /\ scanAt'[v].file = f)
                               <=> (scanAt[v].stage = "stream" /\ scanAt[v].file = f)
      BY <1>1, <2>1 DEF ScanInv, ScanSinkOnce
    <3> QED BY <1>1, <1>3, <2>2, <3>1, ScanSinkFrame
  <2> QED BY <2>2, <2>3, <2>4 DEF ScanInv, ScanRest
<1>4. CASE /\ ScanHolds[scanAt[w].file] = "published"
           /\ scanDone' = scanDone \cup {scanAt[w].file}
           /\ ScanWorkerTo(w, "take") /\ UNCHANGED <<scanRep, scanFaults>>
  <2>1. ScanHolds[scanAt[w].file] \notin ScanEngines
    BY <1>4 DEF ScanEngines
  <2> QED BY <1>1, <1>2, <1>4, <2>1, ScanReleases DEF ScanCounted
<1>5. CASE /\ scanFaults' = scanFaults \/ (scanFaults < ScanMaxFaults /\ scanFaults' = scanFaults + 1)
           /\ scanRep' = [scanRep EXCEPT !.readErrors = @ + 1]
           /\ ScanWorkerTo(w, "take") /\ scanDone' = scanDone
  <2>1. scanFaults' \in 0..ScanMaxFaults
    BY <1>2, <1>5
  <2>2. /\ scanRep' \in ScanReports /\ scanRep'.findings = scanRep.findings
        /\ scanRep'.errors = scanRep.errors /\ scanRep'.verdict = scanRep.verdict
        /\ scanRep'.readErrors = scanRep.readErrors + 1 /\ scanRep'.slow = scanRep.slow
    BY <1>2, <1>5 DEF ScanReports
  <2>3. ScanCounted' = ScanCounted + 1
    <3>1. \A a, b \in Nat : (a + 1) + b = (a + b) + 1
      OBVIOUS
    <3> QED BY <1>2, <2>2, <3>1 DEF ScanCounted
  <2> QED BY <1>1, <1>5, <2>1, <2>2, <2>3, ScanReleases
<1> QED BY <1>3, <1>4, <1>5 DEF ScanRead

\* ScanLook keeps ScanInv.
LEMMA ScanLookKeeps ==
    ASSUME ScanInv, NEW w \in ScanWorkers, ScanLook(w)
    PROVE  ScanInv'
<1>1. /\ scanAt[w].stage = "look" /\ scanJobs' = scanJobs /\ scanSink' = scanSink /\ ScanMainStays
      /\ UNCHANGED <<scanRep, scanDone, scanFaults>>
  BY DEF ScanLook
<1>2. PICK s : s = IF ScanHolds[scanAt[w].file] = scanAt[w].engine THEN "emit" ELSE "next"
  OBVIOUS
<1>3. /\ scanAt' \in [ScanWorkers -> ScanAts]
      /\ scanAt'[w].stage = s /\ scanAt'[w].engine = scanAt[w].engine
      /\ scanAt'[w].file = scanAt[w].file /\ scanAt'[w].batch = scanAt[w].batch
      /\ \A v \in ScanWorkers \ {w} : scanAt'[v] = scanAt[v]
  BY <1>2, ScanAtFields DEF ScanInv, ScanLook
<1>4. ScanRest' /\ scanPc' # "closed" /\ \A v \in ScanWorkers \ {w} : ScanLooks(v)'
  BY <1>1, <1>2, <1>3, ScanGoesOn DEF ScanBusy, ScanInv, ScanTypeOK, ScanCounted
<1>5. ScanLooks(w)'
  BY <1>1, <1>2, <1>3 DEF ScanInv, ScanLooks, ScanEmitted, ScanBusy
<1>6. ASSUME NEW v \in ScanWorkers
      PROVE  /\ scanAt'[v].batch = scanAt[v].batch
             /\ scanAt[v].batch # <<>> => scanAt'[v].stage = "post"
             /\ \A f \in ScanFiles : (scanAt'[v].stage = "stream" /\ scanAt'[v].file = f)
                           <=> (scanAt[v].stage = "stream" /\ scanAt[v].file = f)
  BY <1>1, <1>2, <1>3 DEF ScanInv, ScanSinkOnce
<1>7. (\A f \in ScanFiles : ScanSunk(f)') /\ ScanSinkOnce'
  BY <1>1, <1>4, <1>6, ScanSinkFrame
<1> QED BY <1>4, <1>5, <1>7 DEF ScanInv, ScanRest

\* ScanNextEngine keeps ScanInv.
LEMMA ScanNextEngineKeeps ==
    ASSUME ScanInv, NEW w \in ScanWorkers, ScanNextEngine(w)
    PROVE  ScanInv'
<1>1. /\ scanAt[w].stage = "next" /\ ScanMainStays
      /\ UNCHANGED <<scanJobs, scanSink, scanFaults>>
  BY DEF ScanNextEngine
<1>2. /\ scanRep \in ScanReports /\ scanFaults \in 0..ScanMaxFaults
      /\ scanRep.readErrors \in Nat /\ scanRep.slow \in Nat
      /\ scanAt \in [ScanWorkers -> ScanAts] /\ scanAt[w] \in ScanAts
  BY ScanRepFields, ScanConstants DEF ScanInv, ScanTypeOK
<1>3. CASE /\ scanRep' = [scanRep EXCEPT !.slow = @ + 1]
           /\ ScanWorkerTo(w, "take") /\ scanDone' = scanDone
  <2>1. /\ scanRep' \in ScanReports /\ scanRep'.findings = scanRep.findings
        /\ scanRep'.errors = scanRep.errors /\ scanRep'.verdict = scanRep.verdict
        /\ scanRep'.readErrors = scanRep.readErrors /\ scanRep'.slow = scanRep.slow + 1
    BY <1>2, <1>3 DEF ScanReports
  <2>2. ScanCounted' = ScanCounted + 1
    <3>1. \A a, b \in Nat : a + (b + 1) = (a + b) + 1
      OBVIOUS
    <3> QED BY <1>2, <2>1, <3>1 DEF ScanCounted
  <2> QED BY <1>1, <1>2, <1>3, <2>1, <2>2, ScanReleases
<1>4. CASE /\ scanAt[w].engine # "yara"
           /\ scanAt' = [scanAt EXCEPT ![w].stage = "look",
                 ![w].engine = IF @ = "rules" THEN "heuristics" ELSE "yara"]
           /\ UNCHANGED <<scanRep, scanDone>>
  <2>0. PICK e : e = IF scanAt[w].engine = "rules" THEN "heuristics" ELSE "yara"
    OBVIOUS
  <2>1. scanAt' = [scanAt EXCEPT ![w] = [scanAt[w] EXCEPT !.stage = "look", !.engine = e]]
    BY <1>2, <1>4, <2>0
  <2>2. /\ scanAt' \in [ScanWorkers -> ScanAts]
        /\ scanAt'[w].stage = "look" /\ scanAt'[w].engine = e
        /\ scanAt'[w].file = scanAt[w].file /\ scanAt'[w].batch = scanAt[w].batch
        /\ \A v \in ScanWorkers \ {w} : scanAt'[v] = scanAt[v]
    <3>1. e \in ScanEngines
      BY <2>0 DEF ScanEngines
    <3>2. PICK r : r = [scanAt[w] EXCEPT !.stage = "look", !.engine = e]
      OBVIOUS
    <3>3. /\ r \in ScanAts /\ r.stage = "look" /\ r.engine = e
          /\ r.file = scanAt[w].file /\ r.batch = scanAt[w].batch
      BY <1>2, <3>1, <3>2 DEF ScanAts
    <3> QED BY <1>2, <2>1, <3>2, <3>3
  <2>3. ScanRest' /\ scanPc' # "closed" /\ \A v \in ScanWorkers \ {w} : ScanLooks(v)'
    BY <1>1, <1>2, <1>4, <2>2, ScanGoesOn DEF ScanBusy, ScanInv, ScanTypeOK, ScanCounted
  <2>4. ScanLooks(w)'
    BY <1>1, <1>2, <1>4, <2>0, <2>2 DEF ScanInv, ScanLooks, ScanEmitted, ScanBefore, ScanBusy, ScanAts, ScanEngines
  <2>5. ASSUME NEW v \in ScanWorkers
        PROVE  /\ scanAt'[v].batch = scanAt[v].batch
               /\ scanAt[v].batch # <<>> => scanAt'[v].stage = "post"
               /\ \A f \in ScanFiles : (scanAt'[v].stage = "stream" /\ scanAt'[v].file = f)
                             <=> (scanAt[v].stage = "stream" /\ scanAt[v].file = f)
    BY <1>1, <2>2 DEF ScanInv, ScanSinkOnce
  <2>6. (\A f \in ScanFiles : ScanSunk(f)') /\ ScanSinkOnce'
    BY <1>1, <1>4, <2>3, <2>5, ScanSinkFrame
  <2> QED BY <2>3, <2>4, <2>6 DEF ScanInv, ScanRest
<1>5. CASE /\ scanAt[w].engine = "yara" /\ scanDone' = scanDone \cup {scanAt[w].file}
           /\ ScanWorkerTo(w, "take") /\ scanRep' = scanRep
  <2>1. ScanHolds[scanAt[w].file] \in ScanEngines => scanAt[w].file \in scanRep.findings
    BY <1>1, <1>5 DEF ScanInv, ScanLooks, ScanEmitted, ScanBefore, ScanBusy, ScanEngines
  <2> QED BY <1>1, <1>2, <1>5, <2>1, ScanReleases DEF ScanCounted
<1> QED BY <1>3, <1>4, <1>5 DEF ScanNextEngine

-----------------------------------------------------------------------------
(* The sink *)

\* Emit keeps ScanInv.
LEMMA EmitKeeps ==
    ASSUME ScanInv, NEW w \in ScanWorkers, Emit(w)
    PROVE  ScanInv'
<1>0. PICK g : g = scanAt[w].file
  OBVIOUS
<1>1. /\ scanAt[w].stage = "emit" /\ scanJobs' = scanJobs /\ scanSink' = scanSink /\ ScanMainStays
      /\ scanDone' = scanDone /\ scanFaults' = scanFaults
      /\ scanRep' = [scanRep EXCEPT !.findings = @ \cup {g}]
  BY <1>0 DEF Emit
<1>2. ScanBusy(w) /\ g \in ScanFiles
  BY <1>0, <1>1 DEF ScanInv, ScanApart, ScanBusy
<1>3. /\ scanAt' \in [ScanWorkers -> ScanAts]
      /\ scanAt'[w].stage = "stream" /\ scanAt'[w].engine = scanAt[w].engine
      /\ scanAt'[w].file = scanAt[w].file /\ scanAt'[w].batch = scanAt[w].batch
      /\ \A v \in ScanWorkers \ {w} : scanAt'[v] = scanAt[v]
  BY ScanAtFields DEF ScanInv, Emit
<1>4. /\ scanRep' \in ScanReports /\ scanRep'.findings = scanRep.findings \cup {g}
      /\ scanRep'.errors = scanRep.errors /\ scanRep'.verdict = scanRep.verdict
      /\ scanRep'.readErrors = scanRep.readErrors /\ scanRep'.slow = scanRep.slow
  <2>1. scanRep \in ScanReports
    BY DEF ScanInv, ScanTypeOK
  <2> QED BY <1>1, <1>2, <2>1 DEF ScanReports
<1>5. ScanRest' /\ scanPc' # "closed" /\ \A v \in ScanWorkers \ {w} : ScanLooks(v)'
  BY <1>0, <1>1, <1>2, <1>3, <1>4, ScanGoesOn DEF ScanInv, ScanTypeOK, ScanCounted
<1>6. ScanLooks(w)'
  BY <1>0, <1>1, <1>2, <1>3, <1>4 DEF ScanInv, ScanLooks, ScanEmitted
<1>7. g \notin scanRep.findings
  BY <1>0, <1>1, <1>2 DEF ScanInv, ScanLooks, ScanEmitted, ScanBefore
<1>8. /\ \A f : ScanInBuf(f)' <=> ScanInBuf(f)
      /\ \A f : ScanInPosted(f)' <=> ScanInPosted(f)
      /\ \A f : \A v \in ScanWorkers : ScanInBatch(v, f)' <=> ScanInBatch(v, f)
  BY <1>1, <1>3 DEF ScanInBuf, ScanInPosted, ScanInBatch
<1>9. ASSUME NEW f \in ScanFiles PROVE ScanSunk(f)'
  <2>1. ScanSunk(f)
    BY DEF ScanInv
  <2>2. (\E v \in ScanWorkers : scanAt'[v].stage = "stream" /\ scanAt'[v].file = f)
            <=> (\E v \in ScanWorkers : scanAt[v].stage = "stream" /\ scanAt[v].file = f) \/ f = g
    BY <1>0, <1>1, <1>3
  <2> QED BY <1>4, <1>7, <1>8, <2>1, <2>2 DEF ScanSunk
<1>10. ScanSinkOnce'
  BY <1>1, <1>3, <1>5 DEF ScanInv, ScanSinkOnce, ScanOnce
<1> QED BY <1>5, <1>6, <1>9, <1>10 DEF ScanInv, ScanRest

\* SinkFinding keeps ScanInv.
LEMMA SinkFindingKeeps ==
    ASSUME ScanInv, NEW w \in ScanWorkers, SinkFinding(w)
    PROVE  ScanInv'
<1>0. PICK g : g = scanAt[w].file
  OBVIOUS
<1>1. /\ scanAt[w].stage = "stream" /\ scanJobs' = scanJobs /\ ScanMainStays
      /\ UNCHANGED <<scanRep, scanDone, scanFaults>>
      /\ scanSink' = [scanSink EXCEPT !.buf = Append(scanSink.buf, g)]
  BY <1>0 DEF SinkFinding
<1>2. ScanBusy(w) /\ g \in ScanFiles /\ scanRep \in ScanReports /\ scanPc # "closed"
  BY <1>0, <1>1, ScanAtWork DEF ScanInv, ScanApart, ScanBusy, ScanTypeOK, ScanEnded
<1>3. PICK s : s = IF Len(scanSink.buf) + 1 >= ScanBatch THEN "flush" ELSE "next"
  OBVIOUS
<1>4. /\ scanAt' \in [ScanWorkers -> ScanAts]
      /\ scanAt'[w].stage = s /\ scanAt'[w].engine = scanAt[w].engine
      /\ scanAt'[w].file = scanAt[w].file /\ scanAt'[w].batch = scanAt[w].batch
      /\ \A v \in ScanWorkers \ {w} : scanAt'[v] = scanAt[v]
  BY <1>3, ScanAtFields DEF ScanInv, SinkFinding
<1>5. PICK b : b = scanSink.buf
  OBVIOUS
<1>6. b \in Seq(ScanFiles) /\ scanSink.posted \in Seq(Seq(ScanFiles)) /\ Len(b) \in Nat
  BY <1>5, LenProperties DEF ScanInv, ScanTypeOK
<1>7. scanSink'.buf = Append(b, g) /\ scanSink'.posted = scanSink.posted
      /\ scanSink' = [buf |-> Append(b, g), posted |-> scanSink.posted]
  <2>1. scanSink \in [buf : Seq(ScanFiles), posted : Seq(Seq(ScanFiles))]
    BY DEF ScanInv, ScanTypeOK
  <2> QED BY <1>1, <1>5, <2>1
<1>8. /\ Append(b, g) \in Seq(ScanFiles) /\ Len(Append(b, g)) = Len(b) + 1
      /\ \A i \in 1..Len(b) : Append(b, g)[i] = b[i]
      /\ Append(b, g)[Len(b) + 1] = g
  BY <1>2, <1>6, AppendProperties
<1>9. ScanRest' /\ scanPc' # "closed" /\ \A v \in ScanWorkers \ {w} : ScanLooks(v)'
  BY <1>1, <1>2, <1>3, <1>4, <1>6, <1>7, <1>8, ScanGoesOn DEF ScanCounted
<1>10. ScanLooks(w)' /\ g \in scanRep.findings
  BY <1>0, <1>1, <1>2, <1>3, <1>4 DEF ScanInv, ScanLooks, ScanEmitted
<1>11. /\ \A f : ScanInBuf(f)' <=> ScanInBuf(f) \/ f = g
       /\ \A f : ScanInPosted(f)' <=> ScanInPosted(f)
       /\ \A f : \A v \in ScanWorkers : ScanInBatch(v, f)' <=> ScanInBatch(v, f)
  <2>1. \A f : ScanInBuf(f)' <=> ScanInBuf(f) \/ f = g
    BY <1>5, <1>6, <1>7, <1>8 DEF ScanInBuf
  <2> QED BY <1>4, <1>7, <2>1 DEF ScanInPosted, ScanInBatch
<1>12. ScanSunk(g) /\ ~ScanInBuf(g) /\ ~ScanInPosted(g) /\ \A v \in ScanWorkers : ~ScanInBatch(v, g)
  BY <1>0, <1>1, <1>2 DEF ScanInv, ScanSunk
<1>13. ASSUME NEW f \in ScanFiles PROVE ScanSunk(f)'
  <2>1. ScanSunk(f)
    BY DEF ScanInv
  <2>2. CASE f = g
    <3>1. \A v \in ScanWorkers : ~(scanAt'[v].stage = "stream" /\ scanAt'[v].file = g)
      BY <1>0, <1>2, <1>3, <1>4 DEF ScanInv, ScanApart, ScanBusy
    <3> QED BY <1>1, <1>10, <1>11, <1>12, <2>2, <3>1 DEF ScanSunk
  <2>3. CASE f # g
    <3>1. (\E v \in ScanWorkers : scanAt'[v].stage = "stream" /\ scanAt'[v].file = f)
              <=> (\E v \in ScanWorkers : scanAt[v].stage = "stream" /\ scanAt[v].file = f)
      BY <1>0, <1>3, <1>4, <2>3
    <3> QED BY <1>1, <1>11, <2>1, <2>3, <3>1 DEF ScanSunk
  <2> QED BY <2>2, <2>3
<1>14. ScanSinkOnce'
  <2>1. \A i \in 1..Len(b) : b[i] # g
    BY <1>5, <1>12 DEF ScanInBuf
  <2>2. ScanOnce(b)
    BY <1>5 DEF ScanInv, ScanSinkOnce
  <2>3. ASSUME NEW i \in 1..(Len(b) + 1), NEW j \in 1..(Len(b) + 1),
               Append(b, g)[i] = Append(b, g)[j]
        PROVE  i = j
    <3>1. i \in 1..Len(b) \/ i = Len(b) + 1
      BY <1>6
    <3>2. j \in 1..Len(b) \/ j = Len(b) + 1
      BY <1>6
    <3> QED BY <1>8, <2>1, <2>2, <2>3, <3>1, <3>2 DEF ScanOnce
  <2>4. ScanOnce(Append(b, g))
    BY <1>8, <2>3 DEF ScanOnce
  <2>5. \A v \in ScanWorkers : /\ ScanOnce(scanAt'[v].batch)
                               /\ scanAt'[v].batch # <<>> => scanAt'[v].stage = "post"
    BY <1>1, <1>4 DEF ScanInv, ScanSinkOnce
  <2>6. ScanPostedOnce(scanSink.posted)'
    BY <1>7 DEF ScanInv, ScanSinkOnce
  <2> QED BY <1>7, <1>9, <2>4, <2>5, <2>6 DEF ScanSinkOnce
<1> QED BY <1>9, <1>10, <1>13, <1>14 DEF ScanInv, ScanRest

\* FlushTakes keeps ScanInv.
LEMMA FlushTakesKeeps ==
    ASSUME ScanInv, NEW w \in ScanWorkers, FlushTakes(w)
    PROVE  ScanInv'
<1>1. /\ scanAt[w].stage = "flush" /\ scanJobs' = scanJobs /\ ScanMainStays
      /\ UNCHANGED <<scanRep, scanDone, scanFaults>>
      /\ scanAt' = [scanAt EXCEPT ![w].batch = scanSink.buf, ![w].stage = "post"]
      /\ scanSink' = [scanSink EXCEPT !.buf = <<>>]
  BY DEF FlushTakes
<1>2. /\ ScanBusy(w) /\ scanRep \in ScanReports /\ scanPc # "closed"
      /\ scanAt \in [ScanWorkers -> ScanAts] /\ scanAt[w] \in ScanAts
      /\ scanSink \in [buf : Seq(ScanFiles), posted : Seq(Seq(ScanFiles))]
  BY <1>1, ScanAtWork DEF ScanInv, ScanBusy, ScanTypeOK, ScanEnded
<1>3. PICK b : b = scanSink.buf
  OBVIOUS
<1>4. b \in Seq(ScanFiles) /\ <<>> \in Seq(ScanFiles) /\ Len(<<>>) = 0
  BY <1>2, <1>3, ScanConstants
<1>5. /\ scanSink'.buf = <<>> /\ scanSink'.posted = scanSink.posted
      /\ scanSink' \in [buf : Seq(ScanFiles), posted : Seq(Seq(ScanFiles))]
  BY <1>1, <1>2, <1>4
<1>6. /\ scanAt' \in [ScanWorkers -> ScanAts]
      /\ scanAt'[w].stage = "post" /\ scanAt'[w].engine = scanAt[w].engine
      /\ scanAt'[w].file = scanAt[w].file /\ scanAt'[w].batch = b
      /\ \A v \in ScanWorkers \ {w} : scanAt'[v] = scanAt[v]
  <2>1. scanAt' = [scanAt EXCEPT ![w] = [scanAt[w] EXCEPT !.batch = b, !.stage = "post"]]
    BY <1>1, <1>2, <1>3
  <2>2. PICK r : r = [scanAt[w] EXCEPT !.batch = b, !.stage = "post"]
    OBVIOUS
  <2>3. /\ r \in ScanAts /\ r.stage = "post" /\ r.engine = scanAt[w].engine
        /\ r.file = scanAt[w].file /\ r.batch = b
    BY <1>2, <1>4, <2>2 DEF ScanAts
  <2> QED BY <1>2, <2>1, <2>2, <2>3
<1>7. ScanRest' /\ scanPc' # "closed" /\ \A v \in ScanWorkers \ {w} : ScanLooks(v)'
  BY <1>1, <1>2, <1>5, <1>6, ScanGoesOn DEF ScanCounted
<1>8. ScanLooks(w)'
  BY <1>1, <1>2, <1>6 DEF ScanInv, ScanLooks, ScanEmitted
<1>9. \A f : ~ScanInBatch(w, f)
  BY <1>1, <1>4 DEF ScanInv, ScanSinkOnce, ScanInBatch
<1>10. /\ \A f : ~ScanInBuf(f)'
       /\ \A f : ScanInPosted(f)' <=> ScanInPosted(f)
       /\ \A f : ScanInBatch(w, f)' <=> ScanInBuf(f)
       /\ \A f : \A v \in ScanWorkers \ {w} : ScanInBatch(v, f)' <=> ScanInBatch(v, f)
  BY <1>3, <1>4, <1>5, <1>6 DEF ScanInBuf, ScanInPosted, ScanInBatch
<1>11. ASSUME NEW f \in ScanFiles PROVE ScanSunk(f)'
  <2>1. ScanSunk(f)
    BY DEF ScanInv
  <2>2. (\E v \in ScanWorkers : scanAt'[v].stage = "stream" /\ scanAt'[v].file = f)
            <=> (\E v \in ScanWorkers : scanAt[v].stage = "stream" /\ scanAt[v].file = f)
    BY <1>1, <1>6
  <2> QED BY <1>1, <1>9, <1>10, <2>1, <2>2 DEF ScanSunk
<1>12. ScanSinkOnce'
  <2>1. ScanOnce(b) /\ ScanOnce(<<>>)
    BY <1>3 DEF ScanInv, ScanSinkOnce, ScanOnce
  <2>2. \A v \in ScanWorkers : /\ ScanOnce(scanAt'[v].batch)
                               /\ scanAt'[v].batch # <<>> => scanAt'[v].stage = "post"
    BY <1>6, <2>1 DEF ScanInv, ScanSinkOnce
  <2>3. ScanPostedOnce(scanSink.posted)'
    BY <1>5 DEF ScanInv, ScanSinkOnce
  <2> QED BY <1>5, <1>7, <2>1, <2>2, <2>3 DEF ScanSinkOnce
<1> QED BY <1>7, <1>8, <1>11, <1>12 DEF ScanInv, ScanRest

\* A batch is posted, unless it is empty.
ScanPostedHas(p, f) == \E i \in 1..Len(p) : \E k \in 1..Len(p[i]) : p[i][k] = f
ScanBatchHas(b, f) == \E k \in 1..Len(b) : b[k] = f

\* What posting a batch adds to what was posted.
LEMMA SinkPostedFacts ==
    ASSUME scanSink.posted \in Seq(Seq(ScanFiles)), NEW b \in Seq(ScanFiles), NEW p,
           p = SinkPosted(b)
    PROVE  /\ p \in Seq(Seq(ScanFiles))
           /\ \A f : ScanPostedHas(p, f) <=> ScanInPosted(f) \/ ScanBatchHas(b, f)
           /\ (/\ ScanPostedOnce(scanSink.posted) /\ ScanOnce(b)
               /\ \A f : ScanBatchHas(b, f) => ~ScanInPosted(f)) => ScanPostedOnce(p)
<1>0. PICK q : q = scanSink.posted
  OBVIOUS
<1>1. CASE b = <<>>
  BY <1>1 DEF SinkPosted, ScanInPosted, ScanPostedHas, ScanBatchHas
<1>2. CASE b # <<>>
  <2>1. p = Append(q, b)
    BY <1>0, <1>2 DEF SinkPosted
  <2>2. /\ p \in Seq(Seq(ScanFiles)) /\ Len(p) = Len(q) + 1 /\ Len(q) \in Nat
        /\ \A i \in 1..Len(q) : p[i] = q[i]
        /\ p[Len(q) + 1] = b
    BY <1>0, <2>1, AppendProperties, LenProperties
  <2>3. \A i \in 1..Len(p) : i \in 1..Len(q) \/ i = Len(q) + 1
    BY <2>2
  <2>4. 1..Len(q) \subseteq 1..Len(p) /\ Len(q) + 1 \in 1..Len(p)
    BY <2>2
  <2>5. ASSUME NEW f
        PROVE  ScanPostedHas(p, f) <=> ScanInPosted(f) \/ ScanBatchHas(b, f)
    <3>1. ASSUME NEW i \in 1..Len(p), NEW k \in 1..Len(p[i]), p[i][k] = f
          PROVE  ScanInPosted(f) \/ \E l \in 1..Len(b) : b[l] = f
      <4>1. CASE i \in 1..Len(q)
        <5>1. p[i] = q[i]
          BY <2>2, <4>1
        <5>2. k \in 1..Len(q[i]) /\ q[i][k] = f
          BY <3>1, <5>1
        <5> QED BY <1>0, <4>1, <5>2 DEF ScanInPosted
      <4>2. CASE i = Len(q) + 1
        <5>1. p[i] = b
          BY <2>2, <4>2
        <5> QED BY <3>1, <5>1
      <4> QED BY <2>3, <4>1, <4>2
    <3>2. ASSUME NEW i \in 1..Len(q), NEW k \in 1..Len(q[i]), q[i][k] = f
          PROVE  \E j \in 1..Len(p) : \E l \in 1..Len(p[j]) : p[j][l] = f
      <4>1. i \in 1..Len(p) /\ p[i] = q[i]
        BY <2>2, <2>4
      <4>2. k \in 1..Len(p[i]) /\ p[i][k] = f
        BY <3>2, <4>1
      <4> QED BY <4>1, <4>2
    <3>3. ASSUME NEW k \in 1..Len(b), b[k] = f
          PROVE  \E j \in 1..Len(p) : \E l \in 1..Len(p[j]) : p[j][l] = f
      <4>1. k \in 1..Len(p[Len(q) + 1]) /\ p[Len(q) + 1][k] = f
        BY <2>2, <3>3
      <4> QED BY <2>4, <4>1
    <3> QED BY <1>0, <3>1, <3>2, <3>3 DEF ScanInPosted, ScanPostedHas, ScanBatchHas
  <2>6. ASSUME ScanPostedOnce(q), ScanOnce(b), \A f : ScanBatchHas(b, f) => ~ScanInPosted(f)
        PROVE  ScanPostedOnce(p)
    <3> SUFFICES ASSUME NEW i \in 1..Len(p), NEW j \in 1..Len(p),
                        NEW k \in 1..Len(p[i]), NEW l \in 1..Len(p[j]), p[i][k] = p[j][l]
                 PROVE  i = j /\ k = l
      BY DEF ScanPostedOnce
    <3>1. \A m \in 1..Len(q) : \A n \in 1..Len(q[m]) : \A o \in 1..Len(b) : q[m][n] # b[o]
      BY <1>0, <2>6 DEF ScanInPosted, ScanBatchHas
    <3>2. CASE i \in 1..Len(q) /\ j \in 1..Len(q)
      <4>1. p[i] = q[i] /\ p[j] = q[j]
        BY <2>2, <3>2
      <4>2. k \in 1..Len(q[i]) /\ l \in 1..Len(q[j]) /\ q[i][k] = q[j][l]
        BY <4>1
      <4>3. \A x \in 1..Len(q[i]), y \in 1..Len(q[j]) : q[i][x] = q[j][y] => i = j /\ x = y
        BY ONLY <2>6, <3>2 DEF ScanPostedOnce
      <4> QED BY <4>2, <4>3
    <3>3. CASE i = Len(q) + 1 /\ j = Len(q) + 1
      BY <2>2, <2>6, <3>3 DEF ScanOnce
    <3>4. CASE i \in 1..Len(q) /\ j = Len(q) + 1
      <4>1. p[i] = q[i] /\ p[j] = b
        BY <2>2, <3>4
      <4>2. k \in 1..Len(q[i]) /\ l \in 1..Len(b) /\ q[i][k] = b[l]
        BY <4>1
      <4> QED BY <3>1, <3>4, <4>2
    <3>5. CASE i = Len(q) + 1 /\ j \in 1..Len(q)
      <4>1. p[i] = b /\ p[j] = q[j]
        BY <2>2, <3>5
      <4>2. k \in 1..Len(b) /\ l \in 1..Len(q[j]) /\ q[j][l] = b[k]
        BY <4>1
      <4> QED BY <3>1, <3>5, <4>2
    <3> QED BY <2>3, <3>2, <3>3, <3>4, <3>5
  <2> QED BY <1>0, <2>2, <2>5, <2>6
<1> QED BY <1>1, <1>2

\* FlushPosts keeps ScanInv.
LEMMA FlushPostsKeeps ==
    ASSUME ScanInv, NEW w \in ScanWorkers, FlushPosts(w)
    PROVE  ScanInv'
<1>0. PICK b : b = scanAt[w].batch
  OBVIOUS
<1>00. PICK p : p = SinkPosted(b)
  OBVIOUS
<1>1. /\ scanAt[w].stage = "post" /\ scanJobs' = scanJobs /\ ScanMainStays
      /\ UNCHANGED <<scanRep, scanDone, scanFaults>>
      /\ scanAt' = [scanAt EXCEPT ![w].batch = <<>>, ![w].stage = "next"]
      /\ scanSink' = [scanSink EXCEPT !.posted = p]
  BY <1>0, <1>00 DEF FlushPosts
<1>2. /\ ScanBusy(w) /\ scanRep \in ScanReports /\ scanPc # "closed"
      /\ scanAt \in [ScanWorkers -> ScanAts] /\ scanAt[w] \in ScanAts
      /\ scanSink \in [buf : Seq(ScanFiles), posted : Seq(Seq(ScanFiles))]
  BY <1>1, ScanAtWork DEF ScanInv, ScanBusy, ScanTypeOK, ScanEnded
<1>3. b \in Seq(ScanFiles) /\ <<>> \in Seq(ScanFiles) /\ Len(<<>>) = 0
  BY <1>0, <1>2, ScanConstants DEF ScanAts
<1>33. scanSink.posted \in Seq(Seq(ScanFiles))
  BY <1>2
<1>4. /\ p \in Seq(Seq(ScanFiles))
      /\ \A f : ScanPostedHas(p, f) <=> ScanInPosted(f) \/ ScanBatchHas(b, f)
      /\ (/\ ScanPostedOnce(scanSink.posted) /\ ScanOnce(b)
          /\ \A f : ScanBatchHas(b, f) => ~ScanInPosted(f)) => ScanPostedOnce(p)
  BY ONLY <1>00, <1>33, <1>3, SinkPostedFacts
<1>5. /\ scanSink'.buf = scanSink.buf /\ scanSink'.posted = p
      /\ scanSink' \in [buf : Seq(ScanFiles), posted : Seq(Seq(ScanFiles))]
  BY <1>1, <1>2, <1>4
<1>6. /\ scanAt' \in [ScanWorkers -> ScanAts]
      /\ scanAt'[w].stage = "next" /\ scanAt'[w].engine = scanAt[w].engine
      /\ scanAt'[w].file = scanAt[w].file /\ scanAt'[w].batch = <<>>
      /\ \A v \in ScanWorkers \ {w} : scanAt'[v] = scanAt[v]
  <2>1. scanAt' = [scanAt EXCEPT ![w] = [scanAt[w] EXCEPT !.batch = <<>>, !.stage = "next"]]
    BY <1>1, <1>2
  <2>2. PICK r : r = [scanAt[w] EXCEPT !.batch = <<>>, !.stage = "next"]
    OBVIOUS
  <2>3. /\ r \in ScanAts /\ r.stage = "next" /\ r.engine = scanAt[w].engine
        /\ r.file = scanAt[w].file /\ r.batch = <<>>
    BY <1>2, <1>3, <2>2 DEF ScanAts
  <2> QED BY <1>2, <2>1, <2>2, <2>3
<1>7. ScanRest' /\ scanPc' # "closed" /\ \A v \in ScanWorkers \ {w} : ScanLooks(v)'
  BY <1>1, <1>2, <1>5, <1>6, ScanGoesOn DEF ScanCounted
<1>8. ScanLooks(w)'
  BY <1>1, <1>2, <1>6 DEF ScanInv, ScanLooks, ScanEmitted
<1>9. /\ \A f : ScanInBuf(f)' <=> ScanInBuf(f)
      /\ \A f : ScanInPosted(f)' <=> ScanInPosted(f) \/ ScanInBatch(w, f)
      /\ \A f : ~ScanInBatch(w, f)'
      /\ \A f : \A v \in ScanWorkers \ {w} : ScanInBatch(v, f)' <=> ScanInBatch(v, f)
  <2>1. \A f : ScanInPosted(f)' <=> ScanInPosted(f) \/ ScanInBatch(w, f)
    <3> TAKE f
    <3>1. ScanInPosted(f)' <=> ScanPostedHas(p, f)
      BY <1>5 DEF ScanInPosted, ScanPostedHas
    <3>2. ScanInBatch(w, f) <=> ScanBatchHas(b, f)
      BY <1>0 DEF ScanInBatch, ScanBatchHas
    <3> QED BY <1>4, <3>1, <3>2
  <2> QED BY <1>3, <1>5, <1>6, <2>1 DEF ScanInBuf, ScanInBatch
<1>10. ASSUME NEW f \in ScanFiles PROVE ScanSunk(f)'
  <2>1. ScanSunk(f)
    BY DEF ScanInv
  <2>2. (\E v \in ScanWorkers : scanAt'[v].stage = "stream" /\ scanAt'[v].file = f)
            <=> (\E v \in ScanWorkers : scanAt[v].stage = "stream" /\ scanAt[v].file = f)
    BY <1>1, <1>6
  <2> QED BY <1>1, <1>9, <2>1, <2>2 DEF ScanSunk
<1>11. ScanSinkOnce'
  <2>0. ScanSinkOnce
    BY DEF ScanInv
  <2>1. ScanOnce(b) /\ ScanOnce(<<>>) /\ ScanPostedOnce(scanSink.posted)
    <3>1. ScanOnce(<<>>)
      BY <1>3 DEF ScanOnce
    <3>2. ScanOnce(b) /\ ScanPostedOnce(scanSink.posted)
      BY <1>0, <2>0 DEF ScanSinkOnce, ScanPostedOnce
    <3> QED BY <3>1, <3>2
  <2>2. \A v \in ScanWorkers : /\ ScanOnce(scanAt'[v].batch)
                               /\ scanAt'[v].batch # <<>> => scanAt'[v].stage = "post"
    BY <1>6, <2>1 DEF ScanInv, ScanSinkOnce
  <2>3. ASSUME NEW f, ScanBatchHas(b, f) PROVE ~ScanInPosted(f)
    <3>1. f \in ScanFiles
      BY <1>3, <2>3, ElementOfSeq DEF ScanBatchHas
    <3>2. ScanInBatch(w, f)
      BY <1>0, <2>3 DEF ScanBatchHas, ScanInBatch
    <3> QED BY <3>1, <3>2 DEF ScanInv, ScanSunk
  <2>4. ScanPostedOnce(p)
    BY <1>4, <2>1, <2>3
  <2> QED BY <1>5, <1>7, <2>2, <2>4 DEF ScanInv, ScanSinkOnce, ScanPostedOnce
<1> QED BY <1>7, <1>8, <1>10, <1>11 DEF ScanInv, ScanRest

-----------------------------------------------------------------------------
(* The end of the run *)

\* The end of the run moves no file.
LEMMA ScanEndFrame ==
    ASSUME ScanInv, ScanWorkersStay, scanPc' \in ScanEnded,
           scanRep' \in ScanReports, scanRep'.findings = scanRep.findings,
           ScanCounted' = ScanCounted, ScanComplete' => ScanComplete,
           scanSink' \in [buf : Seq(ScanFiles), posted : Seq(Seq(ScanFiles))]
    PROVE  /\ ScanTypeOK' /\ ScanApart' /\ ScanBooks' /\ ScanFound'
           /\ \A f \in ScanFiles : ScanPlaced(f)'
           /\ \A w \in ScanWorkers : ScanLooks(w)'
<1>1. UNCHANGED <<scanWalked, scanHand, scanJobs, scanAt, scanExpired, scanDone, scanUnstat, scanFaults>>
  BY DEF ScanWorkersStay
<1>2. ScanTypeOK'
  BY <1>1 DEF ScanInv, ScanTypeOK, ScanEnded
<1>3. \A f \in ScanFiles : ScanSame(f)
  BY <1>1 DEF ScanSame, ScanSeen, ScanQueued, ScanHeld, ScanBusy, ScanOver
<1>4. ASSUME NEW f \in ScanFiles PROVE ScanPlaced(f)'
  BY <1>3, ScanSamePlaced DEF ScanInv
<1>5. ScanApart'
  BY <1>1 DEF ScanInv, ScanApart, ScanBusy
<1>6. ScanBooks'
  BY <1>3, ScanSameLost, ScanBooksStay DEF ScanInv
<1>7. ScanFound'
  BY <1>1 DEF ScanInv, ScanFound, ScanSeen, ScanQueued
<1>8. \A w \in ScanWorkers : ScanLooks(w)'
  BY <1>1 DEF ScanInv, ScanLooks, ScanEmitted, ScanBusy
<1> QED BY <1>2, <1>4, <1>5, <1>6, <1>7, <1>8

\* ScanChecked keeps ScanInv.
LEMMA ScanCheckedKeeps == ScanInv /\ ScanChecked => ScanInv'
<1> SUFFICES ASSUME ScanInv, ScanChecked PROVE ScanInv'
  OBVIOUS
<1>1. /\ scanPc \in {"drain", "interrupted"} /\ scanPc' = "others" /\ scanSink' = scanSink
      /\ \A w \in ScanWorkers : scanAt[w].stage = "returned"
      /\ scanRep' = [scanRep EXCEPT !.checks = {[id |-> "fs.scan", layer |-> "application",
                         state |-> IF scanPc = "interrupted" THEN "error" ELSE "ok"]}]
      /\ ScanWorkersStay
  BY DEF ScanChecked
<1>2. UNCHANGED <<scanWalked, scanHand, scanJobs, scanAt, scanExpired>>
  BY <1>1 DEF ScanWorkersStay
<1>3. /\ scanRep' \in ScanReports /\ scanRep'.findings = scanRep.findings
      /\ scanRep'.errors = scanRep.errors /\ scanRep'.verdict = scanRep.verdict
      /\ scanRep'.readErrors = scanRep.readErrors /\ scanRep'.slow = scanRep.slow
  <2>1. scanRep \in ScanReports
    BY DEF ScanInv, ScanTypeOK
  <2>2. {[id |-> "fs.scan", layer |-> "application",
          state |-> IF scanPc = "interrupted" THEN "error" ELSE "ok"]} \subseteq ScanChecks
    BY DEF ScanChecks
  <2> QED BY <1>1, <2>1, <2>2 DEF ScanReports
<1>4. ScanComplete' => ScanComplete /\ scanPc = "drain" /\ ~scanExpired
  BY <1>1, <1>2, <1>3 DEF ScanInv, ScanStands, ScanComplete
<1>5. /\ ScanTypeOK' /\ ScanApart' /\ ScanBooks' /\ ScanFound'
      /\ \A f \in ScanFiles : ScanPlaced(f)'
      /\ \A w \in ScanWorkers : ScanLooks(w)'
  BY <1>1, <1>3, <1>4, ScanEndFrame DEF ScanInv, ScanTypeOK, ScanEnded, ScanCounted
<1>6. ScanStands'
  <2>1. ScanComplete' => scanWalked = Len(ScanTree) /\ scanJobs = <<>>
    BY <1>1, <1>4, ScanConstants DEF ScanInv, ScanStands
  <2>2. scanHand' = ScanNone /\ scanRep'.verdict = ScanNone
    BY <1>1, <1>2, <1>3 DEF ScanInv, ScanStands
  <2>3. (~scanExpired /\ \E w \in ScanWorkers : scanAt[w].stage = "returned") => scanJobs = <<>>
    BY DEF ScanInv, ScanStands
  <2> QED BY <1>1, <1>2, <2>1, <2>2, <2>3 DEF ScanStands, ScanEnded
<1>7. (\A f \in ScanFiles : ScanSunk(f)') /\ ScanSinkOnce'
  BY <1>1, <1>2, <1>3, ScanMainFrame
<1> QED BY <1>5, <1>6, <1>7 DEF ScanInv

\* ScanOtherChecks keeps ScanInv.
LEMMA ScanOtherChecksKeeps == ScanInv /\ ScanOtherChecks => ScanInv'
<1> SUFFICES ASSUME ScanInv, ScanOtherChecks PROVE ScanInv'
  OBVIOUS
<1>1. /\ scanPc = "others" /\ scanPc' = "finalize" /\ scanSink' = scanSink /\ ScanWorkersStay
  BY DEF ScanOtherChecks
<1>2. UNCHANGED <<scanWalked, scanHand, scanJobs, scanAt, scanExpired>>
  BY <1>1 DEF ScanWorkersStay
<1>3. /\ scanRep' \in ScanReports /\ scanRep'.findings = scanRep.findings
      /\ scanRep'.errors = scanRep.errors /\ scanRep'.verdict = scanRep.verdict
      /\ scanRep'.readErrors = scanRep.readErrors /\ scanRep'.slow = scanRep.slow
  <2>1. scanRep \in ScanReports
    BY DEF ScanInv, ScanTypeOK
  <2>2. PICK wp \in {"ok", "unavailable", "not_applicable"},
             db \in {"ok", "unavailable", "not_applicable"} :
                scanRep' = [scanRep EXCEPT !.checks = @ \cup
                    {[id |-> "wp.plugins", layer |-> "application", state |-> wp],
                     [id |-> "db.options", layer |-> "database", state |-> db]}]
    BY DEF ScanOtherChecks
  <2>3. {[id |-> "wp.plugins", layer |-> "application", state |-> wp],
         [id |-> "db.options", layer |-> "database", state |-> db]} \subseteq ScanChecks
    BY DEF ScanChecks
  <2> QED BY <2>1, <2>2, <2>3 DEF ScanReports
<1>4. ScanComplete' => ScanComplete
  BY <1>1, <1>2, <1>3 DEF ScanComplete
<1>5. /\ ScanTypeOK' /\ ScanApart' /\ ScanBooks' /\ ScanFound'
      /\ \A f \in ScanFiles : ScanPlaced(f)'
      /\ \A w \in ScanWorkers : ScanLooks(w)'
  BY <1>1, <1>3, <1>4, ScanEndFrame DEF ScanInv, ScanTypeOK, ScanEnded, ScanCounted
<1>6. ScanStands'
  BY <1>1, <1>2, <1>3, <1>4 DEF ScanInv, ScanStands, ScanEnded
<1>7. (\A f \in ScanFiles : ScanSunk(f)') /\ ScanSinkOnce'
  BY <1>1, <1>2, <1>3, ScanMainFrame
<1> QED BY <1>5, <1>6, <1>7 DEF ScanInv

\* RunEnds keeps ScanInv.
LEMMA RunEndsKeeps == ScanInv /\ RunEnds => ScanInv'
<1> SUFFICES ASSUME ScanInv, RunEnds PROVE ScanInv'
  OBVIOUS
<1>0. PICK n : n = scanRep.errors + (IF scanExpired THEN 1 ELSE 0)
  OBVIOUS
<1>1. PICK rep : rep = [scanRep EXCEPT !.errors = n]
  OBVIOUS
<1>2. /\ scanPc = "finalize" /\ scanPc' = "report" /\ scanSink' = scanSink /\ ScanWorkersStay
      /\ scanRep' = [rep EXCEPT !.verdict = Verdict(rep)]
  BY <1>0, <1>1 DEF RunEnds
<1>3. UNCHANGED <<scanWalked, scanHand, scanJobs, scanAt, scanExpired>>
  BY <1>2 DEF ScanWorkersStay
<1>4. scanRep \in ScanReports /\ scanRep.errors \in Nat
  BY DEF ScanInv, ScanTypeOK, ScanReports
<1>5. n \in Nat /\ (n = 0 => scanRep.errors = 0 /\ ~scanExpired)
  <2>1. \A a \in Nat : a + 1 \in Nat /\ a + 0 = a /\ a + 1 # 0
    OBVIOUS
  <2> QED BY <1>0, <1>4, <2>1
<1>6. Verdict(rep) \in {"clean", "dirty", "partial"}
  BY DEF Verdict
<1>7. /\ rep \in ScanReports /\ rep.findings = scanRep.findings /\ rep.checks = scanRep.checks
      /\ rep.errors = n /\ rep.readErrors = scanRep.readErrors /\ rep.slow = scanRep.slow
  BY <1>1, <1>4, <1>5 DEF ScanReports
<1>8. /\ scanRep' \in ScanReports /\ scanRep'.findings = rep.findings
      /\ scanRep'.checks = rep.checks /\ scanRep'.errors = rep.errors
      /\ scanRep'.readErrors = rep.readErrors /\ scanRep'.slow = rep.slow
      /\ scanRep'.verdict = Verdict(rep)
  BY <1>2, <1>6, <1>7 DEF ScanReports
<1>9. Verdict(scanRep') = Verdict(rep)
  BY <1>8 DEF Verdict
<1>10. ScanComplete' => ScanComplete
  BY <1>2, <1>5, <1>7, <1>8 DEF ScanComplete
<1>11. /\ ScanTypeOK' /\ ScanApart' /\ ScanBooks' /\ ScanFound'
       /\ \A f \in ScanFiles : ScanPlaced(f)'
       /\ \A w \in ScanWorkers : ScanLooks(w)'
  BY <1>2, <1>7, <1>8, <1>10, ScanEndFrame DEF ScanInv, ScanTypeOK, ScanEnded, ScanCounted
<1>12. ScanStands'
  <2>1. scanRep'.verdict = Verdict(scanRep')
    BY <1>8, <1>9
  <2> QED BY <1>2, <1>3, <1>10, <2>1 DEF ScanInv, ScanStands, ScanEnded
<1>13. (\A f \in ScanFiles : ScanSunk(f)') /\ ScanSinkOnce'
  BY <1>2, <1>3, <1>7, <1>8, ScanMainFrame
<1> QED BY <1>11, <1>12, <1>13 DEF ScanInv

\* SinkReport keeps ScanInv.
LEMMA SinkReportKeeps == ScanInv /\ SinkReport => ScanInv'
<1> SUFFICES ASSUME ScanInv, SinkReport PROVE ScanInv'
  OBVIOUS
<1>0. PICK b : b = scanSink.buf
  OBVIOUS
<1>1. PICK p : p = SinkPosted(b)
  OBVIOUS
<1>2. /\ scanPc = "report" /\ scanPc' = "closed" /\ scanRep' = scanRep /\ ScanWorkersStay
      /\ scanSink' = [buf |-> <<>>, posted |-> p]
  BY <1>0, <1>1 DEF SinkReport
<1>3. UNCHANGED <<scanWalked, scanHand, scanJobs, scanAt, scanExpired>>
  BY <1>2 DEF ScanWorkersStay
<1>4. /\ b \in Seq(ScanFiles) /\ scanSink.posted \in Seq(Seq(ScanFiles))
      /\ <<>> \in Seq(ScanFiles) /\ Len(<<>>) = 0 /\ scanRep \in ScanReports
  BY <1>0, ScanConstants DEF ScanInv, ScanTypeOK
<1>5. /\ p \in Seq(Seq(ScanFiles))
      /\ \A f : ScanPostedHas(p, f) <=> ScanInPosted(f) \/ ScanBatchHas(b, f)
      /\ (/\ ScanPostedOnce(scanSink.posted) /\ ScanOnce(b)
          /\ \A f : ScanBatchHas(b, f) => ~ScanInPosted(f)) => ScanPostedOnce(p)
  BY ONLY <1>1, <1>4, SinkPostedFacts
<1>6. /\ scanSink'.buf = <<>> /\ scanSink'.posted = p
      /\ scanSink' \in [buf : Seq(ScanFiles), posted : Seq(Seq(ScanFiles))]
  BY <1>2, <1>4, <1>5
<1>7. ScanComplete' => ScanComplete
  BY <1>2, <1>3 DEF ScanComplete
<1>8. /\ ScanTypeOK' /\ ScanApart' /\ ScanBooks' /\ ScanFound'
      /\ \A f \in ScanFiles : ScanPlaced(f)'
      /\ \A w \in ScanWorkers : ScanLooks(w)'
  BY <1>2, <1>4, <1>6, <1>7, ScanEndFrame DEF ScanEnded, ScanCounted
<1>9. ScanStands'
  BY <1>2, <1>3, <1>7 DEF ScanInv, ScanStands, ScanEnded
<1>10. /\ \A f : ~ScanInBuf(f)'
       /\ \A f : ScanInPosted(f)' <=> ScanInPosted(f) \/ ScanInBuf(f)
       /\ \A f : \A v \in ScanWorkers : ScanInBatch(v, f)' <=> ScanInBatch(v, f)
  <2>1. \A f : ScanInPosted(f)' <=> ScanInPosted(f) \/ ScanInBuf(f)
    <3> TAKE f
    <3>1. ScanInPosted(f)' <=> ScanPostedHas(p, f)
      BY <1>6 DEF ScanInPosted, ScanPostedHas
    <3>2. ScanInBuf(f) <=> ScanBatchHas(b, f)
      BY <1>0 DEF ScanInBuf, ScanBatchHas
    <3> QED BY <1>5, <3>1, <3>2
  <2>2. \A f : ~ScanInBuf(f)'
    BY <1>4, <1>6 DEF ScanInBuf
  <2> QED BY <1>3, <2>1, <2>2 DEF ScanInBatch
<1>11. ASSUME NEW f \in ScanFiles PROVE ScanSunk(f)'
  <2>1. ScanSunk(f)
    BY DEF ScanInv
  <2>2. \A w \in ScanWorkers : ~ScanInBatch(w, f)
    <3>1. \A w \in ScanWorkers : scanAt[w].stage = "returned"
      BY <1>2 DEF ScanInv, ScanStands, ScanEnded
    <3>2. \A w \in ScanWorkers : scanAt[w].batch = <<>>
      BY <3>1 DEF ScanInv, ScanSinkOnce
    <3> QED BY <1>4, <3>2 DEF ScanInBatch
  <2> QED BY <1>2, <1>3, <1>10, <2>1, <2>2 DEF ScanSunk
<1>12. ScanSinkOnce'
  <2>0. ScanSinkOnce
    BY DEF ScanInv
  <2>1. ScanOnce(b) /\ ScanOnce(<<>>) /\ ScanPostedOnce(scanSink.posted)
    <3>1. ScanOnce(<<>>)
      BY <1>4 DEF ScanOnce
    <3>2. ScanOnce(b) /\ ScanPostedOnce(scanSink.posted)
      BY <1>0, <2>0 DEF ScanSinkOnce, ScanPostedOnce
    <3> QED BY <3>1, <3>2
  <2>2. ASSUME NEW f, ScanBatchHas(b, f) PROVE ~ScanInPosted(f)
    <3>1. f \in ScanFiles
      BY <1>4, <2>2, ElementOfSeq DEF ScanBatchHas
    <3>2. ScanInBuf(f)
      BY <1>0, <2>2 DEF ScanBatchHas, ScanInBuf
    <3> QED BY <3>1, <3>2 DEF ScanInv, ScanSunk
  <2>3. ScanPostedOnce(p)
    BY <1>5, <2>1, <2>2
  <2>4. \A w \in ScanWorkers : /\ ScanOnce(scanAt'[w].batch)
                               /\ scanAt'[w].batch # <<>> => scanAt'[w].stage = "post"
    BY <1>3, <2>0 DEF ScanSinkOnce
  <2>5. /\ ScanOnce(scanSink'.buf) /\ scanSink'.buf = <<>>
        /\ ScanPostedOnce(scanSink'.posted)
    BY <1>6, <2>1, <2>3
  <2> QED BY <2>4, <2>5 DEF ScanSinkOnce
<1> QED BY <1>8, <1>9, <1>11, <1>12 DEF ScanInv

-----------------------------------------------------------------------------
(* The theorem *)

\* ScanInv holds initially.
LEMMA ScanInvInit == ScanInit => ScanInv
<1> SUFFICES ASSUME ScanInit PROVE ScanInv
  OBVIOUS
<1>1. /\ scanPc = "walk" /\ scanWalked = 0 /\ scanHand = ScanNone /\ scanJobs = <<>>
      /\ scanAt = [w \in ScanWorkers |-> ScanIdle]
      /\ scanRep = [findings |-> {}, checks |-> {}, errors |-> 0, verdict |-> ScanNone,
                    readErrors |-> 0, slow |-> 0]
      /\ scanSink = [buf |-> <<>>, posted |-> <<>>]
      /\ scanExpired = FALSE /\ scanDone = {} /\ scanUnstat = {} /\ scanFaults = 0
  BY DEF ScanInit
<1>2. /\ <<>> \in Seq(ScanFiles) /\ <<>> \in Seq(Seq(ScanFiles)) /\ Len(<<>>) = 0
      /\ \A i : i \notin 1..0
  BY ScanConstants
<1>3. ScanIdle \in ScanAts /\ ScanIdle.stage = "take" /\ ScanIdle.batch = <<>>
  BY <1>2 DEF ScanIdle, ScanAts, ScanEngines
<1>4. \A w \in ScanWorkers : scanAt[w] = ScanIdle
  BY <1>1
<1>5. ScanTypeOK
  <2>1. scanRep \in ScanReports
    BY <1>1 DEF ScanReports
  <2>2. scanWalked \in 0..Len(ScanTree) /\ scanFaults \in 0..ScanMaxFaults /\ Len(scanJobs) <= ScanChannel
    BY <1>1, <1>2, ScanConstants, ScanTreeFacts
  <2>3. scanAt \in [ScanWorkers -> ScanAts]
    BY <1>1, <1>3
  <2>4. scanSink \in [buf : Seq(ScanFiles), posted : Seq(Seq(ScanFiles))]
    BY <1>1, <1>2
  <2> QED BY <1>1, <1>2, <2>1, <2>2, <2>3, <2>4 DEF ScanTypeOK
<1>6. \A f : ~ScanSeen(f) /\ ~ScanQueued(f) /\ ~ScanHeld(f) /\ ~ScanOver(f)
  BY <1>1, <1>2, <1>3, <1>4 DEF ScanSeen, ScanQueued, ScanHeld, ScanBusy, ScanOver
<1>7. \A f \in ScanFiles : ScanPlaced(f)
  BY <1>1, <1>6, ScanConstants DEF ScanPlaced
<1>8. ScanApart
  BY <1>1, <1>2, <1>3, <1>4 DEF ScanApart, ScanBusy
<1>9. ScanBooks
  <2>1. ScanLost = {}
    BY <1>6 DEF ScanLost
  <2>2. ScanCounted = 0
    BY <1>1 DEF ScanCounted
  <2> QED BY <2>1, <2>2, FS_EmptySet DEF ScanBooks
<1>10. ScanStands
  BY <1>1, <1>3, <1>4 DEF ScanStands, ScanEnded
<1>11. (\A w \in ScanWorkers : ScanLooks(w)) /\ ScanFound
  BY <1>1, <1>3, <1>4 DEF ScanLooks, ScanBusy, ScanFound
<1>12. \A f \in ScanFiles : ScanSunk(f)
  BY <1>1, <1>2, <1>3, <1>4 DEF ScanSunk, ScanInBuf, ScanInBatch, ScanInPosted
<1>13. ScanSinkOnce
  BY <1>1, <1>2, <1>3, <1>4 DEF ScanSinkOnce, ScanPostedOnce, ScanOnce
<1> QED BY <1>5, <1>7, <1>8, <1>9, <1>10, <1>11, <1>12, <1>13 DEF ScanInv

\* One step of anyone.
LEMMA ScanInvStep == ScanInv /\ [ScanNext]_scanVars => ScanInv'
<1> SUFFICES ASSUME ScanInv, [ScanNext]_scanVars PROVE ScanInv'
  OBVIOUS
<1>1. CASE ScanMain
  BY <1>1, ScanVisitKeeps, ScanSendKeeps, ScanWalkEndsKeeps, ScanCheckedKeeps,
     ScanOtherChecksKeeps, RunEndsKeeps, SinkReportKeeps DEF ScanMain
<1>2. ASSUME NEW w \in ScanWorkers, ScanWork(w) PROVE ScanInv'
  <2>1. CASE ScanTake(w)
    BY <2>1, ScanTakesJob, ScanReturnsKeeps
  <2> QED BY <1>2, <2>1, ScanReadKeeps, ScanLookKeeps, EmitKeeps, SinkFindingKeeps,
             FlushTakesKeeps, FlushPostsKeeps, ScanNextEngineKeeps DEF ScanWork
<1>3. CASE ScanExpire
  BY <1>3, ScanExpireKeeps
<1>4. CASE UNCHANGED scanVars
  BY <1>4 DEF scanVars, ScanInv, ScanTypeOK, ScanPlaced, ScanApart, ScanBooks, ScanStands, ScanLooks,
     ScanFound, ScanSunk, ScanSinkOnce, ScanBusy, ScanSeen, ScanQueued, ScanHeld, ScanOver, ScanLost,
     ScanComplete, ScanCounted, ScanEmitted, ScanInBuf, ScanInBatch, ScanInPosted, ScanOnce
<1> QED BY <1>1, <1>2, <1>3, <1>4 DEF ScanNext

\* A layer that is neither degraded nor unavailable has no check that failed.
LEMMA ComputeLayersTells ==
    ASSUME NEW checks, NEW c \in checks, c.state \notin {"ok", "not_applicable"}
    PROVE  \E l \in DOMAIN ComputeLayers(checks) :
               ComputeLayers(checks)[l] \in {"unavailable", "degraded"}
<1> DEFINE mine == {d \in checks : d.layer = c.layer}
           counted == {d \in mine : d.state # "not_applicable"}
           observed == {d \in counted : d.state = "ok"}
<1>1. c \in counted /\ c \notin observed
  OBVIOUS
<1>2. LayerState(mine) \in {"unavailable", "degraded"}
  BY <1>1 DEF LayerState
<1>3. /\ c.layer \in DOMAIN ComputeLayers(checks)
      /\ ComputeLayers(checks)[c.layer] = LayerState(mine)
  BY DEF ComputeLayers
<1> QED BY <1>2, <1>3

\* A run that completed lost what it counted.
LEMMA ScanCompleteLost ==
    ASSUME ScanInv, scanPc \in {"report", "closed"}, scanRep.errors = 0
    PROVE  Cardinality(ScanFiles \ (scanDone \cup scanUnstat)) = ScanCounted
<1>1. /\ ScanComplete /\ scanHand = ScanNone /\ scanJobs = <<>> /\ scanWalked = Len(ScanTree)
      /\ \A w \in ScanWorkers : scanAt[w].stage = "returned"
  BY DEF ScanInv, ScanStands, ScanComplete, ScanEnded
<1>2. \A f \in ScanFiles : ScanSeen(f)
  BY <1>1, ScanTreeFacts DEF ScanSeen
<1>3. \A f \in ScanFiles : f # scanHand /\ ~ScanQueued(f) /\ ~ScanHeld(f)
  BY <1>1, ScanConstants DEF ScanQueued, ScanHeld, ScanBusy
<1>4. ScanLost = ScanFiles \ (scanDone \cup scanUnstat)
  BY <1>2, <1>3 DEF ScanLost, ScanOver
<1> QED BY <1>1, <1>4 DEF ScanInv, ScanBooks

\* At the end the sink has posted what the report holds.
LEMMA ScanSinkComplete ==
    ASSUME ScanInv, scanPc = "closed"
    PROVE  ScanInSink = scanRep.findings
<1> DEFINE posted == UNION {Range(scanSink.posted[i]) : i \in DOMAIN scanSink.posted}
<1>1. /\ \A w \in ScanWorkers : scanAt[w].stage = "returned" /\ scanAt[w].batch = <<>>
      /\ scanSink.buf = <<>>
  <2>1. \A w \in ScanWorkers : scanAt[w].stage = "returned"
    BY DEF ScanInv, ScanStands, ScanEnded
  <2> QED BY <2>1 DEF ScanInv, ScanSinkOnce
<1>2. Range(<<>>) = {} /\ Len(<<>>) = 0
  BY DEF Range
<1>3. ScanInSink = posted
  BY <1>1, <1>2 DEF ScanInSink
<1>4. /\ DOMAIN scanSink.posted = 1..Len(scanSink.posted)
      /\ \A i \in 1..Len(scanSink.posted) :
            /\ scanSink.posted[i] \in Seq(ScanFiles)
            /\ DOMAIN scanSink.posted[i] = 1..Len(scanSink.posted[i])
            /\ \A k \in 1..Len(scanSink.posted[i]) : scanSink.posted[i][k] \in ScanFiles
  <2>1. scanSink.posted \in Seq(Seq(ScanFiles))
    BY DEF ScanInv, ScanTypeOK
  <2>2. \A i \in 1..Len(scanSink.posted) : scanSink.posted[i] \in Seq(ScanFiles)
    BY <2>1, ElementOfSeq
  <2> QED BY <2>1, <2>2, ElementOfSeq, LenProperties
<1>5. \A f : f \in posted <=> ScanInPosted(f)
  <2>1. \A f : \A i \in 1..Len(scanSink.posted) :
            f \in Range(scanSink.posted[i])
                <=> \E k \in 1..Len(scanSink.posted[i]) : scanSink.posted[i][k] = f
    BY <1>4 DEF Range
  <2>2. \A f : f \in posted <=> \E i \in 1..Len(scanSink.posted) : f \in Range(scanSink.posted[i])
    BY <1>4
  <2> HIDE DEF posted
  <2> QED BY <2>1, <2>2 DEF ScanInPosted
<1>6. \A f : ScanInPosted(f) => f \in ScanFiles
  BY <1>4 DEF ScanInPosted
<1>7. ASSUME NEW f \in ScanFiles PROVE ScanInPosted(f) <=> f \in scanRep.findings
  <2>1. ~ScanInBuf(f) /\ \A w \in ScanWorkers : ~ScanInBatch(w, f)
    BY <1>1, <1>2 DEF ScanInBuf, ScanInBatch
  <2>2. \A w \in ScanWorkers : scanAt[w].stage # "stream"
    BY <1>1
  <2> QED BY <2>1, <2>2 DEF ScanInv, ScanSunk
<1>8. scanRep.findings \subseteq ScanFiles
  BY ScanRepFields DEF ScanInv
<1> HIDE DEF posted
<1> QED BY <1>3, <1>5, <1>6, <1>7, <1>8

\* The invariant says what the report has to.
LEMMA ScanInvSafe == ScanInv => ScanSafe
<1> SUFFICES ASSUME ScanInv PROVE ScanSafe
  OBVIOUS
<1>1. ScanCleanMeansAll
  <2> SUFFICES ASSUME scanRep.verdict = "clean"
               PROVE  /\ Cardinality(ScanFiles \ (scanDone \cup scanUnstat)) <= ScanCounted
                      /\ \A c \in scanRep.checks : c.state \in {"ok", "not_applicable"}
    BY DEF ScanCleanMeansAll
  <2>1. scanPc \in {"report", "closed"} /\ Verdict(scanRep) = "clean"
    BY DEF ScanInv, ScanStands, ScanNone
  <2>2. /\ ~(scanRep.errors > 0)
        /\ \A l \in DOMAIN ComputeLayers(scanRep.checks) :
              ComputeLayers(scanRep.checks)[l] \notin {"unavailable", "degraded"}
    BY <2>1 DEF Verdict
  <2>3. scanRep.errors = 0 /\ ScanCounted \in Nat
    BY <2>2, ScanRepFields DEF ScanInv
  <2>4. Cardinality(ScanFiles \ (scanDone \cup scanUnstat)) = ScanCounted
    BY <2>1, <2>3, ScanCompleteLost
  <2>5. \A c \in scanRep.checks : c.state \in {"ok", "not_applicable"}
    BY <2>2, ComputeLayersTells
  <2> QED BY <2>3, <2>4, <2>5
<1>2. ScanNoneForgotten
  <2>1. scanRep.verdict # ScanNone => scanPc \in {"report", "closed"}
    BY DEF ScanInv, ScanStands
  <2> QED BY <2>1, ScanCompleteLost DEF ScanInv, ScanFound, ScanNoneForgotten
<1>3. ScanStreamed
  <2> SUFFICES ASSUME scanPc = "closed"
               PROVE  /\ ScanInSink = scanRep.findings
                      /\ \A i, j \in DOMAIN scanSink.posted :
                            \A k \in DOMAIN scanSink.posted[i], l \in DOMAIN scanSink.posted[j] :
                               scanSink.posted[i][k] = scanSink.posted[j][l] => i = j /\ k = l
                      /\ scanSink.buf = <<>>
    BY DEF ScanStreamed
  <2>1. scanSink.posted \in Seq(Seq(ScanFiles))
    BY DEF ScanInv, ScanTypeOK
  <2>2. /\ DOMAIN scanSink.posted = 1..Len(scanSink.posted)
        /\ \A i \in 1..Len(scanSink.posted) :
              DOMAIN scanSink.posted[i] = 1..Len(scanSink.posted[i])
    <3>1. \A i \in 1..Len(scanSink.posted) : scanSink.posted[i] \in Seq(ScanFiles)
      BY <2>1, ElementOfSeq
    <3> QED BY <2>1, <3>1, LenProperties
  <2>3. /\ scanSink.buf = <<>>
        /\ \A i, j \in 1..Len(scanSink.posted) :
              \A k \in 1..Len(scanSink.posted[i]), l \in 1..Len(scanSink.posted[j]) :
                  scanSink.posted[i][k] = scanSink.posted[j][l] => i = j /\ k = l
    BY DEF ScanInv, ScanSinkOnce, ScanPostedOnce
  <2>4. \A i, j \in DOMAIN scanSink.posted :
           \A k \in DOMAIN scanSink.posted[i], l \in DOMAIN scanSink.posted[j] :
              scanSink.posted[i][k] = scanSink.posted[j][l] => i = j /\ k = l
    <3> SUFFICES ASSUME NEW i \in DOMAIN scanSink.posted, NEW j \in DOMAIN scanSink.posted,
                        NEW k \in DOMAIN scanSink.posted[i], NEW l \in DOMAIN scanSink.posted[j],
                        scanSink.posted[i][k] = scanSink.posted[j][l]
                 PROVE  i = j /\ k = l
      OBVIOUS
    <3>1. i \in 1..Len(scanSink.posted) /\ j \in 1..Len(scanSink.posted)
      BY <2>2
    <3>2. k \in 1..Len(scanSink.posted[i]) /\ l \in 1..Len(scanSink.posted[j])
      BY <2>2, <3>1
    <3> QED BY ONLY <2>3, <3>1, <3>2, scanSink.posted[i][k] = scanSink.posted[j][l]
  <2> QED BY <2>3, <2>4, ScanSinkComplete
<1> QED BY <1>1, <1>2, <1>3 DEF ScanSafe

\* A report tells the truth about the scan it is of, whatever the tree holds,
\* however many workers there are and whenever the context ends: a clean
\* verdict stands for a complete run, no file is forgotten between the walk
\* and the workers, and the sink posts each finding of the report once.
THEOREM ScanReportsTruly == ScanSpec => []ScanSafe
<1>1. ScanSpec => ScanInit /\ [][ScanNext]_scanVars
  BY PTL DEF ScanSpec
<1> QED BY <1>1, ScanInvInit, ScanInvStep, ScanInvSafe, PTL

-----------------------------------------------------------------------------
(***************************************************************************)
(* The monitor, for every tree of directories, budget, window and order of *)
(* what happens on the host.                                               *)
(***************************************************************************)

\* Whether an event is unread.
MonToCome(kind, path) == \E v \in MonUnread : v.kind = kind /\ v.path = path

\* What an event says of its path, and where it comes from.
MonEventsFit ==
    \A v \in MonUnread :
        /\ v.kind = "create" /\ v.path \in MonDirNames => v.path \in MonFresh /\ v.dir = MonParent[v.path]
        /\ v.kind = "write" => v.path \in MonFileNames /\ v.dir = MonFiles[v.path]
        /\ v.kind = "gone" => v.path \in MonDirNames /\ v.dir = v.path

\* The directories there are form a tree with the ones there were at first, and
\* what is in a file is in one of them.
MonStands ==
    /\ MonDirNames \ MonFresh \subseteq monDirs
    /\ \A d \in monDirs : MonParent[d] \in MonDirNames => MonParent[d] \in monDirs
    /\ \A d \in monDirs \cap MonFresh : MonParent[d] \in monDirs
    /\ \A f \in MonFileNames : monFile[f].ver > 0 \/ monFile[f].open => MonFiles[f] \in monDirs

\* The events the loop is to hear, in order.
MonToHear == monBatch \o monQueue

\* The index holds what the kernel watches, within the budget.
MonInBudget == Cardinality(monWatched) <= MonBudget /\ monKernel \subseteq monWatched

\* A directory that the loop is still to hear the end of is in the index and
\* not in the kernel, and it hears of it once.
MonIndexed ==
    /\ MonInBudget
    /\ monKernel \subseteq monDirs
    /\ \A i \in 1..Len(MonToHear) :
          MonToHear[i].kind = "gone" => MonToHear[i].path \in monWatched \ monKernel
    /\ \A i, j \in 1..Len(MonToHear) :
          (MonToHear[i].kind = "gone" /\ MonToHear[j].kind = "gone"
             /\ MonToHear[i].path = MonToHear[j].path) => i = j

\* What comes and goes in what stays is in a directory that is watched or given
\* up, and so is what is written there.
MonAttended ==
    /\ \A d \in monDirs \cap MonFresh : MonParent[d] \in MonFresh \cup monKernel \cup monExcused
    /\ \A f \in MonFileNames : monFile[f].ver > 0 \/ monFile[f].open
           => MonFiles[f] \in MonFresh \cup monKernel \cup monExcused

\* Below a watched directory, what comes and goes is watched, given up, about to
\* be announced or in the walk.
MonWalked ==
    \A d \in (monDirs \cap MonFresh) \ MonGuarded :
        MonParent[d] \in monKernel =>
            d \in monKernel \cup monExcused \cup Range(monJob.watch) \/ MonToCome("create", d)

\* A directory, or one that it lies in, will be swept or was given up.
MonSwept(d) ==
    \E e \in MonPath[d] : e \in monExcused \cup Range(monJob.sweep) \/ MonToCome("create", e)

\* What is in the walk is watched already, or the sweep follows.
MonWalkSweeps ==
    \A d \in (monDirs \cap MonFresh) \ MonGuarded :
        d \in Range(monJob.watch) => d \in monKernel \/ MonSwept(d)

\* A file is seen as it is, or will be.
MonFilesSeen ==
    \A f \in MonFileNames :
        \/ MonFiles[f] \in MonGuarded
        \/ monFile[f].ver = 0 \/ monFile[f].open \/ monSeen[f] = monFile[f].ver
        \/ f \in monExcused \/ MonSwept(MonFiles[f]) \/ MonToCome("write", f)

\* What the index has of no directory there is, it has of one whose end is to
\* be heard, of one moved away or of a guarded one.
MonIndexUsed ==
    \A d \in monWatched \ monKernel : d \in monAdrift \cup MonGuarded \/ MonToCome("gone", d)

MonInv ==
    /\ MonTypeOK /\ MonEventsFit /\ MonStands /\ MonIndexed /\ MonAttended
    /\ MonWalked /\ MonWalkSweeps /\ MonFilesSeen

-----------------------------------------------------------------------------
(* Sequences and the tree *)

\* A sequence of one.
LEMMA MonSingle ==
    ASSUME NEW S, NEW x \in S
    PROVE  <<x>> \in Seq(S) /\ Range(<<x>>) = {x}
<1>1. <<x>> \in Seq(S) /\ Len(<<x>>) = 1 /\ <<x>>[1] = x /\ 1..1 = {1}
  OBVIOUS
<1>2. \A s \in Seq(S) : Range(s) = {s[i] : i \in 1..Len(s)}
  BY RangeEquality
<1> QED BY <1>1, <1>2

\* What appending and taking the head do to the elements of a queue.
LEMMA MonRanges ==
    ASSUME NEW S, NEW q \in Seq(S), NEW x \in S
    PROVE  /\ Append(q, x) \in Seq(S) /\ Range(Append(q, x)) = Range(q) \cup {x}
           /\ Range(<<>>) = {}
           /\ Range(<<x>>) = {x} /\ <<x>> \in Seq(S)
           /\ q # <<>> => /\ Head(q) \in S /\ Tail(q) \in Seq(S)
                          /\ Range(q) = Range(Tail(q)) \cup {Head(q)}
<1>0. \A s \in Seq(S) : Range(s) = {s[i] : i \in 1..Len(s)}
  BY RangeEquality
<1>1. \A y \in S : <<y>> \in Seq(S) /\ Range(<<y>>) = {y}
  <2> TAKE y \in S
  <2>1. <<y>> \in Seq(S) /\ Len(<<y>>) = 1 /\ <<y>>[1] = y /\ 1..1 = {1}
    OBVIOUS
  <2> QED BY <1>0, <2>1
<1>2. Append(q, x) \in Seq(S) /\ Range(Append(q, x)) = Range(q) \cup {x}
  <2>1. Append(q, x) = q \o <<x>> /\ Append(q, x) \in Seq(S)
    BY AppendProperties, AppendIsConcat
  <2>0. \A u, w \in Seq(S) : Range(u \o w) = Range(u) \cup Range(w)
    BY RangeConcatenation, Zenon
  <2>2. Range(q \o <<x>>) = Range(q) \cup Range(<<x>>)
    BY <1>1, <2>0, Zenon
  <2> QED BY <1>1, <2>1, <2>2
<1>3. Range(<<>>) = {}
  <2>1. <<>> \in Seq(S) /\ Len(<<>>) = 0 /\ 1..0 = {}
    BY EmptySeq
  <2> QED BY <1>0, <2>1
<1>4. ASSUME q # <<>>
      PROVE  /\ Head(q) \in S /\ Tail(q) \in Seq(S)
             /\ Range(q) = Range(Tail(q)) \cup {Head(q)}
  <2>1. Head(q) \in S /\ Tail(q) \in Seq(S)
    BY <1>4, HeadTailProperties
  <2>2. <<Head(q)>> \in Seq(S) /\ Range(<<Head(q)>>) = {Head(q)}
    BY <1>1, <2>1
  <2>3. q = <<Head(q)>> \o Tail(q)
    BY <1>4
  <2>0. \A u, w \in Seq(S) : Range(u \o w) = Range(u) \cup Range(w)
    BY RangeConcatenation, Zenon
  <2>4. Range(<<Head(q)>> \o Tail(q)) = Range(<<Head(q)>>) \cup Range(Tail(q))
    BY <2>0, <2>1, <2>2, Zenon
  <2> QED BY <2>1, <2>2, <2>3, <2>4
<1> QED BY <1>1, <1>2, <1>3, <1>4

\* The empty sequence has no elements.
LEMMA MonEmpty == Range(<<>>) = {}
<1>1. <<>> \in Seq({{}}) /\ {} \in {{}}
  BY EmptySeq
<1> QED BY <1>1, MonRanges

\* A finite set laid out as a sequence.
LEMMA MonSetToSeq ==
    ASSUME NEW S, IsFiniteSet(S)
    PROVE  SetToSeq(S) \in Seq(S) /\ Range(SetToSeq(S)) = S
<1>1. Cardinality(S) \in Nat /\ ExistsBijection(1..Cardinality(S), S)
  BY FS_CardinalityType
<1>2. PICK g \in [1..Cardinality(S) -> S] : IsInjective(g)
  BY <1>1 DEF ExistsBijection, Bijection, Injection
<1>3. SetToSeq(S) \in [1..Cardinality(S) -> S] /\ IsInjective(SetToSeq(S))
  BY <1>2 DEF SetToSeq
<1>4. SetToSeq(S) \in Seq(S)
  BY <1>1, <1>3
<1>5. SetToSeq(S) \in Injection(1..Cardinality(S), S)
  BY <1>3 DEF Injection
<1>6. Cardinality(1..Cardinality(S)) = Cardinality(S)
  BY <1>1, FS_Interval
<1>7. SetToSeq(S) \in Surjection(1..Cardinality(S), S)
  BY <1>5, <1>6, FS_Injection
<1> QED BY <1>3, <1>4, <1>7 DEF Surjection, Range

\* Min and Max of two numbers.
LEMMA MonLeast ==
    ASSUME NEW a \in Nat, NEW b \in Nat
    PROVE  /\ Min({a, b}) = IF a <= b THEN a ELSE b
           /\ Max({a, b}) = IF a >= b THEN a ELSE b
  BY DEF Min, Max

\* The path of a directory is closed, and the least closed set that holds it.
LEMMA MonPathFacts ==
    ASSUME NEW d \in MonDirNames
    PROVE  /\ d \in MonPath[d] /\ MonPath[d] \subseteq MonDirNames
           /\ \A c \in MonPath[d] : MonParent[c] \in MonDirNames => MonParent[c] \in MonPath[d]
           /\ \A S \in SUBSET MonDirNames :
                 (d \in S /\ \A c \in S : MonParent[c] \in MonDirNames => MonParent[c] \in S)
                     => MonPath[d] \subseteq S
  BY DEF MonPath

\* The directories above one that is above are above.
LEMMA MonPathUp ==
    ASSUME NEW d \in MonDirNames, NEW e \in MonPath[d]
    PROVE  MonPath[e] \subseteq MonPath[d]
<1>1. e \in MonDirNames /\ MonPath[d] \in SUBSET MonDirNames
  BY MonPathFacts
<1> QED BY <1>1, MonPathFacts

\* Below every other directory of a path is a directory of the path.
LEMMA MonPathDown ==
    ASSUME NEW d \in MonDirNames, NEW e \in MonPath[d], e # d
    PROVE  \E c \in MonPath[d] : MonParent[c] = e
<1>1. MonPath[d] \ {e} \in SUBSET MonDirNames /\ d \in MonPath[d] \ {e}
  BY MonPathFacts
<1>2. SUFFICES ASSUME \A c \in MonPath[d] : MonParent[c] # e PROVE FALSE
  OBVIOUS
<1>3. \A c \in MonPath[d] \ {e} : MonParent[c] \in MonDirNames => MonParent[c] \in MonPath[d] \ {e}
  BY <1>2, MonPathFacts
<1>4. MonPath[d] \subseteq MonPath[d] \ {e}
  BY <1>1, <1>3, MonPathFacts
<1> QED BY <1>4

\* What there is lies in what there is.
LEMMA MonPathStands ==
    ASSUME MonStands, monDirs \subseteq MonDirNames, NEW d \in monDirs
    PROVE  MonPath[d] \subseteq monDirs
<1>1. d \in MonDirNames /\ monDirs \in SUBSET MonDirNames
  OBVIOUS
<1>2. \A c \in monDirs : MonParent[c] \in MonDirNames => MonParent[c] \in monDirs
  BY DEF MonStands
<1> QED BY <1>1, <1>2, MonPathFacts

\* What stays lies in what stays.
LEMMA MonPathOld ==
    ASSUME NEW d \in MonDirNames \ MonFresh
    PROVE  MonPath[d] \cap MonFresh = {}
<1>1. MonDirNames \ MonFresh \in SUBSET MonDirNames
  OBVIOUS
<1>2. \A c \in MonDirNames \ MonFresh :
          MonParent[c] \in MonDirNames => MonParent[c] \in MonDirNames \ MonFresh
  BY MonTreeAssumption
<1>3. MonPath[d] \subseteq MonDirNames \ MonFresh
  BY <1>1, <1>2, MonPathFacts
<1> QED BY <1>3

\* What comes and goes around a directory of the webroot is of the webroot.
LEMMA MonPathWeb ==
    ASSUME NEW d \in MonDirNames \ MonGuarded, NEW e \in MonPath[d] \cap MonFresh
    PROVE  e \notin MonGuarded /\ MonParent[e] \notin MonGuarded
<1> DEFINE S == {c \in MonDirNames : c \notin MonFresh \/ c \notin MonGuarded}
<1>1. S \in SUBSET MonDirNames /\ d \in S
  OBVIOUS
<1>2. \A c \in S : MonParent[c] \in MonDirNames => MonParent[c] \in S
  BY MonTreeAssumption
<1>3. MonPath[d] \subseteq S
  <2> HIDE DEF S
  <2> QED BY <1>1, <1>2, MonPathFacts
<1>4. e \in MonDirNames /\ e \notin MonGuarded
  BY <1>3, MonPathFacts
<1> QED BY <1>4, MonTreeAssumption

\* What lies below a directory still to be swept is still to be swept.
LEMMA MonSweptBelow ==
    ASSUME NEW d \in MonDirNames, NEW e \in MonPath[d], MonSwept(e)
    PROVE  MonSwept(d)
<1>1. MonPath[e] \subseteq MonPath[d]
  BY MonPathUp
<1> QED BY <1>1 DEF MonSwept

\* A directory of the webroot that the kernel does not watch will be swept, or
\* was given up.
LEMMA MonUnwatchedSwept ==
    ASSUME MonInv, NEW d \in (monDirs \cap MonFresh) \ MonGuarded, d \notin monKernel
    PROVE  MonSwept(d)
<1> DEFINE S == {c \in MonPath[d] : c \in MonFresh /\ c \notin monKernel /\ c \notin MonGuarded}
<1>1. monDirs \subseteq MonDirNames /\ d \in MonDirNames
  BY DEF MonInv, MonTypeOK
<1>2. S \in SUBSET MonDirNames /\ d \in S
  BY <1>1, MonPathFacts
<1>3. ~(MonPath[d] \subseteq S)
  BY <1>1, MonTreeAssumption
<1>4. PICK c \in S : MonParent[c] \in MonDirNames /\ MonParent[c] \notin S
  <2> HIDE DEF S
  <2> QED BY <1>1, <1>2, <1>3, MonPathFacts
<1>5. c \in (monDirs \cap MonFresh) \ MonGuarded /\ c \in MonPath[d]
  BY <1>1, <1>2, MonPathStands DEF MonInv
<1>6. MonParent[c] \in MonPath[d] /\ MonParent[c] \notin MonGuarded
  BY <1>1, <1>4, <1>5, MonPathFacts, MonTreeAssumption
<1>7. MonParent[c] \in MonFresh \cup monKernel \cup monExcused
  BY <1>5 DEF MonInv, MonAttended
<1>8. CASE MonParent[c] \in monKernel
  <2>1. c \in monKernel \cup monExcused \cup Range(monJob.watch) \/ MonToCome("create", c)
    BY <1>5, <1>8 DEF MonInv, MonWalked
  <2>2. c \in Range(monJob.watch) => c \in monKernel \/ MonSwept(c)
    BY <1>5 DEF MonInv, MonWalkSweeps
  <2>3. MonSwept(c) => MonSwept(d)
    BY <1>1, <1>5, MonSweptBelow
  <2> QED BY <1>4, <1>5, <2>1, <2>2, <2>3 DEF MonSwept
<1>9. CASE MonParent[c] \notin monKernel
  BY <1>4, <1>6, <1>7, <1>9 DEF MonSwept
<1> QED BY <1>8, <1>9


-----------------------------------------------------------------------------
(* Parts of the steps *)

\* Ages stay within their cap.
LEMMA MonTimes ==
    ASSUME MonTypeOK
    PROVE  /\ MonLong \in Nat
           /\ \A age \in 0..MonLong : MonAged(age) \in 0..MonLong
<1>1. MonWindow \in Nat /\ MonDebounce \in Nat
  BY MonAssumption
<1>2. MonLong \in Nat
  BY <1>1, MonLeast DEF MonLong
<1>3. monLag \in Nat
  BY <1>2 DEF MonTypeOK
<1>4. ASSUME NEW age \in 0..MonLong PROVE MonAged(age) \in 0..MonLong
  <2>1. age \in Nat /\ age + monLag \in Nat
    BY <1>2, <1>3
  <2>2. MonAged(age) = IF MonLong <= age + monLag THEN MonLong ELSE age + monLag
    BY <1>2, <2>1, MonLeast DEF MonAged
  <2> QED BY ONLY <1>2, <2>1, <2>2
<1> QED BY <1>2, <1>4

\* The next event of the batch is taken; no walk is under way.
LEMMA MonNextFacts ==
    ASSUME MonInv, NEW K, MonNextEvent(K)
    PROVE  /\ Head(monBatch) \in MonEvents /\ Head(monBatch).kind \in K
           /\ Head(monBatch) \in MonUnread
           /\ MonUnread = MonUnread' \cup {Head(monBatch)}
           /\ monBatch' \in Seq(MonEvents)
           /\ Range(monJob.watch) = {} /\ Range(monJob.sweep) = {}
           /\ Len(MonToHear) \in Nat \ {0} /\ Len(MonToHear') = Len(MonToHear) - 1
           /\ MonToHear[1] = Head(monBatch)
           /\ \A i \in 1..Len(MonToHear') : MonToHear'[i] = MonToHear[i + 1]
<1>1. /\ monBatch \in Seq(MonEvents) /\ monQueue \in Seq(MonEvents) /\ monBatch # <<>>
      /\ monBatch' = Tail(monBatch) /\ monQueue' = monQueue
      /\ monJob.watch = <<>> /\ monJob.sweep = <<>>
  BY DEF MonInv, MonTypeOK, MonNextEvent
<1>2. /\ Head(monBatch) \in MonEvents /\ Tail(monBatch) \in Seq(MonEvents)
      /\ Range(monBatch) = Range(Tail(monBatch)) \cup {Head(monBatch)}
      /\ Head(monBatch) = monBatch[1]
  <2>1. \A q \in Seq(MonEvents) :
            q # <<>> => /\ Head(q) \in MonEvents /\ Tail(q) \in Seq(MonEvents)
                        /\ Range(q) = Range(Tail(q)) \cup {Head(q)}
    <3> SUFFICES ASSUME NEW q \in Seq(MonEvents), q # <<>>
                 PROVE  /\ Head(q) \in MonEvents /\ Tail(q) \in Seq(MonEvents)
                        /\ Range(q) = Range(Tail(q)) \cup {Head(q)}
      OBVIOUS
    <3>1. Head(q) \in MonEvents
      BY HeadTailProperties
    <3> QED BY <3>1, MonRanges
  <2>2. Head(monBatch) = monBatch[1]
    OBVIOUS
  <2> QED BY <1>1, <2>1, <2>2
<1>3. Range(<<>>) = {}
  BY MonEmpty
<1>4. /\ Len(monBatch) \in Nat \ {0} /\ Len(monQueue) \in Nat
      /\ Len(Tail(monBatch)) = Len(monBatch) - 1
      /\ \A i \in 1..Len(Tail(monBatch)) : Tail(monBatch)[i] = monBatch[i + 1]
  BY <1>1, HeadTailProperties, EmptySeq, LenProperties
<1>5. /\ Len(MonToHear) = Len(monBatch) + Len(monQueue)
      /\ \A i \in 1..Len(MonToHear) :
            MonToHear[i] = IF i <= Len(monBatch) THEN monBatch[i] ELSE monQueue[i - Len(monBatch)]
  BY <1>1, ConcatProperties DEF MonToHear
<1>6. /\ Len(MonToHear') = Len(Tail(monBatch)) + Len(monQueue)
      /\ \A i \in 1..Len(MonToHear') :
            MonToHear'[i] = IF i <= Len(Tail(monBatch)) THEN Tail(monBatch)[i]
                            ELSE monQueue[i - Len(Tail(monBatch))]
  BY <1>1, <1>2, ConcatProperties DEF MonToHear
<1>7. \A i \in 1..Len(MonToHear') : MonToHear'[i] = MonToHear[i + 1]
  BY <1>4, <1>5, <1>6
<1>8. Head(monBatch).kind \in K
  BY DEF MonNextEvent
<1> QED BY <1>1, <1>2, <1>3, <1>4, <1>5, <1>6, <1>7, <1>8 DEF MonUnread

\* An event is queued, if the kernel watches the directory it is in.
LEMMA MonNotifyFacts ==
    ASSUME MonInv, NEW v \in MonEvents, MonNotify(v), monBatch' = monBatch
    PROVE  /\ MonUnread \subseteq MonUnread' /\ MonUnread' \subseteq MonUnread \cup {v}
           /\ v.dir \in monKernel => v \in MonUnread'
           /\ v.dir \notin monKernel => monQueue' = monQueue
           /\ monQueue' \in Seq(MonEvents)
           /\ Len(MonToHear) \in Nat
           /\ \A i \in 1..Len(MonToHear) : MonToHear'[i] = MonToHear[i]
           /\ v.dir \notin monKernel => Len(MonToHear') = Len(MonToHear)
           /\ v.dir \in monKernel => /\ Len(MonToHear') = Len(MonToHear) + 1
                                     /\ MonToHear'[Len(MonToHear) + 1] = v
<1>1. monBatch \in Seq(MonEvents) /\ monQueue \in Seq(MonEvents)
  BY DEF MonInv, MonTypeOK
<1>2. /\ Append(monQueue, v) \in Seq(MonEvents)
      /\ Range(Append(monQueue, v)) = Range(monQueue) \cup {v}
      /\ Len(Append(monQueue, v)) = Len(monQueue) + 1
      /\ \A i \in 1..Len(monQueue) : Append(monQueue, v)[i] = monQueue[i]
      /\ Append(monQueue, v)[Len(monQueue) + 1] = v
  <2>1. \A q \in Seq(MonEvents) :
            Append(q, v) \in Seq(MonEvents) /\ Range(Append(q, v)) = Range(q) \cup {v}
    <3> TAKE q \in Seq(MonEvents)
    <3>1. /\ Append(q, v) \in Seq(MonEvents) /\ Range(Append(q, v)) = Range(q) \cup {v}
          /\ Range(<<>>) = {}
          /\ Range(<<v>>) = {v} /\ <<v>> \in Seq(MonEvents)
          /\ q # <<>> => /\ Head(q) \in MonEvents /\ Tail(q) \in Seq(MonEvents)
                          /\ Range(q) = Range(Tail(q)) \cup {Head(q)}
      BY MonRanges, Zenon
    <3> QED BY <3>1
  <2>2. /\ Len(Append(monQueue, v)) = Len(monQueue) + 1
        /\ \A i \in 1..Len(monQueue) : Append(monQueue, v)[i] = monQueue[i]
        /\ Append(monQueue, v)[Len(monQueue) + 1] = v
    BY <1>1, AppendProperties
  <2> QED BY <1>1, <2>1, <2>2
<1>3. Len(monBatch) \in Nat /\ Len(monQueue) \in Nat
  BY <1>1, LenProperties
<1>4. /\ Len(MonToHear) = Len(monBatch) + Len(monQueue)
      /\ \A i \in 1..Len(MonToHear) :
            MonToHear[i] = IF i <= Len(monBatch) THEN monBatch[i] ELSE monQueue[i - Len(monBatch)]
  BY <1>1, ConcatProperties DEF MonToHear
<1>5. CASE v.dir \in monKernel
  <2>1. monQueue' = Append(monQueue, v)
    BY <1>5 DEF MonNotify
  <2>0. PICK w \in Seq(MonEvents) : w = Append(monQueue, v)
    BY <1>2
  <2>2. /\ Len(MonToHear') = Len(monBatch) + (Len(monQueue) + 1)
        /\ \A i \in 1..Len(MonToHear') :
              MonToHear'[i] = IF i <= Len(monBatch) THEN monBatch[i] ELSE w[i - Len(monBatch)]
    <3>1. MonToHear' = monBatch \o w
      BY <2>0, <2>1 DEF MonToHear
    <3>2. Len(w) = Len(monQueue) + 1
      BY <1>2, <2>0
    <3>3. /\ Len(monBatch \o w) = Len(monBatch) + Len(w)
          /\ \A i \in 1..Len(monBatch) + Len(w) :
                (monBatch \o w)[i] = IF i <= Len(monBatch) THEN monBatch[i] ELSE w[i - Len(monBatch)]
      BY <1>1, ConcatProperties
    <3> QED BY <2>0, <3>1, <3>2, <3>3
  <2>5. (\A i \in 1..Len(monQueue) : w[i] = monQueue[i]) /\ w[Len(monQueue) + 1] = v
    BY <1>2, <2>0
  <2>6. PICK m \in Nat, n \in Nat : m = Len(monBatch) /\ n = Len(monQueue)
    BY <1>3
  <2>3. ASSUME NEW i \in 1..Len(MonToHear) PROVE MonToHear'[i] = MonToHear[i]
    <3>1. i \in 1..(m + n)
      BY <1>4, <2>6
    <3>2. i \in 1..(m + (n + 1)) /\ (i <= m \/ i - m \in 1..n)
      BY ONLY <3>1, m \in Nat, n \in Nat
    <3>3. MonToHear'[i] = IF i <= m THEN monBatch[i] ELSE w[i - m]
      BY <2>2, <2>6, <3>2
    <3>4. MonToHear[i] = IF i <= m THEN monBatch[i] ELSE monQueue[i - m]
      BY <1>4, <2>6
    <3> QED BY <2>5, <2>6, <3>2, <3>3, <3>4
  <2>4. MonToHear'[Len(MonToHear) + 1] = v
    <3>1. Len(MonToHear) + 1 = m + n + 1
      BY <1>4, <2>6
    <3>2. m + n + 1 \in 1..(m + (n + 1)) /\ ~(m + n + 1 <= m) /\ (m + n + 1) - m = n + 1
      BY ONLY m \in Nat, n \in Nat
    <3>3. MonToHear'[m + n + 1] = w[n + 1]
      BY <2>2, <2>6, <3>2
    <3> QED BY <2>5, <2>6, <3>1, <3>3
  <2> QED BY <1>2, <1>3, <1>4, <1>5, <2>1, <2>2, <2>3, <2>4 DEF MonUnread
<1>6. CASE v.dir \notin monKernel
  BY <1>1, <1>3, <1>4, <1>6 DEF MonNotify, MonUnread, MonToHear
<1> QED BY <1>5, <1>6

\* A directory is registered or given up.
LEMMA MonWatchFacts ==
    ASSUME MonInv, NEW d \in MonDirNames, MonWatch(d)
    PROVE  /\ monKernel \subseteq monKernel' /\ monKernel' \subseteq monKernel \cup {d}
           /\ monExcused \subseteq monExcused' /\ monExcused' \subseteq monExcused \cup {d}
           /\ monWatched \subseteq monWatched' /\ monWatched' \subseteq MonDirNames
           /\ monKernel' \subseteq monDirs /\ monKernel' \subseteq monWatched'
           /\ monWatched \ monKernel \subseteq monWatched' \ monKernel'
           /\ Cardinality(monWatched') <= MonBudget
           /\ d \in monKernel' \cup monExcused'
           /\ d \in monKernel' \ monKernel => Cardinality(monWatched) < MonBudget
<1>1. /\ monWatched \subseteq MonDirNames /\ Cardinality(monWatched) <= MonBudget
      /\ monKernel \subseteq monWatched /\ monKernel \subseteq monDirs
  BY DEF MonInv, MonTypeOK, MonIndexed, MonInBudget
<1>2. IsFiniteSet(monWatched) /\ MonBudget \in Nat
  BY <1>1, MonAssumption, FS_Subset
<1>3. Cardinality(monWatched) \in Nat
  BY <1>2, FS_CardinalityType
<1>4. d \notin monWatched => Cardinality(monWatched \cup {d}) = Cardinality(monWatched) + 1
  BY <1>2, FS_AddElement
<1>5. CASE d \in monDirs \ monWatched /\ Cardinality(monWatched) < MonBudget
  <2>1. /\ monKernel' = monKernel \cup {d} /\ monWatched' = monWatched \cup {d}
        /\ monExcused' = monExcused
    BY <1>5 DEF MonWatch
  <2>2. Cardinality(monWatched') <= MonBudget
    BY <1>2, <1>3, <1>4, <1>5, <2>1
  <2> QED BY <1>1, <1>5, <2>1, <2>2
<1>6. CASE ~(d \in monDirs \ monWatched /\ Cardinality(monWatched) < MonBudget)
  <2>1. /\ monKernel' = monKernel /\ monWatched' = monWatched
        /\ monExcused' = IF d \in monKernel THEN monExcused ELSE monExcused \cup {d}
    BY <1>6 DEF MonWatch
  <2> QED BY <1>1, <2>1
<1> QED BY <1>5, <1>6

\* What will be swept stays so as long as nothing is withdrawn.
LEMMA MonSweptStays ==
    ASSUME monExcused \subseteq monExcused', Range(monJob.sweep) \subseteq Range(monJob'.sweep),
           NEW d \in MonDirNames, MonSwept(d),
           \A e \in MonPath[d] : MonToCome("create", e) => MonToCome("create", e)'
    PROVE  MonSwept(d)'
  BY DEF MonSwept

\* Steps of the loop that leave the webroot alone.
LEMMA MonAside ==
    ASSUME MonInv, UNCHANGED <<monDirs, monFile, monSeen, monJob>>,
           monKernel \subseteq monKernel', monKernel' \subseteq monKernel \cup MonGuarded,
           monExcused \subseteq monExcused',
           \A v \in MonUnread : v \in MonUnread' \/ v.dir \in MonGuarded \/ v.kind \in {"gone", "moved"}
    PROVE  MonStands' /\ MonAttended' /\ MonWalked' /\ MonWalkSweeps' /\ MonFilesSeen'
<1>0. monDirs \subseteq MonDirNames
  BY DEF MonInv, MonTypeOK
<1>1. MonStands'
  BY DEF MonInv, MonStands
<1>2. MonAttended'
  BY DEF MonInv, MonAttended
<1>3. \A d \in (monDirs \cap MonFresh) \ MonGuarded : MonToCome("create", d) => MonToCome("create", d)'
  <2> SUFFICES ASSUME NEW d \in (monDirs \cap MonFresh) \ MonGuarded,
                      NEW v \in MonUnread, v.kind = "create", v.path = d
               PROVE  v \in MonUnread'
    BY DEF MonToCome
  <2>1. v.dir = MonParent[d]
    BY <1>0 DEF MonInv, MonEventsFit
  <2> QED BY <1>0, <2>1, MonTreeAssumption
<1>4. \A d \in MonDirNames \ MonGuarded : MonSwept(d) => MonSwept(d)'
  <2> SUFFICES ASSUME NEW d \in MonDirNames \ MonGuarded, NEW e \in MonPath[d],
                      MonToCome("create", e)
               PROVE  MonToCome("create", e)'
    BY MonSweptStays
  <2>1. PICK v \in MonUnread : v.kind = "create" /\ v.path = e
    BY DEF MonToCome
  <2>2. e \in MonFresh /\ v.dir = MonParent[e]
    BY <2>1, MonPathFacts DEF MonInv, MonEventsFit
  <2>3. v.dir \notin MonGuarded
    BY <2>2, MonPathWeb
  <2> QED BY <2>1, <2>3 DEF MonToCome
<1>5. MonWalked'
  <2> SUFFICES ASSUME NEW d \in (monDirs \cap MonFresh) \ MonGuarded, MonParent[d] \in monKernel'
               PROVE  d \in monKernel' \cup monExcused' \cup Range(monJob'.watch)
                          \/ MonToCome("create", d)'
    BY DEF MonWalked
  <2>1. MonParent[d] \in monKernel
    BY <1>0, MonTreeAssumption
  <2> QED BY <1>3, <2>1 DEF MonInv, MonWalked
<1>6. MonWalkSweeps'
  BY <1>0, <1>4 DEF MonInv, MonWalkSweeps
<1>7. MonFilesSeen'
  <2> SUFFICES ASSUME NEW f \in MonFileNames, MonFiles[f] \notin MonGuarded
               PROVE  \/ monFile[f].ver = 0 \/ monFile[f].open \/ monSeen[f] = monFile[f].ver
                      \/ f \in monExcused' \/ MonSwept(MonFiles[f])' \/ MonToCome("write", f)'
    BY DEF MonFilesSeen
  <2>1. MonFiles[f] \in MonDirNames
    BY MonAssumption
  <2>2. MonToCome("write", f) => MonToCome("write", f)'
    BY DEF MonToCome, MonInv, MonEventsFit
  <2> QED BY <1>4, <2>1, <2>2 DEF MonInv, MonFilesSeen
<1> QED BY <1>1, <1>2, <1>5, <1>6, <1>7

\* Steps that only add to what is watched, given up, to be swept or to be heard.
LEMMA MonForward ==
    ASSUME MonInv, UNCHANGED <<monDirs, monFile, monSeen>>,
           monKernel \subseteq monKernel', monExcused \subseteq monExcused',
           Range(monJob.sweep) \subseteq Range(monJob'.sweep), MonUnread \subseteq MonUnread'
    PROVE  MonStands' /\ MonAttended' /\ MonWalkSweeps' /\ MonFilesSeen'
<1>0. monDirs \subseteq MonDirNames
  BY DEF MonInv, MonTypeOK
<1>1. MonStands'
  BY DEF MonInv, MonStands
<1>2. MonAttended'
  BY DEF MonInv, MonAttended
<1>3. \A kind, path : MonToCome(kind, path) => MonToCome(kind, path)'
  BY DEF MonToCome
<1>4. \A d \in MonDirNames : MonSwept(d) => MonSwept(d)'
  BY <1>3, MonSweptStays
<1>5. MonWalkSweeps'
  <2> SUFFICES ASSUME NEW d \in (monDirs \cap MonFresh) \ MonGuarded
               PROVE  d \in monKernel' \/ MonSwept(d)'
    BY DEF MonWalkSweeps
  <2> QED BY <1>0, <1>4, MonUnwatchedSwept
<1>6. MonFilesSeen'
  <2> SUFFICES ASSUME NEW f \in MonFileNames
               PROVE  \/ MonFiles[f] \in MonGuarded
                      \/ monFile[f].ver = 0 \/ monFile[f].open \/ monSeen[f] = monFile[f].ver
                      \/ f \in monExcused' \/ MonSwept(MonFiles[f])' \/ MonToCome("write", f)'
    BY DEF MonFilesSeen
  <2>1. MonFiles[f] \in MonDirNames
    BY MonAssumption
  <2> QED BY <1>3, <1>4, <2>1 DEF MonInv, MonFilesSeen
<1> QED BY <1>1, <1>2, <1>5, <1>6

\* The index when nothing new is heard, or one event is handled.
LEMMA MonIndexStays ==
    ASSUME MonIndexed, MonInBudget', monKernel' \subseteq monDirs',
           monWatched \ monKernel \subseteq monWatched' \ monKernel',
           NEW k \in Nat, Len(MonToHear') \in Nat, Len(MonToHear) = Len(MonToHear') + k,
           \A i \in 1..Len(MonToHear') : MonToHear'[i] = MonToHear[i + k]
    PROVE  MonIndexed'
<1>1. PICK n \in Nat : n = Len(MonToHear')
  OBVIOUS
<1>2. \A i \in 1..n : i + k \in 1..(n + k)
  BY ONLY n \in Nat, k \in Nat
<1>3. \A i, j \in 1..n : i + k = j + k => i = j
  BY ONLY n \in Nat, k \in Nat
<1>4. \A i \in 1..(n + k) :
          MonToHear[i].kind = "gone" => MonToHear[i].path \in monWatched \ monKernel
  BY <1>1 DEF MonIndexed
<1>5. \A i, j \in 1..(n + k) :
          (MonToHear[i].kind = "gone" /\ MonToHear[j].kind = "gone"
             /\ MonToHear[i].path = MonToHear[j].path) => i = j
  BY <1>1 DEF MonIndexed
<1>6. \A i \in 1..n : MonToHear'[i] = MonToHear[i + k]
  BY <1>1
<1>7. \A i \in 1..n :
          MonToHear'[i].kind = "gone" => MonToHear'[i].path \in monWatched' \ monKernel'
  BY <1>2, <1>4, <1>6
<1>8. \A i, j \in 1..n :
          (MonToHear'[i].kind = "gone" /\ MonToHear'[j].kind = "gone"
             /\ MonToHear'[i].path = MonToHear'[j].path) => i = j
  BY <1>2, <1>3, <1>5, <1>6
<1> QED BY <1>1, <1>7, <1>8 DEF MonIndexed

-----------------------------------------------------------------------------
(* The steps *)

\* MonInv holds initially.
LEMMA MonStarts == MonInit => MonInv
<1> SUFFICES ASSUME MonInit PROVE MonInv
  OBVIOUS
<1> USE DEF MonInit
<1>1. MonLong \in Nat
  <2>1. MonWindow \in Nat /\ MonDebounce \in Nat
    BY MonAssumption
  <2> QED BY <2>1, MonLeast DEF MonLong
<1>2. MonUnread = {}
  BY MonEmpty DEF MonUnread
<1>3. MonTypeOK
  <2>1. {monDirs, monKernel, monAdrift, monWatched} \subseteq SUBSET MonDirNames
    OBVIOUS
  <2>2. /\ monFile \in [MonFileNames -> [ver : Nat, open : BOOLEAN]]
        /\ monSeen \in [MonFileNames -> Nat]
        /\ monRecent \in [MonFileNames -> 0..MonLong]
    BY <1>1
  <2>3. monQueue \in Seq(MonEvents) /\ monBatch \in Seq(MonEvents)
    BY EmptySeq
  <2>4. monJob \in [watch : Seq(MonDirNames), sweep : Seq(MonDirNames), left : 0..MonSweepMax]
    <3>1. MonRoots \in Seq(MonDirNames) /\ MonSweepMax \in Nat /\ <<>> \in Seq(MonDirNames)
      BY MonAssumption, EmptySeq
    <3>2. 0 \in 0..MonSweepMax
      BY <3>1
    <3>3. monJob = [watch |-> MonRoots, sweep |-> <<>>, left |-> 0]
      BY DEF MonNoJob
    <3> QED BY ONLY <3>1, <3>2, <3>3
  <2>5. monOs \in [ver : Nat, seen : Nat, age : 0..MonLong, pending : BOOLEAN]
    BY <1>1
  <2>6. monLag \in 0..MonLong /\ monWorld \in 0..MonMaxWorld
    BY <1>1, MonAssumption
  <2> QED BY <2>1, <2>2, <2>3, <2>4, <2>5, <2>6 DEF MonTypeOK
<1>4. MonEventsFit
  BY <1>2 DEF MonEventsFit
<1>5. MonStands
  BY MonTreeAssumption DEF MonStands
<1>6. MonIndexed
  <2>1. Len(MonToHear) = 0
    BY EmptySeq DEF MonToHear
  <2>2. 1..0 = {}
    OBVIOUS
  <2>3. MonInBudget
    BY MonAssumption, FS_EmptySet DEF MonInBudget
  <2> QED BY <2>1, <2>2, <2>3 DEF MonIndexed
<1>7. MonAttended /\ MonWalked /\ MonWalkSweeps /\ MonFilesSeen
  BY DEF MonAttended, MonWalked, MonWalkSweeps, MonFilesSeen
<1> QED BY <1>3, <1>4, <1>5, <1>6, <1>7 DEF MonInv

\* A step of addTree, the watch it gets or does not get, keeps MonInv.
LEMMA MonAddTree == MonInv /\ AddTree => MonInv'
<1> SUFFICES ASSUME MonInv, AddTree PROVE MonInv'
  OBVIOUS
<1> DEFINE d == Head(monJob.watch)
           below == IF d \in MonGuarded \/ Cardinality(monWatched) >= MonBudget THEN {}
                    ELSE {e \in monDirs : MonParent[e] = d}
<1>1. /\ monJob.watch \in Seq(MonDirNames) /\ monJob.watch # <<>>
      /\ monDirs \subseteq MonDirNames /\ monWatched \subseteq MonDirNames
      /\ monJob \in [watch : Seq(MonDirNames), sweep : Seq(MonDirNames), left : 0..MonSweepMax]
  BY DEF MonInv, MonTypeOK, AddTree
<1>2. d \in MonDirNames /\ Tail(monJob.watch) \in Seq(MonDirNames)
  BY <1>1, HeadTailProperties
<1>3. Range(monJob.watch) = Range(Tail(monJob.watch)) \cup {d}
  <2>1. /\ Append(monJob.watch, d) \in Seq(MonDirNames)
        /\ Range(Append(monJob.watch, d)) = Range(monJob.watch) \cup {d}
        /\ Range(<<>>) = {} /\ Range(<<d>>) = {d} /\ <<d>> \in Seq(MonDirNames)
        /\ monJob.watch # <<>> =>
              /\ d \in MonDirNames /\ Tail(monJob.watch) \in Seq(MonDirNames)
              /\ Range(monJob.watch) = Range(Tail(monJob.watch)) \cup {d}
    BY <1>1, <1>2, MonRanges, Zenon
  <2> QED BY <1>1, <2>1
<1>4. MonWatch(d)
  BY DEF AddTree
<1>5. /\ monJob' = [monJob EXCEPT !.watch = SetToSeq(below) \o Tail(@)]
      /\ UNCHANGED <<monDirs, monFile, monQueue, monAdrift, monBatch, monSeen, monRecent, monOs,
                     monLag, monWorld>>
  BY DEF AddTree
<1>6. below \subseteq MonDirNames /\ IsFiniteSet(below)
  BY <1>1, MonAssumption, FS_Subset
<1> HIDE DEF d, below
<1>7. PICK q : q = SetToSeq(below)
  OBVIOUS
<1>8. q \in Seq(MonDirNames) /\ Range(q) = below
  BY <1>6, <1>7, MonSetToSeq
<1>9. PICK w : w = q \o Tail(monJob.watch)
  OBVIOUS
<1>10. w \in Seq(MonDirNames) /\ Range(w) = below \cup Range(Tail(monJob.watch))
  BY <1>2, <1>8, <1>9, RangeConcatenation, ConcatProperties
<1>11. /\ monJob' = [monJob EXCEPT !.watch = w] /\ monJob'.watch = w
       /\ monJob'.sweep = monJob.sweep
  BY <1>1, <1>5, <1>7, <1>9
<1>12. MonUnread' = MonUnread /\ MonToHear' = MonToHear
  BY <1>5 DEF MonUnread, MonToHear
<1>13. /\ monKernel \subseteq monKernel' /\ monKernel' \subseteq monKernel \cup {d}
       /\ monExcused \subseteq monExcused' /\ monExcused' \subseteq monExcused \cup {d}
       /\ monWatched \subseteq monWatched' /\ monWatched' \subseteq MonDirNames
       /\ monKernel' \subseteq monDirs /\ monKernel' \subseteq monWatched'
       /\ monWatched \ monKernel \subseteq monWatched' \ monKernel'
       /\ Cardinality(monWatched') <= MonBudget
       /\ d \in monKernel' \cup monExcused'
       /\ d \in monKernel' \ monKernel => Cardinality(monWatched) < MonBudget
  BY <1>2, <1>4, MonWatchFacts
<1>14. MonTypeOK'
  <2>1. monJob' \in [watch : Seq(MonDirNames), sweep : Seq(MonDirNames), left : 0..MonSweepMax]
    BY <1>1, <1>10, <1>11
  <2>2. monKernel' \subseteq MonDirNames /\ monExcused' \subseteq MonDirNames \cup MonFileNames
    BY <1>1, <1>2, <1>13 DEF MonInv, MonTypeOK
  <2> QED BY <1>5, <1>13, <2>1, <2>2 DEF MonInv, MonTypeOK
<1>15. MonEventsFit'
  BY <1>12 DEF MonInv, MonEventsFit
<1>16. MonIndexed'
  BY <1>5, <1>12, <1>13 DEF MonInv, MonIndexed, MonInBudget
<1>17. MonStands' /\ MonAttended' /\ MonWalkSweeps' /\ MonFilesSeen'
  BY <1>5, <1>11, <1>12, <1>13, MonForward
<1>18. MonWalked'
  <2> SUFFICES ASSUME NEW c \in (monDirs \cap MonFresh) \ MonGuarded, MonParent[c] \in monKernel'
               PROVE  c \in monKernel' \cup monExcused' \cup Range(monJob'.watch)
                          \/ MonToCome("create", c)'
    BY <1>5 DEF MonWalked
  <2>1. CASE MonParent[c] \in monKernel
    <3>1. c \in monKernel \cup monExcused \cup Range(monJob.watch) \/ MonToCome("create", c)
      BY <2>1 DEF MonInv, MonWalked
    <3>2. MonToCome("create", c) => MonToCome("create", c)'
      BY <1>12 DEF MonToCome
    <3> QED BY <1>3, <1>10, <1>11, <1>13, <3>1, <3>2
  <2>2. CASE MonParent[c] \notin monKernel
    <3>1. MonParent[c] = d /\ Cardinality(monWatched) < MonBudget
      BY <1>13, <2>2
    <3>2. d \notin MonGuarded
      BY <1>1, <3>1, MonTreeAssumption
    <3>3. IsFiniteSet(monWatched) /\ MonBudget \in Nat
      BY <1>1, MonAssumption, FS_Subset
    <3>4. Cardinality(monWatched) \in Nat
      BY <3>3, FS_CardinalityType
    <3>5. ~(Cardinality(monWatched) >= MonBudget)
      BY ONLY <3>1, <3>3, <3>4
    <3>6. c \in below
      BY <3>1, <3>2, <3>5 DEF below
    <3> QED BY <1>10, <1>11, <3>6
  <2> QED BY <2>1, <2>2
<1> QED BY <1>14, <1>15, <1>16, <1>17, <1>18 DEF MonInv

\* A step of the sweep of a new tree keeps MonInv.
LEMMA MonSweep == MonInv /\ SweepNewTree => MonInv'
<1> SUFFICES ASSUME MonInv, SweepNewTree PROVE MonInv'
  OBVIOUS
<1> DEFINE d == Head(monJob.sweep)
           here == {f \in MonFileNames : MonFiles[f] = d /\ monFile[f].ver > 0}
           below == {e \in monDirs : MonParent[e] = d}
<1>1. /\ monJob.sweep \in Seq(MonDirNames) /\ monJob.sweep # <<>> /\ monJob.watch = <<>>
      /\ monDirs \subseteq MonDirNames
      /\ monJob \in [watch : Seq(MonDirNames), sweep : Seq(MonDirNames), left : 0..MonSweepMax]
      /\ UNCHANGED <<monDirs, monFile, monQueue, monKernel, monAdrift, monWatched, monBatch,
                     monRecent, monOs, monLag, monWorld>>
  BY DEF MonInv, MonTypeOK, SweepNewTree
<1>2. d \in MonDirNames /\ Tail(monJob.sweep) \in Seq(MonDirNames)
  BY <1>1, HeadTailProperties
<1>3. Range(monJob.sweep) = Range(Tail(monJob.sweep)) \cup {d}
  <2>1. /\ Append(monJob.sweep, d) \in Seq(MonDirNames)
        /\ Range(Append(monJob.sweep, d)) = Range(monJob.sweep) \cup {d}
        /\ Range(<<>>) = {} /\ Range(<<d>>) = {d} /\ <<d>> \in Seq(MonDirNames)
        /\ monJob.sweep # <<>> =>
              /\ d \in MonDirNames /\ Tail(monJob.sweep) \in Seq(MonDirNames)
              /\ Range(monJob.sweep) = Range(Tail(monJob.sweep)) \cup {d}
    BY <1>1, <1>2, MonRanges, Zenon
  <2> QED BY <1>1, <2>1
<1>4. PICK fs \in SUBSET here :
          /\ Cardinality(fs) = Min({Cardinality(here), monJob.left})
          /\ MonEvaluate(fs)
          /\ monExcused' = monExcused \cup (here \ fs)
          /\ monJob' = [monJob EXCEPT !.left = @ - Cardinality(fs),
                                      !.sweep = SetToSeq(below) \o Tail(@)]
  BY DEF SweepNewTree
<1>5. below \subseteq MonDirNames /\ IsFiniteSet(below)
  BY <1>1, MonAssumption, FS_Subset
<1>6. here \subseteq MonFileNames /\ IsFiniteSet(here)
  BY MonAssumption, FS_Subset
<1>60. \A f \in MonFileNames : MonFiles[f] = d /\ monFile[f].ver > 0 => f \in here
  OBVIOUS
<1>61. \A e \in monDirs : MonParent[e] = d => e \in below
  OBVIOUS
<1> HIDE DEF d, here, below
<1>7. PICK q : q = SetToSeq(below)
  OBVIOUS
<1>8. q \in Seq(MonDirNames) /\ Range(q) = below
  BY <1>5, <1>7, MonSetToSeq
<1>9. PICK w : w = q \o Tail(monJob.sweep)
  OBVIOUS
<1>10. w \in Seq(MonDirNames) /\ Range(w) = below \cup Range(Tail(monJob.sweep))
  BY <1>2, <1>8, <1>9, RangeConcatenation, ConcatProperties
<1>11. monJob.left - Cardinality(fs) \in 0..MonSweepMax
  <2>1. PICK m, n, k : m = Cardinality(here) /\ n = monJob.left /\ k = Cardinality(fs)
    OBVIOUS
  <2>2. m \in Nat /\ MonSweepMax \in Nat
    BY <1>6, <2>1, FS_CardinalityType, MonAssumption
  <2>3. n \in 0..MonSweepMax
    BY <1>1, <2>1
  <2>4. n \in Nat
    BY ONLY <2>2, <2>3
  <2>5. k = Min({m, n})
    BY <1>4, <2>1
  <2>6. k = IF m <= n THEN m ELSE n
    BY <2>2, <2>4, <2>5, MonLeast
  <2>7. n - k \in 0..MonSweepMax
    BY ONLY <2>2, <2>3, <2>4, <2>6
  <2> QED BY <2>1, <2>7
<1>12. PICK l \in 0..MonSweepMax : l = monJob.left - Cardinality(fs)
  BY <1>11
<1>13. /\ monJob' = [monJob EXCEPT !.left = l, !.sweep = w]
       /\ monJob'.watch = <<>> /\ monJob'.sweep = w
  BY <1>1, <1>4, <1>7, <1>9, <1>12
<1>14. MonUnread' = MonUnread /\ MonToHear' = MonToHear
  BY <1>1 DEF MonUnread, MonToHear
<1>15. \A kind, path : MonToCome(kind, path)' = MonToCome(kind, path)
  BY <1>14 DEF MonToCome
<1>16. MonTypeOK'
  <2>1. monJob' \in [watch : Seq(MonDirNames), sweep : Seq(MonDirNames), left : 0..MonSweepMax]
    BY <1>1, <1>10, <1>13
  <2>2. monExcused' \subseteq MonDirNames \cup MonFileNames
    BY <1>4, <1>6 DEF MonInv, MonTypeOK
  <2>3. monSeen' \in [MonFileNames -> Nat]
    BY <1>4 DEF MonInv, MonTypeOK, MonEvaluate
  <2> QED BY <1>1, <2>1, <2>2, <2>3 DEF MonInv, MonTypeOK
<1>17. MonEventsFit'
  BY <1>14 DEF MonInv, MonEventsFit
<1>18. MonIndexed'
  BY <1>1, <1>14 DEF MonInv, MonIndexed, MonInBudget
<1>19. MonStands'
  BY <1>1 DEF MonInv, MonStands
<1>20. MonAttended'
  BY <1>1, <1>4 DEF MonInv, MonAttended
<1>21. MonWalked'
  BY <1>1, <1>4, <1>13, <1>15, MonEmpty DEF MonInv, MonWalked
<1>22. MonWalkSweeps'
  BY <1>13, MonEmpty DEF MonWalkSweeps
<1>23. MonFilesSeen'
  <2> SUFFICES ASSUME NEW f \in MonFileNames, MonFiles[f] \notin MonGuarded,
                      monFile[f].ver # 0, ~monFile[f].open
               PROVE  \/ monSeen'[f] = monFile[f].ver
                      \/ f \in monExcused' \/ MonSwept(MonFiles[f])' \/ MonToCome("write", f)'
    BY <1>1 DEF MonFilesSeen
  <2>1. monFile[f].ver > 0 /\ MonFiles[f] \in monDirs
    BY DEF MonInv, MonTypeOK, MonStands
  <2>2. monSeen'[f] = IF f \in fs THEN monFile[f].ver ELSE monSeen[f]
    BY <1>4 DEF MonEvaluate
  <2>3. CASE MonSwept(MonFiles[f])
    <3>1. PICK e \in MonPath[MonFiles[f]] :
              e \in monExcused \cup Range(monJob.sweep) \/ MonToCome("create", e)
      BY <2>3 DEF MonSwept
    <3>2. CASE e # d
      BY <1>3, <1>4, <1>10, <1>13, <1>15, <3>1, <3>2 DEF MonSwept
    <3>3. CASE MonFiles[f] = d
      BY <1>4, <1>60, <2>1, <2>2, <3>3
    <3>4. CASE e = d /\ MonFiles[f] # d
      <4>1. PICK c \in MonPath[MonFiles[f]] : MonParent[c] = d
        BY <1>1, <2>1, <3>1, <3>4, MonPathDown
      <4>2. c \in monDirs
        BY <1>1, <2>1, MonPathStands DEF MonInv
      <4>3. c \in Range(w)
        BY <1>10, <1>61, <4>1, <4>2
      <4> QED BY <1>13, <4>3 DEF MonSwept
    <3> QED BY <3>2, <3>3, <3>4
  <2>4. CASE ~MonSwept(MonFiles[f])
    BY <1>4, <1>15, <2>2, <2>4 DEF MonInv, MonFilesSeen
  <2> QED BY <2>3, <2>4
<1> QED BY <1>16, <1>17, <1>18, <1>19, <1>20, <1>21, <1>22, <1>23 DEF MonInv

\* due, on a record of the check.
LEMMA MonDueFacts ==
    ASSUME NEW os \in [ver : Nat, seen : Nat, age : 0..MonLong, pending : BOOLEAN],
           os.seen <= os.ver, MonLong \in Nat
    PROVE  /\ MonDue(os) \in [ver : Nat, seen : Nat, age : 0..MonLong, pending : BOOLEAN]
           /\ MonDue(os).seen <= MonDue(os).ver
<1>1. 0 \in 0..MonLong /\ os.ver \in Nat
  OBVIOUS
<1>2. CASE os.age < MonDebounce
  BY <1>2 DEF MonDue
<1>3. CASE ~(os.age < MonDebounce)
  <2>1. MonDue(os) = [os EXCEPT !.age = 0, !.pending = FALSE, !.seen = os.ver]
    BY <1>3 DEF MonDue
  <2>2. PICK v \in Nat : v = os.ver
    BY <1>1
  <2>3. PICK r : r = [os EXCEPT !.age = 0, !.pending = FALSE, !.seen = v]
    OBVIOUS
  <2>4. r \in [ver : Nat, seen : Nat, age : 0..MonLong, pending : BOOLEAN]
    BY ONLY <1>1, <2>2, <2>3, os \in [ver : Nat, seen : Nat, age : 0..MonLong, pending : BOOLEAN]
  <2>5. r.seen = v /\ r.ver = v
    BY <2>2, <2>3
  <2> QED BY <2>1, <2>2, <2>3, <2>4, <2>5
<1> QED BY <1>2, <1>3

\* Reading a batch of events keeps MonInv.
LEMMA MonReads == MonInv /\ ReadEvents => MonInv'
<1> SUFFICES ASSUME MonInv, ReadEvents PROVE MonInv'
  OBVIOUS
<1>1. /\ monBatch = <<>> /\ monBatch' = monQueue /\ monQueue' = <<>> /\ monLag' = 0
      /\ UNCHANGED <<monDirs, monFile, monKernel, monAdrift, monWatched, monJob, monSeen,
                     monExcused, monWorld>>
      /\ monRecent' = [f \in MonFileNames |-> MonAged(monRecent[f])]
  BY DEF ReadEvents
<1>2. monQueue \in Seq(MonEvents) /\ MonTypeOK /\ <<>> \in Seq(MonEvents)
  BY EmptySeq DEF MonInv, MonTypeOK
<1>3. MonToHear' = MonToHear /\ MonUnread' = MonUnread
  <2>1. monQueue \o <<>> = monQueue /\ <<>> \o monQueue = monQueue
    BY <1>2
  <2> QED BY <1>1, <2>1, MonEmpty DEF MonToHear, MonUnread
<1>4. MonLong \in Nat /\ \A age \in 0..MonLong : MonAged(age) \in 0..MonLong
  BY <1>2, MonTimes
<1>5. MonTypeOK'
  <2>1. monRecent' \in [MonFileNames -> 0..MonLong]
    BY <1>1, <1>4 DEF MonInv, MonTypeOK
  <2>2. PICK a \in 0..MonLong : a = MonAged(monOs.age)
    BY <1>4 DEF MonInv, MonTypeOK
  <2>3. PICK os : os = [monOs EXCEPT !.age = a]
    OBVIOUS
  <2>4. /\ os \in [ver : Nat, seen : Nat, age : 0..MonLong, pending : BOOLEAN]
        /\ os.seen <= os.ver
    BY <2>2, <2>3 DEF MonInv, MonTypeOK
  <2>5. monOs' = IF os.pending /\ os.age >= MonDebounce THEN MonDue(os) ELSE os
    BY <2>2, <2>3 DEF ReadEvents
  <2>6. /\ monOs' \in [ver : Nat, seen : Nat, age : 0..MonLong, pending : BOOLEAN]
        /\ monOs'.seen <= monOs'.ver
    BY <1>4, <2>4, <2>5, MonDueFacts
  <2>7. 0 \in 0..MonLong
    BY <1>4
  <2> QED BY <1>1, <1>2, <2>1, <2>6, <2>7 DEF MonInv, MonTypeOK
<1>6. MonEventsFit'
  BY <1>3 DEF MonInv, MonEventsFit
<1>7. MonIndexed'
  BY <1>1, <1>3 DEF MonInv, MonIndexed, MonInBudget
<1>8. MonStands' /\ MonAttended' /\ MonWalked' /\ MonWalkSweeps' /\ MonFilesSeen'
  BY <1>1, <1>3, MonAside
<1> QED BY <1>5, <1>6, <1>7, <1>8 DEF MonInv

\* Time keeps MonInv.
LEMMA MonTicks == MonInv /\ MonTick => MonInv'
<1> SUFFICES ASSUME MonInv, MonTick PROVE MonInv'
  OBVIOUS
<1>1. /\ monLag < MonLong /\ monLag' = monLag + 1
      /\ UNCHANGED <<monDirs, monFile, monQueue, monKernel, monAdrift, monWatched, monBatch, monJob,
                     monSeen, monRecent, monOs, monExcused, monWorld>>
  BY DEF MonTick
<1>2. MonToHear' = MonToHear /\ MonUnread' = MonUnread
  BY <1>1 DEF MonToHear, MonUnread
<1>3. MonTypeOK'
  <2>1. MonLong \in Nat /\ monLag \in 0..MonLong
    BY MonTimes DEF MonInv, MonTypeOK
  <2>2. monLag' \in 0..MonLong
    BY ONLY <1>1, <2>1
  <2> QED BY <1>1, <2>2 DEF MonInv, MonTypeOK
<1>4. MonEventsFit' /\ MonIndexed'
  BY <1>1, <1>2 DEF MonInv, MonEventsFit, MonIndexed, MonInBudget
<1>5. MonStands' /\ MonAttended' /\ MonWalked' /\ MonWalkSweeps' /\ MonFilesSeen'
  BY <1>1, <1>2, MonAside
<1> QED BY <1>3, <1>4, <1>5 DEF MonInv

\* Stuttering keeps MonInv.
LEMMA MonStays == MonInv /\ UNCHANGED monVars => MonInv'
<1> SUFFICES ASSUME MonInv, UNCHANGED monVars PROVE MonInv'
  OBVIOUS
<1>1. UNCHANGED <<monDirs, monFile, monQueue, monKernel, monAdrift, monWatched, monBatch, monJob,
                  monSeen, monRecent, monOs, monLag, monExcused, monWorld>>
  BY DEF monVars
<1>2. MonToHear' = MonToHear /\ MonUnread' = MonUnread
  BY <1>1 DEF MonToHear, MonUnread
<1>3. MonTypeOK'
  BY <1>1 DEF MonInv, MonTypeOK
<1>4. MonEventsFit' /\ MonIndexed'
  BY <1>1, <1>2 DEF MonInv, MonEventsFit, MonIndexed, MonInBudget
<1>5. MonStands' /\ MonAttended' /\ MonWalked' /\ MonWalkSweeps' /\ MonFilesSeen'
  BY <1>1, <1>2, MonAside
<1> QED BY <1>3, <1>4, <1>5 DEF MonInv

\* An event in a guarded directory, handled, keeps MonInv.
LEMMA MonHandlesGuarded == MonInv /\ HandleGuarded => MonInv'
<1> SUFFICES ASSUME MonInv, HandleGuarded PROVE MonInv'
  OBVIOUS
<1> DEFINE v == Head(monBatch)
           appeared == v.kind = "create" /\ v.path \in MonGuarded /\ v.path \in monDirs
           populated == \E f \in MonFileNames : MonFiles[f] = v.path /\ monFile[f].ver > 0
<1>1. /\ MonNextEvent({"create", "write", "moved", "gone"}) /\ v.dir \in MonGuarded
      /\ IF appeared THEN MonWatch(v.path) ELSE UNCHANGED <<monKernel, monWatched, monExcused>>
      /\ monOs' = MonDue(IF appeared /\ populated THEN MonDue(monOs) ELSE monOs)
      /\ UNCHANGED <<monJob, monSeen, monRecent>>
  BY DEF HandleGuarded
<1>2. /\ v \in MonEvents /\ v \in MonUnread /\ MonUnread = MonUnread' \cup {v}
      /\ monBatch' \in Seq(MonEvents)
      /\ Len(MonToHear) \in Nat \ {0} /\ Len(MonToHear') = Len(MonToHear) - 1
      /\ MonToHear[1] = v
      /\ \A i \in 1..Len(MonToHear') : MonToHear'[i] = MonToHear[i + 1]
  BY <1>1, MonNextFacts
<1>3. UNCHANGED <<monDirs, monFile, monQueue, monAdrift, monLag, monWorld>>
  BY <1>1 DEF MonNextEvent
<1> HIDE DEF v, populated
<1>4. /\ monKernel \subseteq monKernel' /\ monKernel' \subseteq monKernel \cup MonGuarded
      /\ monExcused \subseteq monExcused' /\ monExcused' \subseteq monExcused \cup MonGuarded
      /\ monWatched' \subseteq MonDirNames
      /\ monKernel' \subseteq monDirs /\ monKernel' \subseteq monWatched'
      /\ monWatched \ monKernel \subseteq monWatched' \ monKernel'
      /\ Cardinality(monWatched') <= MonBudget
  <2>1. CASE appeared
    <3>1. v.path \in MonDirNames /\ v.path \in MonGuarded /\ MonWatch(v.path)
      BY <1>1, <2>1 DEF MonInv, MonTypeOK
    <3> QED BY <3>1, MonWatchFacts
  <2>2. CASE ~appeared
    BY <1>1, <2>2 DEF MonInv, MonTypeOK, MonIndexed, MonInBudget
  <2> QED BY <2>1, <2>2
<1> HIDE DEF appeared
<1>5. MonTypeOK'
  <2>1. MonLong \in Nat
    BY MonTimes DEF MonInv
  <2>2. PICK os : os = IF appeared /\ populated THEN MonDue(monOs) ELSE monOs
    OBVIOUS
  <2>3. /\ monOs \in [ver : Nat, seen : Nat, age : 0..MonLong, pending : BOOLEAN]
        /\ monOs.seen <= monOs.ver
    BY DEF MonInv, MonTypeOK
  <2>4. /\ os \in [ver : Nat, seen : Nat, age : 0..MonLong, pending : BOOLEAN]
        /\ os.seen <= os.ver
    BY <2>1, <2>2, <2>3, MonDueFacts
  <2>5. monOs' = MonDue(os)
    BY <1>1, <2>2
  <2>6. /\ monOs' \in [ver : Nat, seen : Nat, age : 0..MonLong, pending : BOOLEAN]
        /\ monOs'.seen <= monOs'.ver
    BY <2>1, <2>4, <2>5, MonDueFacts
  <2>7. MonGuarded \subseteq MonDirNames
    BY MonAssumption
  <2> QED BY <1>1, <1>2, <1>3, <1>4, <2>6, <2>7 DEF MonInv, MonTypeOK
<1>6. MonEventsFit'
  BY <1>2 DEF MonInv, MonEventsFit
<1>7. MonIndexed'
  <2>1. Len(MonToHear') \in Nat /\ Len(MonToHear) = Len(MonToHear') + 1
    BY <1>2
  <2>2. MonIndexed
    BY DEF MonInv
  <2>3. MonInBudget' /\ monKernel' \subseteq monDirs'
    BY <1>3, <1>4 DEF MonInBudget
  <2> QED BY <1>2, <1>4, <2>1, <2>2, <2>3, MonIndexStays
<1>8. MonStands' /\ MonAttended' /\ MonWalked' /\ MonWalkSweeps' /\ MonFilesSeen'
  BY <1>1, <1>2, <1>3, <1>4, MonAside
<1> QED BY <1>5, <1>6, <1>7, <1>8 DEF MonInv

\* An event of a removed directory, handled, keeps MonInv.
LEMMA MonHandlesGone == MonInv /\ HandleGone => MonInv'
<1> SUFFICES ASSUME MonInv, HandleGone PROVE MonInv'
  OBVIOUS
<1> DEFINE v == Head(monBatch)
<1>1. /\ MonNextEvent({"gone"})
      /\ monWatched' = monWatched \ {v.path}
      /\ UNCHANGED <<monKernel, monJob, monSeen, monRecent, monOs, monExcused>>
  BY DEF HandleGone
<1>2. /\ v.kind = "gone" /\ v \in MonEvents /\ v \in MonUnread /\ MonUnread = MonUnread' \cup {v}
      /\ monBatch' \in Seq(MonEvents)
      /\ Len(MonToHear) \in Nat \ {0} /\ Len(MonToHear') = Len(MonToHear) - 1
      /\ MonToHear[1] = v
      /\ \A i \in 1..Len(MonToHear') : MonToHear'[i] = MonToHear[i + 1]
  BY <1>1, MonNextFacts
<1>3. UNCHANGED <<monDirs, monFile, monQueue, monAdrift, monLag, monWorld>>
  BY <1>1 DEF MonNextEvent
<1> HIDE DEF v
<1>4. MonTypeOK'
  BY <1>1, <1>2, <1>3 DEF MonInv, MonTypeOK
<1>5. MonEventsFit'
  BY <1>2 DEF MonInv, MonEventsFit
<1>6. MonIndexed'
  <2>1. PICK n \in Nat : n + 1 = Len(MonToHear) /\ n = Len(MonToHear')
    BY <1>2
  <2>2. /\ monKernel \subseteq monWatched /\ monKernel \subseteq monDirs
        /\ Cardinality(monWatched) <= MonBudget
        /\ \A i \in 1..(n + 1) :
              MonToHear[i].kind = "gone" => MonToHear[i].path \in monWatched \ monKernel
        /\ \A i, j \in 1..(n + 1) :
              (MonToHear[i].kind = "gone" /\ MonToHear[j].kind = "gone"
                 /\ MonToHear[i].path = MonToHear[j].path) => i = j
    BY <2>1 DEF MonInv, MonIndexed, MonInBudget
  <2>3. /\ 1 \in 1..(n + 1)
        /\ \A i \in 1..n : i + 1 \in 1..(n + 1) /\ i + 1 # 1
        /\ \A i, j \in 1..n : i + 1 = j + 1 => i = j
    BY ONLY n \in Nat
  <2>4. v.path \in monWatched \ monKernel
    BY <1>2, <2>2, <2>3
  <2>5. Cardinality(monWatched') <= MonBudget
    <3>1. IsFiniteSet(monWatched) /\ MonBudget \in Nat
      BY MonAssumption, FS_Subset DEF MonInv, MonTypeOK
    <3>2. /\ Cardinality(monWatched) \in Nat
          /\ Cardinality(monWatched \ {v.path}) = Cardinality(monWatched) - 1
      BY <2>4, <3>1, FS_CardinalityType, FS_RemoveElement
    <3>3. PICK m, k : m = Cardinality(monWatched) /\ k = Cardinality(monWatched')
      OBVIOUS
    <3>4. m \in Nat /\ m <= MonBudget /\ k = m - 1
      BY <1>1, <2>2, <3>2, <3>3
    <3>5. k <= MonBudget
      BY ONLY <3>1, <3>4
    <3> QED BY <3>3, <3>5
  <2>6. \A i \in 1..n :
            MonToHear'[i].kind = "gone" => MonToHear'[i].path \in monWatched' \ monKernel'
    BY <1>1, <1>2, <2>1, <2>2, <2>3
  <2>7. \A i, j \in 1..n :
            (MonToHear'[i].kind = "gone" /\ MonToHear'[j].kind = "gone"
               /\ MonToHear'[i].path = MonToHear'[j].path) => i = j
    BY <1>2, <2>1, <2>2, <2>3
  <2>8. MonInBudget' /\ monKernel' \subseteq monDirs'
    BY <1>1, <1>3, <2>2, <2>4, <2>5 DEF MonInBudget
  <2> QED BY <2>1, <2>6, <2>7, <2>8 DEF MonIndexed
<1>7. MonStands' /\ MonAttended' /\ MonWalked' /\ MonWalkSweeps' /\ MonFilesSeen'
  BY <1>1, <1>2, <1>3, MonAside
<1> QED BY <1>4, <1>5, <1>6, <1>7 DEF MonInv

\* An event is handled that changes neither the kernel's watches nor the index.
LEMMA MonHandled ==
    ASSUME MonInv, NEW K, MonNextEvent(K), UNCHANGED <<monKernel, monWatched, monOs>>
    PROVE  /\ MonStands' /\ MonEventsFit' /\ MonIndexed'
           /\ monQueue' \in Seq(MonEvents) /\ monBatch' \in Seq(MonEvents)
           /\ Head(monBatch) \in MonEvents /\ Head(monBatch).kind \in K
           /\ Head(monBatch) \in MonUnread /\ MonUnread = MonUnread' \cup {Head(monBatch)}
           /\ Range(monJob.watch) = {} /\ Range(monJob.sweep) = {}
           /\ UNCHANGED <<monDirs, monFile, monQueue, monAdrift, monLag, monWorld>>
<1> DEFINE v == Head(monBatch)
<1>1. /\ v \in MonEvents /\ v.kind \in K
      /\ v \in MonUnread /\ MonUnread = MonUnread' \cup {v}
      /\ monBatch' \in Seq(MonEvents)
      /\ Range(monJob.watch) = {} /\ Range(monJob.sweep) = {}
      /\ Len(MonToHear) \in Nat \ {0} /\ Len(MonToHear') = Len(MonToHear) - 1
      /\ \A i \in 1..Len(MonToHear') : MonToHear'[i] = MonToHear[i + 1]
  BY MonNextFacts
<1>2. UNCHANGED <<monDirs, monFile, monQueue, monAdrift, monLag, monWorld>>
  BY DEF MonNextEvent
<1>3. monQueue' \in Seq(MonEvents)
  BY <1>2 DEF MonInv, MonTypeOK
<1> HIDE DEF v
<1>4. MonStands' /\ MonEventsFit'
  BY <1>1, <1>2 DEF MonInv, MonStands, MonEventsFit
<1>5. MonIndexed'
  <2>1. Len(MonToHear') \in Nat /\ Len(MonToHear) = Len(MonToHear') + 1
    BY <1>1
  <2>2. MonIndexed
    BY DEF MonInv
  <2>3. MonInBudget' /\ monKernel' \subseteq monDirs'
    BY <1>2, <2>2 DEF MonIndexed, MonInBudget
  <2> QED BY <1>1, <1>2, <2>1, <2>2, <2>3, MonIndexStays
<1> QED BY <1>1, <1>2, <1>3, <1>4, <1>5 DEF v

\* An event of a new directory, handled, keeps MonInv.
LEMMA MonHandlesNewDir == MonInv /\ HandleNewDir => MonInv'
<1> SUFFICES ASSUME MonInv, HandleNewDir PROVE MonInv'
  OBVIOUS
<1> DEFINE v == Head(monBatch)
<1>1. /\ MonNextEvent({"create"}) /\ v.path \in monDirs
      /\ monJob' = [watch |-> <<v.path>>, sweep |-> <<v.path>>, left |-> MonSweepMax]
      /\ UNCHANGED <<monKernel, monWatched, monSeen, monRecent, monOs, monExcused>>
  BY DEF HandleNewDir
<1>2. /\ MonStands' /\ MonEventsFit' /\ MonIndexed'
      /\ monQueue' \in Seq(MonEvents) /\ monBatch' \in Seq(MonEvents)
      /\ v \in MonEvents /\ v.kind \in {"create"} /\ MonUnread = MonUnread' \cup {v}
      /\ Range(monJob.watch) = {} /\ Range(monJob.sweep) = {}
      /\ UNCHANGED <<monDirs, monFile, monQueue, monAdrift, monLag, monWorld>>
  BY <1>1, MonHandled
<1>3. PICK p : p = v.path
  OBVIOUS
<1>4. p \in MonDirNames /\ monDirs \subseteq MonDirNames
  BY <1>1, <1>3 DEF MonInv, MonTypeOK
<1>5. <<p>> \in Seq(MonDirNames) /\ Range(<<p>>) = {p}
  BY <1>4, MonSingle
<1>6. monJob'.watch = <<p>> /\ monJob'.sweep = <<p>>
  BY <1>1, <1>3
<1>7. \A kind, path : MonToCome(kind, path) => MonToCome(kind, path)' \/ (kind = "create" /\ path = p)
  <2> SUFFICES ASSUME NEW kind, NEW path, MonToCome(kind, path)
               PROVE  MonToCome(kind, path)' \/ (kind = "create" /\ path = p)
    OBVIOUS
  <2>1. PICK w \in MonUnread : w.kind = kind /\ w.path = path
    BY DEF MonToCome
  <2>2. CASE w = v
    BY <1>2, <1>3, <2>1, <2>2
  <2>3. CASE w # v
    <3>1. w \in MonUnread'
      BY <1>2, <2>3
    <3> QED BY <2>1, <3>1 DEF MonToCome
  <2> QED BY <2>2, <2>3
<1> HIDE DEF v
<1>8. MonTypeOK'
  <2>1. PICK w \in Seq(MonDirNames) : w = <<p>>
    BY <1>5
  <2>2. MonSweepMax \in Nat
    BY MonAssumption
  <2>3. monJob' = [watch |-> w, sweep |-> w, left |-> MonSweepMax] /\ MonSweepMax \in 0..MonSweepMax
    BY <1>1, <1>3, <2>1, <2>2
  <2>4. monJob' \in [watch : Seq(MonDirNames), sweep : Seq(MonDirNames), left : 0..MonSweepMax]
    BY <2>3
  <2> QED BY <1>1, <1>2, <2>4 DEF MonInv, MonTypeOK
<1>9. MonAttended'
  BY <1>1, <1>2 DEF MonInv, MonAttended
<1>10. \A d \in MonDirNames : MonSwept(d) => MonSwept(d)'
  <2> SUFFICES ASSUME NEW d \in MonDirNames, NEW e \in MonPath[d],
                      e \in monExcused \cup Range(monJob.sweep) \/ MonToCome("create", e)
               PROVE  e \in monExcused' \cup Range(monJob'.sweep) \/ MonToCome("create", e)'
    BY DEF MonSwept
  <2> QED BY <1>1, <1>2, <1>5, <1>6, <1>7
<1>11. MonWalked'
  <2> SUFFICES ASSUME NEW d \in (monDirs \cap MonFresh) \ MonGuarded, MonParent[d] \in monKernel
               PROVE  d \in monKernel \cup monExcused \cup Range(monJob'.watch)
                          \/ MonToCome("create", d)'
    BY <1>1, <1>2 DEF MonWalked
  <2>1. d \in monKernel \cup monExcused \/ MonToCome("create", d)
    BY <1>2 DEF MonInv, MonWalked
  <2> QED BY <1>5, <1>6, <1>7, <2>1
<1>12. MonWalkSweeps'
  <2> SUFFICES ASSUME NEW d \in (monDirs \cap MonFresh) \ MonGuarded, d \in Range(monJob'.watch)
               PROVE  MonSwept(d)'
    BY <1>2 DEF MonWalkSweeps
  <2>1. d \in MonPath[d] /\ d \in Range(monJob'.sweep)
    BY <1>4, <1>6, MonPathFacts
  <2> QED BY <2>1 DEF MonSwept
<1>13. MonFilesSeen'
  <2> SUFFICES ASSUME NEW f \in MonFileNames
               PROVE  \/ MonFiles[f] \in MonGuarded
                      \/ monFile[f].ver = 0 \/ monFile[f].open \/ monSeen[f] = monFile[f].ver
                      \/ f \in monExcused \/ MonSwept(MonFiles[f])' \/ MonToCome("write", f)'
    BY <1>1, <1>2 DEF MonFilesSeen
  <2>1. MonFiles[f] \in MonDirNames
    BY MonAssumption
  <2> QED BY <1>7, <1>10, <2>1 DEF MonInv, MonFilesSeen
<1> QED BY <1>2, <1>8, <1>9, <1>11, <1>12, <1>13 DEF MonInv

\* An event of a file, coalesced or evaluated, keeps MonInv.
LEMMA MonHandlesPath == MonInv /\ HandlePath => MonInv'
<1> SUFFICES ASSUME MonInv, HandlePath PROVE MonInv'
  OBVIOUS
<1> DEFINE v == Head(monBatch)
<1>1. /\ MonNextEvent({"create", "write", "moved"})
      /\ ~(v.kind = "create" /\ v.path \in monDirs)
      /\ \/ /\ v.path \in MonDirNames
            /\ UNCHANGED <<monSeen, monRecent, monExcused>>
         \/ /\ v.path \in MonFileNames
            /\ monExcused' = monExcused \cup {v.path}
            /\ UNCHANGED <<monSeen, monRecent>>
         \/ /\ v.path \in MonFileNames
            /\ monRecent' = [monRecent EXCEPT ![v.path] = 0]
            /\ MonEvaluate({v.path})
            /\ UNCHANGED monExcused
      /\ UNCHANGED <<monKernel, monWatched, monJob, monOs>>
  BY DEF HandlePath
<1>2. /\ MonStands' /\ MonEventsFit' /\ MonIndexed'
      /\ monQueue' \in Seq(MonEvents) /\ monBatch' \in Seq(MonEvents)
      /\ v \in MonEvents /\ v \in MonUnread /\ MonUnread = MonUnread' \cup {v}
      /\ Range(monJob.watch) = {} /\ Range(monJob.sweep) = {}
      /\ UNCHANGED <<monDirs, monFile, monQueue, monAdrift, monLag, monWorld>>
  BY <1>1, MonHandled
<1>3. monExcused \subseteq monExcused' /\ monDirs \subseteq MonDirNames
  BY <1>1 DEF MonInv, MonTypeOK
<1>4. \A kind, path : MonToCome(kind, path) => MonToCome(kind, path)' \/ (kind = v.kind /\ path = v.path)
  <2> SUFFICES ASSUME NEW kind, NEW path, MonToCome(kind, path)
               PROVE  MonToCome(kind, path)' \/ (kind = v.kind /\ path = v.path)
    OBVIOUS
  <2>1. PICK w \in MonUnread : w.kind = kind /\ w.path = path
    BY DEF MonToCome
  <2>2. CASE w = v
    BY <1>2, <2>1, <2>2
  <2>3. CASE w # v
    <3>1. w \in MonUnread'
      BY <1>2, <2>3
    <3> QED BY <2>1, <3>1 DEF MonToCome
  <2> QED BY <2>2, <2>3
<1> HIDE DEF v
<1>5. MonTypeOK'
  <2>1. monExcused' \subseteq MonDirNames \cup MonFileNames
    BY <1>1 DEF MonInv, MonTypeOK
  <2>2. monSeen' \in [MonFileNames -> Nat]
    BY <1>1 DEF MonInv, MonTypeOK, MonEvaluate
  <2>3. monRecent' \in [MonFileNames -> 0..MonLong]
    <3>1. MonLong \in Nat /\ monRecent \in [MonFileNames -> 0..MonLong]
      BY MonTimes DEF MonInv, MonTypeOK
    <3>2. 0 \in 0..MonLong
      BY <3>1
    <3> QED BY <1>1, <3>1, <3>2
  <2> QED BY <1>1, <1>2, <2>1, <2>2, <2>3 DEF MonInv, MonTypeOK
<1>6. MonAttended'
  BY <1>1, <1>2, <1>3 DEF MonInv, MonAttended
<1>7. \A d \in monDirs : MonToCome("create", d) => MonToCome("create", d)'
  BY <1>1, <1>4
<1>8. \A d \in monDirs : MonSwept(d) => MonSwept(d)'
  <2> SUFFICES ASSUME NEW d \in monDirs, NEW e \in MonPath[d],
                      e \in monExcused \cup Range(monJob.sweep) \/ MonToCome("create", e)
               PROVE  e \in monExcused' \cup Range(monJob'.sweep) \/ MonToCome("create", e)'
    BY DEF MonSwept
  <2>1. e \in monDirs
    BY <1>3, MonPathStands DEF MonInv
  <2> QED BY <1>1, <1>3, <1>7, <2>1
<1>9. MonWalked'
  BY <1>1, <1>2, <1>3, <1>7 DEF MonInv, MonWalked
<1>10. MonWalkSweeps'
  BY <1>1, <1>2, <1>8 DEF MonInv, MonWalkSweeps
<1>11. MonFilesSeen'
  <2> SUFFICES ASSUME NEW f \in MonFileNames, MonFiles[f] \notin MonGuarded,
                      monFile[f].ver # 0, ~monFile[f].open
               PROVE  \/ monSeen'[f] = monFile[f].ver
                      \/ f \in monExcused' \/ MonSwept(MonFiles[f])' \/ MonToCome("write", f)'
    BY <1>2 DEF MonFilesSeen
  <2>1. MonFiles[f] \in monDirs
    BY DEF MonInv, MonTypeOK, MonStands
  <2>2. monSeen[f] = monFile[f].ver => monSeen'[f] = monFile[f].ver
    BY <1>1 DEF MonEvaluate
  <2>3. MonToCome("write", f) => \/ MonToCome("write", f)' \/ f \in monExcused'
                                 \/ monSeen'[f] = monFile[f].ver
    <3>1. CASE v.path = f
      <4>1. f \notin MonDirNames
        BY MonAssumption
      <4> QED BY <1>1, <3>1, <4>1 DEF MonEvaluate
    <3>2. CASE v.path # f
      BY <1>4, <3>2
    <3> QED BY <3>1, <3>2
  <2> QED BY <1>3, <1>8, <2>1, <2>2, <2>3 DEF MonInv, MonFilesSeen
<1> QED BY <1>2, <1>5, <1>6, <1>9, <1>10, <1>11 DEF MonInv

\* An event has the fields it was made of.
LEMMA MonEventFacts ==
    ASSUME NEW kind \in {"create", "write", "moved", "gone"}, NEW dir \in MonDirNames,
           NEW path \in MonDirNames \cup MonFileNames
    PROVE  /\ MonEvent(kind, dir, path) \in MonEvents
           /\ MonEvent(kind, dir, path).kind = kind
           /\ MonEvent(kind, dir, path).dir = dir
           /\ MonEvent(kind, dir, path).path = path
  BY DEF MonEvent, MonEvents

\* The queue has one more event, or is as it was.
LEMMA MonHeard ==
    ASSUME MonInv, NEW v \in MonEvents, MonNotify(v), monBatch' = monBatch,
           monWatched' = monWatched, monKernel' \subseteq monKernel, monKernel' \subseteq monDirs',
           v.kind = "gone" => v.path = v.dir /\ v.path \notin monKernel'
    PROVE  /\ MonIndexed' /\ monQueue' \in Seq(MonEvents)
           /\ MonUnread \subseteq MonUnread' /\ MonUnread' \subseteq MonUnread \cup {v}
           /\ v.dir \in monKernel => v \in MonUnread'
<1>1. /\ MonUnread \subseteq MonUnread' /\ MonUnread' \subseteq MonUnread \cup {v}
      /\ v.dir \in monKernel => v \in MonUnread'
      /\ monQueue' \in Seq(MonEvents)
      /\ Len(MonToHear) \in Nat
      /\ \A i \in 1..Len(MonToHear) : MonToHear'[i] = MonToHear[i]
      /\ v.dir \notin monKernel => Len(MonToHear') = Len(MonToHear)
      /\ v.dir \in monKernel => /\ Len(MonToHear') = Len(MonToHear) + 1
                                /\ MonToHear'[Len(MonToHear) + 1] = v
  BY MonNotifyFacts
<1>2. PICK n \in Nat : n = Len(MonToHear)
  BY <1>1
<1>3. /\ MonInBudget
      /\ \A i \in 1..n : MonToHear[i].kind = "gone" => MonToHear[i].path \in monWatched \ monKernel
      /\ \A i, j \in 1..n :
            (MonToHear[i].kind = "gone" /\ MonToHear[j].kind = "gone"
               /\ MonToHear[i].path = MonToHear[j].path) => i = j
  BY <1>2 DEF MonInv, MonIndexed
<1>4. MonInBudget' /\ monKernel' \subseteq monDirs'
  BY <1>3 DEF MonInBudget
<1>5. CASE v.dir \notin monKernel
  <2>1. Len(MonToHear') = n /\ \A i \in 1..n : MonToHear'[i] = MonToHear[i]
    BY <1>1, <1>2, <1>5
  <2>2. MonIndexed'
    BY <1>3, <1>4, <2>1 DEF MonIndexed
  <2> QED BY <1>1, <2>2
<1>6. CASE v.dir \in monKernel
  <2>1. /\ Len(MonToHear') = n + 1 /\ MonToHear'[n + 1] = v
        /\ \A i \in 1..n : MonToHear'[i] = MonToHear[i]
    BY <1>1, <1>2, <1>6
  <2>2. \A i \in 1..(n + 1) : i \in 1..n \/ i = n + 1
    BY ONLY n \in Nat
  <2>3. v.kind = "gone" => v.path \in monWatched \ monKernel'
    BY <1>3, <1>6 DEF MonInBudget
  <2>4. \A i \in 1..(n + 1) :
            MonToHear'[i].kind = "gone" => MonToHear'[i].path \in monWatched' \ monKernel'
    BY <1>3, <2>1, <2>2, <2>3
  <2>5. ASSUME NEW i \in 1..n, v.kind = "gone", MonToHear[i].kind = "gone"
        PROVE  MonToHear[i].path # v.path
    BY <1>3, <1>6, <2>5
  <2>6. \A i, j \in 1..(n + 1) :
            (MonToHear'[i].kind = "gone" /\ MonToHear'[j].kind = "gone"
               /\ MonToHear'[i].path = MonToHear'[j].path) => i = j
    BY <1>3, <2>1, <2>2, <2>5
  <2>7. MonIndexed'
    BY <1>4, <2>1, <2>4, <2>6 DEF MonIndexed
  <2> QED BY <1>1, <2>7
<1> QED BY <1>5, <1>6

\* A file is opened or closed in a directory that is there.
LEMMA MonWrites ==
    ASSUME MonInv, NEW f \in MonFileNames, NEW v \in MonEvents,
           v.kind \in {"create", "write"}, v.dir = MonFiles[f], v.path = f,
           monQueue' = monQueue \/ MonNotify(v),
           MonFiles[f] \in monDirs, MonFiles[f] \in MonFresh \cup monKernel \cup monExcused,
           NEW r \in [ver : Nat, open : BOOLEAN], monFile' = [monFile EXCEPT ![f] = r],
           UNCHANGED <<monDirs, monKernel, monWatched, monBatch, monJob, monSeen, monExcused>>,
           r.open \/ MonFiles[f] \in MonGuarded \/ MonToCome("write", f)' \/ MonSwept(MonFiles[f])
    PROVE  /\ MonStands' /\ MonEventsFit' /\ MonIndexed' /\ MonAttended'
           /\ MonWalked' /\ MonWalkSweeps' /\ MonFilesSeen'
           /\ monFile' \in [MonFileNames -> [ver : Nat, open : BOOLEAN]]
           /\ monQueue' \in Seq(MonEvents)
<1>1. /\ monFile \in [MonFileNames -> [ver : Nat, open : BOOLEAN]]
      /\ monQueue \in Seq(MonEvents) /\ monDirs \subseteq MonDirNames
  BY DEF MonInv, MonTypeOK
<1>2. /\ monFile' \in [MonFileNames -> [ver : Nat, open : BOOLEAN]]
      /\ monFile'[f] = r
      /\ \A g \in MonFileNames : g # f => monFile'[g] = monFile[g]
  BY <1>1
<1>3. /\ MonIndexed' /\ monQueue' \in Seq(MonEvents)
      /\ MonUnread \subseteq MonUnread' /\ MonUnread' \subseteq MonUnread \cup {v}
  <2>1. CASE monQueue' = monQueue
    <3>1. MonToHear' = MonToHear /\ MonUnread' = MonUnread
      BY <2>1 DEF MonToHear, MonUnread
    <3> QED BY <1>1, <2>1, <3>1 DEF MonInv, MonIndexed, MonInBudget
  <2>2. CASE MonNotify(v)
    <3>1. monKernel' \subseteq monKernel /\ monKernel' \subseteq monDirs'
      BY DEF MonInv, MonIndexed
    <3> QED BY <2>2, <3>1, MonHeard
  <2> QED BY <2>1, <2>2
<1>4. \A kind, path : MonToCome(kind, path) => MonToCome(kind, path)'
  BY <1>3 DEF MonToCome
<1>5. \A d \in MonDirNames : MonSwept(d) => MonSwept(d)'
  BY <1>4, MonSweptStays
<1>6. MonEventsFit'
  <2>1. f \notin MonDirNames
    BY MonAssumption
  <2>2. ASSUME NEW w \in MonUnread'
        PROVE  /\ w.kind = "create" /\ w.path \in MonDirNames
                     => w.path \in MonFresh /\ w.dir = MonParent[w.path]
               /\ w.kind = "write" => w.path \in MonFileNames /\ w.dir = MonFiles[w.path]
               /\ w.kind = "gone" => w.path \in MonDirNames /\ w.dir = w.path
    <3>1. CASE w \in MonUnread
      BY <3>1 DEF MonInv, MonEventsFit
    <3>2. CASE w = v
      BY <2>1, <3>2
    <3> QED BY <1>3, <3>1, <3>2
  <2> QED BY <2>2 DEF MonEventsFit
<1>7. MonStands'
  BY <1>2 DEF MonInv, MonStands
<1>8. MonAttended'
  BY <1>2 DEF MonInv, MonAttended
<1>9. MonWalked'
  BY <1>4 DEF MonInv, MonWalked
<1>10. MonWalkSweeps'
  BY <1>1, <1>5 DEF MonInv, MonWalkSweeps
<1>11. MonFilesSeen'
  <2> SUFFICES ASSUME NEW g \in MonFileNames
               PROVE  \/ MonFiles[g] \in MonGuarded
                      \/ monFile'[g].ver = 0 \/ monFile'[g].open \/ monSeen[g] = monFile'[g].ver
                      \/ g \in monExcused \/ MonSwept(MonFiles[g])' \/ MonToCome("write", g)'
    BY DEF MonFilesSeen
  <2>1. MonFiles[g] \in MonDirNames
    BY MonAssumption
  <2>2. CASE g = f
    BY <1>2, <1>5, <2>1, <2>2
  <2>3. CASE g # f
    BY <1>2, <1>4, <1>5, <2>1, <2>3 DEF MonInv, MonFilesSeen
  <2> QED BY <2>2, <2>3
<1> QED BY <1>2, <1>3, <1>6, <1>7, <1>8, <1>9, <1>10, <1>11

\* The host's steps are counted.
LEMMA MonWorldTyped ==
    ASSUME MonInv, monWorld < MonMaxWorld, monWorld' = monWorld + 1
    PROVE  monWorld' \in 0..MonMaxWorld
<1>1. monWorld \in 0..MonMaxWorld /\ MonMaxWorld \in Nat
  BY MonAssumption DEF MonInv, MonTypeOK
<1> QED BY ONLY <1>1, monWorld < MonMaxWorld, monWorld' = monWorld + 1

\* The host opening a file to write keeps MonInv.
LEMMA MonOpens == ASSUME MonInv, NEW f \in MonFileNames, HostOpen(f) PROVE MonInv'
<1> DEFINE v == MonEvent("create", MonFiles[f], f)
<1>1. /\ MonFiles[f] \in monKernel \cup monExcused \cup MonFresh
      /\ MonFiles[f] \in monDirs
      /\ monWorld < MonMaxWorld /\ monWorld' = monWorld + 1
      /\ monFile' = [monFile EXCEPT ![f] = [ver |-> @.ver + 1, open |-> TRUE]]
      /\ monQueue' = monQueue \/ MonNotify(v)
      /\ UNCHANGED <<monDirs, monKernel, monAdrift, monWatched, monBatch, monJob, monSeen,
                     monRecent, monLag, monOs, monExcused>>
  BY DEF HostOpen, MonWorldStep
<1>2. MonFiles[f] \in MonDirNames
  BY MonAssumption
<1>3. v \in MonEvents /\ v.kind = "create" /\ v.dir = MonFiles[f] /\ v.path = f
  BY <1>2, MonEventFacts
<1> HIDE DEF v
<1>4. PICK n \in Nat : n = monFile[f].ver + 1
  BY DEF MonInv, MonTypeOK
<1>5. PICK r \in [ver : Nat, open : BOOLEAN] : r = [ver |-> n, open |-> TRUE]
  OBVIOUS
<1>6. monFile' = [monFile EXCEPT ![f] = r] /\ r.open
  BY <1>1, <1>4, <1>5
<1>7. /\ MonStands' /\ MonEventsFit' /\ MonIndexed' /\ MonAttended'
      /\ MonWalked' /\ MonWalkSweeps' /\ MonFilesSeen'
      /\ monFile' \in [MonFileNames -> [ver : Nat, open : BOOLEAN]]
      /\ monQueue' \in Seq(MonEvents)
  BY <1>1, <1>3, <1>6, MonWrites
<1>8. MonTypeOK'
  <2>1. monWorld' \in 0..MonMaxWorld
    BY <1>1, MonWorldTyped
  <2> QED BY <1>1, <1>7, <2>1 DEF MonInv, MonTypeOK
<1> QED BY <1>7, <1>8 DEF MonInv

\* A write under a guarded directory is one more for its check to see.
LEMMA MonOsWritten ==
    ASSUME MonInv, NEW d, monOs' = IF d \in MonGuarded THEN [monOs EXCEPT !.ver = @ + 1] ELSE monOs
    PROVE  /\ monOs' \in [ver : Nat, seen : Nat, age : 0..MonLong, pending : BOOLEAN]
           /\ monOs'.seen <= monOs'.ver
<1>1. /\ monOs \in [ver : Nat, seen : Nat, age : 0..MonLong, pending : BOOLEAN]
      /\ monOs.seen <= monOs.ver
  BY DEF MonInv, MonTypeOK
<1>2. PICK k \in Nat : k = monOs.ver + 1
  BY <1>1
<1>3. PICK os : os = [monOs EXCEPT !.ver = k]
  OBVIOUS
<1>4. /\ os \in [ver : Nat, seen : Nat, age : 0..MonLong, pending : BOOLEAN]
      /\ os.seen = monOs.seen /\ os.ver = k
  BY <1>1, <1>3
<1>5. monOs.seen \in Nat /\ monOs.ver \in Nat
  BY <1>1
<1>6. PICK a, b : a = monOs.seen /\ b = monOs.ver
  OBVIOUS
<1>7. a <= k
  <2>1. a \in Nat /\ b \in Nat /\ a <= b /\ k = b + 1
    BY <1>1, <1>2, <1>5, <1>6
  <2> QED BY ONLY <2>1
<1>8. monOs' = os \/ monOs' = monOs
  BY <1>2, <1>3
<1>9. /\ monOs' \in [ver : Nat, seen : Nat, age : 0..MonLong, pending : BOOLEAN]
      /\ monOs'.seen <= monOs'.ver
  BY <1>1, <1>4, <1>6, <1>7, <1>8
<1> QED BY <1>9

\* The host closing a file it wrote keeps MonInv.
LEMMA MonCloses == ASSUME MonInv, NEW f \in MonFileNames, HostClose(f) PROVE MonInv'
<1> DEFINE v == MonEvent("write", MonFiles[f], f)
<1>1. /\ monFile[f].open
      /\ monFile' = [monFile EXCEPT ![f] = [ver |-> @.ver + 1, open |-> FALSE]]
      /\ monOs' = IF MonFiles[f] \in MonGuarded THEN [monOs EXCEPT !.ver = @ + 1] ELSE monOs
      /\ MonNotify(v)
      /\ UNCHANGED <<monDirs, monKernel, monAdrift, monWatched, monBatch, monJob, monSeen,
                     monRecent, monLag, monExcused, monWorld>>
  BY DEF HostClose
<1>2. MonFiles[f] \in MonDirNames
  BY MonAssumption
<1>3. v \in MonEvents /\ v.kind = "write" /\ v.dir = MonFiles[f] /\ v.path = f
  BY <1>2, MonEventFacts
<1> HIDE DEF v
<1>4. PICK n \in Nat : n = monFile[f].ver + 1
  BY DEF MonInv, MonTypeOK
<1>5. PICK r \in [ver : Nat, open : BOOLEAN] : r = [ver |-> n, open |-> FALSE]
  OBVIOUS
<1>6. monFile' = [monFile EXCEPT ![f] = r]
  BY <1>1, <1>4, <1>5
<1>7. MonFiles[f] \in monDirs /\ MonFiles[f] \in MonFresh \cup monKernel \cup monExcused
  BY <1>1 DEF MonInv, MonStands, MonAttended
<1>8. MonFiles[f] \in MonGuarded \/ MonToCome("write", f)' \/ MonSwept(MonFiles[f])
  <2>1. CASE MonFiles[f] \in monKernel
    <3>1. v \in MonUnread'
      BY <1>1, <1>3, <2>1, MonNotifyFacts
    <3> QED BY <1>3, <3>1 DEF MonToCome
  <2>2. CASE MonFiles[f] \in monExcused
    BY <1>2, <2>2, MonPathFacts DEF MonSwept
  <2>3. CASE MonFiles[f] \in MonFresh /\ MonFiles[f] \notin monKernel
    BY <1>7, <2>3, MonUnwatchedSwept
  <2> QED BY <1>7, <2>1, <2>2, <2>3
<1>9. /\ MonStands' /\ MonEventsFit' /\ MonIndexed' /\ MonAttended'
      /\ MonWalked' /\ MonWalkSweeps' /\ MonFilesSeen'
      /\ monFile' \in [MonFileNames -> [ver : Nat, open : BOOLEAN]]
      /\ monQueue' \in Seq(MonEvents)
  BY <1>1, <1>3, <1>6, <1>7, <1>8, MonWrites
<1>10. MonTypeOK'
  <2>1. /\ monOs' \in [ver : Nat, seen : Nat, age : 0..MonLong, pending : BOOLEAN]
        /\ monOs'.seen <= monOs'.ver
    BY <1>1, MonOsWritten
  <2> QED BY <1>1, <1>9, <2>1 DEF MonInv, MonTypeOK
<1> QED BY <1>9, <1>10 DEF MonInv

\* A directory comes to be, created or moved in from elsewhere: a file in it
\* then has content, and it is given up.
LEMMA MonAppears ==
    ASSUME MonInv, NEW d \in MonDirNames \ monDirs, MonParent[d] \in monDirs,
           MonParent[d] \in MonFresh \cup monKernel \cup monExcused,
           NEW v \in MonEvents, v.dir = MonParent[d], v.path = d, v.kind \in {"create", "moved"},
           MonNotify(v), monDirs' = monDirs \cup {d},
           monExcused \ {d} \subseteq monExcused', monExcused' \subseteq monExcused \cup {d},
           v.kind = "moved" => d \in monExcused',
           monFile' \in [MonFileNames -> [ver : Nat, open : BOOLEAN]],
           \A f \in MonFileNames : monFile'[f] = monFile[f] \/ (v.kind = "moved" /\ MonFiles[f] = d),
           monOs' \in [ver : Nat, seen : Nat, age : 0..MonLong, pending : BOOLEAN],
           monOs'.seen <= monOs'.ver,
           UNCHANGED <<monKernel, monAdrift, monWatched, monBatch, monJob, monSeen, monRecent,
                       monLag>>,
           monWorld < MonMaxWorld, monWorld' = monWorld + 1
    PROVE  MonInv'
<1>1. /\ monDirs \subseteq MonDirNames /\ monExcused \subseteq MonDirNames \cup MonFileNames
      /\ MonDirNames \ MonFresh \subseteq monDirs /\ monKernel \subseteq monDirs
      /\ MonFileNames \cap MonDirNames = {}
  BY MonAssumption DEF MonInv, MonTypeOK, MonStands, MonIndexed
<1>2. /\ d \in MonFresh /\ MonParent[d] # d /\ MonParent[d] \in MonDirNames
      /\ MonParent[d] \in MonPath[d] /\ d \in MonPath[d]
  BY <1>1, MonPathFacts
<1>3. monKernel' \subseteq monKernel /\ monKernel' \subseteq monDirs'
  BY <1>1
<1>4. /\ MonIndexed' /\ monQueue' \in Seq(MonEvents)
      /\ MonUnread \subseteq MonUnread' /\ MonUnread' \subseteq MonUnread \cup {v}
      /\ v.dir \in monKernel => v \in MonUnread'
  BY <1>3, MonHeard
<1>5. MonTypeOK'
  <2>1. MonTypeOK
    BY DEF MonInv
  <2>2. monWorld' \in 0..MonMaxWorld
    BY MonWorldTyped
  <2>3. {monDirs', monKernel', monAdrift', monWatched'} \subseteq SUBSET MonDirNames
    BY <1>1, <2>1 DEF MonTypeOK
  <2>4. monExcused' \subseteq MonDirNames \cup MonFileNames
    BY <1>1
  <2>5. /\ monSeen' \in [MonFileNames -> Nat] /\ monRecent' \in [MonFileNames -> 0..MonLong]
        /\ monBatch' \in Seq(MonEvents) /\ monLag' \in 0..MonLong
        /\ monJob' \in [watch : Seq(MonDirNames), sweep : Seq(MonDirNames), left : 0..MonSweepMax]
    BY <2>1 DEF MonTypeOK
  <2> QED BY <1>4, <2>2, <2>3, <2>4, <2>5 DEF MonTypeOK
<1>6. MonEventsFit'
  <2>1. ASSUME NEW w \in MonUnread'
        PROVE  /\ w.kind = "create" /\ w.path \in MonDirNames
                     => w.path \in MonFresh /\ w.dir = MonParent[w.path]
               /\ w.kind = "write" => w.path \in MonFileNames /\ w.dir = MonFiles[w.path]
               /\ w.kind = "gone" => w.path \in MonDirNames /\ w.dir = w.path
    <3>1. CASE w \in MonUnread
      BY <3>1 DEF MonInv, MonEventsFit
    <3>2. CASE w = v
      BY <1>2, <3>2
    <3> QED BY <1>4, <3>1, <3>2
  <2> QED BY <2>1 DEF MonEventsFit
<1>7. MonStands'
  BY <1>1 DEF MonInv, MonStands
<1>8. \A f \in MonFileNames : monFile[f].ver > 0 \/ monFile[f].open => MonFiles[f] \in monDirs
  BY DEF MonInv, MonStands
<1>9. d \notin monDirs
  OBVIOUS
<1>10. MonAttended'
  <2>1. \A c \in monDirs' \cap MonFresh : MonParent[c] \in MonFresh \cup monKernel \cup monExcused'
    <3> SUFFICES ASSUME NEW c \in monDirs' \cap MonFresh
                 PROVE  MonParent[c] \in MonFresh \cup monKernel \cup monExcused'
      OBVIOUS
    <3>1. CASE c = d
      BY <1>2, <3>1
    <3>2. CASE c # d
      <4>1. MonParent[c] \in monDirs /\ MonParent[c] \in MonFresh \cup monKernel \cup monExcused
        BY <3>2 DEF MonInv, MonStands, MonAttended
      <4> QED BY <4>1
    <3> QED BY <3>1, <3>2
  <2>2. ASSUME NEW f \in MonFileNames, monFile'[f].ver > 0 \/ monFile'[f].open
        PROVE  MonFiles[f] \in MonFresh \cup monKernel \cup monExcused'
    <3>1. CASE monFile'[f] = monFile[f]
      BY <1>8, <1>9, <2>2, <3>1 DEF MonInv, MonAttended
    <3>2. CASE MonFiles[f] = d
      BY <1>2, <3>2
    <3> QED BY <3>1, <3>2
  <2> QED BY <2>1, <2>2 DEF MonAttended
<1>11. \A kind, path : MonToCome(kind, path) => MonToCome(kind, path)'
  BY <1>4 DEF MonToCome
<1>12. \A c \in monDirs : MonSwept(c) => MonSwept(c)'
  <2> SUFFICES ASSUME NEW c \in monDirs, NEW e \in MonPath[c],
                      e \in monExcused \cup Range(monJob.sweep) \/ MonToCome("create", e)
               PROVE  e \in monExcused' \cup Range(monJob.sweep) \/ MonToCome("create", e)'
    BY DEF MonSwept
  <2>1. e \in monDirs
    BY <1>1, MonPathStands DEF MonInv
  <2> QED BY <1>11, <2>1
<1>13. d \in monExcused' \/ MonParent[d] \notin monKernel \/ MonToCome("create", d)'
  BY <1>4 DEF MonToCome
<1>14. MonWalked'
  <2> SUFFICES ASSUME NEW c \in (monDirs' \cap MonFresh) \ MonGuarded, MonParent[c] \in monKernel
               PROVE  c \in monKernel \cup monExcused' \cup Range(monJob.watch)
                          \/ MonToCome("create", c)'
    BY DEF MonWalked
  <2>1. CASE c = d
    BY <1>13, <2>1
  <2>2. CASE c # d
    BY <1>11, <2>2 DEF MonInv, MonWalked
  <2> QED BY <2>1, <2>2
<1>15. MonWalkSweeps'
  <2> SUFFICES ASSUME NEW c \in (monDirs' \cap MonFresh) \ MonGuarded, c \in Range(monJob.watch)
               PROVE  c \in monKernel \/ MonSwept(c)'
    BY DEF MonWalkSweeps
  <2>1. CASE c # d
    BY <1>12, <2>1 DEF MonInv, MonWalkSweeps
  <2>2. CASE c = d /\ MonParent[d] \in monKernel
    BY <1>2, <1>13, <2>2 DEF MonSwept
  <2>3. CASE c = d /\ MonParent[d] \in monExcused
    BY <1>2, <2>3 DEF MonSwept
  <2>4. CASE c = d /\ MonParent[d] \in MonFresh /\ MonParent[d] \notin monKernel
    <3>1. MonParent[d] \in (monDirs \cap MonFresh) \ MonGuarded
      BY <1>2, <2>4, MonTreeAssumption
    <3>2. MonSwept(MonParent[d])
      BY <2>4, <3>1, MonUnwatchedSwept
    <3>3. MonSwept(MonParent[d])'
      BY <1>12, <3>2
    <3>4. MonPath[MonParent[d]] \subseteq MonPath[d]
      BY <1>2, MonPathUp
    <3> QED BY <2>4, <3>3, <3>4 DEF MonSwept
  <2> QED BY <2>1, <2>2, <2>3, <2>4
<1>16. MonFilesSeen'
  <2> SUFFICES ASSUME NEW f \in MonFileNames, MonFiles[f] \notin MonGuarded,
                      monFile'[f].ver # 0, ~monFile'[f].open
               PROVE  \/ monSeen[f] = monFile'[f].ver
                      \/ f \in monExcused' \/ MonSwept(MonFiles[f])' \/ MonToCome("write", f)'
    BY DEF MonFilesSeen
  <2>1. CASE v.kind = "moved" /\ MonFiles[f] = d
    BY <1>2, <2>1 DEF MonSwept
  <2>2. CASE monFile'[f] = monFile[f]
    <3>0. monFile[f].ver \in Nat /\ monFile[f].ver # 0
      BY <2>2 DEF MonInv, MonTypeOK
    <3>00. monFile[f].ver > 0
      BY ONLY <3>0
    <3>1. MonFiles[f] \in monDirs
      BY <1>8, <3>00
    <3>2. f \in monExcused => f \in monExcused'
      BY <1>1
    <3> QED BY <1>11, <1>12, <2>2, <3>1, <3>2 DEF MonInv, MonFilesSeen
  <2> QED BY <2>1, <2>2
<1> QED BY <1>4, <1>5, <1>6, <1>7, <1>10, <1>14, <1>15, <1>16 DEF MonInv

\* A directory made on the host keeps MonInv.
LEMMA MonMkdirs == ASSUME MonInv, NEW d \in MonDirNames, HostMkdir(d) PROVE MonInv'
<1> DEFINE v == MonEvent("create", MonParent[d], d)
<1>1. /\ MonParent[d] \in monKernel \cup monExcused \cup MonFresh
      /\ d \notin monDirs /\ MonParent[d] \in monDirs
      /\ monWorld < MonMaxWorld /\ monWorld' = monWorld + 1
      /\ monDirs' = monDirs \cup {d} /\ monExcused' = monExcused \ {d}
      /\ MonNotify(v)
      /\ UNCHANGED <<monFile, monKernel, monAdrift, monWatched, monBatch, monJob, monSeen,
                     monRecent, monLag, monOs>>
  BY DEF HostMkdir, MonWorldStep
<1>2. MonParent[d] \in MonDirNames /\ monFile \in [MonFileNames -> [ver : Nat, open : BOOLEAN]]
  BY <1>1 DEF MonInv, MonTypeOK
<1>3. v \in MonEvents /\ v.kind = "create" /\ v.dir = MonParent[d] /\ v.path = d
  BY <1>2, MonEventFacts
<1> HIDE DEF v
<1>4. d \in MonDirNames \ monDirs /\ MonParent[d] \in MonFresh \cup monKernel \cup monExcused
  BY <1>1
<1>5. /\ monExcused \ {d} \subseteq monExcused' /\ monExcused' \subseteq monExcused \cup {d}
      /\ v.kind \in {"create", "moved"}
      /\ v.kind = "moved" => d \in monExcused'
      /\ \A f \in MonFileNames : monFile'[f] = monFile[f] \/ (v.kind = "moved" /\ MonFiles[f] = d)
      /\ monFile' \in [MonFileNames -> [ver : Nat, open : BOOLEAN]]
      /\ monOs' \in [ver : Nat, seen : Nat, age : 0..MonLong, pending : BOOLEAN]
      /\ monOs'.seen <= monOs'.ver
  BY <1>1, <1>2, <1>3 DEF MonInv, MonTypeOK
<1> QED BY <1>1, <1>3, <1>4, <1>5, MonAppears

\* A tree moved in keeps MonInv.
LEMMA MonMovesIn == ASSUME MonInv, NEW d \in MonDirNames, HostMoveIn(d) PROVE MonInv'
<1> DEFINE v == MonEvent("moved", MonParent[d], d)
<1>1. /\ MonParent[d] \in monKernel \cup monExcused \cup MonFresh
      /\ d \notin monDirs /\ MonParent[d] \in monDirs
      /\ monWorld < MonMaxWorld /\ monWorld' = monWorld + 1
      /\ monDirs' = monDirs \cup {d} /\ monExcused' = monExcused \cup {d}
      /\ MonNotify(v)
      /\ monOs' = IF d \in MonGuarded THEN [monOs EXCEPT !.ver = @ + 1] ELSE monOs
      /\ UNCHANGED <<monKernel, monAdrift, monWatched, monBatch, monJob, monSeen, monRecent, monLag>>
  BY DEF HostMoveIn, MonWorldStep
<1>2. MonParent[d] \in MonDirNames /\ monFile \in [MonFileNames -> [ver : Nat, open : BOOLEAN]]
  BY <1>1 DEF MonInv, MonTypeOK
<1>3. v \in MonEvents /\ v.kind = "moved" /\ v.dir = MonParent[d] /\ v.path = d
  BY <1>2, MonEventFacts
<1> HIDE DEF v
<1>4. PICK f \in MonFileNames : MonFiles[f] = d /\ monFile' = [monFile EXCEPT ![f].ver = @ + 2]
  BY DEF HostMoveIn
<1>5. PICK n \in Nat : n = monFile[f].ver + 2
  BY <1>2
<1>6. monFile' = [monFile EXCEPT ![f] = [monFile[f] EXCEPT !.ver = n]]
  BY <1>2, <1>4, <1>5
<1>7. PICK r : r = [monFile[f] EXCEPT !.ver = n]
  OBVIOUS
<1>8. monFile[f] \in [ver : Nat, open : BOOLEAN]
  BY <1>2
<1>9. r \in [ver : Nat, open : BOOLEAN]
  BY <1>7, <1>8
<1>10. monFile' = [monFile EXCEPT ![f] = r]
  BY <1>6, <1>7
<1>11. /\ monFile' \in [MonFileNames -> [ver : Nat, open : BOOLEAN]]
       /\ \A g \in MonFileNames : monFile'[g] = monFile[g] \/ (v.kind = "moved" /\ MonFiles[g] = d)
  BY <1>2, <1>3, <1>4, <1>9, <1>10
<1>12. d \in MonDirNames \ monDirs /\ MonParent[d] \in MonFresh \cup monKernel \cup monExcused
  BY <1>1
<1>13. /\ monExcused \ {d} \subseteq monExcused' /\ monExcused' \subseteq monExcused \cup {d}
       /\ v.kind \in {"create", "moved"}
      /\ v.kind = "moved" => d \in monExcused'
  BY <1>1, <1>3
<1>14. /\ monOs' \in [ver : Nat, seen : Nat, age : 0..MonLong, pending : BOOLEAN]
       /\ monOs'.seen <= monOs'.ver
  BY <1>1, MonOsWritten
<1> QED BY <1>1, <1>3, <1>11, <1>12, <1>13, <1>14, MonAppears

\* Directories that come and go disappear with all that is below them, and only
\* the top of them says so.
LEMMA MonDisappears ==
    ASSUME MonInv, NEW d \in MonDirNames, NEW T \in SUBSET (monDirs \cap MonFresh), d \in T,
           \A c \in monDirs : MonParent[c] \in T => c \in T,
           monDirs' = monDirs \ T, monKernel' = monKernel \ T,
           monFile' = [f \in MonFileNames |->
                          IF MonFiles[f] \in T THEN [ver |-> 0, open |-> FALSE] ELSE monFile[f]],
           MonNotify(MonEvent("gone", d, d)),
           monAdrift' \subseteq MonDirNames,
           UNCHANGED <<monWatched, monBatch, monJob, monSeen, monRecent, monLag, monOs, monExcused>>,
           monWorld < MonMaxWorld, monWorld' = monWorld + 1
    PROVE  MonInv'
<1> DEFINE v == MonEvent("gone", d, d)
<1>1. v \in MonEvents /\ v.kind = "gone" /\ v.dir = d /\ v.path = d /\ MonNotify(v)
  BY MonEventFacts
<1> HIDE DEF v
<1>2. /\ monDirs \subseteq MonDirNames /\ MonDirNames \ MonFresh \subseteq monDirs
      /\ monKernel \subseteq monDirs
      /\ monFile \in [MonFileNames -> [ver : Nat, open : BOOLEAN]]
  BY DEF MonInv, MonTypeOK, MonStands, MonIndexed
<1>3. /\ \A f \in MonFileNames : MonFiles[f] \in T => monFile'[f].ver = 0 /\ ~monFile'[f].open
      /\ \A f \in MonFileNames : MonFiles[f] \notin T => monFile'[f] = monFile[f]
      /\ monFile' \in [MonFileNames -> [ver : Nat, open : BOOLEAN]]
  BY <1>2
<1>4. /\ MonIndexed' /\ monQueue' \in Seq(MonEvents)
      /\ MonUnread \subseteq MonUnread' /\ MonUnread' \subseteq MonUnread \cup {v}
  <2>1. monKernel' \subseteq monKernel /\ monKernel' \subseteq monDirs' /\ d \notin monKernel'
    BY <1>2
  <2> QED BY <1>1, <2>1, MonHeard
<1>5. MonTypeOK'
  <2>1. MonTypeOK
    BY DEF MonInv
  <2>2. monWorld' \in 0..MonMaxWorld
    BY MonWorldTyped
  <2>3. {monDirs', monKernel', monAdrift', monWatched'} \subseteq SUBSET MonDirNames
    BY <1>2, <2>1 DEF MonTypeOK
  <2>4. /\ monSeen' \in [MonFileNames -> Nat] /\ monRecent' \in [MonFileNames -> 0..MonLong]
        /\ monBatch' \in Seq(MonEvents) /\ monLag' \in 0..MonLong
        /\ monExcused' \subseteq MonDirNames \cup MonFileNames
        /\ monJob' \in [watch : Seq(MonDirNames), sweep : Seq(MonDirNames), left : 0..MonSweepMax]
    BY <2>1 DEF MonTypeOK
  <2>5. /\ monOs' \in [ver : Nat, seen : Nat, age : 0..MonLong, pending : BOOLEAN]
        /\ monOs'.seen <= monOs'.ver
    BY <2>1 DEF MonTypeOK
  <2> QED BY <1>3, <1>4, <2>2, <2>3, <2>4, <2>5 DEF MonTypeOK
<1>6. MonEventsFit'
  <2>1. ASSUME NEW w \in MonUnread'
        PROVE  /\ w.kind = "create" /\ w.path \in MonDirNames
                     => w.path \in MonFresh /\ w.dir = MonParent[w.path]
               /\ w.kind = "write" => w.path \in MonFileNames /\ w.dir = MonFiles[w.path]
               /\ w.kind = "gone" => w.path \in MonDirNames /\ w.dir = w.path
    <3>1. CASE w \in MonUnread
      BY <3>1 DEF MonInv, MonEventsFit
    <3>2. CASE w = v
      BY <1>1, <3>2
    <3> QED BY <1>4, <3>1, <3>2
  <2> QED BY <2>1 DEF MonEventsFit
<1>7. \A kind, path : MonToCome(kind, path) => MonToCome(kind, path)'
  BY <1>4 DEF MonToCome
<1>8. \A c \in MonDirNames : MonSwept(c) => MonSwept(c)'
  BY <1>7, MonSweptStays
<1>9. MonStands'
  <2>1. MonDirNames \ MonFresh \subseteq monDirs'
    BY <1>2
  <2>2. \A c \in monDirs' : MonParent[c] \in MonDirNames => MonParent[c] \in monDirs'
    BY DEF MonInv, MonStands
  <2>3. \A c \in monDirs' \cap MonFresh : MonParent[c] \in monDirs'
    BY DEF MonInv, MonStands
  <2>4. \A f \in MonFileNames : monFile'[f].ver > 0 \/ monFile'[f].open => MonFiles[f] \in monDirs'
    <3> SUFFICES ASSUME NEW f \in MonFileNames, monFile'[f].ver > 0 \/ monFile'[f].open
                 PROVE  MonFiles[f] \in monDirs'
      OBVIOUS
    <3>1. ~(monFile'[f].ver = 0 /\ ~monFile'[f].open)
      <4>1. monFile'[f].ver \in Nat
        BY <1>3
      <4> QED BY <4>1
    <3>2. MonFiles[f] \notin T /\ monFile'[f] = monFile[f]
      BY <1>3, <3>1
    <3>3. MonFiles[f] \in monDirs
      BY <3>2 DEF MonInv, MonStands
    <3> QED BY <3>2, <3>3
  <2> QED BY <2>1, <2>2, <2>3, <2>4 DEF MonStands
<1>10. MonAttended'
  <2>1. \A c \in monDirs' \cap MonFresh : MonParent[c] \in MonFresh \cup monKernel' \cup monExcused
    BY DEF MonInv, MonAttended
  <2>2. \A f \in MonFileNames : monFile'[f].ver > 0 \/ monFile'[f].open
            => MonFiles[f] \in MonFresh \cup monKernel' \cup monExcused
    <3> SUFFICES ASSUME NEW f \in MonFileNames, monFile'[f].ver > 0 \/ monFile'[f].open
                 PROVE  MonFiles[f] \in MonFresh \cup monKernel' \cup monExcused
      OBVIOUS
    <3>1. CASE MonFiles[f] \in T
      BY <3>1
    <3>2. CASE MonFiles[f] \notin T
      BY <1>3, <3>2 DEF MonInv, MonAttended
    <3> QED BY <3>1, <3>2
  <2> QED BY <2>1, <2>2 DEF MonAttended
<1>11. MonWalked'
  BY <1>7 DEF MonInv, MonWalked
<1>12. MonWalkSweeps'
  BY <1>2, <1>8 DEF MonInv, MonWalkSweeps
<1>13. MonFilesSeen'
  <2> SUFFICES ASSUME NEW f \in MonFileNames, monFile'[f].ver # 0
               PROVE  \/ MonFiles[f] \in MonGuarded
                      \/ monFile'[f].open \/ monSeen[f] = monFile'[f].ver
                      \/ f \in monExcused \/ MonSwept(MonFiles[f])' \/ MonToCome("write", f)'
    BY DEF MonFilesSeen
  <2>1. monFile'[f] = monFile[f]
    BY <1>3
  <2>2. MonFiles[f] \in MonDirNames
    BY MonAssumption
  <2> QED BY <1>7, <1>8, <2>1, <2>2 DEF MonInv, MonFilesSeen
<1> QED BY <1>4, <1>5, <1>6, <1>9, <1>10, <1>11, <1>12, <1>13 DEF MonInv

\* A directory removed keeps MonInv.
LEMMA MonRemoves == ASSUME MonInv, NEW d \in MonDirNames, HostRemove(d) PROVE MonInv'
<1>1. /\ d \in monDirs \cap MonFresh /\ \A e \in monDirs : MonParent[e] # d
      /\ monWorld < MonMaxWorld /\ monWorld' = monWorld + 1
      /\ monDirs' = monDirs \ {d} /\ monKernel' = monKernel \ {d}
      /\ monFile' = [f \in MonFileNames |->
                        IF MonFiles[f] = d THEN [ver |-> 0, open |-> FALSE] ELSE monFile[f]]
      /\ MonNotify(MonEvent("gone", d, d))
      /\ UNCHANGED <<monAdrift, monWatched, monBatch, monJob, monSeen, monRecent, monLag, monOs,
                     monExcused>>
  BY DEF HostRemove, MonWorldStep
<1>2. PICK T \in SUBSET (monDirs \cap MonFresh) : T = {d}
  BY <1>1
<1>3. monFile' = [f \in MonFileNames |->
                     IF MonFiles[f] \in T THEN [ver |-> 0, open |-> FALSE] ELSE monFile[f]]
  BY <1>1, <1>2
<1>4. monAdrift' \subseteq MonDirNames
  BY <1>1 DEF MonInv, MonTypeOK
<1> QED BY <1>1, <1>2, <1>3, <1>4, MonDisappears

\* A tree moved out keeps MonInv.
LEMMA MonMovesOut == ASSUME MonInv, NEW d \in MonDirNames, HostMoveOut(d) PROVE MonInv'
<1>1. PICK T : T = {e \in monDirs : d \in MonPath[e]}
  OBVIOUS
<1>2. /\ d \in monDirs \cap MonFresh
      /\ monWorld < MonMaxWorld /\ monWorld' = monWorld + 1
      /\ monDirs' = monDirs \ T /\ monKernel' = monKernel \ T
      /\ monAdrift' = monAdrift \cup (monKernel \cap T)
      /\ monFile' = [f \in MonFileNames |->
                        IF MonFiles[f] \in T THEN [ver |-> 0, open |-> FALSE] ELSE monFile[f]]
      /\ MonNotify(MonEvent("gone", d, d))
      /\ UNCHANGED <<monWatched, monBatch, monJob, monSeen, monRecent, monLag, monOs, monExcused>>
  BY <1>1 DEF HostMoveOut, MonWorldStep
<1>3. monDirs \subseteq MonDirNames
  BY DEF MonInv, MonTypeOK
<1>4. T \in SUBSET (monDirs \cap MonFresh)
  <2> SUFFICES ASSUME NEW e \in monDirs, d \in MonPath[e] PROVE e \in MonFresh
    BY <1>1
  <2> QED BY <1>2, <1>3, MonPathOld
<1>5. d \in T
  BY <1>1, <1>2, MonPathFacts
<1>6. \A c \in monDirs : MonParent[c] \in T => c \in T
  <2> SUFFICES ASSUME NEW c \in monDirs, MonParent[c] \in T PROVE d \in MonPath[c]
    BY <1>1
  <2>1. MonParent[c] \in MonPath[c] /\ d \in MonPath[MonParent[c]]
    BY <1>1, <1>3, MonPathFacts
  <2>2. MonPath[MonParent[c]] \subseteq MonPath[c]
    BY <1>3, <2>1, MonPathUp
  <2> QED BY <2>1, <2>2
<1>7. monAdrift' \subseteq MonDirNames
  BY <1>2 DEF MonInv, MonTypeOK
<1> QED BY <1>2, <1>4, <1>5, <1>6, <1>7, MonDisappears

\* Every step keeps MonInv.
LEMMA MonKept == MonInv /\ [MonNext]_monVars => MonInv'
<1> SUFFICES ASSUME MonInv, [MonNext]_monVars PROVE MonInv'
  OBVIOUS
<1>1. CASE MonLoop
  BY <1>1, MonAddTree, MonSweep, MonReads, MonHandlesGuarded, MonHandlesNewDir, MonHandlesGone,
     MonHandlesPath DEF MonLoop
<1>2. CASE MonTick
  BY <1>2, MonTicks
<1>3. ASSUME NEW f \in MonFileNames, HostOpen(f) \/ HostClose(f) PROVE MonInv'
  BY <1>3, MonOpens, MonCloses
<1>4. ASSUME NEW d \in MonDirNames,
             HostMkdir(d) \/ HostMoveIn(d) \/ HostRemove(d) \/ HostMoveOut(d)
      PROVE  MonInv'
  BY <1>4, MonMkdirs, MonMovesIn, MonRemoves, MonMovesOut
<1>5. CASE UNCHANGED monVars
  BY <1>5, MonStays
<1> QED BY <1>1, <1>2, <1>3, <1>4, <1>5 DEF MonNext

\* The index takes in nothing that is not there, and hears of what it has to.
LEMMA MonUsedForward ==
    ASSUME MonIndexUsed, monAdrift \subseteq monAdrift',
           \A d \in monWatched' \ monKernel' :
               d \in monWatched \ monKernel \/ d \in monAdrift' \/ MonToCome("gone", d)',
           \A d \in monWatched' : MonToCome("gone", d) => MonToCome("gone", d)' \/ d \in MonGuarded
    PROVE  MonIndexUsed'
  BY DEF MonIndexUsed

\* An event handled leaves the others to come.
LEMMA MonOthersToCome ==
    ASSUME MonInv, NEW K, MonNextEvent(K)
    PROVE  /\ Head(monBatch) \in MonUnread /\ Head(monBatch).kind \in K
           /\ \A d : MonToCome("gone", d) =>
                 MonToCome("gone", d)' \/ (Head(monBatch).kind = "gone" /\ Head(monBatch).path = d)
<1> DEFINE v == Head(monBatch)
<1>1. v \in MonUnread /\ MonUnread = MonUnread' \cup {v} /\ v.kind \in K
  BY MonNextFacts
<1> HIDE DEF v
<1>2. \A d : MonToCome("gone", d) => MonToCome("gone", d)' \/ (v.kind = "gone" /\ v.path = d)
  BY <1>1 DEF MonToCome
<1> QED BY <1>1, <1>2 DEF v

\* Every step keeps what the index has accounted for.
LEMMA MonUsedKept == MonInv /\ MonIndexUsed /\ [MonNext]_monVars => MonIndexUsed'
<1> SUFFICES ASSUME MonInv, MonIndexUsed, [MonNext]_monVars PROVE MonIndexUsed'
  OBVIOUS
<1>1. \A d : MonWatch(d) => monWatched' \ monKernel' \subseteq monWatched \ monKernel
  BY DEF MonWatch
<1>2. CASE AddTree
  <2>1. MonUnread' = MonUnread /\ monAdrift' = monAdrift /\ MonWatch(Head(monJob.watch))
    BY <1>2 DEF AddTree, MonUnread
  <2> QED BY <1>1, <2>1, MonUsedForward DEF MonToCome
<1>3. CASE SweepNewTree \/ MonTick \/ UNCHANGED monVars
  <2>1. MonUnread' = MonUnread /\ UNCHANGED <<monAdrift, monWatched, monKernel>>
    BY <1>3 DEF SweepNewTree, MonTick, monVars, MonUnread
  <2> QED BY <2>1, MonUsedForward DEF MonToCome
<1>4. CASE ReadEvents
  <2>1. MonUnread' = MonUnread /\ UNCHANGED <<monAdrift, monWatched, monKernel>>
    BY <1>4, MonEmpty DEF ReadEvents, MonUnread
  <2> QED BY <2>1, MonUsedForward DEF MonToCome
<1>5. CASE HandleGuarded
  <2> DEFINE v == Head(monBatch)
  <2>1. /\ v \in MonUnread
        /\ \A d : MonToCome("gone", d) => MonToCome("gone", d)' \/ (v.kind = "gone" /\ v.path = d)
    BY <1>5, MonOthersToCome DEF HandleGuarded
  <2>2. v.dir \in MonGuarded /\ monAdrift' = monAdrift
    BY <1>5 DEF HandleGuarded, MonNextEvent
  <2>3. MonWatch(v.path) \/ UNCHANGED <<monKernel, monWatched>>
    BY <1>5 DEF HandleGuarded
  <2> HIDE DEF v
  <2>4. v.kind = "gone" => v.path \in MonGuarded
    BY <2>1, <2>2 DEF MonInv, MonEventsFit
  <2>5. monWatched' \ monKernel' \subseteq monWatched \ monKernel
    BY <1>1, <2>3
  <2> QED BY <2>1, <2>2, <2>4, <2>5, MonUsedForward
<1>6. CASE HandleNewDir \/ HandlePath
  <2>1. MonNextEvent({"create", "write", "moved"}) \/ MonNextEvent({"create"})
    BY <1>6 DEF HandleNewDir, HandlePath
  <2>2. \A d : MonToCome("gone", d) => MonToCome("gone", d)'
    BY <2>1, MonOthersToCome
  <2>3. UNCHANGED <<monAdrift, monWatched, monKernel>>
    BY <1>6 DEF HandleNewDir, HandlePath, MonNextEvent
  <2> QED BY <2>2, <2>3, MonUsedForward
<1>7. CASE HandleGone
  <2> DEFINE v == Head(monBatch)
  <2>1. \A d : MonToCome("gone", d) => MonToCome("gone", d)' \/ v.path = d
    BY <1>7, MonOthersToCome DEF HandleGone
  <2>2. /\ monWatched' = monWatched \ {v.path} /\ monKernel' = monKernel
        /\ monAdrift' = monAdrift
    BY <1>7 DEF HandleGone, MonNextEvent
  <2> HIDE DEF v
  <2> QED BY <2>1, <2>2, MonUsedForward
<1>8. ASSUME NEW v \in MonEvents, MonNotify(v), monBatch' = monBatch
      PROVE  /\ \A d : MonToCome("gone", d) => MonToCome("gone", d)'
             /\ v.dir \in monKernel => MonToCome(v.kind, v.path)'
  BY <1>8, MonNotifyFacts DEF MonToCome
<1>9. ASSUME NEW f \in MonFileNames, HostOpen(f) \/ HostClose(f)
      PROVE  MonIndexUsed'
  <2>1. UNCHANGED <<monAdrift, monWatched, monKernel, monBatch>>
    BY <1>9 DEF HostOpen, HostClose, MonWorldStep
  <2>2. MonFiles[f] \in MonDirNames
    BY MonAssumption
  <2>3. \A kind \in {"create", "write"} : MonEvent(kind, MonFiles[f], f) \in MonEvents
    BY <2>2, MonEventFacts
  <2>4. \/ monQueue' = monQueue \/ MonNotify(MonEvent("create", MonFiles[f], f))
        \/ MonNotify(MonEvent("write", MonFiles[f], f))
    BY <1>9 DEF HostOpen, HostClose
  <2>5. monQueue' = monQueue => MonUnread' = MonUnread
    BY <2>1 DEF MonUnread
  <2>6. \A d : MonToCome("gone", d) => MonToCome("gone", d)'
    <3>1. CASE monQueue' = monQueue
      BY <2>5, <3>1 DEF MonToCome
    <3>2. CASE MonNotify(MonEvent("create", MonFiles[f], f))
      BY <1>8, <2>1, <2>3, <3>2
    <3>3. CASE MonNotify(MonEvent("write", MonFiles[f], f))
      BY <1>8, <2>1, <2>3, <3>3
    <3> QED BY <2>4, <3>1, <3>2, <3>3
  <2> QED BY <2>1, <2>6, MonUsedForward
<1>10. ASSUME NEW d \in MonDirNames, HostMkdir(d) \/ HostMoveIn(d) PROVE MonIndexUsed'
  <2>1. UNCHANGED <<monAdrift, monWatched, monKernel, monBatch>>
    BY <1>10 DEF HostMkdir, HostMoveIn, MonWorldStep
  <2>2. MonParent[d] \in MonDirNames
    BY <1>10 DEF HostMkdir, HostMoveIn, MonInv, MonTypeOK
  <2>3. \A kind \in {"create", "moved"} : MonEvent(kind, MonParent[d], d) \in MonEvents
    BY <2>2, MonEventFacts
  <2>4. MonNotify(MonEvent("create", MonParent[d], d)) \/ MonNotify(MonEvent("moved", MonParent[d], d))
    BY <1>10 DEF HostMkdir, HostMoveIn
  <2>5. \A e : MonToCome("gone", e) => MonToCome("gone", e)'
    <3>1. CASE MonNotify(MonEvent("create", MonParent[d], d))
      BY <1>8, <2>1, <2>3, <3>1
    <3>2. CASE MonNotify(MonEvent("moved", MonParent[d], d))
      BY <1>8, <2>1, <2>3, <3>2
    <3> QED BY <2>4, <3>1, <3>2
  <2> QED BY <2>1, <2>5, MonUsedForward
<1>11. ASSUME NEW d \in MonDirNames, HostRemove(d) \/ HostMoveOut(d) PROVE MonIndexUsed'
  <2>1. /\ MonNotify(MonEvent("gone", d, d)) /\ UNCHANGED <<monWatched, monBatch>>
        /\ monAdrift \subseteq monAdrift'
    BY <1>11 DEF HostRemove, HostMoveOut, MonWorldStep
  <2>2. monKernel \ monKernel' \subseteq monAdrift' \cup {d}
    BY <1>11 DEF HostRemove, HostMoveOut
  <2>3. PICK v \in MonEvents : v = MonEvent("gone", d, d) /\ v.kind = "gone" /\ v.dir = d /\ v.path = d
    BY MonEventFacts
  <2>4. /\ \A e : MonToCome("gone", e) => MonToCome("gone", e)'
        /\ d \in monKernel => MonToCome("gone", d)'
    BY <1>8, <2>1, <2>3
  <2> QED BY <2>1, <2>2, <2>4, MonUsedForward
<1> QED BY <1>2, <1>3, <1>4, <1>5, <1>6, <1>7, <1>9, <1>10, <1>11 DEF MonNext, MonLoop

\* The invariants imply what the monitor promises.
LEMMA MonInvIsSafe == MonInv /\ MonIndexUsed => MonSafe
<1> SUFFICES ASSUME MonInv, MonIndexUsed PROVE MonSafe
  OBVIOUS
<1>1. \A d \in MonDirNames : MonSwept(d) => MonExpected(d) \/ MonUncovered(d)
  BY DEF MonSwept, MonToCome, MonExpected, MonUncovered
<1>2. MonWritesCovered
  <2> SUFFICES ASSUME NEW f \in MonFileNames
               PROVE  \/ MonFiles[f] \in MonGuarded
                      \/ monFile[f].ver = 0 \/ monFile[f].open \/ monSeen[f] = monFile[f].ver
                      \/ f \in monExcused \/ MonUncovered(MonFiles[f])
                      \/ MonExpected(MonFiles[f])
                      \/ \E e \in MonUnread : e.path = f /\ e.kind = "write"
    BY DEF MonWritesCovered
  <2>1. MonFiles[f] \in MonDirNames
    BY MonAssumption
  <2>2. MonToCome("write", f) => \E e \in MonUnread : e.path = f /\ e.kind = "write"
    BY DEF MonToCome
  <2> QED BY <1>1, <2>1, <2>2 DEF MonInv, MonFilesSeen
<1>3. MonWatchesAccounted
  BY DEF MonInv, MonIndexed, MonInBudget, MonIndexUsed, MonToCome, MonWatchesAccounted
<1> QED BY <1>2, <1>3 DEF MonSafe

\* Every closed file of the webroot has been evaluated as it is, or the event or
\* the sweep that will do it is on its way, and the index keeps within the
\* budget, holds every watch of a directory there is and little else: whatever
\* the tree, the budget and the order of what the host does to directories,
\* guarded ones too, the loop's walk, sweeps and coalescing lose nothing else.
THEOREM MonitorCovers == MonSpec => []MonSafe
<1>1. MonInit => MonInv /\ MonIndexUsed
  BY MonStarts DEF MonInit, MonIndexUsed
<1>2. MonInv /\ MonIndexUsed /\ [MonNext]_monVars => MonInv' /\ MonIndexUsed'
  BY MonKept, MonUsedKept
<1>3. MonInv /\ MonIndexUsed => MonSafe
  BY MonInvIsSafe
<1> QED BY <1>1, <1>2, <1>3, PTL DEF MonSpec

\* The typing of the monitor: its queue, its walk, its times and the record of
\* the guarded directories' check.
THEOREM MonTyping == MonSpec => []MonTypeOK
<1>1. MonInit => MonInv
  BY MonStarts
<1>2. MonInv /\ [MonNext]_monVars => MonInv'
  BY MonKept
<1>3. MonInv => MonTypeOK
  BY DEF MonInv
<1> QED BY <1>1, <1>2, <1>3, PTL DEF MonSpec
================================================================================
