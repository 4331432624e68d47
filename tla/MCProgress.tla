------------------------------ MODULE MCProgress ------------------------------
(***************************************************************************)
(* Small instances of the components that also promise to get somewhere,   *)
(* in one run: "subject" is chosen initially, and from then on that        *)
(* component alone takes steps, with the fairness its own specification    *)
(* assumes.  They share no state, so each has the states and the fair      *)
(* behaviours of its own specification, no more and no less.               *)
(***************************************************************************)
EXTENDS ProgressTypes, TLC

VARIABLE subject   \* the component that runs

sumVars == <<subject, fwdVars, schVars, preVars, contVars, monVars, ctlVars, scanVars>>

\* Two schedules, of a fleet of two and of one host, in a two-unit day.
MCSchScope == "s1" :> {"a1", "a2"} @@ "s2" :> {"a1"}
MCSchJitter == "s1" :> 2 @@ "s2" :> 0
MCSchHash == "a1" :> 4 @@ "a2" :> 3

\* Two files and a process that are confirmed, a file that is not, a process
\* on the protected list, and a launcher; the last file is over the limit of
\* actions.
MCFinding(kind, conf, path, pid) ==
    [kind |-> kind, conf |-> conf, actionable |-> TRUE, path |-> path, pid |-> pid]
MCContFindings ==
    <<MCFinding("file", "confirmed", "v", 0), MCFinding("process", "confirmed", "x", 1),
      MCFinding("file", "confirmed", "f", 0), MCFinding("file", "likely", "h", 0),
      MCFinding("process", "confirmed", "x", 3), MCFinding("launcher", "likely", "cron", 0)>>

\* A webroot and a guarded tree, with directories in them that come and go.
MCMonRoots == <<"root", "os">>
MCMonParent ==
    "root" :> "none" @@ "new" :> "root" @@ "sub" :> "new" @@ "os" :> "none" @@ "osnew" :> "os"
MCMonFiles == "f" :> "root" @@ "g" :> "new" @@ "h" :> "sub" @@ "k" :> "osnew"

\* Two entries of the inventory that name one account.
MCCtlAccount == "e1" :> "a" @@ "e2" :> "b" @@ "e3" :> "b"
MCCtlSites == "e1" :> <<"clean", "dirty">> @@ "e2" :> <<"clean">> @@ "e3" :> <<"partial">>

\* A directory that is skipped, and a file for each way to be examined.
MCScanTree == <<"c", "r", "p", "y">>
MCScanHolds == "c" :> "skip" @@ "r" :> "rules" @@ "p" :> "published" @@ "y" :> "yara"

-----------------------------------------------------------------------------
Subjects ==
    {"forwarder", "scheduler", "presence", "containment", "monitor", "controller", "scan"}

Init ==
    /\ subject \in Subjects
    /\ FwdInit /\ SchInit /\ PreInit /\ ContInit /\ MonInit /\ CtlInit /\ ScanInit
    /\ (subject # "containment" => ~contDry)
    /\ (subject # "controller" => ~ctlKeep /\ \A a \in CtlAccounts : ctlAgent[a] = "none")

Next ==
    /\ UNCHANGED subject
    /\ \/ /\ subject = "forwarder" /\ FwdNext
          /\ UNCHANGED <<schVars, preVars, contVars, monVars, ctlVars, scanVars>>
       \/ /\ subject = "scheduler" /\ SchNext
          /\ UNCHANGED <<fwdVars, preVars, contVars, monVars, ctlVars, scanVars>>
       \/ /\ subject = "presence" /\ PreNext
          /\ UNCHANGED <<fwdVars, schVars, contVars, monVars, ctlVars, scanVars>>
       \/ /\ subject = "containment" /\ ContNext
          /\ UNCHANGED <<fwdVars, schVars, preVars, monVars, ctlVars, scanVars>>
       \/ /\ subject = "monitor" /\ MonNext
          /\ UNCHANGED <<fwdVars, schVars, preVars, contVars, ctlVars, scanVars>>
       \/ /\ subject = "controller" /\ CtlNext
          /\ UNCHANGED <<fwdVars, schVars, preVars, contVars, monVars, scanVars>>
       \/ /\ subject = "scan" /\ ScanNext
          /\ UNCHANGED <<fwdVars, schVars, preVars, contVars, monVars, ctlVars>>

\* The fairness of the component that runs, as its own specification has it.
ForwarderFairness ==
    /\ \A p \in FwdProducers : WF_fwdVars(subject = "forwarder" /\ FwdInEnqueue(p))
    /\ WF_fwdVars(subject = "forwarder" /\ fwdDone # "open" /\ FwdRun)
    /\ WF_fwdVars(subject = "forwarder" /\ FwdStop)
    /\ WF_fwdVars(subject = "forwarder" /\ FwdClosed)

SchedulerFairness ==
    /\ WF_schVars(subject = "scheduler" /\ SchPassStep)
    /\ WF_schVars(subject = "scheduler" /\ SchRestart)

PresenceFairness ==
    /\ WF_preVars(subject = "presence" /\ PreTime)
    /\ WF_preVars(subject = "presence" /\ PreCheck)
    /\ \A a \in PreAgents :
          /\ WF_preVars(subject = "presence" /\ PreSkip(a))
          /\ SF_preVars(subject = "presence" /\ PreReport(a, TRUE))
          /\ SF_preVars(subject = "presence" /\ PreBeat(a, TRUE, TRUE))

HostFairness ==
    /\ WF_contVars(subject = "containment" /\ ContAgent)
    /\ WF_monVars(subject = "monitor" /\ MonLoop)
    /\ WF_monVars(subject = "monitor" /\ MonTick)
    /\ WF_monVars(subject = "monitor" /\ \E f \in MonFileNames : HostClose(f))
    /\ \A e \in CtlEntries : WF_ctlVars(subject = "controller" /\ CtlHost(e))
    /\ WF_scanVars(subject = "scan" /\ ScanMain)
    /\ \A w \in ScanWorkers : WF_scanVars(subject = "scan" /\ ScanWork(w))

Spec ==
    /\ Init /\ [][Next]_sumVars
    /\ ForwarderFairness /\ SchedulerFairness /\ PresenceFairness /\ HostFairness

-----------------------------------------------------------------------------
(* Properties of several components *)

\* What the console does for others comes to its end: a slow or dead collector
\* holds up neither enqueue nor Close (forward.go), a schedule that is due
\* fires (scheduler.go), and a killed agent is found out (watchdog.go).
ConsoleGetsThere == FwdEnqueueReturns /\ FwdCloseReturns /\ SchDueFires /\ PreKillNoticed

\* What is started on a host comes to its end, whatever happens meanwhile:
\* containment (contain.go), the deferred check of a guarded directory
\* (monitor_os_linux.go), a sweep over hosts that may hang (run.go) and a scan (agent.go).
HostWorkEnds ==
    /\ subject = "containment" => ContEnds
    /\ subject = "controller" => CtlReturns
    /\ subject = "scan" => ScanEnds
    /\ MonDeferredRuns
=============================================================================
