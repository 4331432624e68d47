------------------------------ MODULE Controller ------------------------------
(***************************************************************************)
(* The one-shot sweep of an estate over ssh (internal/controller/run.go)   *)
(* and its summary (aggregate.go): a bounded number of hosts at a time,    *)
(* each probed, given the agent and the rule packs, run and tidied up.     *)
(* Any ssh or scp may fail, run into the host's timeout or be cut off by   *)
(* cancelling the sweep; what a killed scp had written stays.  Entries of  *)
(* the inventory may name the same account.                                *)
(***************************************************************************)
EXTENDS Naturals, Sequences, FiniteSets, SequencesExt

CONSTANTS
    CtlEntries,      \* entries of the inventory
    CtlAccount,      \* entry -> the account it logs in to
    CtlSites,        \* entry -> verdicts its sites would report, in order
    CtlConcurrency,  \* hosts at a time
    CtlSweeps        \* bound on sweeps of the same inventory

ASSUME CtlAssumption ==
    CtlConcurrency \in Nat \ {0} /\ CtlSweeps \in Nat \ {0}
    /\ \A e \in CtlEntries : CtlSites[e] \in Seq({"clean", "partial", "dirty"}) \ {<<>>}

VARIABLES
    ctlAt,         \* entry -> where its goroutine is
    ctlReports,    \* entry -> reports that came back
    ctlErr,        \* entry -> the result carries an error
    ctlRunning,    \* entry -> the binary that was started
    ctlAgent,      \* account -> the installed agent
    ctlNew,        \* account -> the uploaded agent, before the rename
    ctlKeep,       \* KeepAgent
    ctlCancelled,  \* the sweep's context has ended
    ctlSweep       \* sweeps so far

ctlVars == <<ctlAt, ctlReports, ctlErr, ctlRunning, ctlAgent, ctlNew, ctlKeep, ctlCancelled,
             ctlSweep>>

CtlAccounts == {CtlAccount[e] : e \in CtlEntries}
CtlActive == {"probe", "upload", "uploading", "install", "packs", "start", "run", "tidy"}

CtlInit ==
    /\ ctlAt = [e \in CtlEntries |-> "queued"]
    /\ ctlReports = [e \in CtlEntries |-> <<>>]
    /\ ctlErr = [e \in CtlEntries |-> FALSE]
    /\ ctlRunning = [e \in CtlEntries |-> "none"]
    /\ ctlAgent \in [CtlAccounts -> {"none", "old"}]
    /\ ctlNew = [a \in CtlAccounts |-> "none"]
    /\ ctlKeep \in BOOLEAN
    /\ ctlCancelled = FALSE
    /\ ctlSweep = 1

CtlGoes(e, at) == ctlAt' = [ctlAt EXCEPT ![e] = at]
CtlRemote == <<ctlAgent, ctlNew>>
CtlStays == UNCHANGED <<ctlKeep, ctlCancelled, ctlSweep>>

\* The goroutine gets a slot, or finds the sweep cancelled: select takes
\* either when both are possible.
CtlStart(e) ==
    /\ ctlAt[e] = "queued"
    /\ \/ /\ Cardinality({o \in CtlEntries : ctlAt[o] \in CtlActive}) < CtlConcurrency
          /\ CtlGoes(e, "probe")
          /\ UNCHANGED ctlErr
       \/ /\ ctlCancelled
          /\ CtlGoes(e, "done")
          /\ ctlErr' = [ctlErr EXCEPT ![e] = TRUE]
    /\ CtlStays
    /\ UNCHANGED <<ctlReports, ctlRunning, CtlRemote>>

\* The step in hand fails and the host's result is an error.
CtlFails(e, at) ==
    /\ ctlAt[e] = at
    /\ CtlGoes(e, "done")
    /\ ctlErr' = [ctlErr EXCEPT ![e] = TRUE]
    /\ CtlStays
    /\ UNCHANGED <<ctlReports, ctlRunning>>

CtlSucceeds(e, at, next) ==
    /\ ctlAt[e] = at
    /\ ~ctlCancelled
    /\ CtlGoes(e, next)
    /\ CtlStays
    /\ UNCHANGED <<ctlReports, ctlErr>>

\* The digest of what is installed decides whether the agent is uploaded.
CtlProbe(e) ==
    \/ /\ CtlSucceeds(e, "probe", IF ctlAgent[CtlAccount[e]] = "whole" THEN "packs" ELSE "upload")
       /\ UNCHANGED <<ctlRunning, CtlRemote>>
    \/ CtlFails(e, "probe") /\ UNCHANGED CtlRemote

\* scp truncates the target and fills it; it is whole when scp returns.
CtlUpload(e) ==
    LET a == CtlAccount[e]
    IN  \/ /\ CtlSucceeds(e, "upload", "uploading")
           /\ ctlNew' = [ctlNew EXCEPT ![a] = "part"]
           /\ UNCHANGED <<ctlRunning, ctlAgent>>
        \/ CtlFails(e, "upload") /\ UNCHANGED CtlRemote

\* What was renamed meanwhile is completed where it is.
CtlUploaded(e) ==
    LET a == CtlAccount[e]
    IN  \/ /\ CtlSucceeds(e, "uploading", "install")
           /\ ctlNew' = [ctlNew EXCEPT ![a] = IF @ = "part" THEN "whole" ELSE @]
           /\ ctlAgent' = [ctlAgent EXCEPT ![a] = IF @ = "part" THEN "whole" ELSE @]
           /\ UNCHANGED ctlRunning
        \/ CtlFails(e, "uploading") /\ UNCHANGED CtlRemote

\* mv; a cut-off ssh may have done it or not.
CtlInstall(e) ==
    LET a == CtlAccount[e]
        moved == ctlAgent' = [ctlAgent EXCEPT ![a] = ctlNew[a]] /\ ctlNew' = [ctlNew EXCEPT ![a] = "none"]
    IN  \/ /\ CtlSucceeds(e, "install", "packs")
           /\ ctlNew[a] # "none"
           /\ moved
           /\ UNCHANGED ctlRunning
        \/ /\ CtlFails(e, "install")
           /\ \/ ctlNew[a] # "none" /\ moved
              \/ UNCHANGED CtlRemote

CtlShipPacks(e) ==
    \/ CtlSucceeds(e, "packs", "start") /\ UNCHANGED <<ctlRunning, CtlRemote>>
    \/ CtlFails(e, "packs") /\ UNCHANGED CtlRemote

\* The agent is started, if it is there.
CtlStartAgent(e) ==
    LET a == CtlAccount[e]
    IN  \/ /\ CtlSucceeds(e, "start", "run")
           /\ ctlAgent[a] # "none"
           /\ ctlRunning' = [ctlRunning EXCEPT ![e] = ctlAgent[a]]
           /\ UNCHANGED CtlRemote
        \/ CtlFails(e, "start") /\ UNCHANGED CtlRemote

\* One report a site, on standard output.  A line that does not parse, because
\* it was cut off, is passed over (parseReports): it is as one that did not come.
CtlReport(e) ==
    /\ ctlAt[e] = "run"
    /\ Len(ctlReports[e]) < Len(CtlSites[e])
    /\ ~ctlCancelled
    /\ ctlReports' = [ctlReports EXCEPT ![e] = Append(@, CtlSites[e][Len(@) + 1])]
    /\ UNCHANGED <<ctlAt, ctlErr, ctlRunning, CtlRemote, ctlKeep, ctlCancelled, ctlSweep>>

\* A mutant of CtlRunEnds: a run without a report is no error.
CtlRunEndsWell(e) ==
    /\ ctlAt[e] = "run"
    /\ CtlGoes(e, IF ctlKeep THEN "done" ELSE "tidy")
    /\ CtlStays
    /\ UNCHANGED <<ctlReports, ctlErr, ctlRunning, CtlRemote>>

\* The run ends, by itself or cut off: reports that were read count, whatever
\* ssh returned; without one it is an error.
CtlRunEnds(e) ==
    /\ ctlAt[e] = "run"
    /\ IF ctlReports[e] # <<>>
          THEN CtlGoes(e, IF ctlKeep THEN "done" ELSE "tidy") /\ UNCHANGED ctlErr
          ELSE CtlGoes(e, "done") /\ ctlErr' = [ctlErr EXCEPT ![e] = TRUE]
    /\ CtlStays
    /\ UNCHANGED <<ctlReports, ctlRunning, CtlRemote>>

\* rm of the binary; whether it worked is not looked at.
CtlTidy(e) ==
    /\ ctlAt[e] = "tidy"
    /\ CtlGoes(e, "done")
    /\ \/ ctlAgent' = [ctlAgent EXCEPT ![CtlAccount[e]] = "none"]
       \/ UNCHANGED ctlAgent
    /\ CtlStays
    /\ UNCHANGED <<ctlReports, ctlErr, ctlRunning, ctlNew>>

CtlCancel ==
    /\ ~ctlCancelled
    /\ ctlCancelled' = TRUE
    /\ UNCHANGED <<ctlAt, ctlReports, ctlErr, ctlRunning, CtlRemote, ctlKeep, ctlSweep>>

\* wg.Wait: every goroutine is done; the operator may sweep again.
CtlReturned == \A e \in CtlEntries : ctlAt[e] = "done"

CtlSweepAgain ==
    /\ CtlReturned
    /\ ctlSweep < CtlSweeps
    /\ ctlSweep' = ctlSweep + 1
    /\ ctlAt' = [e \in CtlEntries |-> "queued"]
    /\ ctlReports' = [e \in CtlEntries |-> <<>>]
    /\ ctlErr' = [e \in CtlEntries |-> FALSE]
    /\ ctlRunning' = [e \in CtlEntries |-> "none"]
    /\ ctlCancelled' = FALSE
    /\ UNCHANGED <<CtlRemote, ctlKeep>>

CtlHost(e) ==
    \/ CtlStart(e) \/ CtlProbe(e) \/ CtlUpload(e) \/ CtlUploaded(e) \/ CtlInstall(e)
    \/ CtlShipPacks(e) \/ CtlStartAgent(e) \/ CtlReport(e) \/ CtlRunEnds(e) \/ CtlTidy(e)

CtlNext == (\E e \in CtlEntries : CtlHost(e)) \/ CtlCancel \/ CtlSweepAgain

\* Every goroutine goes on: each ssh ends, at the latest by its timeout.
CtlFairness == \A e \in CtlEntries : WF_ctlVars(CtlHost(e))

CtlSpec == CtlInit /\ [][CtlNext]_ctlVars /\ CtlFairness

-----------------------------------------------------------------------------
(* The summary *)

\* worstVerdict: dirty at once, partial over clean.
CtlWorst(reports) ==
    IF "dirty" \in Range(reports) THEN "dirty"
    ELSE IF "partial" \in Range(reports) THEN "partial" ELSE "clean"

CtlCounted(verdict) == {e \in CtlEntries : ~ctlErr[e] /\ CtlWorst(ctlReports[e]) = verdict}
CtlFailed == {e \in CtlEntries : ctlErr[e]}

-----------------------------------------------------------------------------
(* Properties *)

CtlTypeOK ==
    /\ ctlAt \in [CtlEntries -> {"queued", "done"} \cup CtlActive]
    /\ ctlErr \in [CtlEntries -> BOOLEAN]
    /\ \A e \in CtlEntries : IsPrefix(ctlReports[e], CtlSites[e])
    /\ ctlRunning \in [CtlEntries -> {"none", "old", "part", "whole"}]
    /\ ctlAgent \in [CtlAccounts -> {"none", "old", "part", "whole"}]
    /\ ctlNew \in [CtlAccounts -> {"none", "part", "whole"}]
    /\ ctlSweep \in 1..CtlSweeps

CtlAlone(e) == \A o \in CtlEntries : CtlAccount[o] = CtlAccount[e] => o = e

\* "A concurrent run never sees a partial binary": an entry that has its
\* account to itself starts the whole agent of this sweep or none, whatever
\* earlier sweeps left when they were cut off.
CtlWholeAgent == \A e \in CtlEntries : CtlAlone(e) => ctlRunning[e] \in {"none", "whole"}

\* "Unreachable and therefore UNKNOWN, not clean": when the sweep returns,
\* every host is in exactly one column; one no report came from is in the
\* failed one, and one that reported a finding is never counted below it.
CtlUnknownNotClean ==
    CtlReturned =>
        /\ \A e \in CtlEntries : ctlReports[e] = <<>> <=> e \in CtlFailed
        /\ \A e \in CtlCounted("clean") : Range(ctlReports[e]) = {"clean"}
        /\ \A e \in CtlCounted("partial") : "dirty" \notin Range(ctlReports[e])

\* "One slow or unreachable host delays only itself": the sweep returns,
\* cancelled or not.
CtlReturns == (ctlSweep = 1) ~> CtlReturned

\* A sweep runs whole agents and never takes what it does not know for clean.
CtlSafe == CtlWholeAgent /\ CtlUnknownNotClean
=============================================================================
