---------------------------- MODULE AgentPresence ----------------------------
(***************************************************************************)
(* How an agent that stops is noticed.                                     *)
(*                                                                         *)
(* On the host: the run loop and its liveness file (internal/agent/        *)
(* client.go, liveness.go), the goroutine that watches for signals         *)
(* (tamper.go), the endings the console orders (uninstall.go,              *)
(* upgrade_exec.go).  On the console: last_seen, moved by every            *)
(* authenticated request, and the silence watchdog (watchdog.go).          *)
(*                                                                         *)
(* Time is the age of last_seen and the age of the last silence report,    *)
(* each counted up to the threshold it is compared with, so that runs of   *)
(* any length have finitely many states.                                   *)
(***************************************************************************)
EXTENDS Naturals, FiniteSets

CONSTANTS
    PreAgents,    \* hosts
    PreSilence,   \* silenceThreshold, in ticks of the clock
    PreRepeat     \* silenceRepeat, in ticks of the clock

ASSUME PreTimesAssumption == PreSilence \in Nat \ {0} /\ PreRepeat \in Nat \ {0}

VARIABLES
    preRow,      \* the agents row: none, active or retired
    preCred,     \* the host holds a credential (the state file)
    preProc,     \* the agent's process: off, up, or stopping (ctx cancelled)
    preFile,     \* liveness.json: none, alive or clean
    preWatch,    \* watchForTermination: on, posting its report, or done
    preTurn,     \* an ending the console ordered: none, upgrade or uninstall
    prePending,  \* findings queued in the process's memory
    preQuiet,    \* age of last_seen, up to PreSilence
    preSeen,     \* age of silenceSeen[a], up to PreRepeat; no entry is PreRepeat
    preList,     \* agents the watchdog's pass still has to look at
    preKilled,   \* the last process was killed while its file said alive and
                 \* nobody knows yet (history)
    preForgot,   \* an instance that had found the trace of a kill ended before
                 \* it could deliver it (history)
    preRevived,  \* the file was marked alive after a clean exit was (history)
    preEnded     \* how the last process ended: never, clean or killed (history)

preVars == <<preRow, preCred, preProc, preFile, preWatch, preTurn, prePending, preQuiet,
             preSeen, preList, preKilled, preForgot, preRevived, preEnded>>
preConsole == <<preRow, preQuiet, preSeen, preList>>
preHistory == <<preKilled, preForgot, preRevived, preEnded>>

PreInit ==
    /\ preRow = [a \in PreAgents |-> "none"]
    /\ preCred = [a \in PreAgents |-> FALSE]
    /\ preProc = [a \in PreAgents |-> "off"]
    /\ preFile = [a \in PreAgents |-> "none"]
    /\ preWatch = [a \in PreAgents |-> "done"]
    /\ preTurn = [a \in PreAgents |-> "none"]
    /\ prePending = [a \in PreAgents |-> {}]
    /\ preQuiet = [a \in PreAgents |-> 0]
    /\ preSeen = [a \in PreAgents |-> PreRepeat]
    /\ preList = {}
    /\ preKilled = [a \in PreAgents |-> FALSE]
    /\ preForgot = [a \in PreAgents |-> FALSE]
    /\ preRevived = [a \in PreAgents |-> FALSE]
    /\ preEnded = [a \in PreAgents |-> "never"]

-----------------------------------------------------------------------------
(* The agent's process *)

\* handleEnroll creates the row; its last_seen is the moment of enrollment.
PreEnroll(a) ==
    /\ preRow[a] = "none"
    /\ preRow' = [preRow EXCEPT ![a] = "active"]
    /\ preCred' = [preCred EXCEPT ![a] = TRUE]
    /\ preQuiet' = [preQuiet EXCEPT ![a] = 0]
    /\ UNCHANGED <<preProc, preFile, preWatch, preTurn, prePending, preSeen, preList>>
    /\ UNCHANGED preHistory

\* UncleanShutdownFinding: the last instance left its file alive.
UncleanShutdownFinding(a) == IF preFile[a] = "alive" THEN {"unclean"} ELSE {}

\* The beginning of Run: report an unclean stop, mark alive, watch signals.
PreBegin(a) ==
    /\ preProc' = [preProc EXCEPT ![a] = "up"]
    /\ prePending' = [prePending EXCEPT ![a] = UncleanShutdownFinding(a)]
    /\ preFile' = [preFile EXCEPT ![a] = "alive"]
    /\ preWatch' = [preWatch EXCEPT ![a] = "on"]
    /\ preTurn' = [preTurn EXCEPT ![a] = "none"]
    /\ preRevived' = [preRevived EXCEPT ![a] = FALSE]

\* connect on a host that holds a credential.
PreStart(a) ==
    /\ preCred[a]
    /\ preProc[a] = "off"
    /\ PreBegin(a)
    /\ UNCHANGED <<preCred, preKilled, preForgot, preEnded>>
    /\ UNCHANGED preConsole

\* An authenticated request moves last_seen.
PreContact(a, ok) ==
    preQuiet' = IF ok /\ preRow[a] = "active" THEN [preQuiet EXCEPT ![a] = 0] ELSE preQuiet

\* The console stored an unclean stop: the kill is known.
PreDelivered(a, found) ==
    preKilled' = IF "unclean" \in found THEN [preKilled EXCEPT ![a] = FALSE] ELSE preKilled

\* A tick of the run loop: MarkAlive, then beat, whose flush and heartbeat
\* each may be lost; a flush that is not stored puts the findings back.  A
\* request whose context is cancelled fails.
PreBeat(a, flushed, beaten) ==
    /\ preProc[a] # "off"
    /\ (flushed \/ beaten) => (preProc[a] = "up" \/ preTurn[a] # "none")
    /\ preFile' = [preFile EXCEPT ![a] = "alive"]
    /\ preRevived' = [preRevived EXCEPT ![a] = preTurn[a] # "none"]
    /\ LET ok == flushed /\ preRow[a] = "active"
       IN  /\ PreContact(a, beaten \/ (flushed /\ prePending[a] # {}))
           /\ PreDelivered(a, IF ok THEN prePending[a] ELSE {})
           /\ prePending' = IF ok THEN [prePending EXCEPT ![a] = {}] ELSE prePending
    /\ UNCHANGED <<preRow, preCred, preProc, preWatch, preTurn, preSeen, preList, preForgot,
                   preEnded>>

\* SIGTERM or SIGINT: main's context is cancelled and, if it still watches,
\* watchForTermination starts to report.
PreTerminate(a) ==
    /\ preProc[a] = "up"
    /\ preProc' = [preProc EXCEPT ![a] = "stopping"]
    /\ preWatch' = [preWatch EXCEPT ![a] = IF @ = "on" THEN "posting" ELSE @]
    /\ UNCHANGED <<preCred, preFile, preTurn, prePending>>
    /\ UNCHANGED preConsole /\ UNCHANGED preHistory

\* SIGHUP or SIGQUIT: only watchForTermination handles them, once.
PreHangup(a) ==
    /\ preProc[a] = "up"
    /\ preWatch[a] = "on"
    /\ preWatch' = [preWatch EXCEPT ![a] = "posting"]
    /\ UNCHANGED <<preCred, preProc, preFile, preTurn, prePending>>
    /\ UNCHANGED preConsole /\ UNCHANGED preHistory

\* watchForTermination posts its report, or queues it when that fails.
WatchForTermination(a, ok) ==
    /\ preProc[a] # "off"
    /\ preWatch[a] = "posting"
    /\ preWatch' = [preWatch EXCEPT ![a] = "done"]
    /\ prePending' = IF ok /\ preRow[a] = "active" THEN prePending
                     ELSE [prePending EXCEPT ![a] = @ \cup {"terminated"}]
    /\ PreContact(a, ok)
    /\ UNCHANGED <<preRow, preCred, preProc, preFile, preTurn, preSeen, preList>>
    /\ UNCHANGED preHistory

\* The process ends, with or without a trace of an earlier kill undelivered.
PreEnd(a, how) ==
    /\ preProc' = [preProc EXCEPT ![a] = "off"]
    /\ preWatch' = [preWatch EXCEPT ![a] = "done"]
    /\ preTurn' = [preTurn EXCEPT ![a] = "none"]
    /\ prePending' = [prePending EXCEPT ![a] = {}]
    /\ preEnded' = [preEnded EXCEPT ![a] = how]

\* Run returns and its deferred MarkCleanExit runs; main does not wait for
\* watchForTermination.
PreStop(a) ==
    /\ preProc[a] = "stopping"
    /\ preFile' = [preFile EXCEPT ![a] = "clean"]
    /\ preForgot' = [preForgot EXCEPT ![a] = @ \/ "unclean" \in prePending[a]]
    /\ preRevived' = [preRevived EXCEPT ![a] = FALSE]
    /\ PreEnd(a, "clean")
    /\ UNCHANGED <<preCred, preKilled>>
    /\ UNCHANGED preConsole

\* SIGKILL, a crash, a power cut, or a SIGHUP after the first one.
PreKill(a) ==
    /\ preProc[a] # "off"
    /\ preKilled' = [preKilled EXCEPT ![a] = @ \/ preFile[a] = "alive"]
    /\ preForgot' = [preForgot EXCEPT ![a] = @ \/ ("unclean" \in prePending[a]
                                                   /\ preFile[a] # "alive")]
    /\ PreEnd(a, "killed")
    /\ UNCHANGED <<preCred, preFile, preRevived>>
    /\ UNCHANGED preConsole

\* A mutant of PreUpgrade: the clean exit is not marked.
PreUpgradeUnmarked(a) ==
    /\ preProc[a] = "up"
    /\ preTurn[a] = "none"
    /\ preTurn' = [preTurn EXCEPT ![a] = "upgrade"]
    /\ UNCHANGED <<preCred, preProc, preFile, preWatch, prePending>>
    /\ UNCHANGED preConsole /\ UNCHANGED preHistory

\* upgrade marks a clean exit once it has reported; the run loop goes on.
PreUpgrade(a) ==
    /\ preProc[a] = "up"
    /\ preTurn[a] = "none"
    /\ preTurn' = [preTurn EXCEPT ![a] = "upgrade"]
    /\ preFile' = [preFile EXCEPT ![a] = "clean"]
    /\ UNCHANGED <<preCred, preProc, preWatch, prePending>>
    /\ UNCHANGED preConsole /\ UNCHANGED preHistory

\* reexec: the same process runs the new binary from the beginning.
PreReexec(a) ==
    /\ preProc[a] # "off"
    /\ preTurn[a] = "upgrade"
    /\ preForgot' = [preForgot EXCEPT ![a] = @ \/ ("unclean" \in prePending[a]
                                                   /\ preFile[a] # "alive")]
    /\ preEnded' = [preEnded EXCEPT ![a] = "clean"]
    /\ PreBegin(a)
    /\ UNCHANGED <<preCred, preKilled>>
    /\ UNCHANGED preConsole

\* uninstall marks a clean exit, removes the state and reports; when the
\* report arrives the console retires the agent.
PreUninstall(a, ok) ==
    /\ preProc[a] = "up"
    /\ preTurn[a] = "none"
    /\ preTurn' = [preTurn EXCEPT ![a] = "uninstall"]
    /\ preFile' = [preFile EXCEPT ![a] = "none"]
    /\ preCred' = [preCred EXCEPT ![a] = FALSE]
    /\ preRow' = IF ok THEN [preRow EXCEPT ![a] = "retired"] ELSE preRow
    /\ UNCHANGED <<preProc, preWatch, prePending, preQuiet, preSeen, preList>>
    /\ UNCHANGED preHistory

\* requestShutdown, after an uninstall or an exec that failed.
PreShutdown(a) ==
    /\ preProc[a] = "up"
    /\ preTurn[a] # "none"
    /\ preProc' = [preProc EXCEPT ![a] = "stopping"]
    /\ UNCHANGED <<preCred, preFile, preWatch, preTurn, prePending>>
    /\ UNCHANGED preConsole /\ UNCHANGED preHistory

-----------------------------------------------------------------------------
(* The console *)

preHost == <<preCred, preProc, preFile, preWatch, preTurn, prePending>>

PreRetire(a) ==
    /\ preRow[a] = "active"
    /\ preRow' = [preRow EXCEPT ![a] = "retired"]
    /\ UNCHANGED <<preQuiet, preSeen, preList>>
    /\ UNCHANGED preHost /\ UNCHANGED preHistory

\* checkForSilentAgents reads the fleet: the agents not retired that have been
\* quiet for the threshold.  last_seen is never zero, so none is skipped for it.
PreCheck ==
    /\ preList = {}
    /\ preList' = {a \in PreAgents : preRow[a] = "active" /\ preQuiet[a] = PreSilence}
    /\ preList' # {}
    /\ UNCHANGED <<preRow, preQuiet, preSeen>>
    /\ UNCHANGED preHost /\ UNCHANGED preHistory

\* shouldReportSilence lets a host through once per PreRepeat.
ShouldReportSilence(a) == preSeen[a] = PreRepeat

\* One agent of the list is reported; the time is noted before the finding is
\* stored, which may fail.
PreReport(a, stored) ==
    /\ a \in preList
    /\ ShouldReportSilence(a)
    /\ preList' = preList \ {a}
    /\ preSeen' = [preSeen EXCEPT ![a] = 0]
    /\ preKilled' = IF stored THEN [preKilled EXCEPT ![a] = FALSE] ELSE preKilled
    /\ UNCHANGED <<preRow, preQuiet, preForgot, preRevived, preEnded>>
    /\ UNCHANGED preHost

\* One agent of the list was reported recently.
PreSkip(a) ==
    /\ a \in preList
    /\ ~ShouldReportSilence(a)
    /\ preList' = preList \ {a}
    /\ UNCHANGED <<preRow, preQuiet, preSeen>>
    /\ UNCHANGED preHost /\ UNCHANGED preHistory

\* The console restarts: silenceSeen is only in memory.
PreConsoleRestart ==
    /\ preSeen' = [a \in PreAgents |-> PreRepeat]
    /\ preList' = {}
    /\ UNCHANGED <<preRow, preQuiet>>
    /\ UNCHANGED preHost /\ UNCHANGED preHistory

PreTime ==
    /\ preQuiet' = [a \in PreAgents |-> IF preQuiet[a] < PreSilence THEN preQuiet[a] + 1
                                        ELSE PreSilence]
    /\ preSeen' = [a \in PreAgents |-> IF preSeen[a] < PreRepeat THEN preSeen[a] + 1
                                       ELSE PreRepeat]
    /\ UNCHANGED <<preRow, preList>>
    /\ UNCHANGED preHost /\ UNCHANGED preHistory

PreNext ==
    \/ \E a \in PreAgents :
          \/ PreEnroll(a) \/ PreStart(a) \/ PreTerminate(a) \/ PreHangup(a)
          \/ PreStop(a) \/ PreKill(a) \/ PreUpgrade(a) \/ PreReexec(a)
          \/ PreShutdown(a) \/ PreRetire(a) \/ PreSkip(a)
          \/ \E ok \in BOOLEAN : \/ WatchForTermination(a, ok) \/ PreUninstall(a, ok)
                                 \/ PreReport(a, ok)
          \/ \E f, b \in BOOLEAN : PreBeat(a, f, b)
    \/ PreCheck \/ PreConsoleRestart \/ PreTime

\* Time passes, the watchdog's loop runs, and neither every report nor every
\* flush of a host that keeps running fails.
PreFairness ==
    /\ WF_preVars(PreTime)
    /\ WF_preVars(PreCheck)
    /\ \A a \in PreAgents :
          /\ WF_preVars(PreSkip(a))
          /\ SF_preVars(PreReport(a, TRUE))
          /\ SF_preVars(PreBeat(a, TRUE, TRUE))

PreSpec == PreInit /\ [][PreNext]_preVars /\ PreFairness

-----------------------------------------------------------------------------
(* Properties *)

PreTypeOK ==
    /\ preCred \in [PreAgents -> BOOLEAN]
    /\ preRow \in [PreAgents -> {"none", "active", "retired"}]
    /\ preProc \in [PreAgents -> {"off", "up", "stopping"}]
    /\ preFile \in [PreAgents -> {"none", "alive", "clean"}]
    /\ preWatch \in [PreAgents -> {"on", "posting", "done"}]
    /\ preTurn \in [PreAgents -> {"none", "upgrade", "uninstall"}]
    /\ prePending \in [PreAgents -> SUBSET {"unclean", "terminated"}]
    /\ preQuiet \in [PreAgents -> 0..PreSilence]
    /\ preSeen \in [PreAgents -> 0..PreRepeat]
    /\ preList \subseteq PreAgents
    /\ preKilled \in [PreAgents -> BOOLEAN]
    /\ preForgot \in [PreAgents -> BOOLEAN]
    /\ preRevived \in [PreAgents -> BOOLEAN]
    /\ preEnded \in [PreAgents -> {"never", "clean", "killed"}]

\* An agent says it was stopped without a clean exit only if it was: an
\* upgrade, an uninstall or a service stop raises no alarm, unless the run
\* loop marked the file alive again after the ending marked it clean.
PreUncleanTruth ==
    [][\A a \in PreAgents :
          (preProc'[a] = "up" /\ "unclean" \in prePending'[a] \ prePending[a])
              => preEnded[a] = "killed" \/ preRevived[a]]_preVars

\* A kill is found out: the next instance tells the console, or the watchdog
\* reports the silence, unless the agent is retired, or the instance that
\* found the trace ended in an orderly way before it could deliver it.
PreKillNoticed ==
    \A a \in PreAgents :
        preKilled[a] ~> (~preKilled[a] \/ preRow[a] = "retired" \/ preForgot[a])

=============================================================================
