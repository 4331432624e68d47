------------------------------- MODULE Upgrade --------------------------------
(***************************************************************************)
(* The agent replaces its own binary (internal/agent/upgrade.go, the tail  *)
(* of upgrade in upgrade_exec.go).  A command runs in a goroutine of its   *)
(* own, so two upgrades may be under way in one process, over the same     *)
(* three paths: the binary, the staged copy beside it and the previous     *)
(* one.  The process may die anywhere; a supervisor starts what is then at *)
(* the binary's path.                                                      *)
(***************************************************************************)
EXTENDS Integers, Sequences, FiniteSets

CONSTANTS
    UpgRuns,        \* upgrade commands executed by one process
    UpgReleases,    \* what the console may serve: [version, signed, runs]
    UpgInstalled,   \* the release installed at first
    UpgOutgoing,    \* the one it replaced
    UpgMaxFaults,   \* bound on failing system calls
    UpgMaxCrashes   \* bound on crashes


VARIABLES
    upgRun,       \* goroutine -> where SelfUpgrade is and the release it got
    upgSelf,      \* content of the binary's path
    upgNew,       \* content of the staged copy
    upgOld,       \* content of the previous binary
    upgRunning,   \* release of the running process, UpgNoRelease when down
    upgFaults,    \* system calls that failed so far
    upgCrashes,   \* crashes so far
    upgOverlap,   \* two upgrades were under way at once (history)
    upgBefore     \* goroutine -> the binary when it began to install (history)

upgVars == <<upgRun, upgSelf, upgNew, upgOld, upgRunning, upgFaults, upgCrashes, upgOverlap,
             upgBefore>>

\* A file's content: a release that is whole, that a goroutine is still
\* writing, or that no one will complete.
UpgNoRelease == [version |-> <<>>, signed |-> FALSE, runs |-> FALSE]
UpgNone == [release |-> UpgNoRelease, state |-> "absent"]
UpgWhole(r) == [release |-> r, state |-> "whole"]

UpgIdle == [at |-> "idle", got |-> UpgNoRelease]

UpgKnown == UpgReleases \cup {UpgInstalled, UpgOutgoing}

\* A goroutine is none of the other states of a file; a release has a version,
\* though perhaps none that parses.
ASSUME UpgAssumption ==
    /\ UpgMaxFaults \in Nat /\ UpgMaxCrashes \in Nat
    /\ UpgRuns \cap {"absent", "whole", "broken"} = {}
    /\ UpgKnown \subseteq [version : Seq(Int) \ {<<>>}, signed : BOOLEAN, runs : BOOLEAN]

-----------------------------------------------------------------------------
(* Versions: the components between the dots, -1 for one that is empty,    *)
(* longer than six digits or not a number.                                 *)

UpgParses(v) == Len(v) \in 1..3 /\ \A i \in DOMAIN v : v[i] >= 0

\* parseVersion: missing components are zero.
UpgPadded(v) == [i \in 1..3 |-> IF i <= Len(v) THEN v[i] ELSE 0]

\* A mutant of UpgNewer: any component that is larger will do.
UpgNewerAnywhere(candidate, current) ==
    /\ UpgParses(candidate)
    /\ UpgParses(current)
    /\ \E i \in 1..3 : UpgPadded(candidate)[i] > UpgPadded(current)[i]

\* isNewerVersion
UpgNewer(candidate, current) ==
    /\ UpgParses(candidate)
    /\ UpgParses(current)
    /\ LET c == UpgPadded(candidate)
           r == UpgPadded(current)
       IN  \E i \in 1..3 : c[i] > r[i] /\ \A j \in 1..(i - 1) : c[j] = r[j]

-----------------------------------------------------------------------------
UpgInit ==
    /\ upgRun = [g \in UpgRuns |-> UpgIdle]
    /\ upgSelf = UpgWhole(UpgInstalled)
    /\ upgNew = UpgNone
    /\ upgOld = UpgWhole(UpgOutgoing)
    /\ upgRunning = UpgInstalled
    /\ upgFaults = 0
    /\ upgCrashes = 0
    /\ upgOverlap = FALSE
    /\ upgBefore = [g \in UpgRuns |-> UpgNone]

UpgFiles == <<upgSelf, upgNew, upgOld>>
UpgGoes(g, at) == upgRun' = [upgRun EXCEPT ![g].at = at]
UpgUp == upgRunning # UpgNoRelease

\* A system call fails; the code looks at the error or it does not.
UpgFault == upgFaults < UpgMaxFaults /\ upgFaults' = upgFaults + 1

\* SelfUpgrade is called; fetchRelease brings what the console serves, with a
\* signature, or fails.
FetchRelease(g) ==
    /\ UpgUp
    /\ upgRun[g].at = "idle"
    /\ \E r \in UpgReleases : upgRun' = [upgRun EXCEPT ![g] = [at |-> "fetched", got |-> r]]
    /\ upgOverlap' = (upgOverlap \/ \E h \in UpgRuns : upgRun[h].at # "idle")
    /\ UNCHANGED <<UpgFiles, upgRunning, upgFaults, upgCrashes, upgBefore>>

\* sign.Verify over the bytes received, then WriteFile truncates the staged
\* copy; who else is writing there, or had it staged, loses.
StageRelease(g) ==
    /\ upgRun[g].at = "fetched"
    /\ IF upgRun[g].got.signed
          THEN /\ upgNew' = [release |-> upgRun[g].got,
                             state |-> IF upgNew.state \in UpgRuns THEN "broken" ELSE g]
               /\ UpgGoes(g, "writing")
          ELSE /\ UpgGoes(g, "refused")
               /\ UNCHANGED upgNew
    /\ UNCHANGED <<upgSelf, upgOld, upgRunning, upgFaults, upgCrashes, upgOverlap, upgBefore>>

\* The write ends, wherever the file has been moved to meanwhile.
UpgWritten(content, g) == IF content.state = g THEN [content EXCEPT !.state = "whole"] ELSE content

StageWritten(g) ==
    /\ upgRun[g].at = "writing"
    /\ \/ /\ upgNew' = UpgWritten(upgNew, g)
          /\ upgSelf' = UpgWritten(upgSelf, g)
          /\ upgOld' = UpgWritten(upgOld, g)
          /\ UpgGoes(g, "staged")
          /\ UNCHANGED upgFaults
       \/ /\ UpgFault
          /\ UpgGoes(g, "cleanup")
          /\ UNCHANGED UpgFiles
    /\ UNCHANGED <<upgRunning, upgCrashes, upgOverlap, upgBefore>>

\* Chmod and binaryVersion execute what is staged by now, and isNewerVersion
\* compares what it says.
CheckStaged(g) ==
    /\ upgRun[g].at = "staged"
    /\ IF /\ upgNew.state = "whole"
          /\ upgNew.release.runs
          /\ UpgNewer(upgNew.release.version, upgRunning.version)
       THEN UpgGoes(g, "backup") /\ upgBefore' = [upgBefore EXCEPT ![g] = upgSelf]
       ELSE UpgGoes(g, "cleanup") /\ UNCHANGED upgBefore
    /\ UNCHANGED <<UpgFiles, upgRunning, upgFaults, upgCrashes, upgOverlap>>

\* "_ = os.Rename(self, self+".old")": whether it worked is not looked at.
BackUpSelf(g) ==
    /\ upgRun[g].at = "backup"
    /\ UpgGoes(g, "install")
    /\ \/ /\ IF upgSelf = UpgNone THEN UNCHANGED UpgFiles
             ELSE upgOld' = upgSelf /\ upgSelf' = UpgNone /\ UNCHANGED upgNew
          /\ UNCHANGED upgFaults
       \/ UpgFault /\ UNCHANGED UpgFiles
    /\ UNCHANGED <<upgRunning, upgCrashes, upgOverlap, upgBefore>>

InstallStaged(g) ==
    /\ upgRun[g].at = "install"
    /\ \/ /\ upgNew # UpgNone
          /\ upgSelf' = upgNew
          /\ upgNew' = UpgNone
          /\ UpgGoes(g, "installed")
          /\ UNCHANGED <<upgOld, upgFaults>>
       \/ /\ IF upgNew = UpgNone THEN UNCHANGED upgFaults ELSE UpgFault
          /\ UpgGoes(g, "restore")
          /\ UNCHANGED UpgFiles
    /\ UNCHANGED <<upgRunning, upgCrashes, upgOverlap, upgBefore>>

\* "_ = os.Rename(self+".old", self)"
RestoreSelf(g) ==
    /\ upgRun[g].at = "restore"
    /\ UpgGoes(g, "cleanup")
    /\ \/ /\ IF upgOld = UpgNone THEN UNCHANGED UpgFiles
             ELSE upgSelf' = upgOld /\ upgOld' = UpgNone /\ UNCHANGED upgNew
          /\ UNCHANGED upgFaults
       \/ UpgFault /\ UNCHANGED UpgFiles
    /\ UNCHANGED <<upgRunning, upgCrashes, upgOverlap, upgBefore>>

\* "defer os.Remove(staged)" on every way out once it was staged.
RemoveStaged(g) ==
    /\ upgRun[g].at \in {"cleanup", "installed"}
    /\ upgNew' = UpgNone
    /\ UpgGoes(g, IF upgRun[g].at = "installed" THEN "reexec" ELSE "refused")
    /\ UNCHANGED <<upgSelf, upgOld, upgRunning, upgFaults, upgCrashes, upgOverlap, upgBefore>>

\* The refusal has been reported; the agent runs on.
UpgradeRefused(g) ==
    /\ upgRun[g].at = "refused"
    /\ upgRun' = [upgRun EXCEPT ![g] = UpgIdle]
    /\ upgBefore' = [upgBefore EXCEPT ![g] = UpgNone]
    /\ UNCHANGED <<UpgFiles, upgRunning, upgFaults, upgCrashes, upgOverlap>>

\* The process image ends, by exec, a crash or a kill: its goroutines end with
\* it and what they were writing stays as it is.
UpgLeft(content) == IF content.state \in UpgRuns THEN [content EXCEPT !.state = "broken"] ELSE content

UpgProcessEnds ==
    /\ upgRun' = [g \in UpgRuns |-> UpgIdle]
    /\ upgBefore' = [g \in UpgRuns |-> UpgNone]
    /\ UNCHANGED upgOverlap
    /\ upgSelf' = UpgLeft(upgSelf)
    /\ upgNew' = UpgLeft(upgNew)
    /\ upgOld' = UpgLeft(upgOld)
    /\ upgRunning' = IF upgSelf.state = "whole" THEN upgSelf.release ELSE UpgNoRelease

\* reexec; when it fails the agent exits and the supervisor does the same.
Reexec(g) ==
    /\ upgRun[g].at = "reexec"
    /\ UpgProcessEnds
    /\ UNCHANGED <<upgFaults, upgCrashes>>

AgentCrash ==
    /\ UpgUp
    /\ upgCrashes < UpgMaxCrashes
    /\ upgCrashes' = upgCrashes + 1
    /\ UpgProcessEnds
    /\ UNCHANGED upgFaults

UpgNext ==
    \/ \E g \in UpgRuns :
          \/ FetchRelease(g) \/ StageRelease(g) \/ StageWritten(g) \/ CheckStaged(g)
          \/ BackUpSelf(g) \/ InstallStaged(g) \/ RestoreSelf(g) \/ RemoveStaged(g)
          \/ UpgradeRefused(g) \/ Reexec(g)
    \/ AgentCrash

UpgSpec == UpgInit /\ [][UpgNext]_upgVars

-----------------------------------------------------------------------------
(* Properties *)

UpgPlaces == {"fetched", "writing", "staged", "backup", "install", "installed", "restore",
              "cleanup", "refused", "reexec"}

UpgContents == {UpgNone} \cup [release : UpgKnown, state : UpgRuns \cup {"whole", "broken"}]

UpgTypeOK ==
    /\ upgRun \in [UpgRuns -> {UpgIdle} \cup [at : UpgPlaces, got : UpgReleases]]
    /\ {upgSelf, upgNew, upgOld} \subseteq UpgContents
    /\ upgBefore \in [UpgRuns -> UpgContents]
    /\ upgRunning \in UpgKnown \cup {UpgNoRelease}
    /\ upgFaults \in 0..UpgMaxFaults /\ upgCrashes \in 0..UpgMaxCrashes
    /\ upgOverlap \in BOOLEAN

UpgGenuine(content) ==
    content.state = "whole" =>
        content.release.signed \/ content.release \in {UpgInstalled, UpgOutgoing}

\* "Executes nothing it cannot prove": whatever two upgrades, failures and
\* crashes do to each other's files, no path the agent is started from holds
\* a whole release that the build key did not sign, but for the two that were
\* on the host before.
UpgOnlySigned == \A content \in {upgSelf, upgNew} : UpgGenuine(content)

\* "An administrator has something to restore by hand": at every instant -
\* between the two renames, after a crash, after one failed call - a whole
\* release is at the binary's path or beside it, for one upgrade at a time.
UpgRecoverable ==
    ~upgOverlap /\ upgFaults <= 1
        => \E content \in {upgSelf, upgOld} : content.state = "whole"

\* "A failure at any step leaves the running agent exactly as it was": an
\* upgrade that ends in an error after its checks, alone in its process and
\* with one failing call, leaves the binary it found.
UpgErrorChangesNothing ==
    \A g \in UpgRuns :
        upgRun[g].at = "refused" /\ upgBefore[g] # UpgNone /\ ~upgOverlap /\ upgFaults <= 1
            => upgSelf = upgBefore[g]

\* The order of releases, the major component first.
UpgFollows(v, w) ==
    LET p == UpgPadded(v)
        q == UpgPadded(w)
    IN  \/ p[1] > q[1]
        \/ p[1] = q[1] /\ p[2] > q[2]
        \/ p[1] = q[1] /\ p[2] = q[2] /\ p[3] > q[3]

\* "An upgrade must move forward": the release that runs is never replaced by
\* an older one, or by one whose version cannot be read, whichever was chosen
\* to be served and wherever it crashed - for one upgrade at a time, since what
\* a second one stages after the comparison is installed unread.
UpgForward ==
    [][~upgOverlap /\ upgFaults <= 1 /\ upgRunning' # upgRunning /\ {upgRunning, upgRunning'} \cap {UpgNoRelease} = {}
        => UpgParses(upgRunning'.version)
           /\ UpgFollows(upgRunning'.version, upgRunning.version)]_upgVars

\* SelfUpgrade with its failures, crashes and rivals: only what is signed, never
\* nothing, never half, and only forward.
UpgPromises == [](UpgOnlySigned /\ UpgRecoverable /\ UpgErrorChangesNothing) /\ UpgForward
=============================================================================
