---------------------------------- MODULE Scan ----------------------------------
(***************************************************************************)
(* One scan of a webroot (internal/agent/agent.go, fsscan.go), the report  *)
(* it makes (internal/model/report.go) and the batching sink its findings  *)
(* stream to meanwhile (internal/emit/emit.go).                            *)
(*                                                                         *)
(* The walk sends the files it meets to the workers over a bounded         *)
(* channel; a worker reads a file, and the rules, the heuristics and YARA  *)
(* look at it in this order, each of which may emit a finding.  The scan's *)
(* context may end at any time.  Every entry of the tree is a file, or a   *)
(* directory that is skipped; what a file holds is the engine that finds   *)
(* something in it, "clean", or "published": no engine looks at it, because*)
(* its bytes are published or attested, or are media without PHP in them.  *)
(***************************************************************************)
EXTENDS Integers, Sequences, FiniteSets, Functions

CONSTANTS
    ScanWorkers,     \* the governor's workers
    ScanTree,        \* the entries of the tree, in the order of WalkDir
    ScanHolds,       \* entry -> "skip", "clean", "published", or an engine
    ScanChannel,     \* room in the channel of jobs (256)
    ScanBatch,       \* events to a post (50)
    ScanMaxFaults    \* bounds what the disk and the collector refuse

ScanEngines == {"rules", "heuristics", "yara"}
ScanFiles == {f \in DOMAIN ScanHolds : ScanHolds[f] # "skip"}
ScanNone == "none"

\* WalkDir passes every entry once; New opens one worker at least.
ASSUME ScanAssumption ==
    /\ ScanTree \in Seq(DOMAIN ScanHolds) /\ IsInjective(ScanTree)
    /\ ScanFiles \subseteq Range(ScanTree)
    /\ ScanNone \notin ScanFiles /\ ScanWorkers # {}
    /\ \A f \in DOMAIN ScanHolds :
          ScanHolds[f] \in {"skip", "clean", "published"} \cup ScanEngines
    /\ ScanChannel \in Nat \ {0} /\ ScanBatch \in Nat \ {0} /\ ScanMaxFaults \in Nat

VARIABLES
    scanPc,       \* where Run stands
    scanWalked,   \* entries the walk has passed
    scanHand,     \* the file the walk has to send, or none
    scanJobs,     \* the channel of jobs
    scanAt,       \* worker -> stage, engine, file and the batch it posts
    scanExpired,  \* the context of the run has ended
    scanRep,      \* the report: findings, checks, errors, verdict, stats
    scanSink,     \* the webhook sink: its buffer and the batches it posted
    scanDone,     \* files whose analysis came to its end (history)
    scanUnstat,   \* files d.Info() failed for, there or not (history)
    scanFaults

scanVars == <<scanPc, scanWalked, scanHand, scanJobs, scanAt, scanExpired, scanRep, scanSink,
              scanDone, scanUnstat, scanFaults>>

ScanIdle == [stage |-> "take", engine |-> "rules", file |-> ScanNone, batch |-> <<>>]

ScanInit ==
    /\ scanPc = "walk" /\ scanWalked = 0 /\ scanHand = ScanNone /\ scanJobs = <<>>
    /\ scanAt = [w \in ScanWorkers |-> ScanIdle]
    /\ scanExpired = FALSE
    /\ scanRep = [findings |-> {}, checks |-> {}, errors |-> 0, verdict |-> ScanNone,
                  readErrors |-> 0, slow |-> 0]
    /\ scanSink = [buf |-> <<>>, posted |-> <<>>]
    /\ scanDone = {} /\ scanUnstat = {} /\ scanFaults = 0

-----------------------------------------------------------------------------
(* The report *)

\* layerFor and computeLayers, for layers of any number of checks: a layer
\* all of whose checks are not applicable is not present, one with a check
\* that did not observe its subject is degraded or unavailable.
LayerState(checks) ==
    LET counted == {c \in checks : c.state # "not_applicable"}
        observed == {c \in counted : c.state = "ok"}
    IN  CASE counted = {} -> "not_present"
          [] counted # {} /\ observed = {} -> "unavailable"
          [] observed # {} /\ observed # counted -> "degraded"
          [] OTHER -> "checked"

ComputeLayers(checks) ==
    [l \in {c.layer : c \in checks} |-> LayerState({c \in checks : c.layer = l})]

\* Finalize: findings of medium severity and above make it dirty; an error,
\* or a layer that could not be observed, makes it partial.
Verdict(rep) ==
    LET layers == ComputeLayers(rep.checks)
        blind == {l \in DOMAIN layers : layers[l] \in {"unavailable", "degraded"}}
    IN  IF rep.findings # {} THEN "dirty"
        ELSE IF rep.errors > 0 \/ blind # {} THEN "partial" ELSE "clean"

-----------------------------------------------------------------------------
(* The walk *)

\* The callback of WalkDir on the next entry: a directory skipDir names is
\* passed over, a subtree that cannot be read is an error of the report, a
\* file whose d.Info() fails is left out without a word, whether it was
\* removed or is there and the lstat was refused, any other goes to the
\* workers.
ScanVisit ==
    /\ scanPc = "walk" /\ ~scanExpired /\ scanHand = ScanNone
    /\ scanWalked < Len(ScanTree)
    /\ scanWalked' = scanWalked + 1
    /\ LET f == ScanTree[scanWalked + 1]
       IN  \/ /\ f \notin ScanFiles
              /\ UNCHANGED <<scanHand, scanRep, scanUnstat, scanFaults>>
           \/ /\ f \in ScanFiles /\ scanHand' = f
              /\ UNCHANGED <<scanRep, scanUnstat, scanFaults>>
           \/ /\ f \in ScanFiles /\ scanFaults < ScanMaxFaults
              /\ scanFaults' = scanFaults + 1
              /\ \/ scanRep' = [scanRep EXCEPT !.errors = @ + 1] /\ UNCHANGED scanUnstat
                 \/ scanUnstat' = scanUnstat \cup {f} /\ UNCHANGED scanRep
              /\ UNCHANGED scanHand
    /\ UNCHANGED <<scanPc, scanJobs, scanAt, scanExpired, scanSink, scanDone>>

\* The callback's select: the job is sent, or the context ends.
ScanSend ==
    /\ scanPc = "walk" /\ scanHand # ScanNone
    /\ Len(scanJobs) < ScanChannel
    /\ scanJobs' = Append(scanJobs, scanHand) /\ scanHand' = ScanNone
    /\ UNCHANGED <<scanPc, scanWalked, scanAt, scanExpired, scanRep, scanSink, scanDone, scanUnstat,
                   scanFaults>>

\* WalkDir returns, at the end of the tree or with the context's error, and
\* the channel is closed.
ScanWalkEnds ==
    /\ scanPc = "walk"
    /\ \/ scanWalked = Len(ScanTree) /\ scanHand = ScanNone /\ scanPc' = "drain"
       \/ /\ scanExpired /\ (scanHand # ScanNone \/ scanWalked < Len(ScanTree))
          /\ scanPc' = "interrupted"
    /\ scanHand' = ScanNone
    /\ UNCHANGED <<scanWalked, scanJobs, scanAt, scanExpired, scanRep, scanSink, scanDone, scanUnstat,
                   scanFaults>>

-----------------------------------------------------------------------------
(* A worker *)

ScanWorkerTo(w, stage) == scanAt' = [scanAt EXCEPT ![w].stage = stage]

ScanMainStays == UNCHANGED <<scanPc, scanWalked, scanHand, scanExpired, scanUnstat>>

\* The next job; a worker that finds the context ended returns with it.
ScanTake(w) ==
    /\ scanAt[w].stage = "take"
    /\ \/ /\ scanJobs # <<>>
          /\ scanJobs' = Tail(scanJobs)
          /\ scanAt' = [scanAt EXCEPT ![w] =
                 [ScanIdle EXCEPT !.stage = IF scanExpired THEN "returned" ELSE "read",
                                  !.file = Head(scanJobs)]]
       \/ /\ scanJobs = <<>> /\ scanPc \in {"drain", "interrupted"}
          /\ ScanWorkerTo(w, "returned")
          /\ UNCHANGED scanJobs
    /\ ScanMainStays
    /\ UNCHANGED <<scanRep, scanSink, scanDone, scanFaults>>

\* analyzeFile up to the provenance gate: a read that fails is counted, as is
\* the governor's refusal once the context ended; a file that no engine has
\* to look at is done.
ScanRead(w) ==
    /\ scanAt[w].stage = "read"
    /\ \/ /\ ScanHolds[scanAt[w].file] # "published"
          /\ ScanWorkerTo(w, "look")
          /\ UNCHANGED <<scanRep, scanDone, scanFaults>>
       \/ /\ ScanHolds[scanAt[w].file] = "published"
          /\ scanDone' = scanDone \cup {scanAt[w].file}
          /\ ScanWorkerTo(w, "take")
          /\ UNCHANGED <<scanRep, scanFaults>>
       \/ /\ \/ scanExpired /\ UNCHANGED scanFaults
             \/ scanFaults < ScanMaxFaults /\ scanFaults' = scanFaults + 1
          /\ scanRep' = [scanRep EXCEPT !.readErrors = @ + 1]
          /\ ScanWorkerTo(w, "take")
          /\ UNCHANGED scanDone
    /\ ScanMainStays
    /\ UNCHANGED <<scanJobs, scanSink>>

\* evalRules, evalHeuristics, evalYara: one engine looks at the file.
ScanLook(w) ==
    /\ scanAt[w].stage = "look"
    /\ ScanWorkerTo(w, IF ScanHolds[scanAt[w].file] = scanAt[w].engine THEN "emit" ELSE "next")
    /\ ScanMainStays
    /\ UNCHANGED <<scanJobs, scanRep, scanSink, scanDone, scanFaults>>

\* emit: the report takes the finding first, the sink next, which posts what
\* it holds once that is a batch.
Emit(w) ==
    /\ scanAt[w].stage = "emit"
    /\ scanRep' = [scanRep EXCEPT !.findings = @ \cup {scanAt[w].file}]
    /\ ScanWorkerTo(w, "stream")
    /\ ScanMainStays
    /\ UNCHANGED <<scanJobs, scanSink, scanDone, scanFaults>>

SinkFinding(w) ==
    /\ scanAt[w].stage = "stream"
    /\ scanSink' = [scanSink EXCEPT !.buf = Append(@, scanAt[w].file)]
    /\ ScanWorkerTo(w, IF Len(scanSink.buf) + 1 >= ScanBatch THEN "flush" ELSE "next")
    /\ ScanMainStays
    /\ UNCHANGED <<scanJobs, scanRep, scanDone, scanFaults>>

\* flush takes the buffer, whatever it holds by now.
FlushTakes(w) ==
    /\ scanAt[w].stage = "flush"
    /\ scanAt' = [scanAt EXCEPT ![w].batch = scanSink.buf, ![w].stage = "post"]
    /\ scanSink' = [scanSink EXCEPT !.buf = <<>>]
    /\ ScanMainStays
    /\ UNCHANGED <<scanJobs, scanRep, scanDone, scanFaults>>

\* It posts outside the lock; a refusal is not looked at, and an empty batch
\* is not sent.
SinkPosted(batch) == IF batch = <<>> THEN scanSink.posted ELSE Append(scanSink.posted, batch)

FlushPosts(w) ==
    /\ scanAt[w].stage = "post"
    /\ scanSink' = [scanSink EXCEPT !.posted = SinkPosted(scanAt[w].batch)]
    /\ scanAt' = [scanAt EXCEPT ![w].batch = <<>>, ![w].stage = "next"]
    /\ ScanMainStays
    /\ UNCHANGED <<scanJobs, scanRep, scanDone, scanFaults>>

\* After the rules and after the heuristics the file's budget may be used up.
ScanNextEngine(w) ==
    /\ scanAt[w].stage = "next"
    /\ \/ /\ scanAt[w].engine # "yara"
          /\ scanRep' = [scanRep EXCEPT !.slow = @ + 1]
          /\ ScanWorkerTo(w, "take")
          /\ UNCHANGED scanDone
       \/ /\ scanAt[w].engine # "yara"
          /\ scanAt' = [scanAt EXCEPT ![w].stage = "look",
                ![w].engine = IF @ = "rules" THEN "heuristics" ELSE "yara"]
          /\ UNCHANGED <<scanRep, scanDone>>
       \/ /\ scanAt[w].engine = "yara"
          /\ scanDone' = scanDone \cup {scanAt[w].file}
          /\ ScanWorkerTo(w, "take")
          /\ UNCHANGED scanRep
    /\ ScanMainStays
    /\ UNCHANGED <<scanJobs, scanSink, scanFaults>>

ScanWork(w) ==
    \/ ScanTake(w) \/ ScanRead(w) \/ ScanLook(w) \/ Emit(w) \/ SinkFinding(w)
    \/ FlushTakes(w) \/ FlushPosts(w) \/ ScanNextEngine(w)

-----------------------------------------------------------------------------
(* The end of the run *)

ScanWorkersStay == UNCHANGED <<scanWalked, scanHand, scanJobs, scanAt, scanExpired, scanDone,
                               scanUnstat, scanFaults>>

\* wg.Wait, and the state of the check: an error if the walk was cut off.
ScanChecked ==
    /\ scanPc \in {"drain", "interrupted"}
    /\ \A w \in ScanWorkers : scanAt[w].stage = "returned"
    /\ scanRep' = [scanRep EXCEPT !.checks = {[id |-> "fs.scan", layer |-> "application",
                       state |-> IF scanPc = "interrupted" THEN "error" ELSE "ok"]}]
    /\ scanPc' = "others"
    /\ ScanWorkersStay /\ UNCHANGED scanSink

\* The checks of runScan that follow, two of them, with what they observed.
ScanOtherChecks ==
    /\ scanPc = "others"
    /\ \E wp, db \in {"ok", "unavailable", "not_applicable"} :
          scanRep' = [scanRep EXCEPT !.checks = @ \cup
              {[id |-> "wp.plugins", layer |-> "application", state |-> wp],
               [id |-> "db.options", layer |-> "database", state |-> db]}]
    /\ scanPc' = "finalize"
    /\ ScanWorkersStay /\ UNCHANGED scanSink

\* A mutant of RunEnds: the context is not looked at after Finalize.
RunEndsAnyhow ==
    /\ scanPc = "finalize"
    /\ scanRep' = [scanRep EXCEPT !.verdict = Verdict(scanRep)]
    /\ scanPc' = "report"
    /\ ScanWorkersStay /\ UNCHANGED scanSink

\* Finalize; a run whose context ended gets an error and is finalized again.
RunEnds ==
    /\ scanPc = "finalize"
    /\ LET rep == [scanRep EXCEPT !.errors = @ + (IF scanExpired THEN 1 ELSE 0)]
       IN  scanRep' = [rep EXCEPT !.verdict = Verdict(rep)]
    /\ scanPc' = "report"
    /\ ScanWorkersStay /\ UNCHANGED scanSink

\* The sink's Report: the last flush.
SinkReport ==
    /\ scanPc = "report"
    /\ scanSink' = [buf |-> <<>>, posted |-> SinkPosted(scanSink.buf)]
    /\ scanPc' = "closed"
    /\ ScanWorkersStay /\ UNCHANGED scanRep

\* The deadline passes or the operator interrupts.
ScanExpire ==
    /\ ~scanExpired /\ scanPc # "closed"
    /\ scanExpired' = TRUE
    /\ UNCHANGED <<scanPc, scanWalked, scanHand, scanJobs, scanAt, scanRep, scanSink, scanDone,
                   scanUnstat, scanFaults>>

ScanMain ==
    ScanVisit \/ ScanSend \/ ScanWalkEnds \/ ScanChecked \/ ScanOtherChecks \/ RunEnds \/ SinkReport

ScanNext == ScanMain \/ (\E w \in ScanWorkers : ScanWork(w)) \/ ScanExpire

\* Goroutines run; nobody owes the scan an end of its context.
ScanSpec ==
    /\ ScanInit /\ [][ScanNext]_scanVars
    /\ WF_scanVars(ScanMain) /\ \A w \in ScanWorkers : WF_scanVars(ScanWork(w))

-----------------------------------------------------------------------------
(* Properties *)

ScanAts ==
    [stage : {"take", "read", "look", "emit", "stream", "flush", "post", "next", "returned"},
     engine : ScanEngines, file : ScanFiles \cup {ScanNone}, batch : Seq(ScanFiles)]
ScanChecks ==
    [id : {"fs.scan", "wp.plugins", "db.options"}, layer : {"application", "database"},
     state : {"ok", "error", "unavailable", "not_applicable"}]
ScanReports ==
    [findings : SUBSET ScanFiles, checks : SUBSET ScanChecks, errors : Nat,
     verdict : {ScanNone, "clean", "dirty", "partial"}, readErrors : Nat, slow : Nat]

ScanTypeOK ==
    /\ scanPc \in {"walk", "drain", "interrupted", "others", "finalize", "report", "closed"}
    /\ scanWalked \in 0..Len(ScanTree) /\ scanHand \in ScanFiles \cup {ScanNone}
    /\ scanJobs \in Seq(ScanFiles) /\ Len(scanJobs) <= ScanChannel
    /\ scanAt \in [ScanWorkers -> ScanAts] /\ scanExpired \in BOOLEAN
    /\ scanRep \in ScanReports
    /\ scanSink \in [buf : Seq(ScanFiles), posted : Seq(Seq(ScanFiles))]
    /\ {scanDone, scanUnstat} \subseteq SUBSET ScanFiles /\ scanFaults \in 0..ScanMaxFaults

ScanCounted == scanRep.readErrors + scanRep.slow

\* "A partial scan is never mistaken for a clean one": a report that says
\* clean stands for a run in which every file was examined to its end, but
\* for those its statistics count as unreadable or slow, and but for those
\* d.Info() failed for: the code leaves these out of every count but
\* FilesSeen, those that are there too.  Whenever the context ended, the walk
\* and its workers do not tell.
ScanCleanMeansAll ==
    scanRep.verdict = "clean" =>
        /\ Cardinality(ScanFiles \ (scanDone \cup scanUnstat)) <= ScanCounted
        /\ \A c \in scanRep.checks : c.state \in {"ok", "not_applicable"}

\* No file is lost between the walk and the workers: what was sent and not
\* examined is counted, or the report says that the run did not complete.
\* What was not sent is a skipped directory or a file d.Info() failed for.
ScanNoneForgotten ==
    (scanRep.verdict # ScanNone /\ scanRep.errors = 0) =>
        /\ Cardinality(ScanFiles \ (scanDone \cup scanUnstat)) = ScanCounted
        /\ \A f \in scanDone : ScanHolds[f] \in ScanEngines => f \in scanRep.findings

ScanInSink ==
    Range(scanSink.buf) \cup UNION {Range(scanSink.posted[i]) : i \in DOMAIN scanSink.posted}
        \cup UNION {Range(scanAt[w].batch) : w \in ScanWorkers}

\* The sink posts what the report holds, each finding once, and nothing is
\* left in its buffer at the end.
ScanStreamed ==
    scanPc = "closed" =>
        /\ ScanInSink = scanRep.findings
        /\ \A i, j \in DOMAIN scanSink.posted :
              \A k \in DOMAIN scanSink.posted[i], l \in DOMAIN scanSink.posted[j] :
                 scanSink.posted[i][k] = scanSink.posted[j][l] => i = j /\ k = l
        /\ scanSink.buf = <<>>

\* A report tells the truth about the scan it is of.
ScanSafe == ScanCleanMeansAll /\ ScanNoneForgotten /\ ScanStreamed

\* A scan comes to its end, cut off or not.
ScanEnds == <>(scanPc = "closed")
=============================================================================
