# wordeye: specifications

TLA+ models of wordeye, an agent that looks for compromised PHP sites and a
console that runs a fleet of such agents. The models are written from the Go
source under `src/`; TLC checks them on small instances and TLAPS proves the
central theorems for every instance. `PROJECT.json` lists components, runs,
mutants, the lines each definition stands for, findings, hazards and theorems.

Check one model with `tlc -config ChannelFleet.cfg MCCommandChannel`, all the
smaller ones with `tlc -config Safety.cfg MCSafety` and
`tlc -config Progress.cfg MCProgress`, prove one with
`tlapm CommandChannelProofs.tla`.

## The system

A console (`internal/console`, `internal/store`) serves operators on one
listener and agents on another. Everything it knows is in one SQLite database
opened on one connection: a statement or a transaction is atomic, a handler
made of several statements is not. Agents (`internal/agent`, started by
`cmd/wordeye-agent`) only ever call out: they enroll once, then beat.

| Component | State | Operations | Interacts with | Must hold |
|---|---|---|---|---|
| Command channel (store.go, api.go, ingest.go, client.go, uninstall.go, upgrade_exec.go) | `commands`, retired agents, approvers; on the agent the executing goroutine, credential file | create, approve, cancel, next command, result, retire; execute, uninstall, upgrade | scheduler, accounts, heartbeat | nothing destructive unapproved, no work twice, nothing stale, honest outcomes, progress |
| Finding delivery and triage (client.go, ingest.go, store.go, api.go) | agent's pending queue, `findings` | detect, flush, requeue, store, re-state one row or a list | monitor, forwarder, webhooks | no silent loss, bounded queue, triage survives reports |
| Report ingest (ingest.go, store.go) | `findings`, the counts of an answer | store the envelope, then finding by finding | delivery, forwarder | an answer accounts for every finding |
| Rate limiter (server.go) | one window per key | allow, sweep | every handler | at most two quotas a period, no refusal without cause |
| Scheduler (scheduler.go, schedules.go) | `schedules` | create, pause, resume, delete, find what is due, mark, queue commands | command channel | no run lost or doubled, spread kept |
| Outgoing webhooks (webhooks.go twice, integrations.go) | `webhooks`, `webhook_deliveries` | select, claim, post, mark, record | findings, receivers | one ticket per artefact, none lost |
| Silence watchdog, liveness (watchdog.go, liveness.go, tamper.go) | last contact, reported silences (in memory), liveness file | tick, mark alive, mark clean exit | findings | each kill found out, no false alarm |
| Event forwarder (forward.go) | bounded queue, connection | enqueue, send, reconnect, close | collectors | newest kept, losses counted, nobody held up |
| Enrollment, identity (ingest.go, store.go, installer.go) | `enroll_tokens`, `agents`, a host's credential | mint, scope, consume, create, save | all agent calls | a token admits at most its uses, a host once |
| Accounts, sessions (auth.go, server.go, permissions.go) | `users`, `sessions` | log in, second factor, reset, disable | approval | a reset ends sessions, an administrator remains |
| Consensus (consensus.go, vendorpack.go) | digests found, attestations | correlate, attest, answer, merge | scan, provenance | soak, quorum, estates apart |
| Containment (contain.go) | quarantine, frozen processes, launchers | plan, freeze, capture, kill, move, roll back | host | acts only on what was found, loses nothing, ends |
| Monitor (monitor_linux.go, monitor_os_linux.go) | watches, what was evaluated | event, coalesce, walk, debounced check | delivery | no covered write unseen |
| Self-upgrade (upgrade.go, upgrade_exec.go) | the binary, its staged copy and its predecessor | fetch, verify, stage, compare, two renames, roll back, exec | command channel | only signed, only forward, never none |
| Scan engine (agent.go, fsscan.go, emit.go, report.go) | walk, channel of jobs, findings, sink | walk, read, look, emit, stream, report | rules, YARA, provenance | clean means all was looked at |
| Provenance (provenance.go) | manifests and their cache | fetch, retry, judge a file | scan | unavailable is said, nothing wrongly unexpected |
| Baseline (baseline.go) | the record of a site | record, verify | scan | the difference is the difference |
| Governor (govern.go) | load state, token bucket | Gate | scan | rate holds, nobody stuck |
| Controller (run.go, aggregate.go) | per host: where it is, agent on disk | probe, deploy, run, tidy up, summarise | agents over ssh | whole agents, unknown is not clean, returns |
| Rules, YARA, PHP lexer, checks of many files, calendar | none: pure functions | | scan, scheduler | agree with what they are meant to compute |
| Host probes, signing, command lines, web interface, heuristics, database scan | per scan, or none | | | |

What is hard: agents and operators race between the statements of one handler;
requests and answers are lost, and a request whose client gave up may still be
served; agents and the console stop between any two steps; several goroutines
of an agent share its queue; queues have limits that meet each other; a host
goes on living while it is scanned, watched and contained.
`PROJECT.json` lists each such hazard at its line, with the properties about it.

## Modules

| Module | What it is |
|---|---|
| `CommandChannel` | one `commands` row from order to outcome, console and agents |
| `CommandLedger` | what the channel promises, without tables, messages or failures |
| `MCCommandChannel`, `CommandChannelProofs` | its instances, its theorems |
| `FindingDelivery` | queue, batches, storing and triage of findings |
| `FindingLedger` | what the delivery promises, without queues, batches or handlers |
| `MCFindingDelivery`, `FindingDeliveryProofs` | its instances, its theorems |
| `WebhookDelivery` | the console's pass over webhooks and artefacts |
| `MCWebhookDelivery`, `WebhookDeliveryProofs` | its instances, its theorems |
| `ReportIngest`, `RateLimiter`, `Scheduler`, `AgentPresence`, `Forwarder`, `Enrollment`, `Accounts`, `Consensus` | the rest of the console, with the agents' side of each |
| `Scan`, `Baseline`, `Provenance`, `Governor`, `Monitor`, `Containment`, `Upgrade`, `Controller` | what runs on a host, and the sweep that starts it |
| `MessageQueue` | what the forwarder promises, without goroutines, connections or retries |
| `ScheduleCalendar`, `YaraSubset`, `RuleMatch`, `PhpLexer`, `FileChecks` | pure functions, each with its reference definition |
| `MCFunctions` | the questions put to the pure functions |
| `Limits`, `Records`, `Hosts` | what limiter and governor, provenance and baseline, controller and containment promise together |
| `SafetyTypes`, `ProgressTypes` | the types of all components of a run |
| `MCSafety`, `MCProgress` | one run each over many components |
| `ConsoleProofs` | theorems about accounts, forwarder, consensus, calendar, scheduler, presence |
| `IntakeProofs` | about enrollment, ingest, limiter and governor |
| `HostProofs` | about controller, upgrade, containment, scan and monitor |
| `RecordsProofs` | about provenance, baseline and the checks of many files |
| `TypingProofs` | the types of every component of both runs |

Components that share no state are checked side by side. `MCSafety` and
`MCProgress` are sums, not products: `subject` is chosen initially and from then
on only that component moves, so each has the states, and the fair behaviours,
of its own specification. Every name carries its component's prefix (`Fwd`, `Sch`, `Ing`, ...).
A question put to a pure function is an initial state that takes no step.

### CommandChannel

State: the table's columns (`status`, `approvedBy`, `created`, `expires`,
`notBefore`), what a handler carries between its statements (`undated`,
`approving`, `handler`, `retiring`), what is on the wire (`inReply`, `net`),
and the agents (`up`, `stopping`, `installed`, `task`). `performed` counts how
often work began and `overlooked` names the uninstalls that could not look at
the credential; both exist for the properties only.

* `CreateCommand`, `CreateCommandAt`/`SetNotBefore`: an operator's order, and
  the scheduler's in its two statements.
* `ApproveCheck`/`ApproveWrite`: ApproveCommand reads the command and the number
  of approvers before it writes; `SetUserDisabled` may run in between.
* `HeartbeatAuth`/`NextCommandForAgent`: the console's handler of a heartbeat;
  expiry, selection and `sent` are one transaction. `Dispatched` says what
  happens to the row, including the refusal of a containment.
* `ReceiveCommand`, `PostRunning`, `Refuse`/`Perform`, `PostOutcome`,
  `RequestShutdown`, `Reexec`: `Client.execute`, step by step. An upgrade
  replaces the process and an uninstall ends it, each after its report.
  `Removal` is PerformUninstall: the credential is removed, or fails to be, or is
  passed over because it cannot be looked at, which the report says nothing of.
* `DeliverResult`, `RetireUninstalled`: handleCommandResult, whose retirement of
  an uninstalled agent is a second statement. The agent's authentication and
  CompleteCommand are one step: only a retirement could come between, and it
  commutes with the result.
* `AgentCrash`, `ConsoleRestart`, `LoseHeartbeat`, `LoseResult`: failures,
  counted in `faults`.

A `running` post may arrive after its goroutine went on (its client timed out);
the model allows that without counting a fault. Nothing in the console changes
an agent's `allow_remote_contain` after enrollment, so handleHeartbeat's own
refusal is a second line of defence; it is modelled.

`CommandLedger` is implemented through `Ledger`, whose mapping folds `sent` and
`running` into "out" and `cancelled` and `expired` into "withdrawn", and maps
`performed` to `worked`.

### FindingDelivery

Detections are numbered; `KeyOf` gives each the row it belongs to (agent and
dedupe key). `Flush` takes the whole queue; `GiveUp` and `Respond` end the post
and `Requeue` returns a batch. A handler stores finding by finding: `UpdateRow`,
then `InsertRow` if there was none, which the unique index may refuse, or
`StoreError`. `LoseRequest` separates a client from its handler: the request is
gone, or it is served although nobody waits. `Flushers` is two in the code's
worst case: the run loop, and a goroutine executing an upgrade.
Operators: `SetFindingState`, and the bulk action as it is: `ShowFindings`
renders the page, `BulkCount` compares the count, `BulkUpdate` applies the
filter again.
`FindingLedger` is implemented through `Ledger`: owed is what the agent has in its
queue or in a batch, kept what is stored, gone the admitted losses together.
Left out: findings without a rule id, which sanitizing drops; the forwarding of
a stored finding; the telemetry of the last flush.

### WebhookDelivery

`Pending` is the selection with its SQL as it is: groups by artefact, newest
first, severity by alphabetical minimum, four times the limit fetched, then the
floor; a row stands for its group's newest open finding. `BeginPass`, `SelectArtefacts`, `ClaimDelivery`, `PostWebhook`,
`PostFails`, `MarkDelivered` and `RecordWebhookResult` are the statements of
deliverWebhooks; errors it ignores are ignored. Reports, triage and the
administration of webhooks run in between. A finding's `last_seen` is the number
of its last sighting (`seen`), so no two are equal. Retired agents' findings and the test delivery are left out.

### The console's other components

* `ReportIngest`: requests of one agent in handlers that run at once, finding by
  finding, at the statements of UpsertFinding (UPDATE, then an INSERT that the
  unique index may refuse); the cap of a report, the cut of a body of events
  (`IngWithin`), blank findings and the counts answered. What is cut is in no
  count: an answer to events accounts for the first `IngBatch` of what was sent.
* `RateLimiter`: `Allow`, `LimRefuse` and the janitor's `LimSweep`, each under
  the mutex. Times at which keys were let in are history.
* `Scheduler` on `ScheduleCalendar`: a pass reads what is due once (`SchBegin`),
  then marks, resolves and creates host by host, each command in two statements
  (`SchCreate`, `SchDate`), any of which may fail or be cut by a crash.
  `ResumeScheduleReads`/`Writes` are the two statements of the API's handler. A
  slot is the instant `next_run` named, and the key for "no run twice".
* `AgentPresence`: the liveness file, the signal watcher, the endings the console
  orders, last_seen and the watchdog with its memory. Time is the age of what
  the code compares, capped at the threshold, so runs of any length are finite.
* `Forwarder`: enqueue as its two selects in a loop, the worker with its
  connection, its one retry and backoff, and Close. A write passes a frame whole
  or breaks off in the middle of it. It implements `MessageQueue` through
  `FwdLossyQueue`: held is what the worker has in hand before what the channel
  holds, with room for one more than the channel; an eviction loses the oldest
  that waits, so the second while the worker has one in hand.
* `Enrollment`: a token minted by hand (`CreateToken`) or into an installer
  (`GenerateInstaller`, `SetTokenEstate`, `StampInstaller`), runs on one host
  that share a credential file, `ConsumeEnrollToken` and `EnrollAgent` as two
  statements, lost answers and failed saves.
* `Accounts`: each handler is admitted by the session and the user it read, then
  acts statement by statement. For a confirmation and a verification the
  admission is one step with the first read. Races that the code allows are
  recorded in `accRaced`, which the properties except.
* `Consensus`: `VendorAttestations` over the rows of findings as SQL groups
  them, operators' attestations, which are sent only if the hosts' reports agree
  on something, and the answer's way through `VendorPackFrom` and
  `MergeVendorPack` into a scan.

### What runs on a host

* `Scan`: the walk, the bounded channel, the workers with their engines in
  order, the deadline, the other checks, layers and verdict, and the webhook
  sink with its batches. `scanUnstat` holds the files the walk passed over
  because d.Info failed for them, there or not.
* `Provenance`: manifests through the cache on disk, retries, answers that begin
  like JSON and are none, and the verdict on every file of a sweep.
* `Baseline`: a run that records digests and one that compares them, against a
  site that changes, a context that ends and a process that dies while it writes.
* `Governor`: `GateLoad` and `GateIO` of several workers; one turn at the bucket
  is one step under the mutex, the load flags are separate loads and stores.
* `Monitor`: one loop that reads events in batches and walks new trees of any
  depth, with directories, guarded ones too, that are made, filled, moved in,
  moved out and removed meanwhile. `monKernel` is what the kernel watches of the
  tree, `monWatched` what the program's index holds. They part when a directory
  goes, until the loop has read that it is gone; for good, where the loop does
  not tell the index: a guarded directory, and those below one that is moved.
  Nobody calls inotify_rm_watch, so the kernel watches a directory that was moved
  away wherever it is: `monAdrift`. A directory that is over the budget, moved
  in, or made where the index still has its predecessor goes to `monExcused`, and
  its files are left to the full sweep. What comes and goes lies in directories
  that stay (`MonTreeAssumption`). Left out: events in a directory that was moved
  away, which the loop drops or reports under its old path, and IN_IGNORED, which
  repeats the end of a guarded directory.
* `Containment`: launchers, processes (freeze, capture, kill, look again), files
  (check, move, settle), cache flush, while processes exit, pids are reused,
  files are edited and the site breaks on its own. Between a comparison and the
  call it guards, the host may change once more: `contRaced` records that.
* `Upgrade`: two goroutines over the same three paths, failing calls and crashes
  between any two steps.
* `Controller`: a bounded number of hosts; a killed scp leaves what it had
  written; entries of the inventory may name one account; a second sweep finds
  what the first left. A line of output that does not parse is as one that did
  not come: it is dropped without a word if another line parses.

### Pure functions

`MCFunctions` compares each with a reference definition written without its
machinery: `NextRunAfter` with a search through the coming days; the automaton
with search at every offset (`MatchSetRight`), the two-pointer window with all
choices (`WindowRight`), merged packs with the rules one at a time
(`PacksMerged`, `RuleAlone`); YARA's parser with the tree it printed
(`ParsedAsMeant`), its hex matcher with a recursive definition (`HexRight`),
and its prefilter with no prefilter (`GateMissesNothing`); the PHP lexer's spans and views
(`LexRight`, `CommentsDoNotMatter`, `ChainsRight`); clusters, outliers, late
writes, modes and polyglots with what each is meant to select.

## Runs

All runs say `CHECK_DEADLOCK FALSE`: every model has bounded orders, reports and
faults and may come to rest, as the system does when nothing is asked of it.

| Run | Instance | Shows |
|---|---|---|
| channel_fleet | 1 agent, an upgrade and scheduled work, clock to 1, 1 fault, fairness | types, AtMostOnce, TerminalIsFinal, NoStaleDispatch, refinement of the ledger, ApprovedMovesOn |
| channel_endings | an uninstall, a containment the host does not consent to, 2 users, 1 fault | HonestOutcome, HumanApproved, TwoKeys, FourEyes |
| channel_completion | uninstall and other work, no fault, fairness | DispatchedCompletes, UninstallRetires |
| delivery | 3 detections of 2 rows, queue and body of 2, batch of 1, 2 flushers, 2 handlers, 1 fault, fairness | WellFormed (types and QueueBounded), Accounted, TriageStands, DeliveryPromises (QueuedSurvives and refinement of `FindingLedger`), Delivered |
| webhooks | 1 webhook with floor medium, 3 findings of 2 artefacts, reports high or info, 2 reports, 2 faults, fairness | types, NoTicketLoop, DeliveredWasReceived, TicketedOnce, Ticketed |
| safety | one small instance of each of accounts, enrollment, consensus, ingest, limiter, governor, upgrade, provenance and baseline, and every question of `MCFunctions` | SafetyTypeOK, FunctionsAgree, AccSafe, EnrSafe, IngSafe, LimitsHold, RecordsTellTrue, ConPromises, UpgPromises |
| progress | one small instance of each of forwarder, scheduler, presence, containment, monitor, controller and scan, with its fairness | ProgressTypeOK, MonSafe, HostsKept, ScanSafe, FwdPromises, SchPromises, PreUncleanTruth, ConsoleGetsThere, HostWorkEnds; FwdPromises includes the refinement of `MessageQueue` |

A property of `safety` or `progress` is a conjunction; its parts are stated and
explained in the component's module.

Bounds of the channel, the delivery and the webhooks. Two commands are enough
for the channel: every guard concerns one row, or one row
and the agent's other open row; a command with ttl 0 can be dispatched in time,
expire while pending and expire while approved by time 1. One fault there is
enough to lose any one message or crash in any one place; that no number of
faults breaks the safety properties is what the theorems say. The delivery's
queue is larger than its batch cap, so a batch can overflow on its return and be
cut. Its body limit is as large as its queue: `Delivered` needs that (see
below). With two reports, two artefacts of which one has two findings and one
webhook, a pass meets artefacts that are due, below the floor, delivered,
dismissed meanwhile, and a webhook deleted under it.

In Safety the two handlers, requests, goroutines or workers of every component
are the same two model values, and TLC explores states up to exchanging them:
no definition tells them apart, and everything the run checks is an invariant
or a property of single steps.

Bounds of the others, and what they let happen:

| Component | Bounds | Cases |
|---|---|---|
| Accounts | 2 administrators, 2 handlers, 2 sessions, 2 secrets | a reset between the halves of a confirmation, two setups, two disablings |
| Enrollment | 1 token of 1 or 4 uses, 2 runs on 1 host, 2 requests, 4 agents, 1 fault | the last use raced for, a use burnt, an answer lost, an estate set late |
| Consensus | 4 agents on 3 machines of 2 estates, 1 digest, 2 paths, 3 rows, clock to 1, 1 ruling | a re-enrolled machine, a burst, a path outside a plugin, another customer |
| Ingest | 2 keys and a blank, bodies of up to 4, 2 handlers, cap 1, events cut at 2, 1 fault | both handlers insert one row, the cap cuts after failures and blanks, events are cut before they are counted |
| Limiter | quota 2, period 2, sweep every 3, clock to 6 | both edges of a window, a sweep inside one |
| Governor | 2 workers, rate 1, files of 2 and 5, clock to 3 | a file larger than the bucket, pausing given up |
| Upgrade | 2 goroutines, 5 releases, 1 failing call, 1 crash | a rename that fails, a crash between renames, unsigned, older, unreadable and broken releases |
| Provenance | 2 plugins, 4 files, 2 attempts, 2 faults, 1 scan on any cache | each way a manifest can be missing; the cache of an earlier scan is every initial one |
| Baseline | 2 files, 2 workers, channel of 1, 2 faults, 2 runs | a record cut by a crash, then compared |
| Forwarder | 2 producers, depth 2, 4 calls | eviction raced by the worker and by the other producer |
| Scheduler | 2 schedules, 2 hosts, clock to 4 in days of 2, 1 fault, 2 changes by operators | a second slot, a pause over a slot, a crash between mark and dispatch |
| Presence | 1 agent, silence after 1, repeat after 2 | every order of kill, restart, upgrade, report and retirement, without a bound on time |
| Containment | 6 findings, 4 actions, 3 pids, 2 events of the host | the circuit breaker, a protected process, a pid reused |
| Monitor | 5 directories in a tree of 3 levels and a guarded one, 4 files, 3 watches, 1 file to a sweep, 3 steps of the host | the budget runs out, a directory is made again before its end was read, a guarded one is made again, a tree is moved in or out and keeps its watches |
| Controller | 2 hosts at a time, 2 sweeps, 2 entries | a cut upload found by the next sweep; the theorem covers any inventory |
| Scan | 4 entries, 2 workers, channel of 1, batch of 2, 1 fault | the deadline in every state of walk and workers |

Runs that end in a violation document a disagreement between the code and what
it says of itself; `PROJECT.json` quotes the line for each.

| Run | What happens |
|---|---|
| channel_retire_crash | a console that stops after recording an uninstall never retires the agent |
| delivery_cut | 2000 findings of a batch are stored, none is reported as failed, the rest is forgotten |
| webhook_starved | ticketed artefacts keep their place in the selection and starve another |
| attested_ignored | the pack built from the console's answer has no index, counts as empty, and a scan honours none of its entries |
| bulk_hidden | of two bulk operations under one directory the second is dropped as a repetition of the first, with the files it names |

Other places where the code departs from its comments are modelled as they are,
and no property promises what the comment does:

* scheduled work is inserted approved and gets its date in a second statement, so
  a heartbeat in between takes it early (`CreateCommandAt`, `SetNotBefore`);
* an account enabled between the count of approvers and the approval does not
  stop a creator's own approval (`ApproveCheck`, `ApproveWrite`; `FourEyes`
  therefore assumes two approvers throughout);
* an uninstall deletes before it reports, as a newer comment in `uninstall` says
  and an older one denies (`Perform`, `PostOutcome`);
* an uninstall passes over a file for which os.Stat fails, whatever the reason
  (uninstall.go:58), and then reports "done ... credential and state removed"
  with the credential perhaps in place, though client.go:774 means to have ended
  that (`Removal`; `HonestOutcome` excepts `overlooked`);
* attestations of operators are not sent while the hosts agree on nothing
  (consensus.go:403), though the comment at line 425 has a human's word bypass
  what the hosts must first agree on (`VendorAttestations`);
* a queue above the body limit is refused whole at every heartbeat and put back
  whole (`Fits`; with BodyCap below Capacity `Delivered` does not hold);
* a full queue refuses the new detection, where requeue keeps the new (`Detect`);
* a delayed detection reopens a row resolved after it was made (`Seen`);
* a report between the bulk action's count and its update widens it (`BulkUpdate`);
* an artefact dismissed after its selection is still sent (`PostWebhook`);
* a group's severity is its alphabetical minimum, so an info finding hides a
  medium one of the same artefact (`GroupSeverity`);
* NextRunAfter goes from day to day by local time. A clock change that puts a
  local time on another day (one that skips midnight, or repeats times of two
  days) can make it pass over a day; `NextRunRight` and the theorem about it
  except zones with such a change (`CalKeepsDays`);
* agents of hosts without a name count as one host each, so a machine that
  enrolled twice votes twice (`ConVotes`; `ConVendorSound` excepts them);
* the run loop marks the liveness file alive once more after an upgrade or an
  uninstall marked it clean (`preRevived`), and what an unclean start found is
  lost when the next orderly end comes before it was sent (`preForgot`);
* a run that found its host's credential missing while another run was enrolling
  makes a second agent; a lost answer, or a save that failed, makes one more
  (`EnrIdempotent` counts runs and faults);
* two upgrades at once stage into one path, and the second's file is installed
  on the strength of the first's check (`upgOverlap`);
* a sweep cut off after clean reports counts its host as clean (`CtlRunEnds`,
  `CtlCounted`);
* containment: the breaker and a rollback end the run without the flush of the
  bytecode cache; a launcher's backup is overwritten by a second edit and the
  line is not compared again before it is commented out; a file put back has
  mode 0644; the health gate covers quarantined files only, blames them for
  whatever breaks the site meanwhile, and does not retry the move that restores;
* monitor: a write within two seconds of one that was evaluated is not looked at
  (`HandlePath`), a directory moved in is never watched (`HostMoveIn`), guarded
  directories are not walked when a nested one appears in a new one; a
  directory that is removed and made again before the loop read of its end is
  still in `byPath`, so addTree passes it over, and the late event then drops its
  entry: what is written there later causes no event (`MonWatch`, `HandleGone`).
  For a guarded directory it is so whenever it is made again, since its end takes
  the guarded branch and never reaches `remove` (`HandleGuarded`), though
  monitor_os_linux.go:166-170 counts on seeing it appear; and `remove` tells
  the index, not the kernel, so the budget bounds the index and the kernel may
  hold more watches (`MonWatchesAccounted`, monitor_linux.go:513);
* scan: a file that is there but cannot be stat'ed is passed over in the walk
  and counted nowhere (fsscan.go:212), though line 185 has the verdict degrade for
  what the walk cannot see (`ScanVisit`; `ScanCleanMeansAll` excepts
  `scanUnstat`); a file that cannot be read is counted in the statistics and leaves the
  verdict clean, though report.go says partial scans are not taken for clean
  (`Verdict`); a context that ends after the walk queued its last file leaves
  the file-system check ok (`ScanWalkEnds`); findings of a batch that the
  collector refuses are gone (`FlushPosts`);
* baseline: a context that ends after the walk is not noticed either, so an
  incomplete record counts as complete and files that were not hashed count as
  removed (`BaseSafe` excepts such runs); an unreadable file counts as removed;
  the record is truncated before it is written, and a later run compares with
  what a crash left of it (`BasePrefixes`);
* provenance: files in the core's root are expected but not covered, plugins
  without a readable version, or beyond the limit, are left out without a word,
  and a body that begins like JSON but is none stays in the cache for its
  lifetime (`ProvHeals` excepts it);
* YARA: a rule whose name begins with int or uint, or is entrypoint, cannot be
  referred to, though rule.go:314 calls it a reference (`YaraMisread`;
  `ParsedAsMeant` expects the refusal); the prefilter knows only the plain form
  of a string that is also looked for wide, and does not see the blanks a comment
  was replaced by, so a rule that matches through either may be skipped
  (`GateKnows` excepts them); counts and
  offsets stop at 64 matches; an empty indicator of a pack maps to the first
  pattern.

Each passing property has a mutant: a definition of the model changed the way a
bug would change the code, under which TLC finds the property violated.

## Fairness

Fairness is assumed of what the code's own loops do: the ticker of `Client.Run`
beats and flushes (one flusher is enough; an upgrade's need not), `execute`'s
goroutine goes on, an HTTP client times out, the
console serves what it accepted, its webhook ticker fires, a supervisor restarts
the agent, time passes. No person is assumed to do anything. Failures are bounded
by `MaxFaults`: "in the end" means after the last of them.
`DispatchedCompletes` is checked without faults because a crash while working
leaves a row `running` for good, and a lost heartbeat response leaves it
`sent`; the code has nothing that would repair either.

In `MCProgress` each component has the fairness of its own specification, for
the behaviours it runs in. All of it is weak, with one exception:

* forwarder: a producer inside enqueue goes on, and so does Close; the worker
  takes its steps only once Close was called, since enqueue must return even if
  the worker is stuck in a write. Backoff and write have time limits in the code;
* scheduler: the pass goes on and a console that stopped is started again;
* presence: time passes and the watchdog checks. A report is stored, and a beat
  gets through, infinitely often if tried infinitely often: strong fairness,
  because either may fail any number of times in between;
* containment, monitor, controller, scan: the one loop, or each goroutine, goes
  on; a host that hangs is cut off by its timeout (run.go), a write that was
  opened is closed, time passes.

## Proofs

For every value of the constants that satisfies the modules' assumptions:

| Theorem | Property | Argument |
|---|---|---|
| TypeCorrect (channel) | TypeOK | one lemma per group of actions |
| ExecutedAtMostOnce | AtMostOnce | `HandInv`: a command in a response is `sent` and has no goroutine; a goroutine implies a dispatched row; a final result implies a finished goroutine; work not begun has count 0 |
| EndedStaysEnded, StaleNeverDispatched | TerminalIsFinal, NoStaleDispatch | `Moves`: the few moves a row can make in any step, and what each presupposes |
| DestructionIsApproved | HumanApproved | `ApprovalInv`: a destructive row past pending has an approver; with `HandInv`, work presupposes such a row |
| NobodyApprovesTheirOwn | FourEyes | `EyesInv` covers approvals checked and not yet written |
| ContainmentNeedsTwoKeys | TwoKeys | `KeyInv`: a containment row exists only where the console permits it, and work only where the host does |
| ReportsAreHonest | HonestOutcome | `OutcomeInv`: done in a goroutine, a message or a row means worked, or an uninstall that overlooked the credential |
| ChannelImplementsLedger | ImplementsLedger | each step maps to a ledger step, from all of the above |
| TypeCorrect (delivery) | WellFormed | inductive together; lemmas on the elements of appended, joined and cut sequences |
| NothingJustGone | Accounted | `DeliveryInv`: a waiting client's batch is its handler's, it waits for one handler, a handler without failures stored all it went through |
| TriageIsKept | TriageStands | case analysis of the steps that write a row |
| DeliveryImplementsLedger | a conjunct of DeliveryPromises | `LedgerInv`: the queue and the batches under way have each detection once between them and handlers only what was detected; with `DeliveryInv`, what leaves the agent is stored or admitted as lost, and a settled detection is nowhere it could come back from |
| ReturnSparesTheQueued | the other conjunct | the overflow of the joined queue is no longer than the returned batch, because what is queued is within its bound |
| TicketsAreBounded, DeliveredIsReal, DeliveryIsFinal | NoTicketLoop, DeliveredWasReceived, TicketedOnce | `TicketInv`: what a claim lets the goroutine rely on until the row is marked, also when the webhook is deleted meanwhile |
| WebhookTyping | TypeOK | `TypeInv`: and a pass that is past its selection works for a webhook that exists |
| ForwarderPromises (FwdSafety, FwdGivesUpForCause) | FwdPromises | `FwdInv`: the queue is an unbroken run of numbers that ends with the last accepted, what the worker holds comes before it, what the collector read before that, and a torn connection is never written to |
| ForwarderImplementsQueue | a conjunct of FwdPromises | each step maps to a step of `MessageQueue` or to a stutter; by `FwdInv` what is held is in order, so what is appended is the next number and what is delivered the head |
| AccSafety | AccSafe | `AccInv`: what a handler that was admitted has read still holds, or its user is in `accRaced`; a session marked as signed in began after the last reset |
| ConsensusPromises | ConPromises | a sighting is never later than the clock nor before its first; what an estate is told, attestations included, is a function of its own rows |
| ScheduleKept | SchPromises | `SchInv`: what fired lies before next_run and before everything the pass still has on its list, unless a resume raced it; a firing in hand has a command or a turn to come for every host, and one undated command at most |
| NextRunIsLater, OffsetInWindow | | from the definitions, for every zone and weekday, and every window; ScheduleKept rests on the first |
| NextRunIsTheNext | `NextRunRight`'s equation | a zone that keeps days puts each firing on the day it is looked for, days come in order, and of eight days in a row one has a weekday that was asked for and a firing still to come; so the first hit is the least of all |
| OutliersStandApart | `OutliersRight` | the middle of the sorted times has half of the files before it at most and more than half not after it; being newer than it by the gap and being so of half the directory are then the same |
| LateWritesAreNamed | `RuntimeWritesRight` | by cases of none, few or many |
| AppendedTagIsRead | `AppendedIsRead` | what is read ends with the file's last bytes, and a tag inside one part is inside the whole |
| UncleanIsTrue | PreUncleanTruth | `PreInv`: a file that says alive, of an agent that is off, means it was killed or its record was revived |
| EnrSafety | EnrSafe | `EnrInv`: requests and agents of a token are at most its consumed uses; agents and open requests of a host without a credential are at most its runs that wait and the faults |
| IngSafety | IngSafe | `IngInv`: of the findings before the one in hand, those accepted, failed and blank add up, and a body of events is the first of what was sent, up to the cut; each accepted one is in the table and with the forwarder; rows are never deleted |
| LimitsAlwaysHold | LimitsHold | `LimInv`: of the times a key was admitted, the last n lie in its window, and those two quotas back more than a period before; `GovInv`: the worst stretch of reads and what the bucket still covers are a bucket, and what a worker paused stays within its allowance |
| RecordsAlwaysTellTrue | RecordsTellTrue | `ProvInv`: an artefact with a manifest is covered or among the failures once its fetch is over, and without a fault nothing fails; `BaseInv`: a file nothing happened to is hashed as it is, or is queued or in a worker's hand |
| UpgradePromises | UpgPromises | `UpgInv`: where an upgrade that is alone stands says what it has made of the three paths; what they hold is signed or was there, whoever overlaps |
| HostsAreKept (CtlSafety, ContainmentActsRight) | HostsKept | `CtlInv`: the new file of an account that one entry has to itself is whole from the end of its upload to the rename, and the agent is whole from there on; `ContInv`: who is about to be signalled is who was found or was swapped in between, only the process in hand is frozen, and what of the payload runs was running at the scan |
| ScanReportsTruly | ScanSafe | `ScanInv`: each file is in one place from the walk to its end, what is in none is counted, could not be stat'ed or the context ended, and each finding is in the sink once or still with its worker |
| MonitorCovers, MonTyping | MonSafe; the monitor's part of ProgressTypeOK | `MonInv`: index and kernel differ only in directories whose end the loop is still to read, in those moved away with their parent and in guarded ones (`MonIndexUsed`), and no directory there is watched without the index; below a watched directory everything is watched, announced, in the walk or given up; a file is seen as it is, or a write, a sweep or a creation above it is to come |
| ProgressTyped, SafetyTyped | ProgressTypeOK, SafetyTypeOK | the types and bounds of the components, each from its own invariant |

The safety properties are hardly ever inductive: that a second response for a row is
impossible, that an acknowledged batch was stored, that a use is not spent twice,
that a slot does not fire again, that a write will be seen, or that a count is
right, follows only from how messages, goroutines and handlers relate to the
tables, the queues and the clock. The invariants above say that relation, place
by place; each holds on the runs' instances, too, where a counterexample is cheap. `FourEyes`
is an implication over the whole behaviour (if two could approve all along, ...);
without that premise the code does not guarantee it. ScheduleKept, UncleanIsTrue
and the other theorems about a step follow from the invariant in the state before.

In `safety` and `progress` only one component moves at a time. The theorems are
about the components' own specifications, or their conjunction: they need no such
restriction, and cover every instance of the constants.

The theorems assume what the modules' ASSUMEs say of the constants: bounds are
numbers, capacities positive, markers distinct from the values they mark, runs
of the installer finitely many, bodies finite sequences, trees walked once, and
the monitor's directories below ones that stay. TLC evaluates these in every run.

Only model-checked: everything under fairness (ApprovedMovesOn,
DispatchedCompletes, UninstallRetires, Delivered, Ticketed, ConsoleGetsThere and
HostWorkEnds), which is beyond the proof system; and FunctionsAgree as a whole,
most of whose functions are recursive over their input or fold over a sequence.
Of the pure functions `NextRunAfter`, `AgentOffset`, `DetectMtimeOutliers`,
`DetectRuntimeWrites` and `ProbeHeadAndTail`, which are not, have theorems: for
every zone, directory, tree and file they say what a part of FunctionsAgree says
of the questions asked.

## Plan

Done: the components above, each with its safety and, where it promises any,
its progress; the ledgers of commands and of findings and the forwarder's queue,
with their refinements; a theorem for every safety property of every run, except
the pure functions that are recursive.

Left: the commands that Scheduler creates running in CommandChannel. The two meet
in `CreateCommandAt` and `SetNotBefore`, which both model, and are checked apart.

## Not modelled

* Host probes (`osp_linux.go`, `net_linux.go`, `memory_linux.go`,
  `container_linux.go`, `proc_linux.go`, `attribute_linux.go`, `oom_linux.go`):
  reads of /proc and the file system turned into findings, one pass, no state.
* The scores of `heuristic.go`, folding and decoding in the PHP analysis, the
  database scan and the WordPress checks: computations on text whose outcome is a
  finding; in `Scan` an engine finds something in a file or does not.
* The text of YARA files and rule packs, hex syntax, regular expressions: the
  models begin at tokens and at the offsets of matches.
* Cryptographic primitives (`sign`, `authn`): a signature is right or not.
* Administration of webhooks and the wording of messages; login lockout; rotation of
  output files and syslog lines; rendering of reports; command lines and pages;
  read-only queries. They have little control, or none that others depend on.
* The kernel's limit on queued inotify events, which the monitor does not handle.
