# DIODESHIELD: a TLA+ model of the running system

DIODESHIELD is a network intrusion detection system in one Python process: a
capture thread sniffs packets, a worker thread decodes them and runs the
detection pipeline, HTTP endpoints do the same for events posted to them, alerts
go to an SQLite database as an evidence chain, and web pages hear of them.
A separate program trains the models that the pipeline loads when it starts.
This directory models the parts whose correctness depends on order, threads,
failures and time, checks them with TLC, and proves the main results with TLAPS.

Paths below are relative to `src/diodeshield/`, or to `src/` for `training/`. `PROJECT.json` lists every run,
the source lines of every definition, and the hazards the properties are for.

## 1. The system

| component | state | operations | used by |
|---|---|---|---|
| evidence chain, `integrity.py` | `sequence`, `previous` of one `HashChain` | `append` (with `_sync`); `verify_alert`, `verify_chain` for the audit | pipeline |
| persistence, `db.py` | SQLite tables; a lock around each statement | `save_alert` (two INSERTs), `save_incident`, `verify_integrity`, queries | pipeline, API |
| pipeline, `pipeline.py` | `latest_health`, subscribers, the objects below | `ingest`, `process_window`, `_finalize_and_save_alert` | capture worker, `POST /api/ingest`, `cli --capture` |
| live capture, `capture/sniffer.py` | stop event, two threads, a bounded queue, counters | `start`, `stop`, `_capture_loop`, `_process_queue_loop` | API |
| flow tracker, `flow_engine/tracker.py` | active flows, list of completed flows | `process_event`, queries | pipeline |
| sliding window, `ingestion/window.py` | deque of events, `last_emit`, set of keys | `add` (`flush` is never called) | pipeline |
| detection engine and correlation, `detection/engine.py`, `correlation/correlator.py` | active correlations | `analyze_packet`, `correlate` | pipeline |
| persistence counter and cooldown, `risk.py` | `counts`, `last_alert` | `observe` | `process_window` |
| behavioural detector, `detection/behavioral/detector.py` | per-host lists of connections | `process_event` | engine |
| threat intelligence, `threat_intelligence/client.py` | cache, Tor list, rate limit | `check_ip` | engine |
| API and broadcast, `api/main.py` | the global capture object, subscribers' queues, `last_known_seq` | `publish`, `_watch_db_alerts`, capture endpoints, websocket | clients |
| training, `training/` | dataset file, artifacts and reports in a directory | `train_production`, `train` (synthetic), `split_rows` | an operator, at any time |
| model loading, `models/adapters.py`, `ml/manager.py`, `startup.py` | adapters of each branch, a second copy of one model | `enabled_adapters`, `save_provenance`, `MLModelManager` | start of the service |
| signature rules, features, decoders, firewall, settings, monitoring | none that lasts, or none shared | pure functions, I/O | the above |
| alert dispatcher, `alerting/dispatcher.py` | a queue and a second `HashChain` | never instantiated | nobody |

How they interact. `DetectionPipeline.ingest` is a plain call, made by the
capture worker and by the threads of FastAPI's pool. It calls, in this order,
the flow tracker (its own lock), the packet-level detectors, among them threat
intelligence (a lock, released around its requests), and the sliding
window (no lock). Each window due goes through `process_window`, where the
persistence counter decides (no lock). Every alert found passes through `_finalize_and_save_alert`:
`HashChain.append`, `save_alert`, `save_incident`, then the subscribers, one of
which is the API's `publish`: it asks the event loop, queue by queue, to hand
the alert to the websockets. A watcher in that loop looks at the newest row of
the table once a second and publishes what another process has stored. Nothing
serialises two calls of `ingest`. The trainer and the service share only files:
the trainer writes them in place, the service reads whatever it finds.

What is hard here:

* **Threads.** `HashChain`, `SlidingWindow`, `PersistenceEngine` and the global
  capture object are shared and unlocked. `start` and `stop` can race.
* **Partial failure and restarts.** An alert is stored by four statements and
  the head of the chain also lives in memory; any statement may fail and the
  process may stop between two of them.
* **Order.** Events carry their own timestamps and come late, twice and with
  jumps; windows, flow expiry and the audit all depend on order.
* **Time.** Cooldown, cache, list age and rate limit compare clock readings made
  before a lock is taken or a shared value is read.
* **Limits and timeouts.** A queue of 1000 packets, `get` with 0.2 s, `join`
  with 1 s, a list of 5000 flows, a set of 10000 keys, 100 alerts for each websocket.

What makes each modelled component correct:

* chain and persistence: the audit finds no break and accepts every untouched
  row; nobody hears of an alert that is not stored;
* capture: no packet is lost or handled twice unnoticed; `stop` ends the
  workers; queued packets are handled; "running" means capturing;
* window: complete windows, in order, no gap; no event missed, none twice;
* flows: one flow for each conversation, each packet counted once, expiry when
  due and only for a reason, a TCP state that follows from the packets;
* correlation: one alert per key and window, none lost, none out of order, and
  an incident as severe as its worst signal;
* persistence counter: an alert needs the required loud windows in a row, a
  source that stays loud is not silent for longer than the cooldown, and is not
  announced more often than that;
* threat intelligence: the rate limit holds; no answer, clean or malicious,
  outlives the news it rests on by more than the cache and the refresh allow;
* broadcast: what is published to a connected client is received, on its way or
  lost to its full queue; in order for each source; foreign alerts arrive;
* training and loading: only verified data is learnt from, splits are sound, a
  report is never ahead of its models, and what a finished run reports is what
  the next start serves.

## 2. Modules

| module | what it is |
|---|---|
| `EvidenceLedger` | what the chain promises: a log that only grows, announced after it is written, for as long as the writers keep to its rules |
| `EvidenceChain` | `HashChain`, the INSERTs, notification, failures and restarts; refines `EvidenceLedger` |
| `MCEvidenceChain` | adds the symmetry of threads and of window alerts |
| `AlertProofs` | proofs about `EvidenceChain` and `AlertStream` |
| `CaptureLifecycle`, `CaptureProofs` | capture: controllers, sniffers, workers, queue; proofs |
| `SlidingWindow`, `SlidingWindowProofs` | the window, with several threads inside `add`; proofs |
| `FlowTracker`, `MCFlowTracker`, `FlowProofs` | flows; a set of events for TLC; proofs |
| `AlertFilter` | what the correlation engine promises: a filter that never forgets a key |
| `Correlation`, `CorrelationProofs` | signals, incidents, cleanup, alerts; refines `AlertFilter`; proofs |
| `WindowRisk`, `MCWindowRisk`, `WindowRiskProofs` | `observe` and the rest of `process_window`, with several threads and a clock; symmetry; proofs |
| `ThreatIntel`, `MCThreatIntel`, `ThreatIntelProofs` | `check_ip` with several threads, failing feeds and a clock; symmetry; proofs |
| `AlertStream`, `MCAlertStream` | from a stored alert to a websocket, and the database watcher; timestamps for TLC |
| `DatasetSplit` | which datasets are accepted and how they are split (operators only) |
| `ModelTraining`, `MCModelTraining`, `ModelTrainingProofs` | the trainer's gates and files, and the service that loads them; extends `DatasetSplit`; datasets for TLC; proofs about both |

Operators introduced by a comment "Mutant of X" are faulty versions of X. No
specification uses them: putting one in the place of X makes a property fail,
which shows that the property can tell the code from a plausible mistake.

### Size of a step

The code needs Python 3.11 (README.md of the repository). That interpreter
switches threads only at calls and at backward jumps, so statements without
either between them are one step. In `HashChain`, lines 105 and 106 are two
steps (each makes a call), 112-113 and 115-117 are one each. One SQL statement
is one step because `Repository` holds a lock around it. `SlidingWindow.add` is
cut after each call and each loop iteration that touches the shared object. `FlowTracker.process_event`
runs under the tracker's lock and is one step. `Correlation` takes one step for each
signal, with the lock held. In `CaptureLifecycle` each
check of a thread, assignment to shared state, queue operation, thread start and
join is a step.

In `WindowRisk` a switch is possible at the three calls of `observe`; counting and
comparing is one step, since neither makes a call. In `ThreatIntel` every
reading of the clock, every stretch under the lock, every request, the check of
the list's age and the membership test is a step. (Line 41 of `client.py` reads two
fields and calls nothing in between, so it is one step.) In `AlertStream` the snapshot of the queues, each
`call_soon_threadsafe`, and each callback of the event loop are steps.
In `ModelTraining` opening and closing each file are steps, and loading each branch.

### EvidenceChain

`rows`, `evidence`, `incidents` are the tables; `chain` is the shared `HashChain`;
`pc` and `local` hold the position and local variables of each thread in
`_finalize_and_save_alert`; `health` is the version of `latest_health`, a dict that
window alerts embed and `ingest` keeps changing. `Observe` and `Raise` start an
ingest; `QueryHead`, `QueryFails`, `AdoptSequence`, `AdoptPrevious`, `Link`, `Digest`,
`Stamp` are `append`; `InsertAlert`, `InsertEvidence`, `SaveIncident`, `Notify` follow;
`StatementFails` ends the call with an exception; `Restart` is a crash. The INSERT
into alerts replaces a row with the same id: `Kept` is what it leaves of the table.
`stale` and `calm` are history. `stale` says that memory may hold a head
that is not the newest row's: after a failed INSERT, whose digest is the head in
memory and in no row, or a restart that could not read the table. `calm` is lost
when a thread enters while another is inside, or when a thread takes the head
from stale memory because the read fails or finds no row.
A digest is the sequence of payloads it commits to: SHA-256 is taken to be
injective. `Payload` is what is hashed and `Stored` what the columns give back;
packet-level alerts have keys without a column, window alerts have not. `Precedes`
is the order of the audit's sort, which is stable on equal numbers.

### CaptureLifecycle

Sniffers and workers are numbered in the order of creation, and the attributes
`_capture_thread` and `_worker_thread` are the last numbers: two racing starts
can therefore start each other's thread (`StartRaises`). A worker's loop is
`WorkerCheck`, `WorkerGet` or `WorkerTimeout`, then `WorkerProcesses` or `WorkerFails`. A
sniffer asks the stop filter only for packets that arrive (`AskFilter`), so it
outlives `stop` on a silent interface. `join` gives up after one second, that is,
`JoinSniffer` and `JoinWorker` may always go on.

### SlidingWindow

`seen`, `events`, `lastEmit` are the shared object. The deque is a set of
arrivals: `sorted` puts it in order of time and nothing depends on the order of
events of one moment. A window is "emitted" when `add` appends it to its result.
Of the set `seen`, trimming keeps an arbitrary subset: the order of a Python set
says nothing about age. `StoreRaises` is the IndexError of `ordered[-1]` when
another thread has emptied the deque.

### FlowTracker

A flow keeps the numbers of its packets where the code counts them, so the
properties can say which packets were counted. A key is the canonical pair of
endpoints and the protocol. `ProcessEvent` is the whole of `process_event`, the
cleanup it may trigger included. `completed` holds the flows whose place in
`completed_flows` follows from the time they ended and the order they were
created (`After`).

### Correlation

Every thread is in one call of `analyze_packet`: `Called` (the signals are collected
and `correlate` reads the clock, before it asks for the lock), `Acquire`, then `Merge` or
`Open` for each signal, `Finish` (the cleanup, if due, and the release of the
lock) and `Report` (`_format_and_correlate`, without the lock). The signals of a packet are a
free choice among those the layers can give together: one source, the layers in their order,
the severities each layer uses. `Tick` is the wall clock. It does not pass
`now` + `MaxDelay` while a thread is on its way, so `MaxDelay` is how old a `now` may get.
`opened`, `published` and `seen` are history: every incident ever opened, the order of
reports, and when each key last had a signal, whether it is still active or not.

`DelayAssumption` asks that a window and a delay fit into the retention of 60
seconds, and two delays into a window. With the default window of 10 seconds a thread
may take 5. The settings put no limit on `dedup_window_seconds`: with more than
60 the cleanup forgets keys whose window is still running.

The code does two things that the README of the repository does not lead one
to expect (README.md:108, "Combines signatures, behavioral anomalies, and threat
intelligence matches for the same host into correlated security incidents").
The category is part of the key, and no two layers share a category, so an
incident never has two methods and `"Multiple Detection Methods"` (`engine.py:142`) cannot
occur. And an alert is a copy made when the incident is opened: later signals
raise the count and the severity in memory only, no alert or row follows them.

### WindowRisk

`counts` and `lastAlert` are the two dicts of `PersistenceEngine`; `thread` is the
window a thread has in hand. `Begin` enters `observe` with a free choice of
score and level (`RiskEngine.evaluate`) and reads the clock; `Count`, `Look` and
`Suppress` or `Announce` follow; `Dismiss`, `Save` and `SaveFails` stand for the
rest of `process_window`. `windows` and `decided` are history: every window of a
source in the order it was counted with what became of it, and every decision
for an alert with the number of decisions that were there when its call began
(`before`) and whether the call met no other of its source so far (`alone`).
`datetime.min` is a moment so early that the cooldown is over (`Never`).

### ThreatIntel

`cache`, `tor` and `stamps` are the fields of `ThreatIntelClient`, `config` says
whether a key is configured and the Tor list enabled. A call is `Begin`, `Hit` or
`Miss`, `ReadClock`, `CheckAge`, `Fetch` or `FetchFails`, `StoreList`, `Member`, `Query`,
`LimitRefuses` or `LimitGrants`, `Replied` or `RequestFails`, `Keep`. Scores are
read against their threshold. A verdict carries the moments at which its feeds
were read or asked in vain.

### AlertStream

`StoreHere` and `StoreElsewhere` store an alert, in this process or another, under any of
the `Numbers` it may get. `HashChain` promises none: another thread may put `sequence` back
(`integrity.py:105`) after this one has read the newest row, several may raise it
before one of them reads it, a failed INSERT leaves it ahead of the table and a
failed read behind. `place`, a history variable, is the order of storage, and
`Sooner` the order in which a client should get the items of one source: a
thread's by place, the watcher's by number. `Recorded` are the alerts that
are stored. `Snapshot` and `Schedule` are
`publish`; `ready` is the list of callbacks of the event loop and `Put` the
callback, with its three outcomes; `Watch` is a round of `_watch_db_alerts`, which
publishes to all queues in one step (`PublishAll`), in an order that `Orders` leaves open;
`Connect`, `Take`, `Sent` and `Disconnect` are a websocket. The history of a
client ends with its connection. `publish` has another branch for a loop that
does not run; it is left out, since no websocket is connected then. `Got` is what reached its queue, `Line` that and
what is scheduled for it.

### DatasetSplit and ModelTraining

`Ordered` gives the order in which `split_rows` cuts: by time, by group or
interleaved by class. The interleaving computes in double precision: `Rounded` is
`int(k * ratio)`, `Below` names the cases in which it comes out one too low, and
`Interleaves` says when the loop ends. A trainer is `StartProduction` or `StartSynthetic`, the
gates (obtain, hash, read and split), `Train`, then one branch after the other in
the order of `Trained` or `TrainedInLab`. The trainer's state holds the numbers of the branch
and of the file in it, and whether that file is open. A branch without its
library is left out (`SkipBranch`); each file of the others is
`OpenFile` and `CloseFile`, or `WriteRaises`, or `WriteSwallowed` where the code
passes over the error; `provenance.json` and the report follow. A file knows the run that wrote it and whether it is
whole; `provenance.json` names no run. The service loads branch by branch,
`service.next` being the place in `enabled_adapters`
(`Load`, `LoadNames` and `LoadWeights` for the LSTM, `LoadManager`), and an
adapter knows the run it came from, and for the LSTM the run whose column names
it uses. Fitting, thresholds and metrics leave no trace in the model: they are
floating-point functions of the rows. Whether the file on the disk is what the
manifest's digest says is `data`: absent, partial, right or wrong.

## 3. What the runs show

| run | question | answer |
|---|---|---|
| `chain` | two threads, together or one after the other, all faults | notification follows storage, links never name a digest that competes with a stored one; while calm, no break, window alerts verify, and the ledger is implemented |
| `chain_fork` | two threads, no fault | **violated**: both link to the same row |
| `capture` | two controllers race, with fairness | every packet in exactly one place; stop ends the workers, the queue drains |
| `capture_idle_restart` | start, stop, start, no traffic | **violated**: "running" without capture |
| `window` | two threads, late, repeated and distant events | complete, in order, nothing missed as long as calls do not overlap; no gap and nothing twice even if they do |
| `flow` | two conversations, any order of events | a flow under the key of its packets and no second one, counted once, cut for a reason, expired in time, state from packets |
| `correlation` | two threads, old times, cleanup | alerts of a key spaced and in order, highest severity kept, decisions as of a filter that never forgets |
| `risk` | two threads, windows of one source, lost alerts | alerts need the row, silence is no longer than the cooldown, only calls together in `observe` break it |
| `intel` | two threads, feeds that change and fail | the limit holds; clean and malicious answers expire |
| `stream` | two threads, another process, a short queue, clients that leave, numbers that repeat and fall | nothing vanishes, order by source, foreign alerts arrive |
| `training_groups` | a dataset with groups | **violated**: a cut leaves a group on both sides |
| `training` | two training runs with crashes, failed writes, broken downloads; a service at any moment | verified data only, sound splits, no report ahead of its models, the last finished run is served |

The three violated runs are findings, explained in `PROJECT.json` with the text they
disagree with.

### Bounds, and why they are enough

* Chain: two threads and three alerts, two of one kind and one of the other. A
  fork needs two threads and two alerts; the third lets a row follow the fork, or
  follow a failed one after which memory is stale. Each alert is raised at most
  once, as each draws a uuid. `MaxHealth` 1 lets the health dict change once, before
  or after any row is hashed. In `chain_fork` two alerts are enough.
* Capture: two pairs of threads, so that a new pair meets an old one (`Starting`
  reserves a start its worker, so that the bound stops no call halfway); a queue of
  one, so that it is full with one packet waiting; two packets, one of which is
  dropped or handled while the other waits.
* Window: three calls, three moments (0, 4, 16) with size 8 and slide 3: 4 is
  inside the window of 0, 16 makes several windows due at once and puts 0 beyond
  the cutoff; two keys fill `seen` and the third makes it be trimmed. The
  timestamps repeat for duplicates. Size and slide are not multiples of one another.
* Flows: four events, of a conversation seen both ways and of one with equal
  endpoints; times on both sides of the idle timeout (5), the active timeout (10)
  and the cleanup period (2); a list of one completed flow. Four events are a
  flow that expires, its successor and a packet in between.
* Correlation: two threads, three calls with up to two signals each, of a category
  with two severities and one of another layer. Window 2, retention 3 and delay 1 meet
  `DelayAssumption` with equality. Time runs to 6, so that an incident can be
  opened, dropped by the other key's cleanup at 4 and looked for with an old time.

* Risk: two threads, four windows of one source, two in a row required, cooldown
  3, delay 1, time to 4: a row, a second alert after the cooldown and one inside
  it, each with the other thread at any point of `observe`. Sources share nothing.
* Intel: an address that is looked up and one that is only listed (a list without
  the address is not empty), answers kept for 3 and clean ones for 2, refresh 2,
  minute 3, one request in a minute, delay 1. An answer that rests on the list may
  be TTL + refresh + delay = 6 old, so time runs to 7. With a key it runs to 5
  (`MCBound`), one more than an answer of AbuseIPDB may be old; the list does not
  depend on the key.
* Stream: two threads, one client, three alerts of which two have the same time,
  a queue of one. `MCNumbers` lets two alerts share a number, lets the numbers of
  a thread fall, and lets them rise by more than one. One client is enough since clients share only `ready`.
* Training: two runs, so that each finds what the other left; a service only once
  the last run has begun, as an earlier run may be refused at once; synthetic
  training, which reads no dataset, with none in place; files replaced by hand
  only between runs; one trainer at a time. Seven datasets: each way to split,
  too few rows, one class, and 26 rows of which 11 are positive, whose
  interleaving never ends. Kitsune, which differs from FFT only in the name of
  its file, is in the module and not in the run.

Bounds that only limit the exploration: `MaxHealth`, `MaxPackets`, `MaxThreads`,
`MaxCalls`, `MaxEvents`, `MaxBatch`, `MaxTime`, `MaxWindows`, `Horizon`, `MaxRuns`. Runs set CHECK_DEADLOCK FALSE because they stop at these
bounds, and a system without traffic may stop as well.

### Fairness

Two runs need it (`FairSpec`). In `capture` weakly fair are: the steps of each
worker, because the scheduler runs it and `get` returns after 0.2 s; a sniffer
that has a packet in hand or is asking its filter, because neither blocks
(`put_nowait`); and calls of `start` and `stop` in progress, because both joins
have a timeout. No fairness is assumed of packets or callers, nor of `sniff`.
In `stream` the watcher is weakly fair, since it wakes once a second, and so is
`Put`, since the event loop runs what was scheduled. Threads that publish and
websockets that read are not fair: a client may be slow for ever.

## 4. What is proved

Every theorem is about the modules above as they stand, for all values of the
constants that meet the named assumptions. The assumptions of the modules are
`ConstantsAssumption`, `CaptureAssumption`, `WindowAssumption`, `FlowAssumption`,
`CorrelationAssumption`, `RiskAssumption`, `IntelAssumption`, `StreamAssumption`,
`TrainingAssumption`, `ContractAssumption`, `SplitAssumption`: types, and sizes
greater than zero where the code would not work otherwise. `StreamAssumption`
asks that the watcher and the other process are not threads. `TrainingAssumption`
says that production trains each of the known branches at most once, xgboost
among them, and the synthetic training some of the same. `SplitAssumption` says
that five rows at least are asked for (the code asks for 20) and that `Rounded`
does not decrease with k; the latter is so because rounding to nearest and `int`
are monotone. `IntelAssumption`
also asks that no call of `check_ip` takes as long as the Tor list may be old
(an hour; its requests have timeouts of seconds). In `WindowRisk`, `ThreatIntel`
and `Correlation` the clock does not run backwards and a call is not held up for
longer than `MaxDelay`; both are assumptions about the machine.

**Evidence chain** (`AlertProofs`, first part). All theorems are for any threads and
any faults. `Durability` (notification follows storage) is not inductive:
`DurableInv` adds which tables already hold the alert a thread has in hand at
each step. `FreshInv` says that a thread that has yet to insert holds an alert that is
in no row, so that the INSERT replaces nothing (`InsertAppends`).
`UnbrokenChain`, `WindowAlertsVerify` and `ChainImplementsLedger` say what holds
while `calm` lasts. Their invariant, `ChainInv`, says that while calm at most one
thread is inside and, step by step, how the memory of the chain and the
locals of that thread relate to the last row: memory agrees with it unless
`stale`, and what the thread links to is its digest. For the refinement, `HistoryInv` adds
that the newest digest commits to the alerts of the table, in order, each once.
`chain_fork` shows that nothing of the kind holds once two threads are inside.

**Digests under concurrency** (`AlertProofs`). `LinksStayHonest`: for any
threads and faults, a row that links to a digest computed for a stored alert
links to the digest stored with it. `DigestInv` follows every digest in use, in
rows, in the chain and in locals, to the one thread that made it.

**Alert broadcast** (`AlertProofs`, second part). `StreamTypeCorrect`, and from one
invariant `SourcesInOrder` and `EveryItemAccounted`, for any threads, websockets
and queue size. `QuietInv` says that nothing is under way for a websocket
that never connected, so a connection starts with an empty history. `StreamInv`
divides the line of a client into what its queue saw and what is scheduled for
it, and says three things of it. `Accounted`: what was published is in the line,
was lost, or is held by the coroutine, and nothing lost is in the line. `Ordered`:
the line is sorted by `Sooner`, source by source. `SeenAt`: an item tells who
published it, no item of the watcher has a number above `known`, and all that a
thread published before was stored before the alert it has yet to schedule
here. The last is what keeps the line sorted when that alert comes.

**Capture** (`CaptureProofs`). `TypeCorrect` (the queue never exceeds its capacity)
and `NoPacketLost`, for any number of controllers and threads. `PacketInv` is
stated as a partition of the packets received and adds that threads not yet created hold nothing.

**Window** (`SlidingWindowProofs`). For any number of threads: `TypeCorrect`, `NoEventTwice`
(from `MemoryInv`: what was accepted is still remembered), `NoGap` (from `GridInv`:
`last_emit` and what each thread is about to emit sit on the grid of ends emitted so far).
For calls that do not overlap: `NothingEvictedEarly`, `OneSlideApart` and, if the
slide is at most the size, `NoEventMissed`. `TurnInv` says that one thread is in
`add`, that every accepted event that a window to come may hold is in the deque or
about to be appended, and where `newest` and `last_emit` stand.

**Flows** (`FlowProofs`). A lemma puts both outcomes of `process_event` into one
form: the flows as the event left them, of which a set of keys expires. From it:
`TypeCorrect`; `OneFlow`, by `KeyInv` (a flow is stored under the key of its own
packets); `PacketsCounted`, by `PacketInv` (which adds that flows count no packet to
come and that only active flows have not ended, so that a completed flow is never mistaken
for its successor); `NoCutWithoutReason`, by `Successive` (a flow ended for a reason and
its successors start later); `StateFromPackets`, by `TcpInv` (the state of every flow,
active or ended, is what its last packet with SYN, RST or FIN says, and the bare ACKs after it); `NoLateFlow`, by `Swept` (the last cleanup is recent and spared
only what was not expired). `NoCutWithoutReason` and `NoLateFlow` are about events
in order, for which the code is written.

**Correlation** (`CorrelationProofs`), under `DelayAssumption`. The invariant `IInv` joins
`TimeInv` (a thread's time is at most `MaxDelay` old), `KeyInv` (an active incident knows the
last signal of its key; a key without one was silent for longer than the retention; no
incident is more than `MaxDelay` younger than its key's last signal, which an old time can
move back) and `FoundInv` (each incident is reported by the thread that opened it
and nobody else). From it a lemma: when an incident is opened, the last
signal of its key is older than the window, forgotten or not. `NoAlertStorm` and
`EngineImplementsFilter` follow from that lemma, `ReportedInOrder` from `NoAlertStorm` and
the delay, and `HighestSeverity` from `KeyInv`.

**Risk** (`WindowRiskProofs`). `RiskTypeCorrect`, and from one invariant `IInv` the
three properties of the run. `CountsRow` and `FatesTrue` say that the count of a
source is the length of its present row of loud windows, and that windows were
told apart by it; from them `RiskAlertsSustained`. `PlacesHeld` says that a
thread knows the place of its window and that no other thread decides about it;
with `LastDecided` (the last alert's time is that of a decision, not in the
future) it gives `SuppressedCovered`, and so `RiskSourceNotSilent`. For
`RiskCooldownKept`, `LastBehind` bounds how far the time of the last alert lies
behind any earlier decision: at most `MaxDelay`, and not at all behind one whose
call was alone, for which `AloneTrue` says that no other call of its source was inside.

**Threat intelligence** (`ThreatIntelProofs`). `IntelTypeCorrect`; `IntelRateKept`
from `StampsTrue` (a stamp that is counted no more is a minute old, and a request
is let pass soon after its stamp was read); `IntelListingSurfaces` and
`IntelListingExpires` from `CallsGrounded` and `CacheGrounded`, which follow a
verdict from the feeds through the call into the cache. They need
`ListLabelled`: a slow thread may put an older list over a newer one, but the
list is labelled with a time before it was read.

**Splits** (`ModelTrainingProofs`, first part). `DatasetDivided`: whatever the rows of
a dataset that passes the gates, and whichever way it is split, every row is in exactly one of
three splits, none of them empty, and the split is sound for its kind. Each of the three
orders is total (`OrdersAreTotal`; for the interleaving this rests on `Rounded`
not decreasing), so the rank of a row is its place and `Ordered` permutes the
rows (`OrderedPermutes`); the splits are cuts of it (`SplitsAreCuts`). A temporal
split follows at once. For groups, the rotation gives no two groups the same
place (`GroupRankOneToOne`), so a group on both sides of a cut is the only one. For classes, the
first m rows of an interleaving hold the first of each class (`HeldAreFirst`).
The last negative among them precedes the first positive behind them, and the other way
round; therefore, with n rows of which P are positive and q positives among the
first m, n q - m P lies between 0 and 2 n (`HeldInProportion`), and a part is what
two such stretches differ in.

**Training** (`ModelTrainingProofs`, second part). A lemma, `StepKinds`, sorts the
steps by what they do to the trainer. From it `TypeCorrect`, by `PhaseInv` (a run in
progress is the last and is not ended; a dataset that is being read has the
manifest's digest) and `TurnInv` (the service between two files of the LSTM). `VerifiedData`
adds `DiskInv` (a run has written nothing before it has trained) and `DataInv` (a
production run that writes has learnt from verified data). `ReportIsLast` needs to know
how far a run is: `ProgressInv` says that the branches before the present one, and the files
before the present one in it, are on the disk in full and of this run;
`ReportedInv` says that with a report of the last run no model is written any more.
`ServedAsReported` rests on `ServiceInv`: for a service that started when no
file was left to write, every adapter loaded so far is what the disk would give
now, and the LSTM has the column names of the file that is there now.

`TypeOK` of the window, the flows, the correlation, the threat intelligence and
the risk is proved and not in their runs.

### Only model-checked

`StopEndsWorkers`, `QueueDrains` and `ForeignAlertsArrive`: liveness under fairness
is beyond the prover. Every invariant and action property that a passing run
checks is stated by a theorem.

## 5. Not claimed, and why

* With overlapping calls of `add` an event can vanish (one thread replaces the
  deque with a copy made before the other's append) and a window can come
  twice. This is a consequence of the unlocked object; the properties are
  stated for calls that do not overlap, and the model contains the overlap.
* After `seen` has been trimmed a duplicate can be accepted again (`window.py:43`
  keeps an arbitrary half). `window.py:11` calls the window tolerant of duplicate
  events; `AcceptedOnce` says up to which point it is.
* An event that is late by size - slide or more may be in no window.
* For events out of order a flow may be cut early: `last_seen` moves back.
* Events recorded before the tracker was built make no cleanup due
  (`_last_cleanup` starts at the wall clock, `tracker.py:113`): `ExpiryPrompt` is about flows
  that start after it.
* The row of a packet-level alert never verifies: it hashes keys that have no
  column (`db.py:108`). `WindowRowsVerify` is about window alerts.
* Two threads inside at once may break the chain (`chain_fork`), and so may a failed
  INSERT into alerts: `append` has moved the head in memory to a digest that is in no
  row (`integrity.py:115`), and when the next read of the newest row finds none (it
  was the first INSERT that failed) or fails as well, the next alert links to it. `calm` ends
  there. As long as the table has rows and the next read succeeds, the failure breaks nothing.
* A failed statement is taken to leave nothing behind. If `execute` succeeds and
  `commit` fails, SQLite may keep the change for the next commit (`db.py:100`).
* A chain number is not promised to rise from one alert of a thread to the next,
  nor to be new; the watcher passes over a row whose number is not above the last.
* `join` gives up after a second: a worker busy for longer may meet a new one, and
  both ingest, which is what `chain_fork` is about.
* Two calls of `observe` for one source that overlap may both announce
  (`risk.py:20`), and a slow one moves the time of the last alert back;
  `CooldownKept` says how far. An alert whose save fails silences its source for
  a cooldown all the same.
* A Tor list that cannot be fetched stays in use at any age (`client.py:58`);
  `ListingSurfaces` and `ListingExpires` then count from the failed attempt.
* The watcher publishes the newest row only, and takes the first row it ever
  finds for its starting point: other alerts of another process are skipped. A
  full queue loses its alert, and the exception ends in the event loop, not in
  the `try` around the call that scheduled it (`api/main.py:49`).
* A service that starts while a trainer writes may mix two runs;
  `ReportedModelsServed` is about those that start after it. What an LSTM training
  leaves that stopped between its two files falls back, or is used with the
  column names of an earlier run of the same width.
* A group may lie on both sides of a cut, though `dataset_contract.py:187` says that
  groups are kept intact: `training_groups`. `SplitSound` claims what remains: one
  group at most for each cut.
* `training/DATASET_CONTRACT.md:13-14`, `TRAINING.md:31-37` and the docstring of
  `production.py` (lines 1-6) say that training fails closed without a temporal or a group
  column, and `TRAINING.md:219` that rows are never split at random. The code accepts a
  manifest with neither column and then shuffles the rows of each class with a fixed
  seed and interleaves the classes (`dataset_contract.py:191-213`), which `MODEL_CARD.md:22` calls
  a "deterministic stratified split". The model contains this third kind of
  split (`by = "none"`), and `SplitSound` says what it gives.
* `MODEL_CARD.md:23-24` says that artifacts are written only after calibration, thresholds and
  test metrics have succeeded. The xgboost model is saved before its metrics
  (`production.py:183`), and each branch before the next is trained, so a run that stops
  leaves artifacts behind. `ReportBehindArtifacts` permits it: it says that the report
  comes last, and that is what a reader can rely on.
* A temporal split sorts timestamps as text (`dataset_contract.py:184`), which is the order
  of time only for formats that sort so; `SplitSound` speaks of the order of the texts.
* For some ratios of the classes the interleaving never ends
  (`dataset_contract.py:203`), 15 negatives and 11 positives being one. The model
  contains the loop (`ReadAndLoop`); `SplitSound` is about splits that come about.
* Part of a broken download keeps the dataset's name; every later run is refused
  until it is removed.
* `max_active_flows` is stored and not enforced, so there is no bound to check.

## 6. Not modelled

* Feature extraction, scores, fusion, explanations, the fitting of the models:
  floating-point functions without protocol state. Whether an alert is raised is a free choice.
* The behavioural detector: per-host lists under a lock of its own. What it can
  report is a free choice in `Correlation`; the lists themselves are left for later.
* `select_interface`, which replaces the global capture object, and that two first
  calls of `start_capture` at once may each create one (`api/main.py:232`), of which the
  second stays: the other runs on with nobody to stop it. `CaptureLifecycle` is about one object.
* Data collection (`collect_training_data.py`) and the dashboard: a script that
  makes synthetic rows, and a web page.
* Decoders, protocol parsers, signature rules: stateless functions of one packet.
* TShark capture, firewall, interface enumeration, monitoring: wrappers around
  external programs and the operating system.
* Settings, start-up, commands: no state that lasts. `cli --capture` is a second
  process on the same database; it forks the chain as a second thread does.
* `cleanup_retention`, `flush`, `analyze_window`: never called. `AlertDispatcher`: never built.
* Other tables (flows, assets, metrics, audit, feedback): independent writes of
  one statement.

## 7. Plan

Done: the evidence chain, the capture, the window, the flows, the correlation of
signals, the persistence counter, threat intelligence, the broadcast, and
training with the loading of models. Next, in this order:

1. `HostActivity`: the behavioural detector, pruning by event time under late
   events, and the host table that is never emptied.
2. `CaptureSelection`: `start_capture` creates and `select_interface` replaces the
   global capture object while `start` and `stop` use it.
3. Composition of `CaptureLifecycle` and `EvidenceChain`: the workers alive are the
   ingesting threads, and one worker at a time is what `calm` asks for.
4. Proofs about these, as they come.
