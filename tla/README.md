# A TLA+ verification of Tapio

Tapio runs an agent on every node. The agent loads eBPF programs that watch TCP
connections, block I/O, container deaths and performance counters, turns what they
record into occurrences and sends these to sinks, among them a controller. The
controller serves one compiled configuration to its agents and keeps in memory who
registered, which configuration each agent reports and which event batches came in.

This directory holds TLA+ models of those parts that run concurrently or can fail in
the middle, and of the sequential algorithms on the way of a configuration down to a node
and of evidence up from it, TLC configurations that check them on small instances, and TLAPS proofs
for every instance of what matters most. `PROJECT.json` lists runs, mutants, the
correspondence of definitions to source lines, findings, hazards and theorems.

## Inventory

| part | state | operations | what is hard | what makes it correct |
|---|---|---|---|---|
| config fan-out (`tapio-agent/src/observer/mod.rs`, `controller.rs`, `heartbeat.rs`) | registry of carriers, current config, ETag, active identity, PMC thresholds, one kernel map per observer | `register`, `update_all`, `poll_loop`, `fetch_once`, `apply_config`, `mark_applied` | the lock is released before the map writes; a write may fail; observers start at any time; the controller changes its profile | no carrier left behind; the reported identity never runs ahead of the fan-out; a served config is reached |
| node_pmc observer (`observer/node_pmc.rs`, `ebpf/node_pmc_monitor.c`) | ring buffer, thresholds channel | sample, drain | a sample is stamped in the kernel and judged later in user space | a cold agent emits nothing; TOML thresholds do not survive the first apply |
| registration (`registration.rs`, `heartbeat.rs`, `httpc.rs`) | task state, request in flight | `hello_once`, `heartbeat_once`, backoff | answers lost, requests served after their caller gave up, both sides restart | converged means applied; hello is retried; heartbeats catch up |
| controller registry (`tapio-controller/src/lib.rs`) | agents, last heartbeats, sequence tracking, totals | `register_agent`, `record_heartbeat`, `record_event_batch` | duplicates, reordering, saturating counters, nothing is persisted | losses show as gaps, repeats as regressions, and neither is forgotten |
| controller sink (`sink/controller.rs`) | bounded queue, buffer, batch in flight, sequence | `send`, `flush`, `drop`, worker loop, retries | full queue, deadlines racing acknowledgements, a failing batch among several | every event is delivered or counted as dropped once; a flush that succeeds decided its events; drop returns |
| batch splitting (`sink/controller.rs`) | none | `split_events_by_size` | incremental length accounting | equals the greedy cut |
| storage observer (`observer/storage.rs`, `ebpf/storage_monitor.c`) | LRU map of starts, ring buffer, counters | issue and complete programs, drain | programs on several CPUs, colliding keys, eviction, switching off in flight | a latency belongs to the request it is reported for |
| container observer (`observer/container.rs`, `ebpf/container_monitor.c`) | ring buffer, cgroup limit cache | `handle_oom`, `handle_exit`, drain, `enrich_memory_limit` | config torn while it is copied; pid gone or reused when the record is drained | verdict explained by a config; cache bounded |
| network observer (`observer/network.rs`, `ebpf/network_monitor.c`) | RTT baselines, ring buffer | three tracepoint programs, drain, `classify` | u32 and u8 arithmetic, restart of learning, keys reused by connections | mean between its samples; spikes and occurrences justified |
| observer loop (all four observers) | tick count, loss counter | wake, drain, stop | the ring fills as fast as it drains; counters read rarely | losses reach the metric; shutdown is seen |
| agent `main` | shutdown channel, task set | start, SIGINT, join | a task that never looks at the channel | shutdown completes |
| profile compiler (`tapio-profile`), config serving (`tapio-controller/src/lib.rs`), kernel words (`tapio-agent/src/config.rs`) | none | `validate`, `compile`, `config_response_from_compiled`, `tapio_config_from_compiled` | units and widths change three times; errors come one at a time; the crates write out the defaults separately | a node judges as the profile says; each repaired error leads on |
| wire messages (`tapio-wire/src/lib.rs`, `registration.rs`, `heartbeat.rs`) | none | build and validate hello, heartbeat, config query, batch | both ends validate; names come from the environment | an agent with names is never refused |
| stdout, file, http and OTLP sinks, `MultiSink` (`sink/*.rs`, `main.rs`) | two buffers, backoff, files | `send`, `flush`, `post_batch`, `export_batch` | several observers' threads fill and post one buffer; overflow; a failing sink among others; the last flush | an occurrence is decided once by each sink; a shutdown gets everything out |
| occurrence timestamps (`tapio-common/src/occurrence.rs`, `sink/controller.rs`) | none | `unix_nanos_to_rfc3339`, `timestamp_to_unix_nanos` | hand-written calendars, strings compared as times | strings compare as the times do, and are read back exactly |
| command line (`tapio-cli/src/main.rs`) | names seen, directory being read | `status`, `watch`, `recent`, `health`, MCP tools | reads a directory the agent writes to | `watch` shows each occurrence once; answers are not torn |
| metrics endpoint, JSON, event layouts | none | formatting | none | not modelled |

Interaction: the poll task writes the kernel maps the programs read and the thresholds
channel the PMC observer reads; `mark_applied` publishes the identity the registration
task puts into heartbeats; observers call the sinks through `MultiSink` on their own
threads, the controller sink posts to the controller, the file sink leaves files that the
command line reads; the controller's registry is only reached through its HTTP handlers. The
shutdown channel is read by every task.

## Modules

| module | models | composed from |
|---|---|---|
| `ConfigFanout` | poll task, observer start-up, carrier registry, identity, shutdown | |
| `PmcEvidence` | PMC sampler and drain | extends `ConfigFanout` |
| `SequenceTracking` | `update_sequence_tracking`, u64 saturation | |
| `ControllerRegistry` | the controller's state and handlers | extends `SequenceTracking` |
| `AgentRegistration` | registration task, HTTP calls, restarts | extends `ControllerRegistry` |
| `EvidenceDelivery` | controller sink, HTTP posts | extends `ControllerRegistry` |
| `BatchSplit` | the loop of `split_events_by_size` | extends `SequenceTracking` |
| `AgentSinks` | `MultiSink`, the four local and third-party sinks, the observers' threads | instantiates `EvidenceLedger` |
| `EvidenceLedger` | abstract: what the agent promises of occurrences and sinks | |
| `OccurrenceFiles` | the command line beside the file sink | extends `AgentSinks` |
| `ProfileCompiler` | profile to served config to kernel words to verdicts | |
| `OccurrenceClock` | timestamps: printing, parsing, comparing | |
| `WireMessages` | requests and their validation | |
| `Algorithms` | the sequential algorithms at work, with the references they are compared to | extends `BatchSplit`, `ProfileCompiler`, `OccurrenceClock`, `WireMessages` |
| `StorageMonitor` | block tracepoint programs and drain | |
| `ObserverLoop` | ring buffer, loss counter, drain cap, shutdown | |
| `ContainerMonitor` | death programs, torn config, limit cache | extends `ObserverLoop` |
| `NetworkMonitor` | TCP programs, RTT baseline, `classify` | extends `ObserverLoop` |
| `MC...` | values of the constants | |
| `...Proofs` | theorems and proofs | extend the module they are named after, except `ConfigFanoutProofs`: `PmcEvidence`; `ControllerRegistryProofs`: `AgentRegistration`; `AgentSinksProofs`: `OccurrenceFiles`; `EvidenceDeliveryProofs`: `ControllerRegistryProofs` too |

Definitions keep the names of the functions they model; a `Mutant:` comment marks a
deliberately wrong variant of the definition after it, used to show that a property can
fail.

**ConfigFanout.** A config is its content hash; `Unset` is the all-zero carrier, no ETag
and no identity. `register_lock`/`register_write` and `update_all_lock`/`update_all_write`
are the two halves of `register` and `update_all`, because the mutex is not held over the
map write. A poll that is answered 304, or with a config that is refused, changes
nothing and is a stuttering step; `fetch_error` is one that fails. Every map write may fail, up to a bound. A write to
the descriptor of an observer that has ended fails, or reaches the carrier of one that has the
number now. `failed` and `overlapped` are history: which carriers a write did not reach, and
which registration an `update_all` overtook.

**AgentRegistration.** One call at a time per agent: built, sent, answered or failed. A
call that times out after it was sent leaves a request behind in `stale` that the
controller may serve at any later time. `fetch_and_apply` stands for one whole poll of
`ConfigFanout`. The served hash changes only with a controller restart, since the
controller reads its profile at start.

**EvidenceDelivery.** Events are numbered; a flush travels through the queue as a negative
number. The worker takes one message, fills its buffer and flushes at the batch size, at
the interval (`recv_timeout`), for a flush call or at the end. A post is accepted, refused,
answered with a truncated body, not answered, or times out and is served later. Only the
batch limit that counts events is modelled here; the one that counts bytes is
`BatchSplit`. The model is about an agent that has a name: with a blank agent id or node
name every batch fails the sink's own validation (`sink/controller.rs:252`) and is lost
without being counted. `NamesDecide` says that nothing else makes a batch fail there.

**StorageMonitor.** Each map call of a program is a step, and so is each use of the pointer a
lookup returned (`ambiguous` with the config, `issue_ns`, the rest of the value), so that programs
on other CPUs come in between. The LRU map allocates its elements once: a deleted one is given
to the next update while a program may still point at it. A request completes as a whole or
in parts, whose sector and size make other keys. Requests carry the identity the tracepoints
lack, which is how the model knows that evidence is wrong.

**ContainerMonitor.** The config is copied by the agent and by the programs in words of eight
bytes, in ascending order: of those it matters for there are the ones with the generation, with
the flags, with the count and the first code, and with two codes each for the rest of the list.
A word is the generation its bytes come from.
`resolve` reads the cgroup of whoever has the pid when the record is drained, and falls
back to init. An OOM record carries no cgroup, so `enrich_memory_limit` leaves it alone.

**NetworkMonitor.** A key is an address and port tuple, used by one connection after the
other. A transition happens under the socket lock, so a program is one step. Closing is one
transition. The arithmetic is the code's, modulo the constants `U32` and `U8`.

**AgentSinks.** `thread[o]` is where an observer's thread is: the call into `MultiSink`, the
sink it has come to, and the I/O it is doing there with which batch. What a sink does under
its lock is one step, every I/O call another, so that several threads post at once. `http`
and `otlp` share `send_locked` and `flush_locked`; they differ in the backoff (http: between
batches, the failed one is lost) and the retries (otlp: of one batch, with the thread asleep).
Time is counted in ticks up to the flush interval and the backoff.

**EvidenceLedger.** For each configured sink an occurrence is new, held, delivered or lost;
held comes after new, a decision is final, and at the end nothing is held and each occurrence
has been to all sinks or to none. `AgentSinks` implements it with `FateOf` as the mapping: an
occurrence in a buffer, in a batch some thread is posting or in a file being written is held,
one that is in two places at once has no fate in the ledger, so that posting it twice, losing
it after it was acknowledged or forgetting it is no step of the ledger.

**OccurrenceFiles.** The file sink creates a file and fills it in two steps. A directory
listing must return the names that were there when it began and may return later ones; files
are read one at a time, in any order. Sorting by timestamp leaves occurrences of one instant in
any order, so a list is one of a set of sequences and `Answers` is the set of what a command may
say of what it has read. `Setups` pairs a list of sinks with what runs beside the agent.

**ProfileCompiler.** Every function from the profile document to the kernel's words keeps its
units, widths and checks in order; `StorageVerdict`, `RttSpike`, `ExitReported` and
`PmcVerdict` are the tests the kernel programs and `node_pmc::classify` apply, so that a
profile can be compared with what happens on a node. Floats are whole numbers of `Fine`-th
parts of the unit they are compiled to.

**OccurrenceClock.** A timestamp string is the sequence of its fields; the fields before the
fraction have a fixed width and the fraction is groups of three digits, with `+` and `.`
sorting before digits as in ASCII. `to_rfc3339` is chrono's.

**WireMessages.** A string is blank or not; the facts of an event are the key paths of its
JSON.

**Algorithms.** `work` is the piece of work in hand. A loop of the code is taken turn by turn, one
step each: an event put into a batch (`split_turn`), an exit code checked (`check_turn`), a
document repaired and validated again, a day gone on to the next. What a loop has computed is
thus an invariant of a behaviour, which TLC checks and an inductive invariant can prove.

## Runs

| run | checks | bounds and why they suffice |
|---|---|---|
| `registry` | `LastSeenIsHighest`, `GapAccounting`, `LossSurfaces`; `TroubleNotForgotten` | one agent (entries of different agents share nothing), u64 cut to 0..5 so that saturation happens, five batches: a gap, its straggler, a repeat and a hello in one run, one restart |
| `fanout` | `TypeOK`, `NoCarrierForgotten`, `IdentityFollowsFanout`, `QuietAgreement`, `ColdStartEmitsNothing`; `TomlJudgesOnlyBeforeFirstApply`, `ServedConfigTakesHold`, `ShutdownCompletes` | two observers, one of them node_pmc, so that one registers while the other is being written; two configs of which one switches node_pmc off, and one that is refused; one change of profile, one failing write, one failing fetch |
| `registration` | `ConvergedHasApplied`; `HeartbeatsCatchUp`, `HelloSucceeds` | one agent, two hashes, two restarts and two lost answers: a request of the first life can be served in the third |
| `delivery` | `NoSilentLoss`, `FlushOkDecides`, `RegressionMeansRepeat`; `EveryEventDecided`, `DropReturns` | queue of two and batches of two against three events: a full queue and a flush of one full and one partial batch; one retry, two faults, one flush call, one restart |
| `storage` | `EntryOwnerInFlight`, `PairsNeverConfused` | three requests, two of them for one key, a map of two elements, so that they are used again, two switches, one eviction, a request in two parts, a ring of one; elements, and the two requests with one key, are symmetric |
| `container` | `TypeOK` (with the cap of the limit cache), `VerdictExplained`; `LossReported`, `ShutdownObserved` | one pid, reused, in two cgroups; two configs with lists of one code and of as many as the array holds, which is four, so that two codes share a word; a ring of one and a cap of one, so that every drain is capped |
| `network` | `BaselineBetweenSamples`, `OccurrencesAreFacts`; `SpikeIsJustified` | one key; RTTs none, below and above the floor; u32 cut to 64, u8 to 4; three configs of which two arm thresholds; one change, one eviction |
| `algorithms` | `SplitIsGreedy`, `JudgesAsWritten`, `CalendarRight`, `CutoffExact`, `NamesDecide`; `RepairMovesOn` | see below |
| `sinks` | `BuffersBounded`, `AnswersBracketed`; `KeepsLedger`, `SinksDrain`, `WatchShowsOnce` | see below |
| `registration_recovery` | `ReRegisters`, violated | one restart, no faults |
| `storage_triple` | `NoWrongEvidence`, violated | three requests for one key, a map of one element, nothing else |
| `container_torn` | `JudgedByPreviousOrNext`, violated | as `container` |

`algorithms` has one behaviour per piece of work. Splitting: every list of up to four lengths
out of four, limits at, below and above their sums. Profiles: every block alone with its
values at, below and above each bound, and blocks with several errors at once; the operator
repairs what the error names until the profile is accepted. `NsPerMs` and `TwoTo64` are scaled
down, because TLC's integers have 32 bits, and `TwoTo32` is 2*10^9, which is tighter than the
code's and still above the product in the comment at `MAX_RTT_ABS_MS`; `Fine` is 10, a tenth of
a permille. Dates: every day from 1970 to the end of a u64 of nanoseconds (2554).
Timestamps: all pairs of instants at the edges of days, hours, minutes and digit groups. Names:
every environment.

`sinks` has two threads and, per setup, otlp alone, http before stdout (so that a failing sink
has another behind it), and file with `watch` or with queries beside it. Four occurrences and two
failing I/O calls, three and one (`ReaderEvents`, `ReaderFailures`) while something reads: a
buffer of one with `BufferFactor` two overflows during a backoff, batches of two are posted by
both threads at once, and an export is retried and given up. One cutoff (`Cutoffs`) has
occurrences on both sides of it; the lists show two of three.

Deadlock is checked in `registry`, `registration`, `delivery` and `registration_recovery`; the
others stop legitimately, when a bound or the work is used up or the agent has shut down.

What the properties say, beyond the comments at their definitions:

- `NoCarrierForgotten` shows that a reused descriptor never brings a carrier an outdated config,
  and that the mutex is enough to leave exactly two ways for a
  carrier to hold something other than the current config: a failed write and the window
  between `register`'s lock and its write.
- `GapAccounting` is an equation between four counters, so a batch that is counted twice,
  or a straggler counted as progress, breaks it whatever comes later.
- `NoSilentLoss` is conservation: events sent are held, delivered or dropped, nothing is held
  by a stopped worker, and the drop counter is the number of dropped ones. An event may be
  both delivered and counted as dropped, when the last answer was lost.
- `RegressionMeansRepeat`: the controller counts a regression only if a request was
  repeated or overtaken, never because the worker reused a number.
- `VerdictExplained` bounds what a torn read of the ignore list can do; the gap between it
  and the documentation is the finding of `container_torn`.
- `BaselineBetweenSamples` covers the order of increment and division, the restart above
  the floor and the refresh: a mean that mixes a stale count leaves the range.
- `ServedConfigTakesHold` is the end-to-end promise of config serving: once the controller
  stays with a profile, every agent that lives comes to report it, and every registered
  carrier whose writes work comes to hold it.
- `KeepsLedger` is the refinement described above. It shows that releasing the lock before the
  I/O never has two threads post the same occurrence, and that overflow loses each once.
- `BuffersBounded` shows as well that the OTLP sink's overflow branch is dead code: a buffer
  that reaches `batch_size` is taken at once, and only the http sink has a backoff that keeps it.
- `JudgesAsWritten` goes from the document to the verdict, so that a wrong unit, a wrap, a
  rounding that makes two thresholds change places, or a zero slot of the ignore list taken
  for exit code 0 would show. PMC thresholds move by up to half a permille.
- `WatchShowsOnce` excepts what the code does not promise: a file that `watch` finds before its
  content is there is skipped, and for good, since its name is already marked as seen.

### Fairness

`ConfigFanout`: weak fairness of each step of the poll task and of each observer task; the
tokio runtime keeps polling tasks that are ready and the interval keeps ticking. A fetch may
fail, but not for ever. Nothing is assumed of the controller or of SIGINT.
`AgentRegistration`: weak fairness of the agent's steps, of the serving of a received
request, and of the restart of a dead controller. Timeouts, crashes, and the serving of
abandoned requests are not fair. `EvidenceDelivery`: weak fairness of the worker thread and
of a post coming to some end (sockets have read and write timeouts). `ContainerMonitor`:
weak fairness of the loop's wake, drain and drain end, strong fairness of `stop`: the
`select!` is entered between any two drains, and a changed shutdown channel is ready at once
whereas the sleep takes 10 ms. Nothing is assumed of the kernel. `AgentSinks`: weak fairness of
time, of a call or an I/O call of a thread coming to some end (the OTLP sink's write has no
timeout; there the fairness assumes a collector that reads), and of an observer that is asked
to stop; nothing makes an observer detect anything. `OccurrenceFiles`: weak fairness of the
200 ms timer and the loop of `watch`; nobody has to ask a query.

## Findings

1. **An agent does not register again with a restarted controller**
   (`registration_recovery`, `tapio-controller/src/lib.rs:269`). The agent says hello again
   only if a heartbeat is answered with `accepted = false`; `record_heartbeat` answers
   `accepted` always. `scripts/smoke-agent-controller.sh:335` expects a new registration.
2. **Three requests on one key produce wrong latency evidence** (`storage_triple`,
   `ebpf/storage_monitor.c:117`). The second request marks the entry of the first, if that is still there, and has
   none of its own; the completion of either deletes the entry; a third request makes a
   fresh, unmarked one, and the remaining early completion is measured from it. `README.md:86`
   says that wrong evidence is not emitted.
3. **A torn config can drop an exit neither config ignores** (`container_torn`,
   `tapio-agent/src/observer/mod.rs:169`). The config is written in one piece, count before
   codes, while `docs/agent-kernel-config-abi.md:244` says that the count comes last. A
   program that sees the new count with the old codes compares with the old array's zero
   padding and ignores deaths by signal, which have code 0.

Further statements of the documentation that are definitions of the modules and that TLC
refutes when they are given as invariants, without a run of their own here:

| definition | statement | what happens |
|---|---|---|
| `ReportedIsRunning` | `docs/agent-controller.md:66` | a failed carrier write is logged and the apply reported all the same |
| `IdenticalCarriers` | `docs/agent-kernel-config-abi.md:50` | `register` overwrites a newer config with the one it read before `update_all` |
| `JudgedByStampedConfig` | `docs/agent-kernel-config-abi.md:184` | a PMC sample is judged by the thresholds current when it is drained |
| `AmbiguityCounted` | `README.md:86` | the second completion of a collided pair finds no entry and is not counted |
| `LimitOfOwnCgroup` | the comment at `observer/container.rs:93` | the limit of init's cgroup, or of the pid's next owner, is cached for the dead cgroup |

Seen on the way and not stated as properties: the http and OTLP sinks look at their flush
interval only when an occurrence comes in, so a quiet node keeps its last ones until the next
or the shutdown (`sink/http.rs:8` says that they are flushed when the interval elapses); the
default OTLP endpoint `http://localhost:4318` does not parse as a socket address, so every
export to it fails; a request of the controller sink is longer than `split_events_by_size`
estimates when the agent's names are longer than the placeholders; reasoning keys inside arrays
of objects pass `reject_reasoning_fields`; thresholds in the agent's TOML are not validated; a
time span that is too long for chrono panics the command line; an I/O error on one connection
ends the metrics server; a request that completes in parts leaves its entry in the map of the
storage observer, and the next one for the same blocks is dropped as ambiguous; an event of that
observer can have the pid and cgroup of another key's request when its element is deleted by a
second completion and used again before it is submitted; and `stale_agents` and `status` disagree after the clock is set back.

## Proofs

The theorems hold for every value of the constants that satisfies the named assumptions of
the modules, which TLC evaluates in every run that extends them. Most say that special values
are not ordinary ones and that bounds are natural numbers. Those that say more:

- `SinksAssumption`: there is an observer, and no list of sinks names one twice (`create_sinks`,
  `main.rs:193`, would accept it; the model knows a buffer by its sink's name). `max_buffer` is at
  least twice the batch.
- `ContainerAssumption`: a profile is a sequence of configs with a sequence of exit codes each,
  no longer than the array in the struct.
- `NetworkAssumption`: no RTT comes near the width of the arithmetic.
- `BuffersAssumption`: the running totals that come with a buffer are those of its events'
  lengths; the reference of `SplitIsGreedy` measures a slice of the buffer by them.
- `InputsAssumption`: seconds and nanoseconds of an instant are in their ranges; documents have
  the fields of `EvidenceProfile`, with any value in them.
- `ProfileAssumption`: the products worked out in the comments at `MAX_RTT_ABS_MS` and
  `MAX_CRITICAL_MS` fit u32 and u64; a permille has an even number of parts, so that half of one
  can be written; an absent field is no value. The code's own constants satisfy it.
- `FilesAssumption`: an occurrence has a timestamp and a category, and a list shows at least one.
- `RegistrationAssumption`: the empty hash of a fresh agent is not the hash of a config.
- `StorageAssumption`, `NoBatchAssumption`: "nothing" is not a request, an element or an entry of the map, and "no batch" is not a batch.

| module | theorems about properties | inductive invariant |
|---|---|---|
| `ConfigFanoutProofs` | `TypeOK`, `NoCarrierForgotten`, `IdentityFollowsFanout`, `QuietAgreement`, `ColdStartEmitsNothing`, `TomlJudgesOnlyBeforeFirstApply` | `IInv`, `PmcIInv` |
| `ControllerRegistryProofs` | `GapAccounting`, `LossSurfaces`, `LastSeenIsHighest`, `TroubleNotForgotten`; `ConvergedHasApplied`, and `AgentRegistration` implements `ControllerRegistry` | `IInv`, `RegIInv` |
| `EvidenceDeliveryProofs` | `NoSilentLoss`, `FlushOkDecides`, `RegressionMeansRepeat`; implements `ControllerRegistry`, hence `GapAccounting`, `LossSurfaces` | `Conserved`, `SequencesInOrder` |
| `StorageMonitorProofs` | `EntryOwnerInFlight`, `PairsNeverConfused` | `IInv`, `PairInv` |
| `ContainerMonitorProofs` | `TypeOK`, `VerdictExplained` | `ContainerIInv` |
| `NetworkMonitorProofs` | `BaselineBetweenSamples`, `OccurrencesAreFacts`, `SpikeIsJustified` | `NetIInv` |
| `AgentSinksProofs` | `BuffersBounded`, `KeepsLedger` (the refinement of `EvidenceLedger`); `AnswersBracketed`, `PrintsNew` (the safety half of `WatchShowsOnce`), and the command line disturbs none of it | `SinksIInv`, `FilesIInv` |
| `AlgorithmsProofs` | `SplitIsGreedy`, `JudgesAsWritten`, `RepairMovesOn`, `CalendarRight`, `CutoffExact`, `NamesDecide` | `WorkOK` |

Why the invariants are needed:

- **`ConfigFanoutProofs`.** `IInv` adds `ApplyProgress`, which says for each place in an apply
  how ETag, identity, registry and thresholds compare with the config being applied (without it
  nothing is known of them when the apply ends), and `RegistryProgress`, which says that a
  registration no `update_all` has overtaken still carries the current config. `PmcIInv` adds
  `ColdCarriers`: before the first fan-out no carrier holds a config and no registration is
  about to write one. One lemma per kind of step: environment, observer, poll task.
- **`ControllerRegistryProofs`.** `UpdateCases` describes what `update_sequence_tracking`
  returns. `IInv` adds `TrackingProgress`: gaps never exceed the span of the numbers seen, so
  that their counter cannot saturate while the equation is claimed.
- **`ControllerRegistryProofs`, the agent's side.** `Provenance` follows a hash from the apply through the task,
  the call, the request left behind in a socket and the controller's record: each is one the
  agent has applied or the empty one. Neither a late request nor a restart can forge one.
- **`EvidenceDeliveryProofs`.** Giving up a batch must not count an event that will still be
  sent. `InOrder` says that queue, buffer, outbox and post hold the events in the order of
  sending, so that no two hold the same; `FlushProgress` says that all events behind a flush
  request in the queue are later than its mark. `SequencesInOrder` says that, without a fault, the next number is
  ahead of what the controller has seen. It holds up to the saturation of u64.
- **`StorageMonitorProofs`.** `EntriesOK` says that the element a key is in was written under that
  key, `PointersOK` that a program's pointer is to an element that has been written. `PairInv`
  says why an event with another request's data needs a second request of the key (`NotAlone`) and
  a third one of any (`Crowded`): whatever two requests do, a program that has judged an element
  still points at its own (`OwnElement`).
- **`ContainerMonitorProofs`.** `SnapshotOK` relates a program's copy to the carrier while both
  are half done: each word copied, and each that may still be, is of a generation in `seen`.
- **`NetworkMonitorProofs`.** `Baselines` says that no intermediate product wraps and that the
  integer mean stays between samples (`MeanBounds`); `Backed` that what a record in the ring
  stands for has happened, so that it still has when the record is drained.
- **`AgentSinksProofs`.** Every step of a call is put into one form (`WorkOK`): the thread moves
  on, and what waits in one buffer, what the thread carries and what it brings are shared out
  anew. `BooksOK` then says that a sink has exactly the occurrences no thread is still bringing
  to it, each in one place, and that something waits in a buffer only while a thread has yet to
  flush it; with it a step maps to a step of the ledger or to a stutter, and the last observer
  leaves nothing held. `CountsOK` bounds the counters. `KeepsLedger` and
  `BuffersBounded` are theorems about `Spec`; `ReadersDoNotDisturb` shows that a behaviour with the
  command line beside it (`FilesSpec`, which the run's `FilesFairSpec` adds fairness to) is one
  of `Spec`.
- **`AgentSinksProofs`, the command line.** An answer may rest on files read long before it is given, so
  `FilesIInv` says that what is whole stays whole (`WholeStaysWhole`: no thread creates a file for
  an occurrence the file sink has had), that a load has read only what is whole and, once it has
  visited every name it must, all that was whole when it began, and that what `watch` is about to
  print is not yet printed. What an answer says is then compared with the set it was given from:
  `NewestShown` for the lists, `CountGrows` and `CountsAddUp` for the counts, `HealthAgrees` for
  the two ways the command and the MCP tool come to a verdict.
- **`AlgorithmsProofs`.** `WorkOK` is one invariant per kind of work.
  - `SplitOK`: the batches closed so far are greedy, the open one is greedy so far, and
    `current_len`, which the code counts up, is the length of the open request, which the
    reference reads off the running totals.
  - `CalendarOK`: the date is a date, and `days_from_civil` takes it back to the day.
    `YearOfEra` and `ThereAndBack` show the two formulas with their divisions by 1460, 36524 and
    146096 inverse to each other in an era of 400 years; `NextDate` that a day later is the next
    date of the reference calendar.
  - Timestamps: strings are compared field by field (`HeadFirst`, `Peel`), fractions of different
    length by their groups, and what was printed is read back (`PrintedOrder`, `ReadBack`).
  - `ProfileOK`: `validate` returns the first of its thirteen checks that fails (`Checks`); a
    repair passes the check it is for and leaves the earlier ones passed (`RepairsWork`), so the
    errors go up (`Ranks`). For a profile that is accepted, no product wraps (`Scaled`), rounding
    moves a threshold by at most half a unit (`Nearest`), and the kernel's array has the codes of
    the document and no other (`Listed`), so that the words judge as the document does.
  - Names: by cases of the environment.

Only model-checked: what holds under fairness, as the prover has no ENABLED. These are
`ServedConfigTakesHold`, `ShutdownCompletes`, `HeartbeatsCatchUp`, `HelloSucceeds`,
`EveryEventDecided`, `DropReturns`, `LossReported`, `ShutdownObserved`, `SinksDrain` and the half
of `WatchShowsOnce` that says an occurrence is shown at last. No property rests on induction over
data, which is out of the prover's reach too: loops are taken turn by turn, and where a value is
defined by recursion (the running totals of a buffer) the proof needs only its recursion
equation. That the behaviours of `Algorithms` come to an end is not stated.

## Not modelled

- Wall-clock predicates (`stale_agents`), the status page, metrics rendering and server, JSON,
  protobuf and occurrence construction, the JSON-RPC framing of the MCP server: formatting, or
  state without interaction.
- YAML and TOML parsing, the config digest (a config is its own hash), addresses and URLs.
- The validation of responses other than the config's, and of status.
- Ring-buffer records shorter than their struct: the programs submit whole structs.
- The perf-event set-up of node_pmc and the deltas of its counters. In `StorageMonitor` a
  completion is anomalous or it is not; its thresholds are in `ProfileCompiler`.
- RTTs near 2^32 microseconds: `NetworkAssumption` excludes them, no TCP socket measures them.
- Two CPUs running the network program for sockets of one key at once.
- The deletion of a cgroup while a process of it still has its pid.
- A list of sinks that names one twice.
- A sink that panics, and a poisoned mutex.
- The descriptor of an observer that ended, given to something else than another observer's
  carrier. `ConfigFanout` lets a write to it reach any open carrier, also one opened before.
- In `ContainerMonitor`, the words of the config that only other programs judge by.

## Plan

1. Done first: fan-out, registry, registration, delivery, splitting, storage, container and
   network observers, the first proofs.
2. Done then: profile compiler and config serving down to the verdicts, the other sinks with
   `MultiSink` and the ledger they implement, the command line beside the file sink, wire
   messages, timestamps; PMC sampling checked together with the fan-out.
3. Done then: proofs of every safety property of the runs, those of the algorithms and of the
   command line included, of the two compositions with the registry and of the refinement of
   the ledger.
4. Later, modelling: restarts of the agent in `EvidenceDelivery`; the network programs with a
   step per map access; an atomic
   "current config" that `ConfigFanout` implements where no write fails or is overtaken.
