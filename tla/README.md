# Specifications of ohbother

ohbother sends and receives UDP packets at high rates. A Go core
(`ohbother/core`) does the work with goroutines and libpcap; a Python package
(`ohbother/*.py`) wraps it through gopy; `build.py` and `dev_cleanup.py` make and
install the bindings. This directory holds TLA+ modules that model them, TLC
configurations that check the modules on small instances, and proofs of the main
results for instances of any size.

Source paths are relative to the repository root; `core/` is short for
`ohbother/core/`, and a Python file without a directory is in `ohbother/`.

## The system

| Component | State | Operations | Talks to |
|---|---|---|---|
| **MultiStreamSender, sending pipeline** (`core/send_stream.go`, `transmit.py`) | `Payloads`, `rawCh`, `prepCh`, `turnstileCh`, `nextToSend`, `started`, pcap handles, `cancelCtx` | `AddPayload`, `Send`, `Wait`; goroutines: feeder, preparation workers, streams, turnstile, completer; in Python `add_payload`, `send`, `flush`, the `with` block | results, pcap |
| **MultiStreamSender, results** (same files) | `errorCh`, `progressCh`, `progressBuffer`, `channelClosed`, `isComplete`, `mutex`, metrics | `reportError`, error handler, `GetNextResult`, `IsComplete`, counters | the pipeline, the user's thread |
| **Adding payloads in bulk** (`transmit.py`, `parallel_utils.py`, `core/send_stream.go`, `core/utilities.go`) | `Payloads`, process pools, shared counters of goroutines | `add_batch_payloads_flat`, `add_batch_payloads`, `add_payloads`, `convert_payloads`; `ReconstructByteArrays`, `AddPayloadsFlat`, `processOrderedBatch` | the sender |
| **PacketSequenceSender** (`core/transmit.go`, `transmit.py`) | `Payloads`, `progressCh`, `isComplete` | `add_packet`, `send`, `clear`; goroutine of `Send`; `GetNextResult` | pcap, rate limiter |
| **One-shot senders** (`core/transmit.go`) | none | `SendPacket`, `SendPackets`, `SendByteArrays` over `sendPacketsImpl` | pcap |
| **Receivers by time and by count** (`core/receive.go`, `receive.py`) | pairs of result and error channels | two goroutines each, `Result`, `receive_with_stats` | pcap |
| **ContinuousPacketReceiver** (same files) | `packetCh`, `done`, `isRunning`, handle | `receiveLoop`, `GetNextPacket`, `Close`, the Python iterator | pcap |
| **Configuration** (`config.py`, `core/config.go`) | Python wrappers, Go structs they point to, `GlobalDebug` | constructors, setters, `create_default_config`, `enable_debug`, `disable_debug` | every sender and receiver, which hold on to a Go `Config` |
| **Benchmarks** (`benchmark.py`, `core/benchmark.go`) | one measurement under way, its capture | `run_benchmark`, the tests of `PerfTest` | one-shot sender, receiver by time |
| **Build** (`build.py`, `dev_cleanup.py`) | directory of generated bindings, wheels, installed package | `build_standard`, `build_dev`, `make_poetry_wheel`, `dev_cleanup` | gopy, poetry, pip |
| Byte-slice registry (`core/utilities.go`) | handles and the bytes they name | used by `add_batch_payloads` through `parallel_utils.py` | see "Not modelled" |
| CPU pinning, Python helpers, command line program, packaging, examples | | see "Not modelled" | |

What makes them correct, and where it is hard:

* **Pipeline.** Every payload is written once or refused once, in payload order
  unless ordering is off; goroutines and channels shut down one after the other;
  handles outlive their writers; a `Send` completes. Hard: packets that overtake
  each other, failed writes, refused payloads, interfaces that do not open, calls
  from several threads.
* **Results.** Every error reaches the user or is counted, in order and once;
  nobody sends on a closed channel. Hard: three parties under one mutex, channels
  that fill up, completion while results are on their way.
* **Bulk adding.** What arrives is the list that was given. Hard: rounding at
  three levels of batches, tasks that finish in any order, a pool that fails.
* **PacketSequenceSender.** Every result reaches the caller or the channel. Hard: a
  blocking channel, two flags set one after the other, a second `Send`.
* **Receivers.** Packets captured before the end are returned, and a capture ends.
  Hard: timers against packets, `close()` against the loop, full queues.
* **Configuration.** Settings changed in Python reach the structs Go uses. Hard: two graphs of objects
  that are built and rewired by hand.
* **Build.** A failed or interrupted run does not leave bindings that look good.

`PROJECT.json` lists every hazard at its line with the properties that watch it.

## Modules

| Module | What it is |
|---|---|
| `SendPipeline` | one `Send` and its goroutines |
| `Transmission` | the promise of a sender, without goroutines; `SendPipeline` implements it |
| `ResultReporter` | the way of results to the user; instantiated by the next |
| `MultiStreamSender` | `SendPipeline` and `ResultReporter` together: a step that reports is a step of both |
| `Lifecycle` | a sender used by several threads: `add_payload`, `send`, `flush` at any time |
| `BulkPayloads` | lists of bytes on their way to `Payloads` |
| `SequenceSender` | `PacketSequenceSender` with the loop that collects its results |
| `Receivers` | all ways to receive |
| `Benchmark` | extends `Receivers` with the benchmarks that use it |
| `Configuration` | configuration objects of both languages, and what a sender takes from them |
| `Build` | the directories that the build scripts change |
| `SendPipelineProofs`, `MultiStreamSenderProofs`, `LifecycleProofs`, `BulkPayloadsProofs`, `SequenceSenderProofs`, `ReceiversProofs`, `ConfigurationProofs`, `BuildProofs` | proofs; `ReceiversProofs` is about `Benchmark` too |
| `MCSendPipeline`, `MCMultiStreamSender`, `MCBulkPayloads`, `MCSequenceSender`, `MCReceivers`, `MCConfiguration`, `MCBuild` | instances for TLC (`Lifecycle` needs none) |

Next to its state every module keeps faulty variants of its definitions, which the
specification does not use: a counter increased by the wrong amount, a forgotten
reset, a flag read too early. `PROJECT.json` pairs each property with a variant
that breaks it.

### SendPipeline and the code

`Workers` and `Streams` are the goroutines that `Send` starts; each has a program
counter (`workerPc`, `streamPc`) whose values are the places where another
goroutine can overtake it: the receive from a channel, the token, the spin on
`nextToSend`, the write, each atomic increment. `feeder`, `turnstile`, `completer`
and `sendPc` are the counters of the others and of `Send` itself.

* `rawCh` carries payloads in order, so it is the pair `fed`, `taken`. `prepCh` is a
  sequence of indices. Both block at `ChannelBuffers`. WaitGroups are
  `WorkersDone` and `StreamsDone`.
* A payload is its length. `preparePackets` refuses lengths of zero and above
  `MaxSafePayloadSize`, and everything when the configured addresses do not
  serialise (`Serializable`).
* The branches of `sendPackets` for nil and empty packets are not actions:
  preparation emits neither. Neither are the cancellation branches: `cancelFunc`
  runs only when an interface fails to open, before the feeder starts, and
  `CancelFindsNoWork` shows that nobody has anything to be cancelled then. (With
  two Sends at once that is not so; `Lifecycle` has it as `Abandon`.)
* `wire`, `failed`, `rejected`, `burst` are history.

### ResultReporter and MultiStreamSender

A result is a packet index and whether it is an error. `errorCh` and `progressCh`
drop when full; `held` is the report between the error handler's receive and its
lock. `ms.mutex` is held for one step by handler and completer and over many by a
`GetNextResult` that collects results. One user goroutine calls `GetNextResult`, at
any time. `MultiStreamSender` conjoins `RejectPayload`, `PinStream` (when pinning
fails), `ReportFailure` and `PublishCompletion` with the report or publication that
the code makes in the same place; other pipeline steps leave the results alone.

### Lifecycle

Threads may add payloads, send and flush at the same time. A `Send` tests `started`
in one step and sets it in the next, so two can pass; every one that does runs a
pipeline of its own (`runs`) on flags and a turn that all share. A pipeline's packets
are `waiting`, `held` by a stream until it is their turn, or being written. A packet
comes to a free stream before at most as many earlier ones as there are other workers
(`MayOvertake`), so packets can take every stream while one that is due waits; those
in `refused` leave without a turn (`RejectPacket`). Of the channels in between nothing
else is kept: `SendPipeline` has them. The feeder sees the payloads there are when it
begins.

### BulkPayloads

A caller has a place `pc`, the tasks of its pool or its goroutines that are still
`pending`, and what they have produced; only appends under `payloadMutex` are seen by
others. A byte knows which item of which caller it belongs to, so a byte from
a neighbour would show. The properties speak of the items that have bytes
(`Solid`): two empty payloads cannot be told apart, and `AddPayloadsFlat` skips
them. `Covers(s, list, from, to)` says that of those items a sequence holds the ones
behind one position up to another, each once and in order. What
`add_batch_payloads` converts are not bytes any more: Go stores copies in its registry
and Python wraps the registry's numbers as objects of gopy, or, from 1000 items on,
objects made in other processes come back as numbers (`parallel_utils.py` 114-131,
194-198, 216-222). What such a handle names here is `Foreign`: it may be added,
be nothing, or raise. The thresholds of the
code (10000, 1000, 100000, 100, 250000, 10000) are constants.

### SequenceSender

`goroutine` and `caller` are the two places, `progressCh` blocks at its capacity.
Any packet may fail: on its length, on the checksum or the layers, on the write; only
the last puts it on the wire. `progressCh` is closed first and `isComplete` set afterwards, as in the code; a
`GetNextResult` on a closed channel returns nil at once. A second `Send` on the same
Go object is allowed and ends in `Panic`; `clear()` makes a new object.

### Receivers and Benchmark

`loop` captures at an interface, `wrapper` passes its result on to `Result`. A pair
of a result and an error channel is one channel, since only one of the two is
used. Whatever is ready may be chosen first: the timer does not wait for packets
that have arrived. `Close` tests `isRunning`, which the loop sets once the
interface is open. A benchmark adds the thread that sends numbered packets of one
size, which arrive at the capture as "own" while its handle is open.

### Configuration

`cells` are Go structs, `wrappers` the Python objects that point to them,
`goConfigs` and `configs` the two kinds of Config. Assigning `pcap` or `packet`
redirects both sides, assigning `debug` copies. The `bpf_filter` of `PcapConfig` is part
of its wrapper, since the Go struct has no such field. Of the fields those are kept that
stand for the different checks; values are integers. A call that raises changes
nothing and is no step.

### Build

A directory maps file names to the version of the sources that they were made
from. Clearing, copying and removing go file by file, and every run may end
between two steps (`Ends`); files survive. gopy is external: it writes files in any
order and may fail. The uninstall of `dev_cleanup` may fail unnoticed, and pip then
keeps a package of the same version. The scripts run one at a time.

## Runs

The runs that pass:

| Run | Instance | What it shows |
|---|---|---|
| `pipeline` | 2 workers, 2 streams, up to 3 payloads, one length acceptable and one not, channels of 1, burst 2 | the inductive invariant, all of the pipeline's safety, the refinement of `Transmission`, `Completes` |
| `pipeline_in_order` | 1 worker, 2 streams, up to 4 payloads, burst 1, pinning | `Completes` where packets outnumber streams; `BurstBounded`, whose bound of 3 four packets could exceed |
| `sender` | 2 workers, 1 stream, up to 2 payloads, pinning that may fail, `errorCh` 2, `progressCh` 2, batches of 2 | the way of errors to the user, and completion |
| `lifecycle` | 2 threads, 2 workers, 2 streams, up to 3 payloads, none or the second one refused | what completion promises when payloads are added meanwhile and another thread sends too; a flush ends once a single `Send` is under way that can finish (`CanFinish`) |
| `bulk_payloads` | 2 callers, lists of up to 4 items, thresholds of 1 to 3, teams of 2, 2 to 5 processes | payloads of `add_batch_payloads_flat` and `add_payloads` arrive whole, in order and once; answers; every call ends |
| `sequence_sender` | up to 4 payloads, 2 sends, channel of 2 | results and wire are in order and true, the first `Send` cannot panic, `send()` returns |
| `receivers` | 4 packets, queue of 2, every kind of call, counts of zero included, benchmarks of one and two sizes | captures return what they took and end, streams deliver in order, `close()` stops a running loop, reports are true, benchmarks end |
| `configuration` | 5 objects, 4 calls, values -1, 0, 2, ports up to 1 | the pcap and packet settings of a Config are the same structs in Python and in Go, debug options belong to one Config |
| `build` | 2 interpreters, 2 versions, 4 runs | failed tools leave bindings alone, a build leaves its own files, `dev_cleanup` never installs an old wheel |

The runs that find a violation, each a disagreement of the code with what a comment of
it says:

| Run | Property | What TLC finds |
|---|---|---|
| `reject_stalls` | `ErrorsDoNotBlock` | ordered, payload 0 is refused: packet 1 waits for its turn for ever, and `Wait` with it |
| `overtaking_stalls` | `WaitReturns` | ordered, two workers, two streams, three valid payloads: packets 1 and 2 take the streams, 0 stays in `prepCh`, nothing moves |
| `polling_hangs` | `GetNextResultReturns` | `GetNextResult` with too few results to fill its batch never returns, `mutex` locked |

`Completes` states where a `Send` does complete: with ordering off always; with
ordering on when every payload is acceptable and either one worker prepares them
or there is a stream for every packet; `FlushEndsAfterSend` is about the same cases.
`SenderCompletesUnlessPolled` adds the
results: completion is then prevented only by a `GetNextResult` that holds the mutex.

**Bounds.** Two workers and two streams are the fewest that overtake each other at
either stage; three payloads outnumber the streams, which the stall needs, and
allow a bad one between two good ones. Channels of one or two fill up at once. In
`bulk_payloads` three items reach both sides of every threshold, and four make uneven
last batches; five processes are more than items. In `receivers` four packets
overfill a queue of two while it is read. Four calls suffice to create three
parts and combine them, or to make a default Config, take another apart and make a
sender; four runs of the scripts suffice for a failed build, one for another
interpreter, a clean-up and a rebuild. In `configuration` 2 is a port beyond
its limit. `lifecycle` is the largest
run, with 338,000
states: two threads pass `started` together, both pipelines overlap, and three packets
can take two streams in the wrong order. Nothing else
bounds the modules but `MaxPayloads`, `MaxSends`, `MaxPackets`, `MaxObjects`,
`MaxCalls`, `MaxVersion` and `MaxRuns`.

**Fairness.** Go's scheduler is fair, a blocked channel operation is not enabled,
and calls to libpcap return: weak fairness for each goroutine of `SendPipeline`,
`MultiStreamSender` and `SequenceSender`, for each call of `BulkPayloads`, each
pipeline and each call under way of `Lifecycle`, and each goroutine of `Receivers`.
There the timer needs strong fairness: it can fire only while the loop stands at its
`select`, which packets take it away from again and again, and `select` chooses at
random among what is ready, so it does not pass over a timer for ever. A Python
thread inside a call goes on. Nothing obliges the user to call anything, packets to arrive, an interface
not to open, or a script to run on: `Build` and `Configuration` have no fairness.

**Deadlock** is not checked: programs stop when their calls are done, a failed
sender stops for good, and a running turnstile would hide goroutines that are
stuck. Those show in the liveness properties instead.

## Proofs

Every safety property that a passing run checks is proved, for instances of any
size: sets of workers, streams and threads are any finite ones (non-empty for
workers and streams), callers any set, capacities, thresholds and batch sizes any
positive numbers, lengths, lists, values and names any. The assumptions are named in
the modules that declare the constants, and every run evaluates its own:

| Module | Assumptions |
|---|---|
| `SendPipeline`, and what extends it | `PartiesAssumption`, `SizesAssumption`, `FlagsAssumption` |
| `MultiStreamSender` | `CapacitiesAssumption` |
| `Lifecycle`, `SequenceSender`, `Configuration`, `Build` | `LifecycleAssumption`, `SequenceAssumption`, `ConfigurationAssumption`, `BuildAssumption` |
| `BulkPayloads` | `SizesPositive`; `CallsAssumption`, that calls are of the four methods with a positive number of workers; `NoBytes`, that an item that is no bytes object, what a handle names and a slot that is still nil are neither bytes nor each other |
| `Receivers`, `Benchmark` | `ReceiversAssumption`, `BenchmarkAssumption` |

**SendPipeline.** The safety properties are not inductive. `PipelineInv` collects
what they need: `OneHolder`, `OnePlace`, `NothingLost` (packets received from
`rawCh` are split between workers, `prepCh`, streams, wire and refused ones, each
once), `OnlySendable`, `TurnTaken` (with ordering on one stream at most is between
turn and `Advance`), `Shutdown` (each goroutine stops after the one that feeds it),
`BurstBudget`, `CountLedger`. `StepMoves` reduces every action to one of a few moves
of a packet between places, and `MovesKeepPlaces` shows once that a move keeps the
partition. All safety properties of the run `pipeline` and `BurstBounded` follow.
`PipelineImplementsTransmission` maps write, refusal and completion to their
abstract steps; completion needs the whole shutdown argument.

**MultiStreamSender.** `SenderRunsPipeline` shows that the sender's steps are steps of
the pipeline or stutter, so that `PipelineInv` and the promise
(`SenderImplementsTransmission`) carry over. `SenderTypeCorrect` and `ClosedIsCompleteHolds`
need the mutex; `NoSendOnClosedProgressHolds` the fact that a collecting
`GetNextResult` keeps the completer out. For `NoErrorMissingHolds` results are
split into those that have passed the error handler (`Delivered`) and the others
(`Waiting`), and every step either adds one failure and one result (or a drop), or
moves a result between the two; `FailuresInv` ties failed writes to the streams that
still have to report them. `SenderResultsAreTrueHolds` adds that a step brings in only
results that name a new failure. `ResultsKeepOrderHolds` looks at the same list once
more: a report comes last, a drop takes one result out, the final result goes in
between (`RemovedBetween`), and every other step leaves the list as it is although the
results in it move on.

**Lifecycle.** `CompleteIsSentHolds` has two halves. For any number of `Send`s, `AllKept`:
what a pipeline was fed is in its hands or on the wire, unless it was refused or a
failed `Send` cancelled everything, and each pipeline was fed at least what was there
when the first `Send` began; so the one that publishes completion has nothing left in
its hands, and all is on the wire. For a single `Send`, `Single`: it is in one thread or
the only pipeline, packets are in one place each (`Places`), and the turn counts the
wire (`Turns`), so that nothing is written twice or out of order.

**BulkPayloads.** The proof has four layers.

1. *What the operators do with lists of any length.* `FlattenSeqFacts`: place `k` of list
   `i` comes to place `Starts[i] + k` of the concatenation, and nothing else is there.
   `SharesFacts`: the shares of a team, of `CeilDiv` items each and the last ones cut
   off, hold every index once. `ChunksFacts`: the chunks of a list make up the list.
   `PickedFacts`: a filter keeps order and loses nothing. `CombineIsFlat`: offsets of
   chunks, each moved by the bytes before it, name the bytes of every item of the whole
   list; `JoinedIsFlat` puts this together for any number of processes.
2. *`Covers` composes.* For two sequences, one after the other (`CoversConcat`), taken
   apart again (`CoversSplit`), and for a filter (`CoversPicked`); and it gives the
   number of payloads (`CoversCount`).
3. *The inductive invariant `Inv`.* The properties alone say nothing of what is still
   on its way. `CallInv` does: what each unfinished task leaves (`Tasks`: a slot not yet
   filled belongs to a task that is pending), that the flattened list names the items
   (`Flats`), that whatever waits to be added comes from the caller's list or is a
   handle (`Sources`), and the counters (`Counts`). `Progress` says that payloads cover the
   items up to a position, and `Place` which position that is: the start of a batch, the
   end of the list, or the item before the first one that waits.
4. *The actions.* One lemma each (`...Fine`) shows that a step keeps the invariant of its
   caller and appends only the caller's items. `OthersKept` carries the invariant of
   the other callers over, because bytes know their item: appending somebody else's
   bytes disturbs no `Covers`.

`PayloadsIntactHolds` and `ReturnedAddsAllHolds` follow. Of `add_batch_payloads` nothing
more is proved than that handles are all it adds.

**Receivers and Benchmark.** `InOrder`: packets are numbered as they arrive, so what was
taken comes before what waits. `Tokens` is the point of the argument: an answer under
way exists only once the loop has stopped, so the packets it speaks of do not change
any more, wherever the answer is (the wrapper's channel, `Result`, the program).
`Counted` bounds a capture by count; `Collected` and `Streamed` relate what the program
has got to what was taken: the start of it, or increasing numbers of it when the
queue drops some. `Account` says what a benchmark has counted at each of its steps,
and that no more packets of its own arrive than it wrote. The invariant is of
`Benchmark`, whose specification contains that of `Receivers`; `AnswerIsCaptureHolds`,
`StreamIsInOrderHolds` and `ReportIsTrueHolds` follow from it.

**SequenceSender.** `Control` says where goroutine and flags can be in the first
`Send`, `Loop` that an index is in range, `Ledger` what has been published, collected
and written at each place. The four invariants of the run follow, and
`LastResultDoesNotBlockHolds`: the extra `GetNextResult` of `send()` never waits.

**Configuration.** `ConfigurationInv`: cells belong to one class (`Types`), wrappers and Go
Configs point to cells of the right class, a Config and its Go Config have the
same place and the same pcap and packet cells (`Pairs`), and no two Go Configs have
the same debug options (`DebugOwn`). Writing a cell keeps its class (`CellWritten`), adding cells keeps the
others (`CellsAdded`); each call is one or both. `SettingsReachGoHolds` follows.

**Build.** `MoveInv` says how far a build has come in terms of the two directories,
`WheelInv` how far `dev_cleanup` has; the properties of the run follow.

Only model-checked: what is live (`Completes`, `SenderCompletesUnlessPolled`,
`FlushEndsAfterSend`, `CallsEnd`, `SendReturns`, `CapturesEnd`, `CloseStops`,
`BenchmarkEnds`). It needs fairness and `ENABLED`, which are beyond the prover. Recursive
definitions are too, so the models avoid them where proofs go: `ResultsKeepOrder`
compares the whole lists of results, which says more than a comparison of the
failures in them and needs no filter, and `BulkPayloads` filters by position.

## What the models show beside their properties

The models follow the code in these cases, and no property denies them:

* `GetSentCount` counts every attempt to write, failed ones included, where its comment
  says "successfully sent" (`core/send_stream.go` 402 and 725). `CountersSettle` is the
  exact account.
* `GetErrorCount` counts failed writes and dropped reports but no refused payload
  (`core/send_stream.go` 100 and 391). `NoErrorMissing` is the exact account.
* More than `TurnstileBurst` packets can go out between two ticks, one more for each
  stream that had its token already (`core/send_stream.go` 333); `BurstBounded` is exact.
* `GetNextResult` returns nil after completion although results are left in
  `progressCh` (`core/send_stream.go` 665-668).
* Two `Send` calls at once can both pass the test of `started`, which is set in another
  step (`core/send_stream.go` 171-175), and payloads are written twice. The second resets
  the turn of the first (line 179), so that with ordering on a pipeline may write out of
  order or wait for ever. Which of the two completes first does not matter for what
  completion says (`CompleteIsSent`).
* After a `Send` that could not open an interface, or none at all, `flush` waits for ever
  whatever its `timeout_ms`. Leaving a `with` block flushes, also when `send()` has
  raised: it hides the exception and never ends (`transmit.py` 358-364).
* A rate limit above 10^9, which the setter takes (`config.py` 350), leaves the ticker an
  interval of zero, and `NewTicker` panics (`core/send_stream.go` 410-411).
* `PacketSequenceSender.send` collects while `IsComplete` is false and once more, so
  results that are still in the channel stay there (`transmit.py` 482-488).
* A second `send()` on one `PacketSequenceSender` ends the process: `progressCh` is
  closed (`core/transmit.go` 407).
* A second `Result` on a receiver waits for ever (`core/receive.go` 207).
* A `close()` before the loop has opened its interface does nothing on the Go side
  and leaves the loop running (`core/receive.go` 349). Packets still queued when the
  loop stops cannot be read.
* `add_batch_payloads` adds what the numbers of Go's registry name as objects of gopy, or
  the numbers of another process's objects, not the bytes it was given
  (`parallel_utils.py` 194-198, 216-222).
* `add_batch_payloads` raises when its first batch is in, because its counter was never
  set (`transmit.py` 248).
* `convert_payloads` raises whenever it has something to do in processes, since a local
  function cannot be sent to them.
* The debug options that Python shows are those of a copy after `config.debug = ...`, and
  `enable_debug` changes Go's only (`config.py` 516-539).
* `disable_debug` leaves `GlobalDebug` on.
* `scalability_test` ignores its number of streams, and the benchmarks pass an
  interval where the core takes a rate.
* `create_default_config` takes ports that no setter accepts (`core/config.go` 124).
* `dev_cleanup` does not see that a wheel was not built (`build.py` 324), and
  `InstalledIsFresh` holds only because it empties `dist` before.
* If the uninstall failed, `dev_cleanup` may report success with an older package of the
  same version installed (`dev_cleanup.py` 42 and 72-75).
* A filter in the pcap settings (`config.py` 104-111) never reaches Go, whose receivers
  look into the packet settings (`core/receive.go` 25). The wrapper for pcap settings
  that `create_default_config` makes has no `bpf_filter` to show.

## Not modelled

* **Byte-slice registry** (`core/utilities.go` 20-170): `add_batch_payloads` stores every
  item in it, but what is added afterwards goes by gopy's own tables, which are not in the
  repository; `BulkPayloads` has the outcome as `Foreign`. `ClearRegistry` starts handles
  again at 1 (lines 68 and 132), so that a handle kept over it names other bytes; no
  Python class calls it.
* `PacketSequenceSender.add_packets`: it converts every payload and gives the result to
  `add_packet`, which converts it again as if it were bytes (`transmit.py` 470-471 and
  460). What comes of that is gopy's matter.
* `FastConvertPayloads` and `RegisterFlattenedPayloads`: nothing calls them. The batches
  of the former end behind the last payload for some sizes, for instance seven
  payloads and four goroutines (`core/send_stream.go` 788-798).
* The branch of `prepare_flattened_data_for_go` for a method nobody passes.
* `SetAdvancedConfig` and `SetStreamConfig` while a `Send` runs (Python calls them in
  the constructor), `GetNextResult` from several goroutines, two threads in `close()` at
  once, torn reads where the Go memory model allows them (`Payloads` under the feeder,
  `isRunning`).
* Clocks and rates, the limiter of `PacketSequenceSender` included; panics inside gopacket or from exhausted
  memory; header fields of packets.
* `SendPacket`, `SendPackets`, `SendByteArrays` on their own: a loop without state, which
  `Benchmark` contains as `run_benchmark` uses it.
* `set_logger` and the text of log messages; `setup_environment` and
  `install_go_deps` of the build; address validation and platform queries of
  `utilities.py`; CPU pinning beyond its success or failure; the command line
  program, examples and packaging metadata, which keep no state.

What could follow: several readers of results and two closers at once, as further
processes of `MultiStreamSender` and `Receivers`, with the proofs that they need; the
tables of gopy, to say what handles name.
