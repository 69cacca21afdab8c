# A verification project for gs-flowgraphs

TLA+ models of the ground-station flowgraphs, TLC configurations that check
them on small instances, and TLAPS proofs of what matters most.  Paths are
relative to the repository; `src/` is its root in `PROJECT.json`.

## 1. The system

A *flowgraph* is a program that the station's supervisor (gs-client) spawns for
one satellite pass.  It connects to three sockets of its parent (control, status
and, for audio, data), announces `ready`, obeys line-delimited JSON commands, and
ends with an exit code.  Inside, an asyncio loop shares state with threads: a
reader of the SDR, a decoder, a transmit burst, or the scheduler of GNU Radio.

| component | state it keeps | operations | interacts with |
|---|---|---|---|
| spawn contract, `apps/_spawn_contract.py` | control reader (buffered lines, EOF), status writer, `stop_requested`, the engine task and its death watch | `read_command`, `send_event`, `run_command_loop`, `watch_engine_death`, `await_first_samples`, `pump_data_queue`, `signal_pump_end` | every app; the supervisor over the sockets |
| half-duplex EnduroSat app, `cubesat_gfsk_endurosat_bidir.py` | one Soapy device under a lock, `tx_active`, `rx_suspended`, the staged burst, burst tasks, receive engine | `prepare`, `transmit`, `transmit_burst`, `resume_rx`, `rx_chunks`, `run_rx`, `close` | contract, burst writer, streaming put, decoder |
| cubesat AX.25 receiver, `cubesat_gfsk_ax25_rx.py` | chunk queue, decoder windows, first sample | `_run_dsp_engine`, `_decode_loop`, a GNU Radio engine | contract, streaming put, decoder |
| satellite receiver, `satellite_rx.py`, `gnuradio_satellites.py` | two decode chains, their queues, the reconciler | `drain_frames`, `flush_frames`, `start`, `stop` | contract, live queue, reconciler, registry of framings |
| narrowband FM receiver, `amateur_fm_narrowband_rx.py` | PCM queue between GNU Radio and the pump, drop counter | `_QueueSink.work`, the pump, `_report_audio_loss` | contract's pump, data socket |
| transmitters, `cubesat_gfsk_ax25_tx.py`, `amateur_fm_narrowband_tx.py`, and the stubs `stub_tx.py`, `stub_rx.py` | one background burst or graph per pass, the stubs a script of events | start, stop, settle | contract, burst writer |
| Soapy layer, `_soapy.py`, `_soapy_tx.py` | stream handles, accepted samples, stalls | device set-up, `write_burst`, `poll_tx_status` | apps |
| streaming helpers, `_stream.py`, `_recorder.py`, `_doppler.py` | bounded put, rotating file, last offset | `_put`, recorder blocks, poll and fallback | apps |
| live handoff, `native_framing/runtime_queue.py`, `shadow_runtime.py` | bounded FIFO with loss counters; pending observations of two engines | `offer`, `drain`, `require_lossless`; `reconcile`, `finalize` | satellite receiver, GNU Radio front ends |
| codecs, `gfsk_ax25/`, `native_framing/`, `native_lora/` | streaming deframers | `push`, `decode`, `flush` | receivers, offline tools |
| registries and planners, `modem.py`, `framings.py`, `compose.py`, `_rateplan.py`, `_fallback_select.py`, `_uplink_frame.py` | none | pure selection and validation | apps |
| offline tools, `iq_views.py`, `iq_decode.py` | files of the pass's workspace: products, temporary files, `frames.jsonl`; the resampler's history; the replay graph's queues | `derive_views`, `write_discriminator_ogg`, `decode_capture`, `decode_capture_gnuradio` | recorder, registry of framings, live handoff |
| bench tools, `tools/tx_gfsk.py`, `tools/probe_soapy_tx_write.py`, `tools/probe_xtrx_native_tx.py` | a device and a stream; a lock file; the trials of a session | one transmission; one child process per trial and its verdict | driver, people |

What is hard here is what happens *between* those operations: an engine that
ends while a stop is in flight, a status peer that stops reading in the middle
of a `drain()`, a thread that tests a flag and acts on it a lock later, a loss
that is counted between the check and the drain, an end marker that meets a
full queue.  `PROJECT.json` lists each such hazard at its line, with the
property that watches it or the reason why none does.

What makes each component correct:

* spawn contract: exit code 0 and `stopped` are claims about the whole pass
  (settled, acknowledged, last); `ready` is proof of a live receiver; no engine
  end is silent; every stop and every EOF ends the process.
* uplink: never both directions at once; nothing flies that was not staged and
  acknowledged; every `transmit_frame` gets one answer; a stop ends a burst and
  the device is closed after it; the receiver is either running or marked.
* burst writer: the samples go out once each and in order, and the outcome is
  what the driver did.
* receive pipeline: backpressure without gaps, no frame lost or doubled between
  decode windows, death distinguishable from the end of the stream.
* live handoff and dual engine: losses are counted and fail the pass, a frame
  found by both engines is emitted once and a repeated one is not swallowed.
* audio path: all audio in order before the sentinel, and a shutdown that ends.
* transmitters: nothing new goes to the driver once the stop, the loss of the
  control socket or a failed handler revoked it; `stopped` is said off the air,
  and last.
* receive graph: whichever constructor fails, the graph GNU Radio is given can
  be started, and what it reports of its decoders is true.
* streaming decoders: a frame is found once wherever the pieces are cut.
* Doppler poll, recorder: a silent source is given up, a late answer is never
  taken for a new one; the capture has no hole.
* offline tools: no product of an earlier attempt or of a killed run passes for
  this capture's; what could be decoded is filed once.
* bench tools: exit 0 means flown; a verdict is what happened; one probe at a time.

## 2. Modules, and how they correspond to the code

`PROJECT.json`'s `map` gives file and lines for every definition.

| module | models | state and actions |
|---|---|---|
| `SpawnPromise` | what a supervisor may rely on, with sockets and tasks left out | accepted / settled / acked / exit |
| `SpawnSession` | `_spawn_contract.py` and `amain` of three receive apps (`app` picks the program) | `main` is the program counter of `amain` across its awaits, `engine` that of the engine task, `watch` and `report` the done callback and its `_fail` task; `inbox`/`eof` the control reader, `status` all that was written, `peer` whether `drain()` returns, parks or raises. One action per stretch between two awaits |
| `BidirUplink` | `_TxController`, `_SoapyBidirIo`, the uplink handlers and the shutdown of the half-duplex app | `lockQueue` is the asyncio lock with its waiters, `worker` the burst thread step by step, `reader` the generator of `rx_chunks`, `device` the threading lock; `client` is the supervisor's view of the handshake |
| `BurstWriter` | `write_burst` and `poll_tx_status` | a loop counter `i`, stall and poll counters, and `air`, what the driver took |
| `TxSession` (extends `BurstWriter`) | `cubesat_gfsk_ax25_tx`, `amateur_fm_narrowband_tx`, `stub_tx`, `stub_rx` from connection to exit | `main` as in `SpawnSession`; `burst` the burst task, whose sink thread is the writer of `BurstWriter` with the app's stop flag as its abort; `posted` what the thread hands to the event loop; `graph` the FM graph; `script`/`periodic` the stubs |
| `RxPipeline` | `run_rx`, `_run_dsp_engine`, `make_backpressure_put`, the windows of `StreamDecoder` | reader thread, `submitted` put coroutines, the bounded `queue`, decoder buffers `chunks`/`pending`/`window`, the decode task |
| `BoundedQueue` | `runtime_queue.BoundedQueue`, `require_lossless` and its consumer | queue, counters; check and drain as two steps, because they take the lock twice |
| `FramePairing` | the computation of `shadow_runtime` on what waits for a partner | no state: `Observe` and `Side` (one observation, one batch), `Retained` and `Expired` |
| `ShadowReconciler` (extends `FramePairing`) | `shadow_runtime.ShadowReconciler` | pending observations in order, generation, counters; `Reconcile` runs `Side` over both batches |
| `SatelliteDrain` | `_SatContext.drain_frames`/`flush_frames`, `satellite_rx`'s engine and exit; composes an instance of `ShadowReconciler` | one action per await of the loop, `last` once it is in its `finally`, `error` while an exception is on its way; `held` what a streaming decoder keeps back |
| `AudioPump` | `_QueueSink`, the pump, `signal_pump_end` and the shutdown of the FM receiver | the executor thread's `getter` apart from the coroutine `pump`, since the process cannot exit before it |
| `DopplerPoll` | `run_doppler_poll`, `OrbitdDopplerSource`, `_LineClient` | `phase` per await, `left` the ticks of its timeout, `asked`/`wire` the requests and replies on the connection. Time moves by one tick, and an offset *is* its age |
| `StreamRecorder` | `_recorder.StreamRecorder` under a reader thread | `file`, `room` on the disk, `handle`; a chunk is offered to the file and then to the decoder |
| `PassServices` | for TLC: the five services above that need no other (`part` picks one) | instances |
| `ReceiveGraph` | `build_satellites_rx` and the cubesat engine's `build_rx_top_block`, with the selection of decoders, rates and gain | `step` is the part of the builder that runs next, `edges` the connections made; each constructor builds, returns nothing or raises |
| `StreamDecoders` | every streaming decoder of `native_framing`'s registry, and the legacy HDLC deframer | `line` all symbols so far, `front` the line code's memory, `inner` correlator, buffer and pending captures; `Push` brings a piece of any size. A profile is a row of a table |
| `SatelliteReceive` | the two halves of a satellite pass that share nothing while they run | instance of `ReceiveGraph`, extends `StreamDecoders` |
| `BenchTransmit` | `tx_gfsk`, `probe_soapy_tx_write` (parent and both children), `probe_xtrx_native_tx` | `job` the options that change what it does, `stage` the driver call a child is in, `told` the last line it printed, `results`/`worst` the session |
| `ProbeLock` | `_probe_lock` | the file, and where each of several probes is: every system call is a step, a probe may be killed at any |
| `PassViews` | `derive_views`, `write_discriminator_ogg`, `main` of `iq_views` | `disk` and `temp` say which attempt a file is of, `doing` where a view is between clearing and promoting |
| `StreamingResampler` | `_StreamingResampler`, `_discriminator_chunk` | the indices, not the arithmetic: a sample is named for the inputs it is computed from |
| `CaptureSweep` | `decode_capture` | window by window; `spoilt` the windows in which something raised |
| `CaptureReplay` | `decode_capture_gnuradio` | the graph's thread, two bounded queues and the draining program |
| `OfflineTools`, `ReceiveAndTools` | for TLC: the programs beside a pass, one at a time; and those or a satellite pass | instances; `tool` and `part` pick one |
| `SpawnSession_proofs`, `BidirUplink_proofs`, `TxSession_proofs`, `RxPipeline_proofs`, `PassServices_proofs`, `SatelliteDrain_proofs`, `ReceiveAndTools_proofs` | theorems about those modules and the parts they instantiate | section 4 |
| `DataLemmas` | induction stated for a set, and with it lemmas about filters, counts in a sequence, sums over a finite set, and what `FramePairing` makes of a poll | cited by four of those |

The operators named `*Bug` are mutated forms of the definition that follows
them: what a plausible mistake in that code would be.  Every property has one
that breaks it, so no property holds by the shape of the model.

Abstractions that all modules share: samples, payloads and waveforms are numbers
or model values; JSON lines are the commands they parse to (a malformed,
unknown or ignored line is `"noise"`); timeouts are steps that may be taken
whenever the code's wait could expire (`DopplerPoll`, which is about them, counts
ticks); native calls return, or the modules say so (a hung driver call of an app
is bounded by the supervisor only; `BenchTransmit` has calls that never return).

Components that share nothing while they run are checked in one run, one at a
time: `PassServices`, `SatelliteReceive` and `OfflineTools` pick a part at the
start and leave the others alone, so that the state space is the sum and not the
product.  What does interact is composed for real: `TxSession` runs on top of
`BurstWriter`, `SatelliteDrain` contains `ShadowReconciler`.

## 3. Runs

| run | shows | bounds, and why they are enough |
|---|---|---|
| `SpawnSession` | `ReadyIsProof`, `HandlerFailureFails`, `EngineFailureReported`, and under fairness `SessionEnds`; `PromiseKept` is the refinement of `SpawnPromise` | two commands in flight at any time (a stop behind a handler, a second stop), one live frame; one stall and resume after another is unbounded |
| `BidirUplink` | `HalfDuplex`, `FliesOnlyLicensed`, `NoCloseUnderBurst`, `StopEndsBurst`, `StoppedRxIsSuspended`, `OneAnswerEach`; `TransmitAnswered` under fairness | seven commands of an orderly client are two full handshakes and a stop; four of an unruly one reach prepare, two transmits and a stop or a resume under a burst; two frame ids; two writes in a burst |
| `TxSession` | `FlownAsTold`, `OutcomeIsTrue` of the writer; `RevokedIsQuiet`, `StoppedIsFinal`; `TxSessionEnds` under fairness | four samples in chunks of two (a whole, a short and a last write), one stall, two status polls; three commands: start, a repeat or something unknown, stop |
| `RxPipeline` | `FedAsRecorded`, `EveryBurstEmitted`, `StopEndsEngine`, `DeathFailsEngine` | four chunks, two bursts each across a chunk boundary, a queue of one (always full), a deferral of one chunk |
| `PassServices` | queue: `NothingAfterGap`; audio: `AudioComplete`; reconciler: `PairedWithoutLoss`; Doppler: `DopplerIsFresh`; recorder: `CaptureIsPrefix`; `ServicesEnd` under fairness | queue of two items and three units, sizes 0, 1, 2 and 4 (empty, fitting, larger than the queue); audio queue of two, six blocks; two payloads, four pending, three polls with one of lag; timeouts of one tick and a grace of two, ages up to eight (past every deadline added up); six samples in chunks of two over a disk of any size |
| `SatelliteDrain` | `EmittedExactly`, `LossIsNoticed`; `StopEnds` under fairness | three transmissions of which two are the same beacon, each found by any of the two chains, queues of two (overflow happens), two polls before the stop and two after it |
| `ReceiveAndTools` | graph: `NothingDangles`, `ReportIsTrue`, `SignalHeard`; decoders: `FramesExactlyOnce`, `NeverRaises`; tools: `CleanTransmit`, `HonestVerdict`, `ViewsAreTrue`, `OneProbeAtATime`, `DecodedWhole` | below |

The bounds of `ReceiveAndTools`.  Graph: three labels (HDLC with a legacy
deframer, native soft, native hard), two more the backend may add, four
modulations of which one has no demodulator, symbol rates below and above what
the requested channel can carry, no capture rate, one below the channel and one
above it, with and without an offset;
every constructor may refuse.  Decoders: all 24 rows of the registry, sync words
of three or four bits and captures of a few symbols; a line is as long as each
row needs for two captures that overlap, cut into pieces of 0, 1, 2 and 4.  Bench:
three samples, an MTU below and at the chunk, two bursts or two trials, one
stall; sample rates of 480, 960 and 2044.8 kHz, which the modulator keeps, and of 504
and 1003 kHz, which it snaps across the two thresholds of an XTRX (499.2, 998.4).  Lock: three probes (one that died, one that clears it, one that came in
between).  Views: two captures through one workspace.  Resampler: five ratios up
to 4, nine samples in pieces of any size.  Sweep: windows of 2 to 4 samples
over 5, two frames anywhere.  Replay: three hits, queues of two.

Five runs end in a violation, each of a sentence of the repository:

* `SpawnSession_deaf_loop`: `_spawn_contract.py:425` says that an engine which
  ended before a requested stop fails the pass.  The dsp engine of the cubesat
  receiver sets the shared flag in its own `finally` (`:604`), so the watch takes
  the end of the source for a requested stop and the loop lives on.
* `BidirUplink_deaf`: the comment at `:1267` says pauses during bursts do not
  count as deafness.  A reader that tested the flags just before the burst and
  waited for the device lock all through it has an old clock.
* `SatelliteDrain_loss`: `runtime_queue.py:30` says decoding cannot remain valid
  after a loss.  One first seen by the drain after a stop ends the engine with
  an exception nobody looks at, and the app exits 0.
* `TxSession_race`: `cubesat_gfsk_ax25_tx.py:627` says the burst is settled and
  its failure observed before the exit code is decided.  A burst task that is
  already done is awaited without a turn of the event loop, so the callback that
  records the failure has not run, and a failed burst is acknowledged and exits 0.
* `AudioPump_refusal`: `amateur_fm_narrowband_rx.py:347` says a silent source
  fails the pass.  The early return leaves the executor thread in a blocking
  `get`, and the process never exits.

Smaller disagreements met while modelling, which no run of their own shows
(where a property had to be weakened for one, the property is named):

* Sessions.  An engine failure inside the teardown after an accepted stop is
  reported and still exits 0 (`tests/test_r2_engine_death.py:184` wants nonzero);
  "stop and empty is final" (`cubesat_gfsk_ax25_rx.py:587`) is not, since a put
  may arrive later; audio dropped between the loss report
  (`amateur_fm_narrowband_rx.py:503`) and the stop of the graph is in no report.
  `ax25_tx` with an empty `--sdr-args` passes its spawn and its burst always
  raises; `stub_tx.py:172` says `transmit_frame` consumes what it never does.
* Live decoding.  An overflow between `require_lossless` and `drain`
  (`gnuradio_gfsk.py:57`) hands over symbols from both sides of the gap once
  (`NothingAfterGap` is what remains true); a genuine repeat found by one engine
  in the next poll is taken for the other's copy (`gnuradio_satellites.py:255`
  says it is kept); a frame the streaming decoders hold back longer than a poll
  is emitted a second time (`EmittedOnce` excludes it).
* Uplink.  "A failed stage must not leave a PREVIOUS burst armed"
  (`cubesat_gfsk_endurosat_bidir.py:720`), but a prepare whose payload cannot be
  resolved (`:1540`) is answered without reaching the controller and leaves the older
  burst staged (`OnUnresolved`).  A `transmit_frame` for another id is refused all
  the same, so `FliesOnlyLicensed` holds.
* Graph.  A bad native parameter in `_FallbackDemod` (`gnuradio_satellites.py:490`)
  fails the build, although `:725` says a decoder problem never costs the
  recording; the channel rate is not "capped at the SDR capture rate":
  `select_channel_rate` raises; the "no decoder" reason
  (`_fallback_select.py:207`) names an unset `GS_GRSAT_LIVE` also when it is set.
* Decoders.  The comment at `gfsk_ax25/hdlc.py:105` that flags do not overlap is
  false: the frame behind two flags that share a zero is lost or found depending
  on the pieces (`FramesExactlyOnce` leaves such lines out for the legacy
  deframer), and frames longer than its tail can be lost across a poll.  An
  all-zero soft window matches as an exact inverted sync word (`sync.py`).  The
  order in which Mobitex and NGHam return overlapping frames depends on the
  pieces.  The AX.25 decoder's flush does not reset its line code.
* Doppler.  Readings that are not finite freeze the offset (`_doppler.py:249`, the
  docstring at `:225` says a frozen offset is what the poll prevents):
  `NeverFrozen` is stated in `DopplerPoll` and not among the checked properties,
  because the code does not have it.  The hand-over may come one whole read
  later than the grace (`HandOver` has that term).
* Views.  A picture and a sound of an earlier attempt are removed first, a table
  and a transcode are not: a failed one leaves the old file, unreported.  The
  picture is written under its own name, so a kill leaves a cut one.  With no
  capture nothing old is cleared.  (`ProductsAreFresh` says what holds.)
* Decodes.  Several copies of a beacon in one drain are one record, so their
  number depends on timing; a hit both engines make in two drains is two; a second
  portable decode appends the same records again; frames already drained are not
  filed when a later drain fails.
* Lock.  The help (`probe_soapy_tx_write.py:1362`) says the lock prevents
  overlapping runs.  A probe that has judged a stale lock removes the file by its
  name, and may remove the lock another has created since: two probes then run
  (`OneProbeAtATime` is what holds while that has not happened).  A lock whose
  owner died before writing its pid refuses for ever.
* Names.  On a device that is no XTRX, `_tx_gfsk_case` (`probe_soapy_tx_write.py:717`)
  names its trial cs16 and flat, and `tx_gfsk.py:266` sends cf32: the name is always
  wrong there.  On an XTRX the name follows the rate that was asked for (`:716`),
  but the child first snaps the rate to a multiple of the symbol rate
  (`tx_gfsk.py:88`) and then chooses by the same thresholds: a trial at 504 kHz is
  reported as cs16 and was made as cf32 at 499.2 kHz, although `:4` says that the
  parent "can still report which combination failed" when SoapyXTRX takes a child
  down.  `HonestVerdict` asks for a true name of XTRX trials at a rate the modulator
  keeps; `FailureNamed` states in `BenchTransmit` what the docstring says, and is
  not among the checked properties, because the code does not have it.
* Children.  The native probe ends the whole process group of a child that hangs,
  the Soapy probe's `subprocess.run` the child alone.  The model's trial is over
  with either.
* Verdicts.  A probe's `OK` does not mean that a block was taken whole;
  "No trial delivered a valid TX buffer" is also said when one of several writes
  was discarded; the native probe says "aborted or hung" of plain failures too.
  With its default call shape `tx_gfsk` never passes END_BURST
  (`tx_gfsk.py:534` says it goes on the last chunk).

### Fairness

Tasks and threads that can run do run: weak fairness on each actor.  Strong
fairness is used where an actor can be disabled again and again by others: a
task whose `drain()` was let go by a peer that stalls again, and the threads that
compete for the device lock (a `threading.Lock` has no queue; strong fairness
says that nobody starves for ever).  Nothing is assumed of the supervisor, the
source or the radio, except in `SpawnSession` that a status peer that stalled
reads again or closes: `send_event` has no time limit, and the code makes no
promise without it.  In `RxPipeline` the source owes nothing until
`request_stop()` reaches it.  In `TxSession` the event loop and the sink thread
run, and the driver answers each call in its time-out with anything at all.  In
`DopplerPoll` time passes and the poll is woken; the daemon owes nothing.  The
tools have no liveness property: a driver call may hang for ever there, and the
parent's time limit is a step that may be taken.

## 4. Proofs

TLC looks at small instances; the theorems below hold for every value of the
constants.  They rest on nothing but the assumptions the modules name:
`ProgramAssumption` (the programs of a session are among the three apps) and
`SentAssumption` (the bound on commands in flight is a number),
`UplinkAssumption` (a finite, non-empty set of frame ids to which `NoFrame` does
not belong; a burst has at least one write), `BurstAssumption` (the limits are
numbers; the MTU may be anything), `RxAssumption` (a number of chunks, a queue
of at least one), `QueueAssumption` (positive capacities, sizes that are
numbers), `ServicesAssumption` (the capacity of the audio queue, the time limits
of the poll, the sizes of a recording, and the lag and capacity of the reconciler
are numbers; a pass has finitely many payloads), `DrainAssumption` (the queues of
the drain loop hold something; the transmissions and polls of a pass are
numbers), `FrontAssumption` (the requested channel rate is not zero; rates and
offsets are numbers), `BenchAssumption` (a rendered frame has
samples, the default chunk is not zero, the rest are numbers; the driver may
report any packet size, zero included), `ToolsAssumption` (at least one capture
goes through the workspace; the factors of a ratio and the half length of the
filter are not zero; the length of a capture is a number).  The wiring of the graph
and `ProbeLock` need no assumption: labels, modulations and probes may be any sets.  Two theorems add a hypothesis of their own, `N > 0`: a burst *inside a
session* is accounted for when its waveform is not empty.  The app's never is (a
modulated frame has at least its preamble), and for an empty one the file sink
would announce a first sample that does not exist.

| module | theorem | says | argument |
|---|---|---|---|
| `SpawnSession_proofs` | `TypeCorrect` | `[]TypeOK` | inductive as it stands, by actor |
| | `CleanExitCorrect`, `StoppedIsLastCorrect` | `[]CleanExit`, `[]StoppedIsLast` | from `AckInv` |
| | `Refinement` | the session implements `SpawnPromise` | `StepSimulation`: each step stutters on the abstract state or is one of its moves |
| | `ReadyIsProofCorrect` | `ready` once, and only after a sample | from `ReadyInv` |
| | `HandlerFailureFailsCorrect`, `EngineFailureReportedCorrect` | a handler that raised, an engine that failed: the supervisor learns of it | from `HandlerInv` and `ReportInv` |
| | `OnlyCubesatIsDeaf` | the defect of `SpawnSession_deaf_loop` is the cubesat receiver's alone: for the other two apps `NoDeafLoop` is a theorem | from `FlagInv` |
| `BidirUplink_proofs` | `TypeCorrect` | `[]TypeOK` | from `TypeInv` (with `BurstInv`) and `QueueInv` |
| | `HalfDuplexCorrect`, `NoCloseUnderBurstCorrect` | RX and TX never together; no close under a burst | from `LockInv` and `QueueInv` |
| | `FliesOnlyLicensedCorrect` | each acknowledgement flies at most once | from `LicenceInv` |
| | `StopEndsBurstCorrect` | after a stop at most the chunk already polled | from `LateInv` |
| | `StoppedRxIsSuspendedCorrect` | a receiver stopped between bursts is marked so | from `HandshakeInv` and `SuspendInv` |
| `TxSession_proofs` | `TypeCorrect`, `FlownAsToldCorrect`, `OutcomeIsTrueCorrect` | of the burst writer alone: the counters keep their ranges; what is on the air is what the caller is told; the outcomes mean what they say | from `BurstInv` |
| | `RevokedIsQuietCorrect` | after the authority is revoked at most the write in the driver's hands goes out | from `RevokeInv` |
| | `StoppedIsFinalCorrect` | off the air before `stopped`, silent after it, for all four apps | from `PostedInv`, `PlaceInv`, `FinalInv` |
| | `FlownInSession`, `OutcomeInSession` | what `BurstWriter` promises survives in the session around it | from `FreshInv` and `BurstInv` |
| `RxPipeline_proofs` | `FedAsRecordedCorrect` | the decoder is fed a prefix of the recording | from `PutInv` and `FeedInv` |
| | `EveryBurstEmittedCorrect` | no burst is lost or doubled between two windows | from `RecInv`, `StreamInv`, `ControlInv`, `BurstInv` |
| `PassServices_proofs` | `CaptureIsPrefixCorrect` | the recording has no hole | from `CaptureInv` |
| | `DopplerIsFreshCorrect` | a silent Doppler source is given up in time, a late reply is no answer | from `WaitInv`, `WireInv`, `GraceInv` |
| | `AudioCompleteCorrect` | the audio in order and to the end | from `PathInv`, `OrderInv`, `GraphInv`, `SentinelInv`, `CountInv` |
| | `QueueTypeCorrect`, `AccountingCorrect` | the live queue keeps to its capacities; the statistics add up, first in first out | inductive as they stand |
| | `NothingAfterGapCorrect` | fail closed after a loss | from `GapInv` |
| | `PairedWithoutLossCorrect` | two engines paired: the books balance, repeats survive, nothing waits for a partner that is there | from `PendingInv`, `RepeatsInv`, `SumsInv` |
| `SatelliteDrain_proofs` | `LossIsNoticedCorrect` | a loop that ends without an exception has lost nothing | from `LossInv` |
| | `EmittedExactlyCorrect` | every frame found goes out, and with nothing held back no more often than it was sent | from `PassInv`: `PathInv`, `SpanInv`, `RepeatsInv`, `SizeInv`, `FlowInv`, `SentInv`, `BooksInv`, `OnceInv` |
| `ReceiveAndTools_proofs` | `NothingDanglesCorrect` | the graph that is started has no loose end and no queue without a decoder | from `WiredInv`, `UsedInv`, `SinkInv` |
| | `ReportIsTrueCorrect` | `ready` says "no decoder" exactly when there is none | from `DecodeInv` |
| | `SignalHeardCorrect` | the channel carries the signal that was asked for, whatever rates the station configures | inductive with `GraphInv`; the front end's choice is `FrontHeard` |
| | `LockTypeCorrect` | the lock file names at most one probe, and each probe is somewhere | inductive as it stands |
| | `OneProbeAtATimeCorrect` | one probe at a time, for any number of probes, until a clearing met a lock it had not read | from `HeldInv` |
| | `CleanTransmitCorrect` | exit 0 of a transmit tool means flown whole and in order; whatever failed, the stream is closed before the device | from `HoldsInv`, `AirInv`, `BurstInv` |
| | `HonestVerdictCorrect` | what a session of trials reports is true of its trials, names included at rates the modulator keeps | from `ToldInv`, `TrialsInv` |
| | `ViewsAreTrueCorrect` | no product of an earlier capture, and no torn file, passes for this one's; the audio is the same however the capture was cut into chunks | from `MadeInv`, `PastInv`, `ViewInv`, and `StepsInv`, `OpenInv`, `ClosedInv` |
| | `DecodedWholeCorrect` | what an offline decode could find is filed, and once | from `ReplayInv` (`RowsInv`, `StopsInv`) and `SweepInv` (`FoundInv`, `KnownInv`, `FiledInv`) |

Why the strengthenings are needed:

* `AckInv`.  That `stopped` is the last line cannot be seen from the lines alone:
  a report of the engine's death could still be on its way.  The invariant adds
  that from the moment somebody begins to say `stopped`, the engine is done, its
  callback has run and the report it may have scheduled has been written.  The
  step that matters is the gather of the shutdown.
* `HandlerInv`, `ReportInv`, `ReadyInv`, `FlagInv`.  Each property is about a
  line the supervisor reads, and each invariant says who may still write it: a
  handler that raised is past the command loop for good; the callback of a dead
  engine creates a report before the gather can finish, unless nobody listens;
  only the task that proves the first sample says `ready`, and it is not yet
  through while nothing was said.  `FlagInv` is why only one app can be deaf: in
  the other two the stop flag is set by the main coroutine alone, and only on its
  way out.
* `QueueInv`.  A burst holds the asyncio lock until it is answered, and the
  command loop awaits its own prepare, so at most one prepare is ever at the
  lock and none while the loop does anything else; the shutdown finds it empty.
* `LockInv`.  Half duplex is a fact about the threading lock: whoever holds it is
  at a known place in its code, the burst worker holds it from the moment RX is
  stopped until TX is closed, and only `resume_rx` under the same lock starts RX.
* `LicenceInv`.  `flown <= licence` alone says nothing about the burst about to
  fly.  For every frame id, what has flown, what is staged and what is with a
  burst that has not begun add up to no more than what was acknowledged.
* `LateInv`, `HandshakeInv`, `SuspendInv`.  A chunk taken after the stop was
  polled before it, and the next poll ends the burst.  The mark of a stopped
  receiver is cleared outside the device lock; what keeps the clearing away from a
  burst is the order of the protocol, so the invariant counts: of an obedient
  client, at most one exchange is under way, in the inbox, at the controller's
  lock or being resumed.
* `BurstInv`.  The outcome is set when the burst ends; the invariant says what is
  known at each place of the loop before that (empty writes are the stall
  counter, which is below its limit; the status is drained only after the last
  sample; no discard has been heard so far).
* `PostedInv`, `PlaceInv`, `RevokeInv`, `FinalInv`, `FreshInv`.  A callback posted
  by the sink thread runs in a later turn of the loop, so "silent after
  `stopped`" depends on what may still be posted: one announcement, then the
  result, nothing once the task is over.  A process that is leaving has neither a
  writing thread nor a carrier (`PlaceInv`).  After a revocation the writer
  meets the flag at the top of its loop, so it is enough to say where it is.
  `FreshInv` joins the two modules: until the sink is opened the writer is in
  its initial state, and then it takes its own steps or, with a file, all at once.
* `RecInv`, `StreamInv`, `ControlInv`, `BurstInv` (of the receive pipeline).  A window
  is cut from what was fed, and what of it may hold the beginning of a burst is kept
  for the next.  `StreamInv` says that the window, the kept part and the chunks since
  are consecutive pieces of what was fed, so one number, `Scanned`, says how far
  decoding has come.  `BurstInv` says two things of it: the whole bursts before it
  are emitted or about to be, once and in order, and no burst lies across it.  The
  second is what the length of the kept part is for.  `ControlInv` is about the end:
  the flush waits for the decode task and leaves nothing unscanned.
* `FeedInv`.  While the engine still feeds the decoder, the recording is what was
  pushed, then what is queued, then what is being put, then the chunk the reader
  holds.  A put that was given up leaves a hole there, and `PutInv` says why it
  is at the end: the flag that lets a put give up is never taken back, and the
  reader tests it before it records again.
* `CaptureInv`.  The file is as long as the count of captured samples only while
  the handle is open: the first short write closes it, and nothing is written to
  a closed one.
* `GraceInv`, `WireInv`.  A poll is a chain of waits.  The age of the last reading
  plus what is left of the present wait stays within the grace and the waits of
  one period that can still come (`Budget`), which is the reason for the bound in
  `HandOver`.  `WireInv` says that one request is outstanding and its reply is on
  the wire or owed; a request that timed out takes its connection with it.
* `OrderInv`, `SentinelInv`, `CountInv`.  A block is written, in hand, queued, lost
  or displaced: the invariant adds them up at every step, with the sentinel in
  the queue counted apart, and says that the sentinel is behind all blocks.
* `GapInv`.  The consumer's check and its drain take the lock separately, so a
  loss may come in between.  What survives is that a consumer past its check was
  handed a gapless prefix so far, and that a queue without losses has accepted
  exactly what was offered.
* `PendingInv`, `RepeatsInv`, `SumsInv` (of the reconciler).  That the app gets at least
  as many copies as either engine found is not inductive: what was returned also
  counts the copies that still wait for their partner.  `RepeatsInv` subtracts
  them (`returned >= seen + NumOf(pending, ...)`), and needs that a payload never
  waits on both sides (`Lone`), which is a property of `Observe`: it pairs before
  it appends.  `SumsInv` is the balance of the counters, with the sum over sources
  and payloads as a function on subsets (`SumsTo`).
* `PassInv` (of the drain loop).  `FlowInv` follows each transmission through queue,
  poll, decoder and reconciler and adds them up per payload; it holds until something
  is raised.  That nothing is emitted twice is harder, because the chains are drained
  one after the other and the reconciler sees payloads, not transmissions.  `OnceInv`
  compares what was returned with the *sets* of transmissions read from either chain,
  and looks ahead: each transmission that gr-satellites' chain has delivered and ours
  has yet to deliver must find its copy waiting from the last poll, unless a return is
  still owed for it.  What keeps that true is the order of the two drains: whatever
  gr-satellites' queue holds has not been read from ours (`BooksInv`), so ours can be
  behind by one poll and not ahead.  `SizeInv` says that no pass can exceed the
  reconciler's capacity, so its exception is out of reach here.
* `LossInv`.  A queue may overflow after the last look at it, so "noticed" is not a
  fact about any one drain.  The last two come after the graph has stopped, and the
  invariant says what is settled by then: nothing is counted any more, and each
  chain whose last drain is past without an exception has counted nothing.
* `WiredInv`, `UsedInv`, `SinkInv`, `DecodeInv`.  The finished graph is right
  because an unfinished one has at most one loose output, the tap or the channel,
  whatever was skipped or refused: each step connects its chain last.  `UsedInv`
  is what the final null sink relies on (a consumer that was counted is
  connected to the tap), `SinkInv` pairs each symbol queue with a decoder of its
  own, and `DecodeInv` makes the builder's counters mean blocks of the graph.
* `FrontHeard`.  The widened channel divides the rate of the device because the code
  takes the largest divisor that suits; that one exists is an induction
  (`DataLemmas`), and that it suits is arithmetic.
* `HeldInv`.  That two probes do not both hold the lock follows from where the file
  comes from: whoever writes or holds is the owner of the file that is there, and
  a file has one owner.  Only a probe that removes the file of another takes that
  away, and then `swapped` is set.
* `HoldsInv`, `AirInv`, `BurstInv`.  What a program did is seen when it exits, long
  after the calls that matter.  `HoldsInv` ties what is open and what was torn
  down to the call a child is in; `AirInv` says of an unfinished burst that its
  writes follow each other from 0 and that every burst before it is whole;
  `BurstInv` says in which calls the present burst has not begun, is under way, or
  is over, so that a child on its way out with code 0 has flown all of them.
* `ToldInv`, `TrialsInv`.  All a parent has of a lost child is the last line it
  printed.  `ToldInv` says that a probe's child whose last line is the entry of
  its first write was lost in it, and that no child which exits leaves that line
  behind (the teardown prints after it).  `TrialsInv` keeps that for the trials
  already judged, with the exit code as the maximum of their severities.  The
  diagnosis then is a matter of counting: two kinds that are disjoint and add up
  to the number of trials are all there is (`AllOfThem`, `TwoKinds`).
* `MadeInv`, `PastInv`, `ViewInv`.  The views are derived one after the other in a
  workspace that may hold anything.  A view the derivation has passed has no
  temporary file left and, where the code clears the target, nothing old under its
  name (`PastInv`); the view under way was cleared before anything was written
  (`ViewInv`); and nothing is reported that is not passed, asked for and of this
  capture (`MadeInv`).
* `StepsInv`, `OpenInv`, `ClosedInv`.  The chunks of the resampler do not show
  because what was filtered is always whole steps: as many outputs as that many
  input steps give, no fewer and no more (`StepsInv`), so a chunk's outputs depend
  on no sample to come (`Unaffected`).  The history is as long as the filter, or all
  there is, and begins on a step as well (`MemorySuffices`), so no output to come
  reaches further back (`Forgotten`) and the filter over the history and the block
  is the filter over the whole, a whole number of outputs further on
  (`PieceFiltered`).  That is where `HistoryLength` must be rounded up to a multiple
  of `down`; that the ratio is in lowest terms is not needed.
* `RowsInv`, `StopsInv`.  The replay's program drains after its graph has ended, and a
  queue may have overrun in between.  A hit is a row, or waits in a queue, or its
  queue has overrun (`RowsInv`); a program that ends clean has seen the end of the
  graph, no overrun and empty queues (`StopsInv`).
* `FoundInv`, `KnownInv`, `FiledInv`.  Half of each window of the sweep is seen again by
  the next.  What the windows so far could find is known (`KnownInv`), what is known is
  recorded exactly once (`FoundInv`), and what is filed is what was recorded when the
  last window was done (`FiledInv`); every frame no longer than the overlap lies whole
  in some window.

Each of these invariants was checked by TLC on the bounds of its run before it
was proved.  Five models changed for it.  `RevokedIsQuiet` used to say
`late <= chunk`, which an MTU below zero breaks with nothing sent; it now asks
about sends only (`late > 0 => late <= chunk`).  Two definitions of the offline
tools (`ExpandedCases`, `Batch`) are written as filters and unions, with the same
values, because the proof system does not parse a tuple of bound variables.  In
`BenchTransmit` the verdict on a trial, the label of a phase and the diagnosis were
`CASE` expressions whose guards overlap: TLC takes the first that holds, TLA+ does
not say which, and the code is an `if`/`elif` chain, which they now are.  Its
initial jobs are predicates instead of sets of records, and `CleanExitDelivers`
speaks of each write and the one before it instead of a filtered sequence.
`RxPipeline` finds the frames of a window with a recursive function (`FramesIn`), and
the reconciler's computation is a module of constants (`FramePairing`), so that
lemmas can be stated about them.

`DopplerIsFresh` has one reservation: ages saturate at `MaxAge`, so for values of
`MaxAge` below every deadline added up `HandOver` says nothing.  The run's is
above it.

The library's induction theorems take an operator as a parameter, which none of
the installed provers can instantiate.  `DataLemmas` states induction for a set
(`InductionOnSets`, `InductionOnSubsets`) and derives it from the library's theorem on
minimal elements; what a recursive function returns for every input, how many
of a kind a sequence holds, and that a finite set has a sum are proved with it.

Left to TLC: liveness under fairness (`SessionEnds`, `TransmitAnswered`, `TxSessionEnds`,
`StopEndsEngine`, `DeathFailsEngine`, `ServicesEnd`, `StopEnds`) and everything about
`ENABLED`; and the two invariants of `StreamDecoders`.  `FramesExactlyOnce` compares
the pieces with the uncut line through the folds and filters each row of
the registry decodes with, and `NeverRaises` needs the same description of every
buffer: the invariant would be about each of the 24 rows anew.

## 5. Not modelled, and why

`_SatContext` can starve one chain once the other has won a race
(`gnuradio_satellites.py:247`, `:276`, `compose.race_winner`), but needs two valves
for it, and the only builder passes none: "dormant unless a future path re-introduces
valves" (`:950-952`).  `SatelliteDrain` has both chains for the whole pass and no
race.  `satellite_rx.py:216` announces `ready` without a proof when there is no probe
for a first sample; a graph that was built always has a source to probe
(`_recorder.py:520`), so `SpawnSession` leaves that branch out.  With no view wanted
`derive_views` returns at once (`iq_views.py:286`); in `PassViews` such a run passes the
four views by, to the same end.

GNU Radio's own blocks and scheduler appear only through what the Python code
sees of them.  Signal processing (modulation, filters, clock recovery, CFO, the
statistics of `tools/iq_analyze.py`) is numeric.  Block codes and CRCs are one
parity bit in `StreamDecoders`: what matters there is when they are asked and
about which symbols.  Socket connection and argument parsing happen once and
before any concurrency.  `native_lora/` and `native_telemetry/` are pure codecs
with no caller in a live pass; `_uplink_frame.py` is pure validation whose two
outcomes `BidirUplink` has.  `flowgraph_runtime_check.py` imports modules and
prints.  `PROJECT.json` lists every part with its reason.

## 6. Plan

1. (done) Spawn contract and its promise; half-duplex uplink; burst writer;
   receive pipeline; live handoff, reconciler and dual-engine drain; audio pump.
2. (done) The transmitters and stubs; Doppler poll; recorder; the assembly of the
   receive graph; the streaming decoders; the bench and offline tools.
3. Proofs: (done) the session's acknowledgement, failures and refinement, the
   uplink, the burst writer and the transmit session around it, the receive
   pipeline with its decode windows, the services of a receive app, the pairing of
   two engines and the drain loop around it, the assembly of the graph and its
   front end, the probe's lock, the bench tools, the views of a recording and its
   audio, the offline decodes.  Worth doing next: the streaming decoders, one line
   code at a time, and refinements in the manner of `SpawnPromise` for the transmit
   session.
4. Not begun: uplink frame validation, the LoRa header machine, the rate
   factorisation of `_rateplan.py`.
