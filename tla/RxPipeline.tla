------------------------------ MODULE RxPipeline ------------------------------
(***************************************************************************)
(* The receive pipeline of the two in-process receivers, run_rx of         *)
(* cubesat_gfsk_endurosat_bidir and _run_dsp_engine of                     *)
(* cubesat_gfsk_ax25_rx: a reader THREAD takes chunks from the IQ source,  *)
(* records them and puts them, with backpressure, on a bounded asyncio     *)
(* queue; the consumer COROUTINE pushes them into the streaming decoder; a *)
(* decode TASK drains the decoder in a worker thread every two seconds and *)
(* emits its frames; the engine's `finally' joins the three and flushes.   *)
(*                                                                         *)
(* Chunks are numbered.  A chunk in On ends above the burst gate, so that  *)
(* its burst goes on in the next one: every chunk outside On ends the      *)
(* burst of one frame, which is named by that chunk.  The two decoders the *)
(* apps run side by side do not interact, and one is modelled.             *)
(***************************************************************************)
EXTENDS Integers, Sequences, FiniteSets, SequencesExt

CONSTANTS
    NChunks,    \* bound: chunks the source delivers
    On,         \* chunks whose last sample is above the gate
    Cap,        \* capacity of the asyncio queue (64)
    MaxDefer    \* chunks an unfinished burst may be deferred for (5 s)

ASSUME RxAssumption ==
    /\ NChunks \in Nat /\ On \subseteq 1 .. NChunks - 1
    /\ Cap \in Nat \ {0} /\ MaxDefer \in Nat \ {0}

Chunk == 1 .. NChunks
Frame == Chunk \ On
EndOfStream == 0                       \* the None terminator
Item == Chunk \cup {EndOfStream}

VARIABLES
    app,         \* the program, "bidir" or "cubesat_rx"
    reader,      \* the reader thread
    asked,       \* chunks the source has yielded
    error,       \* reader_error
    recorded,    \* what the recorder wrote
    recorder,    \* the capture file is open
    submitted,   \* queue.put coroutines the loop has not completed
    queue,       \* the bounded queue
    main,        \* the engine coroutine
    stop,        \* stop_requested
    teardown,    \* rx_teardown (bidir)
    ioStop,      \* io.request_stop() was called (bidir)
    chunks,      \* decoder: pushed since the last hand-off
    pending,     \* decoder: kept for the next window
    window,      \* decoder: the window a worker thread is decoding
    task,        \* the decode task
    bodies,      \* frames decoded and not yet emitted
    peer,        \* the status peer is there
    pushed,      \* chunks given to the decoder (history)
    emitted,     \* frames emitted (history)
    lost,        \* a decode raised, or a frame met a dead peer (history)
    asking       \* the stop came from the command loop (history)

readerVars  == <<reader, asked, error, recorded, recorder>>
engineVars  == <<main, stop, teardown, ioStop>>
decoderVars == <<chunks, pending, window>>
emitVars    == <<bodies, emitted, lost>>
envVars     == <<peer, asking>>
vars == <<app, readerVars, submitted, queue, engineVars, decoderVars, task, emitVars, pushed, envVars>>

TypeOK ==
    /\ app \in {"bidir", "cubesat_rx"}
    /\ reader \in {"asking", "holding", "passed", "putting", "ending", "lastPut", "done"}
    /\ asked \in 0 .. NChunks /\ error \in BOOLEAN
    /\ recorded \in Seq(Chunk) /\ recorder \in BOOLEAN
    /\ submitted \in Seq(Item) /\ Len(submitted) <= 2
    /\ queue \in Seq(Item) /\ Len(queue) <= Cap
    /\ main \in {"arming", "consuming", "joining", "gathering", "flushing", "leftovers",
                 "ok", "failed"}
    /\ stop \in BOOLEAN /\ teardown \in BOOLEAN /\ ioStop \in BOOLEAN
    /\ chunks \in Seq(Chunk) /\ pending \in Seq(Chunk) /\ window \in Seq(Chunk)
    /\ task \in {"none", "sleeping", "decoding", "emitting", "ended", "dead"}
    /\ bodies \in Seq(Frame) /\ emitted \in Seq(Frame) /\ lost \in BOOLEAN
    /\ peer \in BOOLEAN /\ pushed \in Seq(Chunk) /\ asking \in BOOLEAN

Init ==
    /\ app \in {"bidir", "cubesat_rx"}
    /\ reader = "asking" /\ asked = 0 /\ error = FALSE
    /\ recorded = <<>> /\ recorder = TRUE
    /\ submitted = <<>> /\ queue = <<>>
    /\ main = IF app = "bidir" THEN "consuming" ELSE "arming"
    /\ stop = FALSE /\ teardown = FALSE /\ ioStop = FALSE
    /\ chunks = <<>> /\ pending = <<>> /\ window = <<>>
    /\ task = IF app = "bidir" THEN "sleeping" ELSE "none"
    /\ bodies = <<>> /\ emitted = <<>> /\ lost = FALSE
    /\ peer = TRUE /\ pushed = <<>> /\ asking = FALSE

\* The flag that lets a blocked put give up and ends the decode task:
\* rx_teardown in bidir, the shared stop_requested in the cubesat receiver.
Quits == IF app = "bidir" THEN teardown ELSE stop
-----------------------------------------------------------------------------
(* The reader thread.                                                      *)

ReaderFrame == UNCHANGED <<app, queue, engineVars, decoderVars, task, emitVars, pushed, envVars>>

SourceYields ==
    /\ reader = "asking" /\ asked < NChunks
    /\ reader' = "holding" /\ asked' = asked + 1
    /\ UNCHANGED <<error, recorded, recorder, submitted>> /\ ReaderFrame

\* The stream is exhausted, or the source raises.
SourceEnds(dies) ==
    /\ reader = "asking"
    /\ reader' = "ending" /\ error' = dies
    /\ UNCHANGED <<asked, recorded, recorder, submitted>> /\ ReaderFrame

\* A parked source wakes and returns once it is told to stop.
SourceReturns == ioStop /\ SourceEnds(FALSE)

ReaderStops ==
    /\ reader = "holding" /\ (stop \/ Quits)
    /\ reader' = "ending"
    /\ UNCHANGED <<asked, error, recorded, recorder, submitted>> /\ ReaderFrame

\* Bidir: a chunk read while a burst is on the air is worth nothing.
ReaderSkips ==
    /\ reader = "holding" /\ app = "bidir" /\ ~stop /\ ~Quits
    /\ reader' = "asking"
    /\ UNCHANGED <<asked, error, recorded, recorder, submitted>> /\ ReaderFrame

\* The flags were clear: the chunk is recorded and will be put, whatever
\* happens to them now.
ReaderPasses ==
    /\ reader = "holding" /\ ~stop /\ ~Quits
    /\ reader' = "passed" /\ recorded' = Append(recorded, asked)
    /\ UNCHANGED <<asked, error, recorder, submitted>> /\ ReaderFrame

Puts ==
    /\ reader = "passed"
    /\ reader' = "putting" /\ submitted' = Append(submitted, asked)
    /\ UNCHANGED <<asked, error, recorded, recorder>> /\ ReaderFrame

ReaderEnds ==
    /\ reader = "ending"
    /\ reader' = "lastPut" /\ recorder' = FALSE /\ submitted' = Append(submitted, EndOfStream)
    /\ UNCHANGED <<asked, error, recorded>> /\ ReaderFrame

AfterPut == [putting |-> "asking", lastPut |-> "done"]

\* fut.result() returns: the item is on the queue.
PutReturns ==
    /\ reader \in DOMAIN AfterPut /\ submitted = <<>>
    /\ reader' = AfterPut[reader]
    /\ UNCHANGED <<asked, error, recorded, recorder, submitted>> /\ ReaderFrame

BailBug ==                   \* a put that waits too long gives up
    /\ reader \in DOMAIN AfterPut /\ submitted # <<>>
    /\ reader' = AfterPut[reader]
    /\ UNCHANGED <<asked, error, recorded, recorder, submitted>> /\ ReaderFrame

\* The poll expires while nobody drains: the put is cancelled, and the
\* cancellation reaches the loop later.
Bail ==
    /\ reader \in DOMAIN AfterPut /\ submitted # <<>> /\ Quits
    /\ reader' = AfterPut[reader]
    /\ UNCHANGED <<asked, error, recorded, recorder, submitted>> /\ ReaderFrame

\* Puts submitted whose result the reader no longer waits for.
Cancelled == Len(submitted) - (IF reader \in DOMAIN AfterPut THEN 1 ELSE 0)
-----------------------------------------------------------------------------
(* The event loop completes the puts in their order.                       *)

Enqueue ==
    /\ submitted # <<>> /\ Len(queue) < Cap
    /\ queue' = Append(queue, Head(submitted)) /\ submitted' = Tail(submitted)
    /\ UNCHANGED <<app, readerVars, engineVars, decoderVars, task, emitVars, pushed, envVars>>

Cancel ==
    /\ Cancelled > 0
    /\ submitted' = Tail(submitted)
    /\ UNCHANGED <<app, readerVars, queue, engineVars, decoderVars, task, emitVars, pushed,
                   envVars>>
-----------------------------------------------------------------------------
(* The engine coroutine.                                                   *)

EngineFrame == UNCHANGED <<app, readerVars, submitted, envVars>>

\* Cubesat: the first chunk is the proof behind `ready', and is decoded like
\* any other; without it, or with nobody to tell, the engine fails.
Arm ==
    /\ main = "arming" /\ queue # <<>> /\ queue' = Tail(queue)
    /\ IF Head(queue) # EndOfStream /\ peer
          THEN /\ main' = "consuming" /\ task' = "sleeping"
               /\ chunks' = Append(chunks, Head(queue)) /\ pushed' = Append(pushed, Head(queue))
          ELSE main' = "failed" /\ UNCHANGED <<task, chunks, pushed>>
    /\ UNCHANGED <<stop, teardown, ioStop, pending, window, emitVars>> /\ EngineFrame

ArmTimesOut ==
    /\ main = "arming" /\ queue = <<>>
    /\ main' = "failed" /\ stop' = TRUE
    /\ UNCHANGED <<queue, task, teardown, ioStop, decoderVars, emitVars, pushed>> /\ EngineFrame

Push ==
    /\ main = "consuming" /\ queue # <<>> /\ Head(queue) # EndOfStream
    /\ queue' = Tail(queue)
    /\ chunks' = Append(chunks, Head(queue)) /\ pushed' = Append(pushed, Head(queue))
    /\ UNCHANGED <<engineVars, pending, window, task, emitVars>> /\ EngineFrame

TearDownBug ==               \* the parked source is not told
    /\ main' = "joining" /\ ioStop' = ioStop
    /\ stop' = (stop \/ app = "cubesat_rx") /\ teardown' = TRUE
    /\ UNCHANGED <<decoderVars, task, emitVars, pushed>> /\ EngineFrame

TearDown ==
    /\ main' = "joining" /\ ioStop' = (app = "bidir")
    /\ stop' = (stop \/ app = "cubesat_rx") /\ teardown' = TRUE
    /\ UNCHANGED <<decoderVars, task, emitVars, pushed>> /\ EngineFrame

\* None, or stop requested and nothing left on the queue.
ConsumerLeaves ==
    /\ main = "consuming"
    /\ \/ queue # <<>> /\ Head(queue) = EndOfStream /\ queue' = Tail(queue)
       \/ stop /\ queue = <<>> /\ UNCHANGED queue
    /\ TearDown

\* Bidir waits for the reader; the cubesat receiver waits five seconds.
Joined ==
    /\ main = "joining" /\ task \in {"ended", "dead"}
    /\ app = "bidir" => reader = "done"
    /\ main' = "flushing"
    /\ UNCHANGED <<queue, stop, teardown, ioStop, decoderVars, task, emitVars, pushed>>
    /\ EngineFrame
-----------------------------------------------------------------------------
(* The streaming decoder.                                                  *)

\* The chunks a burst that ends in chunk f began and went on in.
BurstOf(f) == {c \in 1 .. f : c .. f - 1 \subseteq On}

\* The frames of a window: the bursts it holds from their first chunk.
FramesIn(w) ==
    LET frames[i \in 0 .. Len(w)] ==
            IF i = 0 THEN <<>>
            ELSE IF w[i] \notin On /\ BurstOf(w[i]) \subseteq ToSet(w)
                 THEN Append(frames[i - 1], w[i])
                 ELSE frames[i - 1]
    IN frames[Len(w)]

\* The burst still above the gate at the window's edge: carried whole into
\* the next window, unless it is too long to be one.
Unfinished(w) ==
    LET tails == {i \in 1 .. Len(w) + 1 : \A j \in i .. Len(w) : w[j] \in On}
        tail  == SubSeq(w, CHOOSE i \in tails : \A j \in tails : i <= j, Len(w))
    IN IF Len(tail) > MaxDefer THEN <<>> ELSE tail

TakeWindowBug ==             \* the kept samples are forgotten
    window' = chunks /\ chunks' = <<>> /\ pending' = <<>>

\* The hand-off under the decoder's lock.
TakeWindow == window' = pending \o chunks /\ chunks' = <<>> /\ pending' = <<>>

DecodeWakes ==
    /\ task = "sleeping" /\ ~Quits
    /\ task' = "decoding" /\ TakeWindow
    /\ UNCHANGED <<app, readerVars, submitted, queue, engineVars, emitVars, pushed, envVars>>

DecodeTaskEnds ==
    /\ task = "sleeping" /\ Quits
    /\ task' = "ended"
    /\ UNCHANGED <<app, readerVars, submitted, queue, engineVars, decoderVars, emitVars, pushed,
                   envVars>>

DecodedBug ==                \* the whole window is scanned again next time
    /\ task = "decoding"
    /\ task' = "emitting" /\ bodies' = FramesIn(window) /\ pending' = window /\ window' = <<>>
    /\ UNCHANGED <<app, readerVars, submitted, queue, engineVars, chunks, emitted, lost, pushed,
                   envVars>>

Decoded ==
    /\ task = "decoding"
    /\ task' = "emitting"
    /\ bodies' = FramesIn(window) /\ pending' = Unfinished(window) /\ window' = <<>>
    /\ UNCHANGED <<app, readerVars, submitted, queue, engineVars, chunks, emitted, lost, pushed,
                   envVars>>

\* Logged, and the loop goes on: the window is gone.
DecodeRaises ==
    /\ task = "decoding"
    /\ task' = "sleeping" /\ window' = <<>> /\ lost' = TRUE
    /\ UNCHANGED <<app, readerVars, submitted, queue, engineVars, chunks, pending, bodies,
                   emitted, pushed, envVars>>

\* One frame_received event, to whoever is still there.
Emit ==
    /\ bodies # <<>> /\ bodies' = Tail(bodies)
    /\ emitted' = IF peer THEN Append(emitted, Head(bodies)) ELSE emitted
    /\ lost' = (lost \/ ~peer)

\* A dead status peer is suppressed in bidir, and kills the cubesat
\* receiver's decode task without a word.
DecodeEmits ==
    /\ task = "emitting" /\ Emit
    /\ task' = IF peer \/ app = "bidir" THEN "emitting" ELSE "dead"
    /\ UNCHANGED <<app, readerVars, submitted, queue, engineVars, decoderVars, pushed, envVars>>

DecodeSleeps ==
    /\ task = "emitting" /\ bodies = <<>>
    /\ task' = "sleeping"
    /\ UNCHANGED <<app, readerVars, submitted, queue, engineVars, decoderVars, emitVars, pushed,
                   envVars>>
-----------------------------------------------------------------------------
(* The end of the engine: the final flush, its frames, the verdict.        *)

Flush ==
    /\ main = "flushing" /\ main' = "leftovers"
    /\ \/ bodies' = FramesIn(pending \o chunks) /\ lost' = lost
       \/ bodies' = <<>> /\ lost' = TRUE
    /\ pending' = <<>> /\ chunks' = <<>>
    /\ UNCHANGED <<queue, stop, teardown, ioStop, window, task, emitted, pushed>> /\ EngineFrame

EmitLeftover ==
    /\ main = "leftovers" /\ Emit
    /\ main' = IF peer \/ app = "bidir" THEN "leftovers" ELSE "failed"
    /\ UNCHANGED <<queue, stop, teardown, ioStop, decoderVars, task, pushed>> /\ EngineFrame

VerdictBug ==                \* the reader's death is logged, the engine returns
    /\ main = "leftovers" /\ bodies = <<>>
    /\ main' = "ok"
    /\ UNCHANGED <<queue, stop, teardown, ioStop, decoderVars, task, emitVars, pushed>>
    /\ EngineFrame

\* The reader's death must not look like the end of the stream.
Verdict ==
    /\ main = "leftovers" /\ bodies = <<>>
    /\ main' = IF error THEN "failed" ELSE "ok"
    /\ UNCHANGED <<queue, stop, teardown, ioStop, decoderVars, task, emitVars, pushed>>
    /\ EngineFrame
-----------------------------------------------------------------------------
(* The rest of the app.                                                    *)

\* cmd stop, or the shutdown that follows the engine's end.
StopRequested ==
    /\ ~asking /\ asking' = TRUE /\ stop' = TRUE
    /\ UNCHANGED <<app, readerVars, submitted, queue, main, teardown, ioStop, decoderVars, task,
                   emitVars, peer, pushed>>

PeerGoes ==
    /\ peer /\ peer' = FALSE
    /\ UNCHANGED <<app, readerVars, submitted, queue, engineVars, decoderVars, task, emitVars,
                   pushed, asking>>
-----------------------------------------------------------------------------
Over == main \in {"ok", "failed"}

\* The daemon reader may outlive the cubesat engine, and the loop with it.
Finished == Over /\ UNCHANGED vars

Reader   == ReaderStops \/ ReaderPasses \/ Puts \/ ReaderEnds \/ PutReturns \/ Bail
Loop     == Enqueue \/ Cancel
Consumer == Arm \/ ArmTimesOut \/ Push \/ ConsumerLeaves \/ Joined \/ Flush \/ EmitLeftover \/ Verdict
DecodeTask == DecodeWakes \/ DecodeTaskEnds \/ Decoded \/ DecodeRaises \/ DecodeEmits \/ DecodeSleeps

Next ==
    \/ SourceYields \/ SourceReturns \/ \E dies \in BOOLEAN : SourceEnds(dies)
    \/ ReaderSkips \/ Reader \/ Loop \/ Consumer \/ DecodeTask
    \/ StopRequested \/ PeerGoes \/ Finished

Spec == Init /\ [][Next]_vars

\* The threads and the loop are scheduled; the source owes nothing until
\* request_stop reaches it, and a peer that reads keeps emission moving.
FairSpec ==
    /\ Spec
    /\ WF_vars(Reader) /\ WF_vars(SourceReturns) /\ WF_vars(Loop) /\ WF_vars(Consumer)
    /\ WF_vars(DecodeTask)
-----------------------------------------------------------------------------
\* What is fed to the decoder is what the recorder wrote, from its start and
\* without a gap: backpressure never loses a chunk in the middle of a pass.
FedAsRecorded == IsPrefix(pushed, recorded)

\* When no stop was asked, the stream that ended or died was decoded to its
\* last recorded chunk before the engine returned.
DrainedToTheEnd == Over /\ task # "none" /\ ~asking => pushed = recorded

\* No frame is emitted twice or out of order, however the windows fall.
EmittedOnce == \A i, j \in DOMAIN emitted : i < j => emitted[i] < emitted[j]

\* The chunks above the gate right before the i-th one pushed.  (A chunk that
\* bidir skips joins, in the decoder's eyes, the bursts on its two sides.)
RunUpTo(i) == {j \in 1 .. i - 1 : \A k \in j .. i - 1 : pushed[k] \in On}

\* A burst that may span windows, but is not longer than the deferral, is
\* not lost between them: once the engine is over and nothing failed, every
\* such burst the decoder was fed whole was emitted.
EveryBurstEmitted ==
    Over /\ task # "none" /\ ~lost =>
        \A i \in DOMAIN pushed :
            /\ pushed[i] \in Frame /\ BurstOf(pushed[i]) \subseteq ToSet(pushed)
            /\ Cardinality(RunUpTo(i)) <= MaxDefer
            => pushed[i] \in ToSet(emitted)

\* A stop ends the engine, whatever its source, queue and threads are doing.
StopEndsEngine == stop ~> Over

\* A source that dies mid-pass makes the engine fail: it does not pass for
\* the end of the stream.
DeathFailsEngine == error /\ main \in {"arming", "consuming"} ~> main = "failed"
=============================================================================
