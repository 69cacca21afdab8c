----------------------------- MODULE BidirUplink -----------------------------
(***************************************************************************)
(* The uplink of cubesat_gfsk_endurosat_bidir on its one shared SoapySDR   *)
(* device.  Four actors touch the device and the flags around it:          *)
(*   - the command loop, which stages bursts (prepare_transmit), spawns    *)
(*     burst tasks (transmit_frame) and resumes the receiver (resume_rx);  *)
(*   - the burst worker thread, which stops RX, streams TX and leaves RX   *)
(*     suspended;                                                          *)
(*   - the reader thread, which parks while RX is not its own to read;     *)
(*   - the shutdown, which aborts a burst and closes the device.           *)
(* The client is gs-client: it keys the PA, moves the T/R switch and sends *)
(* the commands.  An obedient one waits for each event before the next     *)
(* command, as the handshake asks of it; any other sends what it likes.    *)
(***************************************************************************)
EXTENDS Naturals, Sequences, FiniteSets

CONSTANTS
    Frames,     \* frame ids the client may send
    NoFrame,    \* nothing staged
    MaxOrderly, \* bound: commands of an obedient client in one session
    MaxUnruly,  \* bound: commands of any other client
    Chunks      \* writes in one burst

ASSUME UplinkAssumption ==
    /\ Frames # {} /\ IsFiniteSet(Frames) /\ NoFrame \notin Frames
    /\ MaxOrderly \in Nat /\ MaxUnruly \in Nat /\ Chunks \in Nat \ {0}

Request == [op : {"prepare", "transmit"}, frame : Frames]
Command == Request \cup [op : {"resume", "stop"}, frame : {NoFrame}]
Prepare(f)  == [op |-> "prepare", frame |-> f]
Transmit(f) == [op |-> "transmit", frame |-> f]
Plain(o)    == [op |-> o, frame |-> NoFrame]

VARIABLES
    obedient,   \* the client follows the handshake
    inbox,      \* commands sent and not yet read
    sent,       \* commands sent
    client,     \* what the client waits for
    main,       \* the command loop and the shutdown
    stop,       \* stop_requested, shared with the burst worker
    spawned,    \* burst tasks created and not yet started
    lockQueue,  \* _TxController._lock: its head holds it, the others wait
    staged,     \* the staged burst
    building,   \* a stage is being built in a worker thread
    worker,     \* the burst worker thread
    written,    \* chunks the device accepted of this burst
    late,       \* chunks accepted after the stop was requested
    txActive,   \* tx_active: the reader must park
    suspended,  \* rx_suspended: RX waits for resume_rx
    device,     \* holder of the device lock, "free" if none
    rxOn,       \* the RX stream is active
    txOn,       \* the TX stream is active
    closed,     \* close() closed the RX stream
    reader,     \* the reader thread
    stale,      \* last_progress is older than the deaf-radio timeout
    ioStop,     \* request_stop reached the device
    licence,    \* tx_prepared events per frame id (history)
    flown,      \* bursts of which the device accepted something, per frame id (history)
    asked,      \* transmit_frame commands read (history)
    answered    \* transmit_complete events (history)

clientVars  == <<inbox, sent, client>>
ctlVars     == <<spawned, lockQueue, staged, building>>
workerVars  == <<worker, written, late>>
flagVars    == <<txActive, suspended>>
deviceVars  == <<device, rxOn, txOn, closed>>
readerVars  == <<reader, stale, ioStop>>
historyVars == <<licence, flown, asked, answered>>
vars == <<obedient, clientVars, main, stop, ctlVars, workerVars, flagVars, deviceVars,
          readerVars, historyVars>>

MaxSent == IF obedient THEN MaxOrderly ELSE MaxUnruly

TypeOK ==
    /\ obedient \in BOOLEAN
    /\ inbox \in Seq(Command) /\ sent \in 0 .. MaxSent
    /\ client \in {"idle", "preparing", "keyed", "transmitting", "quiet", "resuming", "gone"}
    /\ main \in {"reading", "preparing", "resuming", "resume-locked", "resume-clear",
                 "settling", "closing", "done"}
    /\ stop \in BOOLEAN
    /\ spawned \in Seq(Frames) /\ lockQueue \in Seq(Request)
    /\ staged \in Frames \cup {NoFrame} /\ building \in BOOLEAN
    /\ worker \in {"idle", "called", "claimed", "rx-stopped", "polled", "writing",
                   "cleanup", "releasing", "returned"}
    /\ written \in 0 .. Chunks /\ late \in 0 .. Chunks
    /\ txActive \in BOOLEAN /\ suspended \in BOOLEAN
    /\ device \in {"free", "reader", "worker", "resume"}
    /\ rxOn \in BOOLEAN /\ txOn \in BOOLEAN /\ closed \in BOOLEAN
    /\ reader \in {"checking", "locking", "reading", "failed", "ended"}
    /\ stale \in BOOLEAN /\ ioStop \in BOOLEAN
    /\ licence \in [Frames -> Nat] /\ flown \in [Frames -> Nat]
    /\ asked \in Nat /\ answered \in Nat

Init ==
    /\ obedient \in BOOLEAN
    /\ inbox = <<>> /\ sent = 0 /\ client = "idle"
    /\ main = "reading" /\ stop = FALSE
    /\ spawned = <<>> /\ lockQueue = <<>> /\ staged = NoFrame /\ building = FALSE
    /\ worker = "idle" /\ written = 0 /\ late = 0
    /\ txActive = FALSE /\ suspended = FALSE
    /\ device = "free" /\ rxOn = TRUE /\ txOn = FALSE /\ closed = FALSE
    /\ reader = "checking" /\ stale = FALSE /\ ioStop = FALSE
    /\ licence = [f \in Frames |-> 0] /\ flown = [f \in Frames |-> 0]
    /\ asked = 0 /\ answered = 0
-----------------------------------------------------------------------------
(* The client.                                                             *)

Send(c) == sent < MaxSent /\ sent' = sent + 1 /\ inbox' = Append(inbox, c)

\* An obedient client prepares, transmits what was acknowledged, resumes RX
\* once the burst was answered, and stops when it likes.
MaySend(c) ==
    \/ ~obedient
    \/ c.op = "stop"
    \/ c.op = "prepare"  /\ client = "idle"
    \/ c.op = "transmit" /\ client = "keyed" /\ licence[c.frame] > flown[c.frame]
    \/ c.op = "resume"   /\ client = "quiet"

Waiting == [prepare |-> "preparing", transmit |-> "transmitting",
            resume |-> "resuming", stop |-> "gone"]

ClientSends(c) ==
    /\ client # "gone" /\ MaySend(c) /\ Send(c)
    /\ client' = Waiting[c.op]
    /\ UNCHANGED <<obedient, main, stop, ctlVars, workerVars, flagVars, deviceVars, readerVars,
                   historyVars>>

\* An event reaches the client, which moves on unless it has sent stop.
Hears(state) == client' = IF client = "gone" THEN "gone" ELSE state
-----------------------------------------------------------------------------
(* The command loop.                                                       *)

Read(o) == main = "reading" /\ inbox # <<>> /\ Head(inbox).op = o /\ inbox' = Tail(inbox)

\* The handler is awaited: the loop reads nothing until the stage is built.
OnPrepare ==
    /\ Read("prepare")
    /\ main' = "preparing"
    /\ lockQueue' = Append(lockQueue, Head(inbox))
    /\ UNCHANGED <<obedient, sent, client, stop, spawned, staged, building, workerVars, flagVars,
                   deviceVars, readerVars, historyVars>>

\* The payload cannot be resolved: tx_prepare_failed without reaching the
\* controller.  A burst that was staged before stays staged.
OnUnresolved ==
    /\ Read("prepare")
    /\ Hears("idle")
    /\ UNCHANGED <<obedient, sent, main, stop, ctlVars, workerVars, flagVars, deviceVars,
                   readerVars, historyVars>>

\* The burst is a background task, so that a stop can still be read.
OnTransmit ==
    /\ Read("transmit")
    /\ spawned' = Append(spawned, Head(inbox).frame)
    /\ asked' = asked + 1
    /\ UNCHANGED <<obedient, sent, client, main, stop, lockQueue, staged, building, workerVars,
                   flagVars, deviceVars, readerVars, licence, flown, answered>>

OnResume ==
    /\ Read("resume")
    /\ main' = "resuming"
    /\ UNCHANGED <<obedient, sent, client, stop, ctlVars, workerVars, flagVars, deviceVars,
                   readerVars, historyVars>>

OnStop ==
    /\ Read("stop")
    /\ main' = "settling" /\ stop' = TRUE
    /\ UNCHANGED <<obedient, sent, client, ctlVars, workerVars, flagVars, deviceVars, readerVars,
                   historyVars>>

\* The reader died or the stream ended: watch_engine_death feeds EOF, which
\* is read once the buffered commands are.
OnEngineEof ==
    /\ main = "reading" /\ inbox = <<>> /\ reader \in {"failed", "ended"}
    /\ main' = "settling" /\ stop' = TRUE
    /\ UNCHANGED <<obedient, clientVars, ctlVars, workerVars, flagVars, deviceVars, readerVars,
                   historyVars>>
-----------------------------------------------------------------------------
(* _TxController.prepare, under the lock.                                  *)

Holds(o) == lockQueue # <<>> /\ Head(lockQueue).op = o

BeginPrepareBug ==           \* acknowledged first, built afterwards
    /\ Holds("prepare") /\ ~building
    /\ staged' = Head(lockQueue).frame /\ building' = TRUE /\ Hears("keyed")
    /\ licence' = [licence EXCEPT ![Head(lockQueue).frame] = @ + 1]
    /\ UNCHANGED <<obedient, inbox, sent, main, stop, spawned, lockQueue, workerVars, flagVars,
                   deviceVars, readerVars, flown, asked, answered>>

\* A failed stage must not leave the previous burst armed.
BeginPrepare ==
    /\ Holds("prepare") /\ ~building
    /\ staged' = NoFrame /\ building' = TRUE
    /\ UNCHANGED <<obedient, clientVars, main, stop, spawned, lockQueue, workerVars, flagVars,
                   deviceVars, readerVars, historyVars>>

PrepareDone ==
    /\ building' = FALSE /\ lockQueue' = Tail(lockQueue) /\ main' = "reading"
    /\ UNCHANGED <<obedient, inbox, sent, stop, spawned, workerVars, flagVars, deviceVars,
                   readerVars, flown, asked, answered>>

\* Validated, built, staged and acknowledged: the licence to key.
Stage ==
    /\ Holds("prepare") /\ building
    /\ staged' = Head(lockQueue).frame
    /\ licence' = [licence EXCEPT ![Head(lockQueue).frame] = @ + 1]
    /\ Hears("keyed")
    /\ PrepareDone

\* UplinkRejected or a build failure: tx_prepare_failed.
RejectStage ==
    /\ Holds("prepare") /\ building
    /\ Hears("idle")
    /\ PrepareDone
    /\ UNCHANGED <<staged, licence>>
-----------------------------------------------------------------------------
(* _TxController.transmit, in its own task, under the lock.                *)

TaskStarts ==
    /\ spawned # <<>>
    /\ spawned' = Tail(spawned)
    /\ lockQueue' = Append(lockQueue, Transmit(Head(spawned)))
    /\ UNCHANGED <<obedient, clientVars, main, stop, staged, building, workerVars, flagVars,
                   deviceVars, readerVars, historyVars>>

Complete == /\ answered' = answered + 1 /\ Hears("quiet")
            /\ lockQueue' = Tail(lockQueue)

\* Nothing staged for this id: refused, and whatever was staged is dropped.
TransmitRefuses ==
    /\ Holds("transmit") /\ worker = "idle" /\ staged # Head(lockQueue).frame
    /\ staged' = NoFrame
    /\ Complete
    /\ UNCHANGED <<obedient, inbox, sent, main, stop, spawned, building, workerVars, flagVars,
                   deviceVars, readerVars, licence, flown, asked>>

TransmitBeginsBug ==         \* the stage is not consumed, and not compared
    /\ Holds("transmit") /\ worker = "idle" /\ staged # NoFrame
    /\ worker' = "called" /\ txActive' = TRUE /\ written' = 0 /\ late' = 0
    /\ UNCHANGED <<obedient, clientVars, main, stop, spawned, lockQueue, staged, building,
                   suspended, deviceVars, readerVars, historyVars>>

\* The stage is consumed whatever happens; tx_active is raised here already.
TransmitBegins ==
    /\ Holds("transmit") /\ worker = "idle" /\ staged = Head(lockQueue).frame
    /\ staged' = NoFrame
    /\ worker' = "called" /\ txActive' = TRUE /\ written' = 0 /\ late' = 0
    /\ UNCHANGED <<obedient, clientVars, main, stop, spawned, lockQueue, building, suspended,
                   deviceVars, readerVars, historyVars>>

TransmitCompletesBug ==      \* no event for a burst that never got on the air
    /\ Holds("transmit") /\ worker = "returned"
    /\ worker' = "idle" /\ txActive' = FALSE
    /\ answered' = (IF written = 0 THEN answered ELSE answered + 1)
    /\ Hears("quiet") /\ lockQueue' = Tail(lockQueue)
    /\ UNCHANGED <<obedient, inbox, sent, main, stop, spawned, staged, building, written, late,
                   suspended, deviceVars, readerVars, licence, flown, asked>>

TransmitCompletesTwiceBug == \* a failed burst is answered where it failed, and again
    /\ Holds("transmit") /\ worker = "returned"
    /\ worker' = "idle" /\ txActive' = FALSE
    /\ answered' = (IF written < Chunks THEN answered + 2 ELSE answered + 1)
    /\ Hears("quiet") /\ lockQueue' = Tail(lockQueue)
    /\ UNCHANGED <<obedient, inbox, sent, main, stop, spawned, staged, building, written, late,
                   suspended, deviceVars, readerVars, licence, flown, asked>>

TransmitCompletes ==
    /\ Holds("transmit") /\ worker = "returned"
    /\ worker' = "idle" /\ txActive' = FALSE
    /\ Complete
    /\ UNCHANGED <<obedient, inbox, sent, main, stop, spawned, staged, building, written, late,
                   suspended, deviceVars, readerVars, licence, flown, asked>>
-----------------------------------------------------------------------------
(* _SoapyBidirIo.transmit_burst, on the worker thread.                     *)

\* tx_active is raised again after the abort check, and no lock is held yet.
Claim ==
    /\ worker = "called"
    /\ worker' = IF stop THEN "returned" ELSE "claimed"
    /\ UNCHANGED <<obedient, clientVars, main, stop, ctlVars, written, late, flagVars, deviceVars,
                   readerVars, historyVars>>

StopRxBug ==                 \* a failed deactivate does not refuse the burst
    /\ worker = "claimed" /\ device = "free"
    /\ worker' = "rx-stopped" /\ device' = "worker" /\ rxOn' \in {rxOn, FALSE}
    /\ UNCHANGED <<obedient, clientVars, main, stop, ctlVars, written, late, flagVars, txOn,
                   closed, readerVars, historyVars>>

\* Break before make: RX is stopped, or the burst is refused; in both cases
\* RX stays suspended until resume_rx.
StopRx ==
    /\ worker = "claimed" /\ device = "free"
    /\ \/ worker' = "rx-stopped" /\ device' = "worker" /\ rxOn' = FALSE /\ UNCHANGED suspended
       \/ worker' = "releasing" /\ device' = "worker" /\ rxOn' \in {rxOn, FALSE} /\ suspended' = TRUE
    /\ UNCHANGED <<obedient, clientVars, main, stop, ctlVars, written, late, txActive, txOn,
                   closed, readerVars, historyVars>>

\* setupStream, MTU and activateStream, one of which may raise.
OpenTx ==
    /\ worker = "rx-stopped"
    /\ \/ worker' = "writing" /\ txOn' = TRUE
       \/ worker' = "cleanup" /\ UNCHANGED txOn
    /\ UNCHANGED <<obedient, clientVars, main, stop, ctlVars, written, late, flagVars, device,
                   rxOn, closed, readerVars, historyVars>>

PollAbortBug ==              \* the abort is polled before the first chunk only
    /\ worker = "writing"
    /\ worker' = IF stop /\ written = 0 THEN "cleanup" ELSE "polled"
    /\ UNCHANGED <<obedient, clientVars, main, stop, ctlVars, written, late, flagVars, deviceVars,
                   readerVars, historyVars>>

\* write_burst polls the abort before each chunk.
PollAbort ==
    /\ worker = "writing"
    /\ worker' = IF stop THEN "cleanup" ELSE "polled"
    /\ UNCHANGED <<obedient, clientVars, main, stop, ctlVars, written, late, flagVars, deviceVars,
                   readerVars, historyVars>>

\* The device accepts the chunk, or the write fails and the burst ends.
WriteChunk ==
    /\ worker = "polled"
    /\ \/ /\ written' = written + 1 /\ late' = IF stop THEN late + 1 ELSE late
          /\ worker' = IF written + 1 = Chunks THEN "cleanup" ELSE "writing"
          /\ flown' = IF written = 0
                      THEN [flown EXCEPT ![Head(lockQueue).frame] = @ + 1] ELSE flown
       \/ worker' = "cleanup" /\ UNCHANGED <<written, late, flown>>
    /\ UNCHANGED <<obedient, clientVars, main, stop, ctlVars, flagVars, deviceVars, readerVars,
                   licence, asked, answered>>

CleanupForgetsBug ==         \* RX stays stopped and nobody says so
    /\ worker = "cleanup"
    /\ worker' = "releasing" /\ txOn' = FALSE
    /\ UNCHANGED <<obedient, clientVars, main, stop, ctlVars, written, late, flagVars, device,
                   rxOn, closed, readerVars, historyVars>>

\* TX is stopped and closed; RX stays stopped and suspended.  A reader that
\* waited for the lock all along has seen no progress since; whether the burst
\* outlasted the deaf-radio timeout (15 s) depends on its length.
Cleanup ==
    /\ worker = "cleanup"
    /\ worker' = "releasing" /\ txOn' = FALSE /\ suspended' = TRUE
    /\ stale' \in {stale, stale \/ reader = "locking"}
    /\ UNCHANGED <<obedient, clientVars, main, stop, ctlVars, written, late, txActive, device,
                   rxOn, closed, reader, ioStop, historyVars>>

Release ==
    /\ worker = "releasing"
    /\ worker' = "returned" /\ device' = "free" /\ txActive' = FALSE
    /\ UNCHANGED <<obedient, clientVars, main, stop, ctlVars, written, late, suspended, rxOn,
                   txOn, closed, readerVars, historyVars>>
-----------------------------------------------------------------------------
(* _SoapyBidirIo.resume_rx, on a worker thread of its own.                 *)

ResumeLock ==
    /\ main = "resuming" /\ device = "free"
    /\ device' = "resume" /\ rxOn' = TRUE /\ main' = "resume-locked"
    /\ UNCHANGED <<obedient, clientVars, stop, ctlVars, workerVars, flagVars, txOn, closed,
                   readerVars, historyVars>>

\* activateStream raises: the handler fails and with it the pass.
ResumeFails ==
    /\ main = "resuming" /\ device = "free"
    /\ main' = "settling" /\ stop' = TRUE
    /\ UNCHANGED <<obedient, clientVars, ctlVars, workerVars, flagVars, deviceVars, readerVars,
                   historyVars>>

ResumeUnlock ==
    /\ main = "resume-locked"
    /\ device' = "free" /\ main' = "resume-clear"
    /\ UNCHANGED <<obedient, clientVars, stop, ctlVars, workerVars, flagVars, rxOn, txOn, closed,
                   readerVars, historyVars>>

\* The flag is cleared after the lock was released; then rx_resumed.
ResumeClear ==
    /\ main = "resume-clear"
    /\ suspended' = FALSE /\ main' = "reading" /\ Hears("idle")
    /\ UNCHANGED <<obedient, inbox, sent, stop, ctlVars, workerVars, txActive, deviceVars,
                   readerVars, historyVars>>
-----------------------------------------------------------------------------
(* _SoapyBidirIo.rx_chunks, on the reader thread.                          *)

\* The flags are read without the device lock.  Parked time does not count
\* as deafness.
ReaderChecks ==
    /\ reader = "checking"
    /\ \/ ioStop /\ reader' = "ended" /\ UNCHANGED stale
       \/ ~ioStop /\ (txActive \/ suspended) /\ reader' = "checking" /\ stale' = FALSE
       \/ ~ioStop /\ ~txActive /\ ~suspended /\ reader' = "locking" /\ UNCHANGED stale
    /\ UNCHANGED <<obedient, clientVars, main, stop, ctlVars, workerVars, flagVars, deviceVars,
                   ioStop, historyVars>>

ReaderLocks ==
    /\ reader = "locking" /\ device = "free"
    /\ reader' = "reading" /\ device' = "reader"
    /\ UNCHANGED <<obedient, clientVars, main, stop, ctlVars, workerVars, flagVars, rxOn, txOn,
                   closed, stale, ioStop, historyVars>>

\* The radio is healthy: an active stream delivers.  A stopped one times
\* out or returns an error, and the generator raises once nothing has made
\* progress for the deaf-radio timeout.  run_rx ends its reader at the first
\* chunk yielded after a stop.
ReaderReads ==
    /\ reader = "reading"
    /\ device' = "free"
    /\ IF rxOn THEN /\ stale' = FALSE
                    /\ reader' \in (IF stop THEN {"checking", "ended"} ELSE {"checking"})
       ELSE reader' = (IF stale THEN "failed" ELSE "checking") /\ UNCHANGED stale
    /\ UNCHANGED <<obedient, clientVars, main, stop, ctlVars, workerVars, flagVars, rxOn, txOn,
                   closed, ioStop, historyVars>>
-----------------------------------------------------------------------------
(* The shutdown: run_rx sees the flag and tells the device to stop, the    *)
(* reader and every burst task are awaited, the device is closed.          *)

RequestStopBug ==            \* the reader is left to its per-chunk check
    /\ stop /\ ~ioStop
    /\ ioStop' = rxOn
    /\ UNCHANGED <<obedient, clientVars, main, stop, ctlVars, workerVars, flagVars, deviceVars,
                   reader, stale, historyVars>>

RequestStop ==
    /\ stop /\ ~ioStop
    /\ ioStop' = TRUE
    /\ UNCHANGED <<obedient, clientVars, main, stop, ctlVars, workerVars, flagVars, deviceVars,
                   reader, stale, historyVars>>

SettleBug ==                 \* only the RX task is gathered
    /\ main = "settling" /\ ioStop /\ reader \in {"ended", "failed"}
    /\ main' = "closing"
    /\ UNCHANGED <<obedient, clientVars, stop, ctlVars, workerVars, flagVars, deviceVars,
                   readerVars, historyVars>>

Settle ==
    /\ main = "settling" /\ ioStop /\ reader \in {"ended", "failed"}
    /\ spawned = <<>> /\ lockQueue = <<>>
    /\ main' = "closing"
    /\ UNCHANGED <<obedient, clientVars, stop, ctlVars, workerVars, flagVars, deviceVars,
                   readerVars, historyVars>>

Close ==
    /\ main = "closing" /\ device = "free"
    /\ rxOn' = FALSE /\ closed' = TRUE /\ main' = "done"
    /\ UNCHANGED <<obedient, clientVars, stop, ctlVars, workerVars, flagVars, device, txOn,
                   readerVars, historyVars>>
-----------------------------------------------------------------------------
Finished == main = "done" /\ UNCHANGED vars

ClientStep == \E c \in Command : ClientSends(c)
LoopStep == OnPrepare \/ OnUnresolved \/ OnTransmit \/ OnResume \/ OnStop \/ OnEngineEof
ControllerStep == \/ BeginPrepare \/ Stage \/ RejectStage
                  \/ TaskStarts \/ TransmitRefuses \/ TransmitBegins \/ TransmitCompletes
WorkerStep == Claim \/ StopRx \/ OpenTx \/ PollAbort \/ WriteChunk \/ Cleanup \/ Release
ResumeStep == ResumeLock \/ ResumeFails \/ ResumeUnlock \/ ResumeClear
ReaderStep == ReaderChecks \/ ReaderLocks \/ ReaderReads
ShutdownStep == RequestStop \/ Settle \/ Close

Next == ClientStep \/ LoopStep \/ ControllerStep \/ WorkerStep \/ ResumeStep
        \/ ReaderStep \/ ShutdownStep \/ Finished

Spec == Init /\ [][Next]_vars

\* The threads and tasks run whenever they can; nobody waits for the device
\* lock for ever while others take turns with it.
FairSpec ==
    /\ Spec
    /\ WF_vars(LoopStep) /\ WF_vars(ControllerStep) /\ SF_vars(WorkerStep)
    /\ SF_vars(ResumeStep) /\ WF_vars(ReaderChecks \/ ReaderReads) /\ SF_vars(ReaderLocks)
    /\ WF_vars(RequestStop \/ Settle) /\ SF_vars(Close)
-----------------------------------------------------------------------------
\* RX and TX are never streaming together: break before make.
HalfDuplex == ~(rxOn /\ txOn)

\* What is on the air was staged for this very frame id and acknowledged, and
\* each acknowledgement flies at most once: a stage is never re-flown.
FliesOnlyLicensed ==
    /\ \A f \in Frames : flown[f] <= licence[f]
    /\ worker # "idle" => Holds("transmit")

\* No burst is built while the station may be keyed: an obedient client has
\* keyed only between tx_prepared and transmit_complete.
NoBuildWhileKeyed ==
    building => worker = "idle" /\ (obedient => client \notin {"keyed", "transmitting"})

\* Every transmit_frame is answered by one transmit_complete, no more, and
\* the device is closed only after all of them.
OneAnswerEach ==
    /\ answered + Len(spawned) + Cardinality({i \in DOMAIN lockQueue : lockQueue[i].op = "transmit"})
         = asked
    /\ main = "done" => answered = asked

\* The device is not closed under a burst.
NoCloseUnderBurst == closed => worker = "idle" /\ ~txOn

\* A stop stops the radiation: after it at most the chunk already polled.
StopEndsBurst == late <= 1

\* Between bursts a stopped receiver is marked so: the reader parks instead
\* of reading it.  (The flag is cleared outside the device lock, so a resume
\* that an unruly client sends under a burst can clear the mark of the burst.)
StoppedRxIsSuspended == (obedient /\ ~rxOn /\ device = "free" /\ ~closed) => suspended

\* A healthy radio is never failed as deaf (a burst is not deafness).
NeverFalselyDeaf == reader # "failed"

\* A stop gets through: burst, reader and device are settled and closed.
StopCloses == stop ~> main = "done"

\* Every transmit_frame the loop read is answered.
TransmitAnswered == asked > answered ~> asked = answered
=============================================================================
