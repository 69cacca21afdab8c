---------------------------- MODULE SpawnSession ----------------------------
(***************************************************************************)
(* One spawned receive flowgraph, from its connection to the three sockets *)
(* of the spawn contract to its exit code.  The event loop runs three      *)
(* tasks: amain (the command loop and the shutdown that follows it), the   *)
(* engine, and the report that watch_engine_death starts when the engine's *)
(* done callback fires.  They share stop_requested, the control reader and *)
(* the status writer.  The supervisor at the other end of the sockets is   *)
(* the environment: it sends commands, closes the control socket, and may  *)
(* stop reading the status socket or close it.                             *)
(*                                                                         *)
(* The programs share the command loop and the watch, and differ in who    *)
(* proves the first sample, in the commands they accept and in what their  *)
(* engine's own teardown does to stop_requested: app, chosen at the start, *)
(* is the program this session runs.                                       *)
(***************************************************************************)
EXTENDS Naturals, Sequences

CONSTANTS
    Programs,   \* the programs that may be spawned
    MaxSent     \* bound: commands the supervisor sends in one session

Apps == {"cubesat_rx", "bidir", "satellite_rx"}

ASSUME ProgramAssumption == Programs \subseteq Apps
ASSUME SentAssumption == MaxSent \in Nat

Commands == {"start", "stop", "noise", "work"}
Errors   == {"engine-ended", "engine-died", "handler-failed", "rx-not-alive"}
Events   == {"ready", "started", "stopped", "frame"} \cup Errors
Outcomes == {"ended", "failed", "raised"}

VARIABLES
    app,        \* the program that was spawned
    main,       \* where amain is
    reason,     \* what run_command_loop returned
    exit,       \* exit code of the process: "none" while it runs, "zero", "nonzero"
    inbox,      \* control bytes received and not yet read, as commands
    eof,        \* the control reader is at EOF (peer closed, or feed_eof)
    sent,       \* commands sent so far
    stopRequested,
    engine,     \* where the engine task is
    outcome,    \* how the engine leaves: returned, EngineFailure, other raise
    proof,      \* a first sample was delivered
    watch,      \* the done callback: "armed" or "fired"
    report,     \* the _fail task
    status,     \* every event written to the status socket, in order
    peer        \* the status reader: "reading", "stalled" or "closed"

\* Operators named *Bug are the mutants: how a change to the code could get a
\* definition wrong.  No run uses them as they stand.

\* The dsp engine of cubesat_gfsk_ax25_rx sets the SHARED stop flag in its
\* own finally; bidir has an internal rx_teardown event for that.
SelfStop == app = "cubesat_rx"

\* satellite_rx has neither a finite source nor an EngineFailure: its drain
\* loop leaves on the stop flag or on an exception.
CanEnd(stopping) == app # "satellite_rx" \/ stopping
CanFail          == app # "satellite_rx"

\* "work" is a command whose handler awaits a thread and may raise
\* (prepare_transmit, resume_rx); "noise" is a malformed, unknown or
\* set_doppler line, which changes nothing in this module.
Serves(c) == c = "work" => app = "bidir"

supervisorVars == <<inbox, eof, sent, peer>>
mainVars       == <<main, reason, exit>>
engineVars     == <<engine, outcome, proof>>
watchVars      == <<watch, report>>
vars == <<app, mainVars, supervisorVars, stopRequested, engineVars, watchVars, status>>

MainStates == {"proving", "condemned-send", "condemned", "ready-send", "reading",
               "started-send", "working", "error-send", "settling",
               "stopped-send", "exited"}
EngineStates == {"absent", "proving", "ready-send", "running", "parked",
                 "closing", "flushing", "done"}

TypeOK ==
    /\ app \in Programs
    /\ main \in MainStates
    /\ reason \in {"none", "stop", "eof", "handler-failed"}
    /\ exit \in {"none", "zero", "nonzero"}
    /\ inbox \in Seq(Commands)
    /\ eof \in BOOLEAN
    /\ sent \in 0 .. MaxSent
    /\ stopRequested \in BOOLEAN
    /\ engine \in EngineStates
    /\ outcome \in Outcomes \cup {"none"}
    /\ proof \in BOOLEAN
    /\ watch \in {"armed", "fired"}
    /\ report \in {"none", "created", "sending", "done"}
    /\ status \in Seq(Events)
    /\ peer \in {"reading", "stalled", "closed"}

Init ==
    /\ app \in Programs
    /\ main = IF app = "cubesat_rx" THEN "reading" ELSE "proving"
    /\ reason = "none" /\ exit = "none"
    /\ inbox = <<>> /\ eof = FALSE /\ sent = 0
    /\ stopRequested = FALSE
    /\ engine = IF app = "satellite_rx" THEN "absent" ELSE "proving"
    /\ outcome = "none" /\ proof = FALSE
    /\ watch = "armed" /\ report = "none"
    /\ status = <<>> /\ peer = "reading"

Alive == main # "exited"
-----------------------------------------------------------------------------
(* send_event: the line is handed to the transport, then drain() returns   *)
(* at once, parks the caller while the peer does not read, or raises       *)
(* because the connection is gone.                                         *)

Write(e) == status' = IF peer = "closed" THEN status ELSE Append(status, e)
DrainReturns == peer = "reading"
DrainParks   == peer = "stalled"
DrainRaises  == peer = "closed"

Said(e) == \E i \in DOMAIN status : status[i] = e
-----------------------------------------------------------------------------
(* The supervisor.                                                         *)

SupervisorSends(c) ==
    /\ Alive /\ sent < MaxSent /\ Serves(c)
    /\ sent' = sent + 1
    /\ inbox' = IF eof THEN inbox ELSE Append(inbox, c)
    /\ UNCHANGED <<app, mainVars, eof, peer, stopRequested, engineVars, watchVars, status>>

SupervisorCloses ==
    /\ Alive /\ ~eof
    /\ eof' = TRUE
    /\ UNCHANGED <<app, mainVars, inbox, sent, peer, stopRequested, engineVars, watchVars,
                   status>>

StatusPeer(from, to) ==
    /\ Alive /\ peer = from /\ peer' = to
    /\ UNCHANGED <<app, mainVars, inbox, eof, sent, stopRequested, engineVars, watchVars, status>>

StatusStalls  == StatusPeer("reading", "stalled")
StatusResumes == StatusPeer("stalled", "reading")
StatusCloses  == \E from \in {"reading", "stalled"} : StatusPeer(from, "closed")
-----------------------------------------------------------------------------
(* amain before the command loop: bidir and satellite_rx withhold `ready`  *)
(* until a first sample was seen, and fail the spawn when there is none.   *)

Exit(code) == main' = "exited" /\ exit' = code

\* satellite_rx creates its engine task only after `ready` was drained.
EngineAfterReady == engine' = IF app = "satellite_rx" THEN "running" ELSE engine

AnnounceBug ==               \* `ready` from a process that merely started
    /\ main = "proving"
    /\ Write("ready") /\ DrainReturns
    /\ main' = "reading" /\ EngineAfterReady
    /\ UNCHANGED <<app, reason, exit, stopRequested, supervisorVars, outcome, proof, watchVars>>

Announce ==
    /\ main = "proving" /\ proof
    /\ Write("ready")
    /\ \/ DrainReturns /\ main' = "reading" /\ EngineAfterReady /\ UNCHANGED <<exit, stopRequested>>
       \/ DrainParks   /\ main' = "ready-send" /\ UNCHANGED <<exit, engine, stopRequested>>
       \/ DrainRaises  /\ Exit("nonzero") /\ UNCHANGED <<engine, stopRequested>>
    /\ UNCHANGED <<app, reason, supervisorVars, outcome, proof, watchVars>>

Announced ==
    /\ main = "ready-send"
    /\ \/ DrainReturns /\ main' = "reading" /\ EngineAfterReady /\ UNCHANGED exit
       \/ DrainRaises  /\ Exit("nonzero") /\ UNCHANGED engine
    /\ UNCHANGED <<app, reason, supervisorVars, stopRequested, outcome, proof, watchVars, status>>

\* No sample in time, or the engine ended before one: an error event and a
\* nonzero exit.  bidir then closes the device and settles the RX task.
ProofFails ==
    /\ main = "proving" /\ ~proof
    /\ Write("rx-not-alive")
    /\ \/ DrainParks  /\ main' = "condemned-send" /\ UNCHANGED stopRequested
       \/ ~DrainParks /\ main' = "condemned" /\ stopRequested' = TRUE
    /\ UNCHANGED <<app, reason, exit, supervisorVars, engineVars, watchVars>>

ProofFailureSent ==
    /\ main = "condemned-send" /\ ~DrainParks
    /\ main' = "condemned" /\ stopRequested' = TRUE
    /\ UNCHANGED <<app, reason, exit, supervisorVars, engineVars, watchVars, status>>

EngineSettled == engine \in {"absent", "done"} /\ (engine = "done" => watch = "fired")

SettleNothingBug == TRUE     \* acknowledge first, tear down afterwards
SettleTaskOnlyBug == EngineSettled

\* The loop runs callbacks first in, first out: the watch was registered
\* before gather's own callback, so _fail has made its first step (up to
\* the drain) before the settled amain resumes.
GatherReturns == EngineSettled /\ report # "created"

Condemned ==
    /\ main = "condemned" /\ GatherReturns
    /\ Exit("nonzero")
    /\ UNCHANGED <<app, reason, supervisorVars, stopRequested, engineVars, watchVars, status>>
-----------------------------------------------------------------------------
(* run_command_loop.                                                       *)

\* The loop has returned r: _shutdown_engine sets the flag, then gathers.
LoopReturns(r) == reason' = r /\ main' = "settling" /\ stopRequested' = TRUE

HandlerRaisesBug ==          \* report the error and keep dispatching
    Write("handler-failed") /\ main' = "reading" /\ UNCHANGED <<reason, stopRequested>>

HandlerRaises ==
    /\ Write("handler-failed")
    /\ \/ DrainParks /\ main' = "error-send" /\ UNCHANGED <<reason, stopRequested>>
       \/ ~DrainParks /\ LoopReturns("handler-failed")

Consume(c) == main = "reading" /\ inbox # <<>> /\ Head(inbox) = c /\ inbox' = Tail(inbox)

OnNoise ==
    /\ Consume("noise")
    /\ UNCHANGED <<app, mainVars, eof, sent, peer, stopRequested, engineVars, watchVars, status>>

OnStart ==
    /\ Consume("start")
    /\ \/ /\ ~DrainRaises /\ Write("started")
          /\ main' = IF DrainParks THEN "started-send" ELSE "reading"
          /\ UNCHANGED <<reason, stopRequested>>
       \/ DrainRaises /\ HandlerRaises
    /\ UNCHANGED <<app, exit, eof, sent, peer, engineVars, watchVars>>

StartedSent ==
    /\ main = "started-send"
    /\ \/ DrainReturns /\ main' = "reading" /\ UNCHANGED <<reason, status, stopRequested>>
       \/ DrainRaises /\ HandlerRaises
    /\ UNCHANGED <<app, exit, supervisorVars, engineVars, watchVars>>

\* A handler that awaits a thread: the loop reads nothing meanwhile.
OnWork ==
    /\ Consume("work") /\ main' = "working"
    /\ UNCHANGED <<app, reason, exit, eof, sent, peer, stopRequested, engineVars, watchVars,
                   status>>

WorkDone ==
    /\ main = "working"
    /\ \/ main' = "reading" /\ UNCHANGED <<reason, status, stopRequested>>
       \/ HandlerRaises
    /\ UNCHANGED <<app, exit, supervisorVars, engineVars, watchVars>>

HandlerErrorSent ==
    /\ main = "error-send" /\ ~DrainParks
    /\ LoopReturns("handler-failed")
    /\ UNCHANGED <<app, exit, supervisorVars, engineVars, watchVars, status>>

OnStop ==
    /\ Consume("stop")
    /\ LoopReturns("stop")
    /\ UNCHANGED <<app, exit, eof, sent, peer, engineVars, watchVars, status>>

\* Buffered lines are read before EOF is.
OnEof ==
    /\ main = "reading" /\ inbox = <<>> /\ eof
    /\ LoopReturns("eof")
    /\ UNCHANGED <<app, exit, supervisorVars, engineVars, watchVars, status>>
-----------------------------------------------------------------------------
(* Shutdown: the engine is settled before the `stopped` acknowledgement.   *)

AckStop ==
    /\ main = "settling" /\ GatherReturns /\ reason = "stop"
    /\ Write("stopped")
    /\ \/ DrainReturns /\ Exit("zero")
       \/ DrainParks   /\ main' = "stopped-send" /\ UNCHANGED exit
       \/ DrainRaises  /\ Exit("nonzero")
    /\ UNCHANGED <<app, reason, supervisorVars, stopRequested, engineVars, watchVars>>

StopAcked ==
    /\ main = "stopped-send" /\ ~DrainParks
    /\ Exit(IF DrainReturns THEN "zero" ELSE "nonzero")
    /\ UNCHANGED <<app, reason, supervisorVars, stopRequested, engineVars, watchVars, status>>

ExitFailed ==
    /\ main = "settling" /\ GatherReturns /\ reason # "stop"
    /\ Exit("nonzero")
    /\ UNCHANGED <<app, reason, supervisorVars, stopRequested, engineVars, watchVars, status>>
-----------------------------------------------------------------------------
(* The engine.                                                             *)

\* satellite_rx: the graph streams before the engine task exists.
ContextStreams ==
    /\ Alive /\ app = "satellite_rx" /\ main = "proving" /\ ~proof
    /\ proof' = TRUE
    /\ UNCHANGED <<app, mainVars, supervisorVars, stopRequested, engine, outcome, watchVars,
                   status>>

FirstSample ==
    /\ Alive /\ engine = "proving" /\ ~proof
    /\ proof' = TRUE
    /\ engine' = IF app = "cubesat_rx" THEN "proving" ELSE "running"
    /\ UNCHANGED <<app, mainVars, supervisorVars, stopRequested, outcome, watchVars, status>>

\* cubesat_rx: the engine itself announces, outside its try/finally.
EngineAnnounces ==
    /\ Alive /\ app = "cubesat_rx" /\ engine = "proving" /\ proof
    /\ Write("ready")
    /\ \/ DrainReturns /\ engine' = "running" /\ UNCHANGED outcome
       \/ DrainParks   /\ engine' = "ready-send" /\ UNCHANGED outcome
       \/ DrainRaises  /\ engine' = "done" /\ outcome' = "raised"
    /\ UNCHANGED <<app, mainVars, supervisorVars, stopRequested, proof, watchVars>>

EngineAnnounced ==
    /\ Alive /\ engine = "ready-send"
    /\ \/ DrainReturns /\ engine' = "running" /\ UNCHANGED outcome
       \/ DrainRaises  /\ engine' = "done" /\ outcome' = "raised"
    /\ UNCHANGED <<app, mainVars, supervisorVars, stopRequested, proof, watchVars, status>>

\* cubesat_rx before `ready`: the first-sample wait times out (the flag is
\* set, then EngineFailure) or the source ended (EngineFailure only).
NoFirstSample ==
    /\ Alive /\ app = "cubesat_rx" /\ engine = "proving" /\ ~proof
    /\ engine' = "done" /\ outcome' = "failed"
    /\ stopRequested' \in {stopRequested, TRUE}
    /\ UNCHANGED <<app, mainVars, supervisorVars, proof, watchVars, status>>

\* A raise while a live frame is sent ends the engine when the engine's own
\* loop sends (satellite_rx; the signal event of bidir).  When the decode task
\* sends (cubesat_rx, bidir) only that task dies, and nobody notices.
EmitRaises ==
    /\ DrainRaises
    /\ \/ /\ app # "cubesat_rx" /\ engine' = "closing" /\ outcome' = "raised"
          /\ stopRequested' = (stopRequested \/ SelfStop)
       \/ /\ app # "satellite_rx" /\ engine' = "running"
          /\ UNCHANGED <<outcome, stopRequested>>

\* A frame or signal event goes out.  Bound: one live frame in a session.
Emit ==
    /\ Alive /\ engine = "running" /\ ~Said("frame")
    /\ Write("frame")
    /\ \/ DrainReturns /\ UNCHANGED <<engine, outcome, stopRequested>>
       \/ DrainParks   /\ engine' = "parked" /\ UNCHANGED <<outcome, stopRequested>>
       \/ EmitRaises
    /\ UNCHANGED <<app, mainVars, supervisorVars, proof, watchVars>>

Emitted ==
    /\ Alive /\ engine = "parked"
    /\ \/ DrainReturns /\ engine' = "running" /\ UNCHANGED <<outcome, stopRequested>>
       \/ EmitRaises
    /\ UNCHANGED <<app, mainVars, supervisorVars, proof, watchVars, status>>

\* The engine leaves its loop: the flag was set, the source ran out, the
\* reader died (EngineFailure, raised once the queue is drained) or a step
\* of it raised.  In the dsp engine of cubesat_rx the finally then sets the
\* shared flag.  bidir may get here with no first sample at all.
EngineLeaves(o) ==
    /\ Alive /\ (engine = "running" \/ (app = "bidir" /\ engine = "proving"))
    /\ o = "ended" => CanEnd(stopRequested)
    /\ o = "failed" => CanFail
    /\ engine' = "closing" /\ outcome' = o
    /\ stopRequested' = (stopRequested \/ SelfStop)
    /\ UNCHANGED <<app, mainVars, supervisorVars, proof, watchVars, status>>

EngineReturnsBug ==          \* the reader stays parked and the gather hangs
    /\ Alive /\ engine = "closing"
    /\ engine' = IF outcome = "ended" THEN "closing" ELSE "done"
    /\ UNCHANGED <<app, mainVars, supervisorVars, stopRequested, outcome, status, proof,
                   watchVars>>

\* The end of the finally: nothing left to emit, or leftovers whose send
\* may park or raise (the raise replaces the outcome).
EngineReturns ==
    /\ Alive /\ engine = "closing"
    /\ \/ engine' = "done" /\ UNCHANGED <<outcome, status>>
       \/ /\ Write("frame")
          /\ engine' = IF DrainParks THEN "flushing" ELSE "done"
          /\ outcome' = IF DrainRaises THEN "raised" ELSE outcome
    /\ UNCHANGED <<app, mainVars, supervisorVars, stopRequested, proof, watchVars>>

EngineFlushed ==
    /\ Alive /\ engine = "flushing" /\ ~DrainParks
    /\ engine' = "done"
    /\ outcome' = IF DrainRaises THEN "raised" ELSE outcome
    /\ UNCHANGED <<app, mainVars, supervisorVars, stopRequested, proof, watchVars, status>>
-----------------------------------------------------------------------------
(* watch_engine_death.  The callback runs after the task is done, not with *)
(* it: what it reads of stop_requested may have changed in between.        *)

OnDoneBug ==                 \* any exception during a stop is teardown noise
    /\ Alive /\ engine = "done" /\ watch = "armed"
    /\ watch' = "fired"
    /\ report' = IF stopRequested THEN "none" ELSE "created"
    /\ UNCHANGED <<app, mainVars, supervisorVars, stopRequested, engineVars, status>>

OnDone ==
    /\ Alive /\ engine = "done" /\ watch = "armed"
    /\ watch' = "fired"
    /\ report' = IF stopRequested /\ outcome # "failed" THEN "none" ELSE "created"
    /\ UNCHANGED <<app, mainVars, supervisorVars, stopRequested, engineVars, status>>

ReportCodeBug == outcome     \* not one of the codes the supervisor knows
ReportCode == IF outcome = "ended" THEN "engine-ended" ELSE "engine-died"

FailBug ==                   \* the error is sent and the loop left alone
    /\ Alive /\ report = "created"
    /\ Write(ReportCode) /\ report' = "done"
    /\ UNCHANGED <<app, mainVars, supervisorVars, stopRequested, engineVars, watch>>

Fail ==
    /\ Alive /\ report = "created"
    /\ Write(ReportCode)
    /\ IF DrainParks THEN report' = "sending" /\ UNCHANGED eof
                     ELSE report' = "done" /\ eof' = TRUE
    /\ UNCHANGED <<app, mainVars, inbox, sent, peer, stopRequested, engineVars, watch>>

FeedEof ==
    /\ Alive /\ report = "sending" /\ ~DrainParks
    /\ report' = "done" /\ eof' = TRUE
    /\ UNCHANGED <<app, mainVars, inbox, sent, peer, stopRequested, engineVars, watch, status>>
-----------------------------------------------------------------------------
Finished == main = "exited" /\ UNCHANGED vars

Startup == Announce \/ Announced \/ ProofFails \/ ProofFailureSent \/ Condemned
CommandLoop == \/ OnNoise \/ OnStart \/ StartedSent \/ OnWork \/ WorkDone
               \/ HandlerErrorSent \/ OnStop \/ OnEof
Shutdown == AckStop \/ StopAcked \/ ExitFailed
MainStep == Startup \/ CommandLoop \/ Shutdown

\* Steps the engine is bound to take once it is told to stop.
EngineTeardown == \/ EngineReturns \/ EngineFlushed \/ Emitted \/ EngineAnnounces
                  \/ EngineAnnounced \/ NoFirstSample
                  \/ (stopRequested /\ \E o \in Outcomes : EngineLeaves(o))
WatchStep == OnDone \/ Fail \/ FeedEof

Supervisor == \/ \E c \in Commands : SupervisorSends(c)
              \/ SupervisorCloses
              \/ StatusStalls \/ StatusResumes \/ StatusCloses

Engine == \/ ContextStreams \/ FirstSample \/ EngineAnnounces \/ EngineAnnounced
          \/ NoFirstSample \/ Emit \/ Emitted
          \/ \E o \in Outcomes : EngineLeaves(o)
          \/ EngineReturns \/ EngineFlushed

Next == Supervisor \/ MainStep \/ Engine \/ WatchStep \/ Finished

Spec == Init /\ [][Next]_vars

\* The event loop runs every task that can run, and a drain that was let go
\* returns even if the peer stalls again (hence SF); the engine polls the
\* flag; and a status reader that stalled reads again, or closes.
FairSpec == Spec /\ SF_vars(MainStep) /\ SF_vars(EngineTeardown) /\ SF_vars(WatchStep)
                 /\ WF_vars(StatusResumes)
-----------------------------------------------------------------------------
(* What the contract promises the supervisor.                              *)

\* Exit code 0 means: a stop was accepted, the engine had settled, and the
\* last thing the supervisor was told is `stopped` (_spawn_contract, P0-08).
CleanExit ==
    exit = "zero" => /\ reason = "stop"
                     /\ engine = "done"
                     /\ status # <<>> /\ status[Len(status)] = "stopped"

\* `stopped` is the last word: the engine is settled before it is sent, and
\* neither a frame nor the report of a death comes after it.
StoppedIsLast ==
    \A i \in DOMAIN status : status[i] = "stopped" => i = Len(status)

\* `ready` is proof of a first sample and not of a process that started,
\* it is said once, and (bidir, satellite_rx) no command is answered before it.
ReadyIsProof ==
    \A i \in DOMAIN status :
        /\ status[i] = "ready" => proof /\ \A j \in DOMAIN status : status[j] = "ready" => j = i
        /\ status[i] = "started" /\ app # "cubesat_rx" => \E j \in 1 .. i : status[j] = "ready"

\* A handler that raised fails the pass: no command is executed after it, it
\* is never acknowledged as a stop, and the exit code says so.
HandlerFailureFails ==
    Said("handler-failed") => /\ reason \in {"none", "handler-failed"}
                              /\ main \in {"error-send", "settling", "exited"}
                              /\ exit # "zero"

\* An engine that failed is reported before the process exits, a requested
\* stop included, as long as there is a status peer and a session to end.
EngineFailureReported ==
    (main = "exited" /\ reason # "none" /\ outcome = "failed" /\ peer # "closed")
        => Said("engine-died")

\* An engine that is gone is never left behind a live command loop in
\* silence: once its callback fired, the loop is being ended.
NoDeafLoop ==
    (watch = "fired" /\ main \in {"reading", "started-send", "working"}) => report # "none"

\* An accepted stop ends the process, and so does the loss of the control
\* socket, whatever the engine and the status peer do meanwhile.
SessionEnds == (reason = "stop" \/ eof) ~> main = "exited"

\* So does an engine that is gone, whatever it returned or raised.  (Not in
\* cubesat_rx, whose engine silences the watch itself: see NoDeafLoop.)
EngineEndExits == (engine = "done" /\ app # "cubesat_rx") ~> main = "exited"

Promise == INSTANCE SpawnPromise WITH
    accepted <- reason = "stop",
    settled  <- engine = "done",
    acked    <- Said("stopped")

\* The session implements the promise the supervisor relies on.
PromiseKept == Promise!Spec
=============================================================================
