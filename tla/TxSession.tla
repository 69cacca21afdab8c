------------------------------ MODULE TxSession ------------------------------
(***************************************************************************)
(* One spawned transmit flowgraph, from its connection to its exit code:   *)
(* cubesat_gfsk_ax25_tx with its burst task and the sink thread under it   *)
(* (the writer of BurstWriter, whose abort flag is the app's               *)
(* stop_requested), the continuous amateur_fm_narrowband_tx, and the two   *)
(* stubs the orchestrator is tested against.  The event loop, the sink     *)
(* thread, the driver and the supervisor interleave.                       *)
(***************************************************************************)
EXTENDS BurstWriter

CONSTANTS
    Programs,   \* the programs that may be spawned
    MaxSent     \* bound: commands the supervisor sends in one session

Apps     == {"ax25_tx", "fm_tx", "stub_tx", "stub_rx"}
Commands == {"start", "stop", "transmit_frame", "prepare_transmit", "set_doppler"}
Sinks    == {"device", "file", "none"}     \* --sdr-args: a device, file:, empty

ASSUME TxProgramAssumption == Programs \subseteq Apps
ASSUME TxSentAssumption == MaxSent \in Nat

VARIABLES
    app, sink,
    main,       \* where amain is
    reason,     \* what the command loop returned
    exit,       \* exit code: "none" while it runs, "zero" or "nonzero"
    graph,      \* the GNU Radio graph of fm_tx: "idle", "on" or "off"
    inbox, eof, sent, peer,
    status,     \* every event written to the status socket, in order
    burst,      \* the burst task and its sink thread
    posted,     \* what the thread posted to the event loop, first in first out
    late,       \* samples taken after the stop was accepted (history)
    script,     \* events a stub still sends before it reads on
    periodic    \* a stub's background task runs

writer  == <<pc, i, stalls, started, polls, outcome, air, empties, heard>>
program == <<app, sink>>
loop    == <<main, reason, exit, graph, aborted>>
client  == <<eof, sent, peer>>
task    == <<burst, posted, late>>
stub    == <<script, periodic>>
txVars  == <<writer, expired, program, loop, inbox, client, status, task, stub>>

Stub == app \in {"stub_tx", "stub_rx"}

TxInit ==
    /\ Init
    /\ app \in Programs
    /\ sink \in IF app = "ax25_tx" THEN Sinks ELSE {"none"}
    /\ main = IF app = "ax25_tx" THEN "probing" ELSE "building"
    /\ reason = "none" /\ exit = "none" /\ graph = "idle"
    /\ inbox = <<>> /\ eof = FALSE /\ sent = 0 /\ peer = "reading" /\ status = <<>>
    /\ burst = "none" /\ posted = <<>> /\ late = 0
    /\ script = <<>> /\ periodic = FALSE

Alive    == main # "exited"
Tell(e) == status' = IF peer = "closed" THEN status ELSE Append(status, e)
Raises   == peer = "closed"             \* what drain() does to the sender
Said(e)  == \E k \in DOMAIN status : status[k] = e
\* The finally closes the sockets, and waits for that, before the process ends.
Exit(code) == main' = "closing" /\ exit' = code
-----------------------------------------------------------------------------
(* The supervisor.  A status peer that stalls only delays what follows it; *)
(* SpawnSession has that case, here the peer reads until it closes.        *)

SupervisorSends(c) ==
    /\ Alive /\ sent < MaxSent /\ sent' = sent + 1
    /\ inbox' = IF eof THEN inbox ELSE Append(inbox, c)
    /\ UNCHANGED <<writer, expired, program, loop, eof, peer, status, task, stub>>

SupervisorCloses ==
    /\ Alive /\ ~eof /\ eof' = TRUE
    /\ UNCHANGED <<writer, expired, program, loop, inbox, sent, peer, status, task, stub>>

StatusCloses ==
    /\ Alive /\ peer = "reading" /\ peer' = "closed"
    /\ UNCHANGED <<writer, expired, program, loop, inbox, eof, sent, status, task, stub>>
-----------------------------------------------------------------------------
(* Before `ready`.                                                         *)

SpawnFails(events) ==        \* an escaping exception has no event
    /\ status' = IF Raises THEN status ELSE status \o events
    /\ Exit("nonzero") /\ UNCHANGED <<reason, graph, aborted>>

\* The device is opened, set up, read back and closed; only a device is.
Probe ==
    /\ main = "probing"
    /\ \/ sink = "device" /\ SpawnFails(<<"tx-device-probe-failed">>)
       \/ main' = "building" /\ UNCHANGED <<reason, exit, graph, aborted, status>>
    /\ UNCHANGED <<writer, expired, program, inbox, client, task, stub>>

\* The waveform is built, or fm_tx's graph; a value or an import error is
\* reported by ax25_tx, any other exception escapes.
BuildFails ==
    /\ main = "building" /\ ~Stub
    /\ \/ app = "ax25_tx" /\ SpawnFails(<<"tx-preflight-failed">>)
       \/ app = "ax25_tx" /\ SpawnFails(<<"tx-engine-unavailable">>)
       \/ SpawnFails(<<>>)
    /\ UNCHANGED <<writer, expired, program, inbox, client, task, stub>>

Ready ==
    /\ main = "building"
    /\ Tell("ready")
    /\ IF Raises THEN Exit("nonzero") ELSE main' = "reading" /\ UNCHANGED exit
    /\ UNCHANGED <<writer, expired, program, reason, graph, aborted, inbox, client, task, stub>>
-----------------------------------------------------------------------------
(* The command loop of ax25_tx and fm_tx and what follows it.              *)

Consume(c) == main = "reading" /\ inbox # <<>> /\ Head(inbox) = c /\ inbox' = Tail(inbox)

BurstPending == burst \in {"opening", "writing", "told", "thrown"}

VerdictBug(r) ==             \* acknowledge first, stop the graph in the finally
    /\ UNCHANGED graph
    /\ IF r = "stop" /\ burst # "failed"
          THEN Tell("stopped") /\ Exit(IF Raises THEN "nonzero" ELSE "zero")
          ELSE UNCHANGED status /\ Exit("nonzero")

\* The graph is stopped first; a burst known to have failed, a failed handler
\* and an EOF are no clean exit; a stop is acknowledged last of all.
Verdict(r) ==
    /\ graph' = IF graph = "on" THEN "off" ELSE graph
    /\ IF r = "stop" /\ burst # "failed"
          THEN Tell("stopped") /\ Exit(IF Raises THEN "nonzero" ELSE "zero")
          ELSE UNCHANGED status /\ Exit("nonzero")

LoopReturnsBug(r) ==         \* only a stop asks the burst to abort
    /\ reason' = r /\ aborted' = (aborted \/ r = "stop")
    /\ IF BurstPending THEN main' = "awaiting" /\ UNCHANGED <<exit, graph, status>>
                       ELSE Verdict(r)

\* However the loop ended, the burst is told to abort and awaited.  Awaiting a
\* task that is already done does not yield: its callback has then not run.
LoopReturns(r) ==
    /\ reason' = r /\ aborted' = TRUE
    /\ IF BurstPending THEN main' = "awaiting" /\ UNCHANGED <<exit, graph, status>>
                       ELSE Verdict(r)

HandlerRaises(on) ==         \* on: what the handler left the graph in
    /\ Tell("handler-failed")
    /\ reason' = "handler-failed" /\ aborted' = TRUE
    /\ graph' = IF on = "on" THEN "off" ELSE on
    /\ IF BurstPending THEN main' = "awaiting" /\ UNCHANGED exit ELSE Exit("nonzero")

\* The await of a task that was not done returns after its own callback.
Settled ==
    /\ main = "awaiting" /\ burst \in {"ok", "failed"}
    /\ Verdict(reason)
    /\ UNCHANGED <<writer, expired, program, reason, aborted, inbox, client, task, stub>>

OnStop ==
    /\ ~Stub /\ Consume("stop") /\ LoopReturns("stop")
    /\ UNCHANGED <<writer, expired, program, client, task, stub>>

OnEof ==
    /\ ~Stub /\ main = "reading" /\ inbox = <<>> /\ eof /\ LoopReturns("eof")
    /\ UNCHANGED <<writer, expired, program, inbox, client, task, stub>>

\* ax25_tx: `started` every time, the burst once.
OnStartBurst ==
    /\ app = "ax25_tx" /\ Consume("start")
    /\ IF Raises
          THEN HandlerRaises(graph) /\ UNCHANGED burst
          ELSE /\ Tell("started") /\ UNCHANGED loop
               /\ burst' = IF burst = "none" THEN "opening" ELSE burst
    /\ UNCHANGED <<writer, expired, program, client, posted, late, stub>>

\* fm_tx: the carrier is up before the first of the two events is sent, and
\* comes down again if that raises; a second start does nothing.
OnStartGraph ==
    /\ app = "fm_tx" /\ Consume("start")
    /\ \/ graph # "idle" /\ UNCHANGED <<loop, status>>
       \/ graph = "idle" /\ HandlerRaises("idle")          \* tb.start raised
       \/ graph = "idle" /\ Raises /\ HandlerRaises("on")
       \/ /\ graph = "idle" /\ ~Raises /\ graph' = "on"
          /\ status' = status \o <<"started", "transmit_started">>
          /\ UNCHANGED <<main, reason, exit, aborted>>
    /\ UNCHANGED <<writer, expired, program, client, task, stub>>

\* fm_tx acknowledges a frame it does not transmit.
OnTransmitFrame ==
    /\ app = "fm_tx" /\ Consume("transmit_frame")
    /\ IF Raises THEN HandlerRaises(graph) ELSE Tell("transmit_complete") /\ UNCHANGED loop
    /\ UNCHANGED <<writer, expired, program, client, task, stub>>

\* fm_tx retunes the sink under the graph's lock, which may raise.
OnSetDoppler ==
    /\ app = "fm_tx" /\ Consume("set_doppler")
    /\ HandlerRaises(graph) \/ UNCHANGED <<loop, status>>
    /\ UNCHANGED <<writer, expired, program, client, task, stub>>

Ignored(c) == CASE app = "ax25_tx" -> c \notin {"start", "stop"}
                [] app = "fm_tx"   -> c = "prepare_transmit"
                [] app = "stub_tx" -> c = "set_doppler"
                [] app = "stub_rx" -> c \notin {"start", "stop"}

OnIgnored(c) ==
    /\ Ignored(c) /\ Consume(c)
    /\ UNCHANGED <<writer, expired, program, loop, client, status, task, stub>>
-----------------------------------------------------------------------------
(* The burst task of ax25_tx: emit_burst on the loop, _sink_iq in a        *)
(* thread.                                                                 *)

Post(cbs) == posted' = posted \o cbs

\* The file sink looks at the flag once and then writes everything.
SinkFile ==
    /\ burst = "opening" /\ sink = "file"
    /\ burst' = "told" /\ pc' = "done"
    /\ IF aborted THEN /\ outcome' = "cancelled" /\ Post(<<"result">>)
                       /\ UNCHANGED <<i, started, air>>
                  ELSE /\ outcome' = "complete" /\ Post(<<"announce", "result">>)
                       /\ i' = N /\ started' = 1 /\ air' = [k \in 1 .. N |-> k - 1]
    /\ UNCHANGED <<stalls, polls, empties, heard, expired, program, loop, inbox, client, status,
                   late, stub>>

\* The device is opened and set up again, which may raise; an empty sink name
\* passed the spawn and has no buffer, so it always does.
SinkOpens ==
    /\ burst = "opening" /\ sink # "file"
    /\ \/ sink = "device" /\ burst' = "writing" /\ UNCHANGED posted
       \/ burst' = "thrown" /\ Post(<<"result">>)
    /\ UNCHANGED <<writer, expired, program, loop, inbox, client, status, late, stub>>

SinkWritesBug ==             \* every accepted chunk announces
    /\ burst = "writing" /\ (Top \/ Write \/ Status)
    /\ posted' = IF i' > i THEN Append(posted, "announce") ELSE posted
    /\ UNCHANGED <<burst, program, main, reason, exit, graph, inbox, client, status, late, stub>>

\* One step of write_burst in the thread; the first accepted sample posts the
\* announcement to the loop.
SinkWrites ==
    /\ burst = "writing" /\ (Top \/ Write \/ Status)
    /\ posted' = IF started' > started THEN Append(posted, "announce") ELSE posted
    /\ late' = IF reason # "none" THEN late + (i' - i) ELSE late
    /\ UNCHANGED <<burst, program, main, reason, exit, graph, inbox, client, status, stub>>

\* The stream is deactivated and closed, and the result is posted, or what
\* the driver raised.
SinkReturns ==
    /\ burst = "writing" /\ pc = "done"
    /\ burst' = IF outcome = "raised" THEN "thrown" ELSE "told"
    /\ Post(<<"result">>)
    /\ UNCHANGED <<writer, expired, program, loop, inbox, client, status, late, stub>>

\* A task of its own: what it raises nobody sees.
Announce ==
    /\ Alive /\ posted # <<>> /\ Head(posted) = "announce"
    /\ posted' = Tail(posted) /\ Tell("transmit_started")
    /\ UNCHANGED <<writer, expired, program, loop, inbox, client, burst, late, stub>>

\* emit_burst resumes: a sink that raised is reported and raised on, and any
\* other result is told as it is, outside of the try block.
BurstResumes ==
    /\ Alive /\ posted # <<>> /\ Head(posted) = "result"
    /\ posted' = Tail(posted)
    /\ IF burst = "thrown" THEN Tell("tx-failed") /\ burst' = "raised"
                           ELSE /\ Tell("transmit_complete")
                                /\ burst' = IF Raises THEN "raised" ELSE "ok"
    /\ UNCHANGED <<writer, expired, program, loop, inbox, client, late, stub>>

OnBurstDoneBug ==            \* the loop is left alone
    /\ Alive /\ burst = "raised" /\ burst' = "failed"
    /\ UNCHANGED <<writer, expired, program, loop, inbox, client, status, posted, late, stub>>

\* The done callback, a loop iteration after the task ended.
OnBurstDone ==
    /\ Alive /\ burst = "raised"
    /\ burst' = "failed" /\ aborted' = TRUE /\ eof' = TRUE
    /\ UNCHANGED <<writer, expired, program, main, reason, exit, graph, inbox, sent, peer, status,
                   posted, late, stub>>
-----------------------------------------------------------------------------
(* The stubs: one task that sends its events between two reads, and a      *)
(* background task.  A lost connection and an EOF are a clean exit.        *)

StubScript == IF app = "stub_tx"
              THEN <<"started", "transmit_started", "transmit_complete", "transmit_complete">>
              ELSE <<"started", "signal", "signal", "frame_received">>

StubOn(c) == Stub /\ Consume(c)

\* Only the first start counts.  frames_to_tx and signal_events are two here.
StubStart ==
    /\ StubOn("start")
    /\ script' = IF Said("started") THEN <<>> ELSE Append(StubScript, "background")
    /\ main' = IF Said("started") THEN "reading" ELSE "sending"
    /\ UNCHANGED <<writer, expired, program, reason, exit, graph, aborted, client, status, task,
                   periodic>>

\* transmit_frame flies without looking at what was staged.
StubTransmit ==
    /\ app = "stub_tx" /\ Consume("transmit_frame")
    /\ script' = <<"transmit_started", "transmit_complete">> /\ main' = "sending"
    /\ UNCHANGED <<writer, expired, program, reason, exit, graph, aborted, client, status, task,
                   periodic>>

StubPrepare ==
    /\ app = "stub_tx" /\ Consume("prepare_transmit")
    /\ \E e \in {"tx_prepared", "tx_prepare_failed"} : script' = <<e>>
    /\ main' = "sending"
    /\ UNCHANGED <<writer, expired, program, reason, exit, graph, aborted, client, status, task,
                   periodic>>

\* A dead peer ends the process, and cleanly.
StubSends ==
    /\ main = "sending" /\ script # <<>> /\ Head(script) # "background"
    /\ Tell(Head(script))
    /\ IF Raises
          THEN Exit("zero") /\ script' = <<>> /\ periodic' = FALSE
          ELSE /\ main' = IF Len(script) = 1 THEN "reading" ELSE "sending"
               /\ script' = Tail(script) /\ UNCHANGED <<exit, periodic>>
    /\ UNCHANGED <<writer, expired, program, reason, graph, aborted, inbox, client, task>>

\* The start ends by creating the background tasks whose interval is set.
StubStarted ==
    /\ script = <<"background">> /\ script' = <<>> /\ main' = "reading"
    /\ periodic' \in BOOLEAN
    /\ UNCHANGED <<writer, expired, program, reason, exit, graph, aborted, inbox, client, status,
                   task>>

\* Bound: one periodic event in a session.  Its raise ends the task unseen.
PeriodicSends ==
    /\ Alive /\ periodic /\ ~Said("periodic")
    /\ Tell("periodic") /\ periodic' = ~Raises
    /\ UNCHANGED <<writer, expired, program, loop, inbox, client, task, script>>

StubStopBug ==               \* acknowledged with the background task alive
    /\ StubOn("stop")
    /\ Tell("stopped") /\ Exit("zero") /\ UNCHANGED periodic
    /\ UNCHANGED <<writer, expired, program, reason, graph, aborted, client, task, script>>

\* The background task is cancelled and awaited before the acknowledgement.
StubStop ==
    /\ StubOn("stop")
    /\ Tell("stopped") /\ Exit("zero") /\ periodic' = FALSE
    /\ UNCHANGED <<writer, expired, program, reason, graph, aborted, client, task, script>>

StubEof ==
    /\ Stub /\ main = "reading" /\ inbox = <<>> /\ eof
    /\ Exit("zero") /\ periodic' = FALSE
    /\ UNCHANGED <<writer, expired, program, reason, graph, aborted, inbox, client, status, task,
                   script>>
-----------------------------------------------------------------------------
Leave ==
    /\ main = "closing" /\ main' = "exited"
    /\ UNCHANGED <<writer, expired, program, reason, exit, graph, aborted, inbox, client, status,
                   task, stub>>

Deadline == /\ burst = "writing" /\ Expire
            /\ UNCHANGED <<program, main, reason, exit, graph, inbox, client, status, task, stub>>

Over == main = "exited" /\ UNCHANGED txVars

Supervisor == (\E c \in Commands : SupervisorSends(c)) \/ SupervisorCloses \/ StatusCloses
Main == \/ Probe \/ BuildFails \/ Ready
        \/ OnStop \/ OnEof \/ OnStartBurst \/ OnStartGraph \/ OnTransmitFrame \/ OnSetDoppler
        \/ \E c \in Commands : OnIgnored(c)
        \/ Settled \/ Leave
Stubs  == \/ StubStart \/ StubTransmit \/ StubPrepare \/ StubSends \/ StubStarted \/ PeriodicSends
          \/ StubStop \/ StubEof
Thread == SinkFile \/ SinkOpens \/ SinkWrites \/ SinkReturns
Posted == Announce \/ BurstResumes \/ OnBurstDone

TxNext == Supervisor \/ Main \/ Stubs \/ Thread \/ Posted \/ Deadline \/ Over

TxSpec == TxInit /\ [][TxNext]_txVars

\* The loop runs what is ready, the thread runs, and a driver call returns (a
\* hung native call is bounded by the orchestrator only).
TxFairSpec == TxSpec /\ WF_txVars(Main) /\ WF_txVars(Stubs) /\ WF_txVars(Thread)
                     /\ WF_txVars(Posted)
-----------------------------------------------------------------------------
\* Once the stop, the loss of the control socket or a failed handler revoked
\* the authority to transmit, what was already in the driver's hands is all
\* that can still go out (_soapy_tx: never write after revoke).
RevokedIsQuiet == late > 0 => late <= chunk

\* When the supervisor is told `stopped` the carrier is off and no thread
\* writes, and the same holds of every process that is gone.
OffAirBeforeStopped ==
    Said("stopped") \/ main = "exited" => graph # "on" /\ ~BurstPending

\* Nothing is said after `stopped`: no late announcement, no periodic event
\* and no report of a burst (P0-08).
StoppedIsLast == \A k \in DOMAIN status : status[k] = "stopped" => k = Len(status)

\* A `stopped` that can be believed: off the air before it, and silent after it.
StoppedIsFinal == OffAirBeforeStopped /\ StoppedIsLast

\* A burst that failed fails the pass: "the app exits nonzero ... and fails
\* the pass" (cubesat_gfsk_ax25_tx.emit_burst).
BurstFailureFails == Said("tx-failed") => exit # "zero"

\* An accepted stop, a lost control socket and a burst that raised end the
\* process, whatever the driver answers and with no deadline at all.
TxSessionEnds == (reason # "none" \/ eof \/ burst = "raised") ~> main = "exited"
=============================================================================
