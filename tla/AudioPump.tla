------------------------------ MODULE AudioPump -------------------------------
(***************************************************************************)
(* The audio path of amateur_fm_narrowband_rx: the GNU Radio thread offers *)
(* blocks of audio to a bounded queue.Queue and drops what does not fit;   *)
(* the pump coroutine takes them, one blocking get at a time on an         *)
(* executor thread, and writes them to the data socket; the shutdown       *)
(* reports the loss, stops the graph, delivers the None sentinel without   *)
(* ever blocking, and joins the pump.  The process ends when the executor  *)
(* thread has.                                                             *)
(***************************************************************************)
EXTENDS Integers, Sequences, SequencesExt

CONSTANTS
    Cap,      \* _DATA_QUEUE_MAXSIZE
    NBlocks   \* bound: blocks of audio

Block == 1 .. NBlocks
Later == NBlocks + 1         \* any block made by a graph that would not stop
None  == 0
Item  == Block \cup {Later, None}

VARIABLES
    graph,     \* the flowgraph: "off", "on", "stopped", or "stuck" (its stop raised)
    produced,  \* blocks made
    dropped,   \* _QueueSink.dropped
    queue,     \* data_queue
    getter,    \* the executor thread: "idle", "getting", "got"
    hand,      \* what the get returned
    pump,      \* pump_data_queue: "calling", "waiting", "writing", "done", "cancelled"
    peer,      \* the data peer: "reading", "closed"
    main,      \* amain
    tries,     \* attempts of signal_pump_end
    told,      \* the audio-dropped event was sent
    written,   \* blocks on the data socket (history)
    pushedOut  \* blocks the sentinel displaced (history)

vars == <<graph, produced, dropped, queue, getter, hand, pump, peer, main, tries, told, written,
          pushedOut>>
appVars == <<main, tries, told, pushedOut>>

TypeOK ==
    /\ graph \in {"off", "on", "stopped", "stuck"} /\ produced \in 0 .. NBlocks /\ dropped \in 0 .. NBlocks
    /\ queue \in Seq(Item) /\ Len(queue) <= Cap
    /\ getter \in {"idle", "getting", "got"} /\ hand \in Item
    /\ pump \in {"calling", "waiting", "writing", "done", "cancelled"}
    /\ peer \in {"reading", "closed"}
    /\ main \in {"starting", "proving", "serving", "reporting", "stopping", "signalling",
                 "making-room", "joining", "returned", "refused", "exited"}
    /\ tries \in 0 .. Cap + 2 /\ told \in BOOLEAN
    /\ written \in Seq(Block) /\ pushedOut \in 0 .. Cap + 2

Init ==
    /\ graph = "off" /\ produced = 0 /\ dropped = 0 /\ queue = <<>>
    /\ getter = "idle" /\ hand = None /\ pump = "calling" /\ peer = "reading"
    /\ main = "starting" /\ tries = 0 /\ told = FALSE /\ written = <<>> /\ pushedOut = 0
-----------------------------------------------------------------------------
(* The GNU Radio thread.                                                   *)

Fits == Len(queue) < Cap

\* work(): put_nowait, or count the loss.
Produce ==
    /\ graph = "on" /\ produced < NBlocks
    /\ produced' = produced + 1
    /\ IF Fits THEN queue' = Append(queue, produced') /\ UNCHANGED dropped
               ELSE dropped' = dropped + 1 /\ UNCHANGED queue
    /\ UNCHANGED <<graph, getter, hand, pump, peer, appVars, written>>
\* A graph whose stop raised goes on, for ever.
ProduceOn ==
    /\ graph = "stuck" /\ Fits
    /\ queue' = Append(queue, Later)
    /\ UNCHANGED <<graph, produced, dropped, getter, hand, pump, peer, appVars, written>>
-----------------------------------------------------------------------------
(* The pump and its executor thread.                                       *)

CallsGet ==
    /\ pump = "calling" /\ pump' = "waiting" /\ getter' = "getting"
    /\ UNCHANGED <<graph, produced, dropped, queue, hand, peer, appVars, written>>

GetReturns ==
    /\ getter = "getting" /\ queue # <<>>
    /\ getter' = "got" /\ hand' = Head(queue) /\ queue' = Tail(queue)
    /\ UNCHANGED <<graph, produced, dropped, pump, peer, appVars, written>>

PumpTakes ==
    /\ pump = "waiting" /\ getter = "got"
    /\ getter' = "idle" /\ pump' = IF hand = None THEN "done" ELSE "writing"
    /\ UNCHANGED <<graph, produced, dropped, queue, hand, peer, appVars, written>>

\* write and drain; a closed peer ends the pump.
PumpWrites ==
    /\ pump = "writing"
    /\ IF peer = "reading" THEN /\ pump' = "calling"
                                /\ written' = IF hand = Later THEN written ELSE Append(written, hand)
                           ELSE pump' = "done" /\ UNCHANGED written
    /\ UNCHANGED <<graph, produced, dropped, queue, getter, hand, peer, appVars>>

PeerCloses ==
    /\ peer = "reading" /\ peer' = "closed"
    /\ UNCHANGED <<graph, produced, dropped, queue, getter, hand, pump, appVars, written>>
-----------------------------------------------------------------------------
(* amain.                                                                  *)

PathFrame == UNCHANGED <<produced, getter, hand, peer, written>>

Start ==
    /\ main = "starting"
    /\ \/ main' = "proving" /\ graph' = "on"
       \/ main' = "refused" /\ UNCHANGED graph
    /\ UNCHANGED <<dropped, queue, pump, tries, told, pushedOut>> /\ PathFrame

\* Ready takes a first sample: without one, or without a probe, the graph is
\* stopped and the app returns 1.
Prove ==
    /\ main = "proving"
    /\ \/ main' = "serving" /\ produced > 0 /\ UNCHANGED graph
       \/ main' = "refused" /\ graph' = "stopped"
    /\ UNCHANGED <<dropped, queue, pump, tries, told, pushedOut>> /\ PathFrame

CommandLoopEnds ==
    /\ main = "serving" /\ main' = "reporting"
    /\ UNCHANGED <<graph, dropped, queue, pump, tries, told, pushedOut>> /\ PathFrame

Report ==
    /\ main = "reporting" /\ main' = "stopping" /\ told' = (dropped > 0)
    /\ UNCHANGED <<graph, dropped, queue, pump, tries, pushedOut>> /\ PathFrame

\* tb.stop and tb.wait; if they raise, the graph goes on.
StopGraph ==
    /\ main = "stopping" /\ main' = "signalling" /\ graph' \in {"stopped", "stuck"}
    /\ UNCHANGED <<dropped, queue, pump, tries, told, pushedOut>> /\ PathFrame

PumpIsOver ==
    /\ main = "signalling" /\ pump = "done" /\ tries = 0 /\ main' = "joining"
    /\ UNCHANGED <<graph, dropped, queue, pump, tries, told, pushedOut>> /\ PathFrame

SentinelFitsBug ==           \* the sentinel overtakes the audio
    /\ main = "signalling" /\ Len(queue) < Cap
    /\ queue' = <<None>> \o queue /\ main' = "joining"
    /\ UNCHANGED <<graph, dropped, pump, tries, told, pushedOut>> /\ PathFrame

\* put_nowait(None).
SentinelFits ==
    /\ main = "signalling" /\ Len(queue) < Cap /\ tries < Cap + 2
    /\ pump = "done" => tries > 0
    /\ queue' = Append(queue, None) /\ main' = "joining"
    /\ UNCHANGED <<graph, dropped, pump, tries, told, pushedOut>> /\ PathFrame

SentinelRefusedBug ==        \* a full queue is waited for
    /\ main = "signalling" /\ Len(queue) = Cap /\ main' = "signalling"
    /\ UNCHANGED <<graph, dropped, queue, pump, tries, told, pushedOut>> /\ PathFrame

\* Full.
SentinelRefused ==
    /\ main = "signalling" /\ Len(queue) = Cap /\ tries < Cap + 2
    /\ pump = "done" => tries > 0
    /\ main' = "making-room"
    /\ UNCHANGED <<graph, dropped, queue, pump, tries, told, pushedOut>> /\ PathFrame

\* The oldest block makes room, if the pump has not; the producer may take it.
MakeRoom ==
    /\ main = "making-room" /\ main' = "signalling" /\ tries' = tries + 1
    /\ queue' = IF queue = <<>> THEN <<>> ELSE Tail(queue)
    /\ pushedOut' = IF queue = <<>> THEN pushedOut ELSE pushedOut + 1
    /\ UNCHANGED <<graph, dropped, pump, told>> /\ PathFrame

\* Not delivered: the pump is cancelled instead.
GiveUp ==
    /\ main = "signalling" /\ tries = Cap + 2
    /\ main' = "joining" /\ pump' = IF pump = "done" THEN "done" ELSE "cancelled"
    /\ UNCHANGED <<graph, dropped, queue, tries, told, pushedOut>> /\ PathFrame

Joined ==
    /\ main = "joining" /\ pump \in {"done", "cancelled"} /\ main' = "returned"
    /\ UNCHANGED <<graph, dropped, queue, pump, tries, told, pushedOut>> /\ PathFrame

\* asyncio.run cancels what is left and joins the executor thread.
Exit ==
    /\ main \in {"returned", "refused"} /\ getter # "getting" /\ main' = "exited"
    /\ pump' = IF pump = "done" THEN "done" ELSE "cancelled"
    /\ UNCHANGED <<graph, dropped, queue, tries, told, pushedOut>> /\ PathFrame

Ended == main \in {"refused", "exited"} /\ UNCHANGED vars

Pump == CallsGet \/ GetReturns \/ PumpTakes \/ PumpWrites
Main == Start \/ Prove \/ Report \/ StopGraph \/ PumpIsOver \/ SentinelFits
        \/ SentinelRefused \/ MakeRoom \/ GiveUp \/ Joined \/ Exit
Next == Produce \/ ProduceOn \/ Pump \/ PeerCloses \/ Main \/ CommandLoopEnds \/ Ended

Spec == Init /\ [][Next]_vars

\* The threads and the event loop run, and a peer reads or is seen to close.
FairSpec == Spec /\ WF_vars(Pump) /\ WF_vars(Main) /\ WF_vars(ProduceOn)
-----------------------------------------------------------------------------
\* The data socket carries the audio in order, and to the end: every block
\* reached the peer before the app returned, if none was dropped or displaced
\* and the peer did not leave.  The sentinel is last.
AudioComplete ==
    /\ \A i, j \in DOMAIN written : i < j => written[i] < written[j]
    /\ main = "returned" /\ pump = "done" /\ peer = "reading" /\ graph = "stopped"
           => Len(written) + dropped + pushedOut >= produced

\* A shutdown ends, also when the data peer is gone and the queue is full.
ShutdownEnds == main = "reporting" ~> main = "exited"

\* "A source that cannot start or stays silent fails the pass here,
\* fail-closed": the app that refuses to be ready exits.
RefusalExits == main = "refused" ~> main = "exited"
=============================================================================
