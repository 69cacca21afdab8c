---------------------------- MODULE SatelliteDrain ----------------------------
(***************************************************************************)
(* The decoding loop of satellite_rx over _SatContext of                   *)
(* gnuradio_satellites.  Two chains of one GNU Radio graph decode the same *)
(* signal for the whole pass, ours and gr-satellites', and each hands its  *)
(* results to the loop through a bounded queue.  Every period the loop     *)
(* drains ours, drains gr-satellites', reconciles the two batches and      *)
(* emits what is new.  At the end it stops the graph, drains once more,    *)
(* flushes the streaming decoders and reports.                             *)
(*                                                                         *)
(* build_satellites_rx gives the context no valves, so the race of         *)
(* drain_frames, which needs two of them to starve the loser, is never     *)
(* entered: it is not modelled.                                            *)
(*                                                                         *)
(* Transmissions are numbered; the ones in Beacons carry one and the same  *)
(* payload.  A transmission reaches both chains at once, and each of them  *)
(* finds it or not.                                                        *)
(***************************************************************************)
EXTENDS Integers, Sequences, FiniteSets, SequencesExt

CONSTANTS
    NTransmissions,  \* bound: transmissions of the pass
    Beacons,         \* transmissions with the same payload
    Cap,             \* capacity of each queue
    Polls            \* bound: polls before the stop

ASSUME DrainAssumption ==
    /\ NTransmissions \in Nat /\ Beacons \subseteq 1 .. NTransmissions
    /\ Cap \in Nat \ {0} /\ Polls \in Nat

Transmission == 1 .. NTransmissions
PayloadOf(t) == IF t \in Beacons THEN 0 ELSE t
Payload      == 0 .. NTransmissions
Engine       == {"ours", "grsat"}
PayloadsOf(ts) == [i \in 1 .. Len(ts) |-> PayloadOf(ts[i])]

VARIABLES
    holding,    \* our streaming decoders may keep the last frame back
    air,        \* transmissions so far
    running,    \* the graph runs
    queue,      \* per chain: transmissions found and not drained
    dropped,    \* per chain: the queue refused something
    loop,       \* the engine coroutine
    last,       \* it is in its finally
    error,      \* an exception is on its way out of it
    fresh,      \* our frames of this poll
    held,       \* our frames the decoders keep for more symbols
    out,        \* payloads to emit
    app,        \* the command loop and the exit
    peer,       \* the status peer is there
    sent,       \* payloads emitted, in order (history)
    found,      \* per chain: transmissions its queue accepted (history)
    pending, generation, matched, only, emitted, state, seen, returned  \* the reconciler

shadowVars == <<pending, generation, matched, only, emitted, state, seen, returned>>
graphVars  == <<air, running, queue, dropped, found>>
loopVars   == <<loop, last, error, fresh, held, out, sent>>
appVars    == <<app, peer>>
vars == <<holding, graphVars, loopVars, appVars, shadowVars>>

\* Two more polls follow the stop, and the flush.
Shadow == INSTANCE ShadowReconciler
              WITH Payloads <- Payload, MaxLag <- 1, MaxPending <- 2 * NTransmissions + 1,
                   MaxPolls <- Polls + 3, MaxBatch <- NTransmissions

TypeOK ==
    /\ holding \in BOOLEAN
    /\ air \in 0 .. NTransmissions /\ running \in BOOLEAN
    /\ queue \in [Engine -> Seq(Transmission)] /\ \A e \in Engine : Len(queue[e]) <= Cap
    /\ dropped \in [Engine -> BOOLEAN]
    /\ loop \in {"sleeping", "ours", "grsat", "emitting", "graph", "flush", "done"}
    /\ last \in BOOLEAN /\ error \in BOOLEAN
    /\ fresh \in Seq(Transmission) /\ held \in Seq(Transmission) /\ out \in Seq(Payload)
    /\ app \in {"serving", "stopping", "clean", "failed"} /\ peer \in BOOLEAN
    /\ sent \in Seq(Payload) /\ found \in [Engine -> Seq(Transmission)]
    /\ Shadow!TypeOK

Init ==
    /\ holding \in BOOLEAN
    /\ air = 0 /\ running = TRUE
    /\ queue = [e \in Engine |-> <<>>] /\ dropped = [e \in Engine |-> FALSE]
    /\ loop = "sleeping" /\ last = FALSE /\ error = FALSE
    /\ fresh = <<>> /\ held = <<>> /\ out = <<>>
    /\ app = "serving" /\ peer = TRUE
    /\ sent = <<>> /\ found = [e \in Engine |-> <<>>]
    /\ Shadow!Init

Stop == app # "serving"
-----------------------------------------------------------------------------
(* The graph's threads.                                                    *)

Fits(e) == Len(queue[e]) < Cap

\* A transmission is found by the chains in `by'.
Receive(by) ==
    LET fits == {e \in by : Fits(e)}
    IN /\ running /\ air < NTransmissions /\ air' = air + 1
       /\ queue' = [e \in Engine |-> IF e \in fits THEN Append(queue[e], air') ELSE queue[e]]
       /\ found' = [e \in Engine |-> IF e \in fits THEN Append(found[e], air') ELSE found[e]]
       /\ dropped' = [e \in Engine |-> dropped[e] \/ e \in by \ fits]
       /\ UNCHANGED <<holding, running, loopVars, appVars, shadowVars>>
-----------------------------------------------------------------------------
(* The loop.                                                               *)

LoopFrame == UNCHANGED <<holding, air, dropped, found, appVars>>

\* The exception leaves the loop for its finally, or the finally for good.
Raise ==
    /\ error' = TRUE /\ out' = <<>> /\ fresh' = <<>>
    /\ loop' = IF last THEN "done" ELSE "graph"
    /\ UNCHANGED <<running, queue, last, held, sent, shadowVars>> /\ LoopFrame

Wake ==
    /\ loop = "sleeping" /\ (Stop \/ generation < Polls)
    /\ loop' = "ours"
    /\ UNCHANGED <<running, queue, last, error, fresh, held, out, sent, shadowVars>>
    /\ LoopFrame

\* Our chain: the symbols are drained and decoded; a streaming decoder may
\* need more of them to finish the last frame.
DrainOurs(keep) ==
    LET all == held \o queue["ours"]
    IN /\ loop = "ours" /\ ~dropped["ours"]
       /\ keep \in 0 .. (IF holding /\ all # <<>> THEN 1 ELSE 0)
       /\ fresh' = SubSeq(all, 1, Len(all) - keep)
       /\ held' = SubSeq(all, Len(all) - keep + 1, Len(all))
       /\ queue' = [queue EXCEPT !["ours"] = <<>>]
       /\ loop' = "grsat"
       /\ UNCHANGED <<running, last, error, out, sent, shadowVars>> /\ LoopFrame

DrainGrsatBug ==             \* the batches are joined, not reconciled
    LET ours  == PayloadsOf(fresh)
        grsat == PayloadsOf(queue["grsat"])
    IN /\ loop = "grsat" /\ ~dropped["grsat"]
       /\ queue' = [queue EXCEPT !["grsat"] = <<>>] /\ fresh' = <<>>
       /\ Shadow!Reconcile(ours, grsat)
       /\ out' = ours \o grsat
       /\ loop' = "emitting"
       /\ UNCHANGED <<running, last, error, held, sent>> /\ LoopFrame

\* gr-satellites' chain, and the reconciliation of the two batches.
DrainGrsat ==
    LET ours  == PayloadsOf(fresh)
        grsat == PayloadsOf(queue["grsat"])
    IN /\ loop = "grsat" /\ ~dropped["grsat"]
       /\ queue' = [queue EXCEPT !["grsat"] = <<>>] /\ fresh' = <<>>
       /\ Shadow!Reconcile(ours, grsat)
       /\ out' = Shadow!Poll(ours, grsat).out
       /\ loop' = "emitting"
       /\ UNCHANGED <<running, last, error, held, sent>> /\ LoopFrame

OverflowBug ==               \* logged, and polled again
    /\ loop \in Engine /\ dropped[loop]
    /\ loop' = "sleeping" /\ fresh' = <<>>
    /\ UNCHANGED <<running, queue, last, error, held, out, sent, shadowVars>>
    /\ LoopFrame

\* require_lossless raises; what the other chain had handed over is lost.
Overflow == loop \in Engine /\ dropped[loop] /\ Raise

Emit ==
    /\ loop = "emitting" /\ out # <<>> /\ peer
    /\ out' = Tail(out) /\ sent' = Append(sent, Head(out))
    /\ UNCHANGED <<running, queue, loop, last, error, fresh, held, shadowVars>>
    /\ LoopFrame

EmitFails == loop = "emitting" /\ out # <<>> /\ ~peer /\ Raise

PolledBug ==                 \* the stop is obeyed without the finally's last drain
    /\ loop = "emitting" /\ out = <<>> /\ ~last
    /\ loop' = IF Stop THEN "done" ELSE "sleeping"
    /\ UNCHANGED <<running, queue, last, error, fresh, held, out, sent, shadowVars>>
    /\ LoopFrame

Polled ==
    /\ loop = "emitting" /\ out = <<>> /\ ~last
    /\ loop' = IF Stop THEN "graph" ELSE "sleeping"
    /\ UNCHANGED <<running, queue, last, error, fresh, held, out, sent, shadowVars>>
    /\ LoopFrame

StopGraphBug ==              \* not waited for: the sinks still get results
    /\ loop = "graph" /\ last' = TRUE /\ loop' = "ours"
    /\ UNCHANGED <<running, queue, error, fresh, held, out, sent, shadowVars>> /\ LoopFrame

\* tb.stop and tb.wait: every scheduler buffer has reached the sinks.
StopGraph ==
    /\ loop = "graph" /\ running' = FALSE /\ last' = TRUE /\ loop' = "ours"
    /\ UNCHANGED <<queue, error, fresh, held, out, sent, shadowVars>> /\ LoopFrame

\* flush_frames, after the last drain was emitted.
Flush ==
    /\ loop = "emitting" /\ out = <<>> /\ last
    /\ Shadow!Reconcile(PayloadsOf(held), <<>>)
    /\ out' = Shadow!Poll(PayloadsOf(held), <<>>).out
    /\ held' = <<>> /\ loop' = "flush"
    /\ UNCHANGED <<running, queue, last, error, fresh, sent>> /\ LoopFrame

EmitFlushed ==
    /\ loop = "flush" /\ out # <<>> /\ peer
    /\ out' = Tail(out) /\ sent' = Append(sent, Head(out))
    /\ UNCHANGED <<running, queue, loop, last, error, fresh, held, shadowVars>>
    /\ LoopFrame

\* The summary is the last event of the engine.
Report ==
    /\ loop = "flush" /\ out = <<>> /\ peer
    /\ Shadow!Finalize
    /\ loop' = "done"
    /\ UNCHANGED <<running, queue, last, error, fresh, held, out, sent>> /\ LoopFrame

ReportFails == loop = "flush" /\ ~peer /\ Raise
-----------------------------------------------------------------------------
(* The app.                                                                *)

AppFrame == UNCHANGED <<holding, graphVars, loopVars, shadowVars>>

OnStop == app = "serving" /\ app' = "stopping" /\ UNCHANGED peer /\ AppFrame

\* An engine that ends before the stop was asked fails the pass.
Watch == app = "serving" /\ loop = "done" /\ app' = "failed" /\ UNCHANGED peer /\ AppFrame

\* The engine is settled, whatever it raised, and the stop is acknowledged.
Exit ==
    /\ app = "stopping" /\ loop = "done"
    /\ app' = IF peer THEN "clean" ELSE "failed"
    /\ UNCHANGED peer /\ AppFrame

PeerGoes == peer /\ peer' = FALSE /\ UNCHANGED app /\ AppFrame

Over == app \in {"clean", "failed"}
Finished == Over /\ UNCHANGED vars

Loop ==
    \/ Wake \/ DrainOurs(0) \/ DrainOurs(1) \/ DrainGrsat \/ Overflow \/ Emit \/ EmitFails
    \/ Polled \/ StopGraph \/ Flush \/ EmitFlushed \/ Report \/ ReportFails

Next ==
    \/ \E by \in SUBSET Engine : Receive(by)
    \/ Loop \/ OnStop \/ Watch \/ Exit \/ PeerGoes \/ Finished

Spec == Init /\ [][Next]_vars

\* The event loop runs; nothing is owed by the radio or the client.
FairSpec == Spec /\ WF_vars(Loop) /\ WF_vars(Watch) /\ WF_vars(Exit)
-----------------------------------------------------------------------------
Copies(payloads, p) == Cardinality({i \in DOMAIN payloads : payloads[i] = p})

\* A pass that ends clean and without an exception has emitted every frame a
\* chain found, also the ones that came just before the stop: at least as
\* many copies of a payload as either chain had.
AllFoundEmitted ==
    app = "clean" /\ ~error =>
        \A e \in Engine, p \in Payload : Copies(sent, p) >= Copies(PayloadsOf(found[e]), p)

\* A transmission both chains found is emitted once, although they are
\* drained one after the other and the second may be a poll ahead.  (A frame
\* our decoders hold back longer than that is emitted a second time.)
EmittedOnce ==
    ~holding => \A p \in Payload :
                   Copies(sent, p) <= Cardinality({t \in 1 .. air : PayloadOf(t) = p})

\* Every frame found goes out, and only as often as it was sent.
EmittedExactly == AllFoundEmitted /\ EmittedOnce

\* A loss a chain counts at any time of the pass, also between the last check
\* of its queue and the stop, is seen by a drain: the loop that ends without
\* an exception has lost nothing.
LossIsNoticed == loop = "done" /\ ~error => ~dropped["ours"] /\ ~dropped["grsat"]

\* A stop ends the app, also when every drain raises.
StopEnds == app = "stopping" ~> Over

\* "Fail closed when a scheduler handoff reports any cumulative loss": a pass
\* that lost decoder output does not end as a clean one.
LossFailsPass == app = "clean" => ~dropped["ours"] /\ ~dropped["grsat"]
=============================================================================
