---------------------------- MODULE PassServices ----------------------------
(***************************************************************************)
(* For TLC: the services inside a receive app that work on their own, each *)
(* checked alone: part says which one this behaviour is about, and the     *)
(* others stay as they start.                                              *)
(***************************************************************************)
EXTENDS BoundedQueue, FiniteSets

CONSTANTS Cap, NBlocks, Payloads, MaxLag, MaxPending, MaxPolls, MaxBatch,
          Connect, Rpc, Reset, Grace, Period, Threshold, MaxAge, MaxChunk, MaxSamples

ASSUME ServicesAssumption ==
    /\ Cap \in Nat /\ NBlocks \in Nat
    /\ IsFiniteSet(Payloads) /\ MaxLag \in Nat /\ MaxPending \in Nat
    /\ Connect \in Nat /\ Rpc \in Nat /\ Reset \in Nat /\ Grace \in Nat /\ Period \in Nat
    /\ MaxAge \in Nat /\ MaxChunk \in Nat /\ MaxSamples \in Nat

VARIABLES
    part,
    graph, produced, dropped, queue, getter, hand, pump, peer, main, tries, told, written,
    pushedOut,
    pending, generation, matched, only, emitted, state, seen, returned,
    phase, left, conn, asked, wire, sinceOk, sinceUsable, heard, pushed, last, onFallback, stopped,
    captured, room, handle, file, decoded

Audio    == INSTANCE AudioPump
Shadow   == INSTANCE ShadowReconciler
Doppler  == INSTANCE DopplerPoll WITH Cap <- MaxAge
Recorder == INSTANCE StreamRecorder

audio    == <<graph, produced, dropped, queue, getter, hand, pump, peer, main, tries, told,
              written, pushedOut>>
shadow   == <<pending, generation, matched, only, emitted, state, seen, returned>>
doppler  == <<phase, left, conn, asked, wire, sinceOk, sinceUsable, heard, pushed, last,
              onFallback, stopped>>
recorder == <<captured, room, handle, file, decoded>>
allVars  == <<part, vars, audio, shadow, doppler, recorder>>

ServicesInit ==
    /\ part \in {"queue", "audio", "shadow", "doppler", "recorder"}
    /\ Init /\ Audio!Init /\ Shadow!Init /\ Doppler!PollInit
    /\ IF part = "recorder" THEN Recorder!RecorderInit
       ELSE captured = 0 /\ room = 0 /\ handle = "open" /\ file = <<>> /\ decoded = 0

ServicesNext ==
    /\ UNCHANGED part
    /\ \/ /\ part = "queue" /\ Next
          /\ UNCHANGED <<audio, shadow, doppler, recorder>>
       \/ /\ part = "audio" /\ Audio!Next
          /\ UNCHANGED <<vars, shadow, doppler, recorder>>
       \/ /\ part = "shadow" /\ Shadow!Next
          /\ UNCHANGED <<vars, audio, doppler, recorder>>
       \/ /\ part = "doppler" /\ Doppler!PollNext
          /\ UNCHANGED <<vars, audio, shadow, recorder>>
       \/ /\ part = "recorder" /\ Recorder!RecorderNext
          /\ UNCHANGED <<vars, audio, shadow, doppler>>

\* The fairness each service states for itself.
ServicesSpec ==
    /\ ServicesInit /\ [][ServicesNext]_allVars
    /\ WF_vars(part = "queue" /\ Check) /\ WF_vars(part = "queue" /\ Drain)
    /\ WF_audio(part = "audio" /\ Audio!Pump) /\ WF_audio(part = "audio" /\ Audio!Main)
    /\ WF_audio(part = "audio" /\ Audio!ProduceOn)
    /\ WF_doppler(part = "doppler" /\ Doppler!PollLoop)
    /\ WF_doppler(part = "doppler" /\ Doppler!Tick)
-----------------------------------------------------------------------------
\* See AudioPump: the data socket carries the audio in order and to the end.
AudioComplete == Audio!AudioComplete

\* See ShadowReconciler: no frame is lost to the comparison of two engines,
\* and nothing waits for a partner that is there or too old to come.
PairedWithoutLoss == Shadow!RepeatsPreserved /\ Shadow!Settled /\ Shadow!Accounting

\* See DopplerPoll: a silent source is given up for the pushed offset, and a late
\* reply is never taken for the answer.
DopplerIsFresh == Doppler!HandOver /\ Doppler!ReadingIsFresh

\* See AudioPump and DopplerPoll: a shutdown ends, and the end of the pass ends
\* the poll and its connection.
ServicesEnd == Audio!ShutdownEnds /\ Doppler!PollEnds

\* See StreamRecorder: the capture has no hole, and the decoder misses nothing.
CaptureIsPrefix == Recorder!CaptureIsPrefix
=============================================================================
