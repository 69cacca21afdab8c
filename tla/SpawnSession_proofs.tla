------------------------- MODULE SpawnSession_proofs -------------------------
EXTENDS SpawnSession, SequenceTheorems, TLAPS

(* The lines the programs themselves send, and whichever code the death    *)
(* report carries, are events of the status connection.                    *)
LEMMA EventNames ==
    /\ {"ready", "started", "stopped", "frame"} \subseteq Events
    /\ {"handler-failed", "rx-not-alive"} \subseteq Events
    /\ ReportCode \in Events
BY Zenon DEF ReportCode, Events, Errors

USE DEF supervisorVars, mainVars, engineVars, watchVars

(* A program that has just connected its two sockets is well typed.        *)
LEMMA TypeInit == Init => TypeOK
<1> SUFFICES ASSUME Init PROVE TypeOK
  OBVIOUS
<1>1. inbox \in Seq(Commands) /\ status \in Seq(Events)
  BY DEF Init
<1>2. sent \in 0 .. MaxSent
  BY SentAssumption DEF Init
<1>3. main \in MainStates /\ engine \in EngineStates
  BY DEF Init, MainStates, EngineStates
<1> QED BY <1>1, <1>2, <1>3 DEF Init, TypeOK

(* Whatever the supervisor does to the control connection (a command, the  *)
(* close) or to the status connection (a stall, a resume, a close) keeps   *)
(* the state well typed.                                                   *)
LEMMA TypeSupervisor == TypeOK /\ Supervisor => TypeOK'
<1> SUFFICES ASSUME TypeOK, Supervisor PROVE TypeOK'
  OBVIOUS
<1> USE DEF TypeOK, Write, DrainReturns, DrainParks, DrainRaises, MainStates, EngineStates,
        Outcomes
<1>1. CASE \E c \in Commands : SupervisorSends(c)
  BY <1>1, SentAssumption, EventNames DEF SupervisorSends
<1>2. CASE SupervisorCloses
  BY <1>2, SentAssumption, EventNames DEF SupervisorCloses
<1>3. CASE StatusStalls
  BY <1>3, SentAssumption, EventNames DEF StatusStalls, StatusPeer
<1>4. CASE StatusResumes
  BY <1>4, SentAssumption, EventNames DEF StatusResumes, StatusPeer
<1>5. CASE StatusCloses
  BY <1>5, SentAssumption, EventNames DEF StatusCloses, StatusPeer
<1> QED BY <1>1, <1>2, <1>3, <1>4, <1>5 DEF Supervisor

(* Every step of amain keeps the state well typed: the start-up proof,     *)
(* run_command_loop with its handlers, and the shutdown.                   *)
LEMMA TypeMain == TypeOK /\ MainStep => TypeOK'
<1> SUFFICES ASSUME TypeOK, MainStep PROVE TypeOK'
  OBVIOUS
<1> USE DEF TypeOK, Write, DrainReturns, DrainParks, DrainRaises, MainStates, EngineStates,
        Outcomes
<1>1. CASE Announce
  BY <1>1, SentAssumption, EventNames DEF Announce, Exit, EngineAfterReady
<1>2. CASE Announced
  BY <1>2, SentAssumption, EventNames DEF Announced, Exit, EngineAfterReady
<1>3. CASE ProofFails
  <2>1. stopRequested' \in BOOLEAN
    BY <1>3, Zenon DEF ProofFails
  <2>2. status' \in Seq(Events)
    BY <1>3, EventNames DEF ProofFails
  <2> QED BY <1>3, <2>1, <2>2 DEF ProofFails
<1>4. CASE ProofFailureSent
  BY <1>4, SentAssumption, EventNames DEF ProofFailureSent
<1>5. CASE Condemned
  BY <1>5, SentAssumption, EventNames DEF Condemned, Exit
<1>6. CASE OnNoise
  BY <1>6, SentAssumption, EventNames DEF OnNoise, Consume
<1>7. CASE OnStart
  <2>1. stopRequested' \in BOOLEAN
    BY <1>7, Zenon DEF OnStart, Consume, HandlerRaises, LoopReturns
  <2>2. \E e \in {"started", "handler-failed"} : status' \in {status, Append(status, e)}
    BY <1>7 DEF OnStart, HandlerRaises
  <2>3. status' \in Seq(Events)
    BY <2>2, EventNames
  <2> QED BY <1>7, <2>1, <2>3 DEF OnStart, Consume, HandlerRaises, LoopReturns
<1>8. CASE StartedSent
  <2>1. stopRequested' \in BOOLEAN
    BY <1>8, Zenon DEF StartedSent, HandlerRaises, LoopReturns
  <2>2. status' = status \/ status' = Append(status, "handler-failed")
    BY <1>8, Zenon DEF StartedSent, HandlerRaises, LoopReturns
  <2>3. status' \in Seq(Events)
    BY <2>2, EventNames
  <2> QED BY <1>8, <2>1, <2>3 DEF StartedSent, HandlerRaises, LoopReturns
<1>9. CASE OnWork
  BY <1>9, SentAssumption, EventNames DEF OnWork, Consume
<1>10. CASE WorkDone
  <2>1. stopRequested' \in BOOLEAN
    BY <1>10, Zenon DEF WorkDone, HandlerRaises, LoopReturns
  <2>2. status' \in Seq(Events)
    BY <1>10, EventNames DEF WorkDone, HandlerRaises, LoopReturns
  <2> QED BY <1>10, <2>1, <2>2 DEF WorkDone, HandlerRaises, LoopReturns
<1>11. CASE HandlerErrorSent
  BY <1>11, SentAssumption, EventNames DEF HandlerErrorSent, LoopReturns
<1>12. CASE OnStop
  BY <1>12, SentAssumption, EventNames DEF OnStop, Consume, LoopReturns
<1>13. CASE OnEof
  BY <1>13, SentAssumption, EventNames DEF OnEof, LoopReturns
<1>14. CASE AckStop
  BY <1>14, SentAssumption, EventNames DEF AckStop, Exit
<1>15. CASE StopAcked
  BY <1>15, SentAssumption, EventNames DEF StopAcked, Exit
<1>16. CASE ExitFailed
  BY <1>16, SentAssumption, EventNames DEF ExitFailed, Exit
<1> QED BY <1>1, <1>2, <1>3, <1>4, <1>5, <1>6, <1>7, <1>8, <1>9, <1>10, <1>11, <1>12, <1>13,
        <1>14, <1>15, <1>16 DEF MainStep, Startup, CommandLoop, Shutdown

(* Every step of the receive engine (first sample, ready, frames,          *)
(* teardown) keeps the state well typed.                                   *)
LEMMA TypeEngine == TypeOK /\ Engine => TypeOK'
<1> SUFFICES ASSUME TypeOK, Engine PROVE TypeOK'
  OBVIOUS
<1> USE DEF TypeOK, Write, DrainReturns, DrainParks, DrainRaises, MainStates, EngineStates,
        Outcomes
<1>1. CASE ContextStreams
  BY <1>1, SentAssumption, EventNames DEF ContextStreams
<1>2. CASE FirstSample
  BY <1>2, SentAssumption, EventNames DEF FirstSample
<1>3. CASE EngineAnnounces
  BY <1>3, SentAssumption, EventNames DEF EngineAnnounces
<1>4. CASE EngineAnnounced
  BY <1>4, SentAssumption, EventNames DEF EngineAnnounced
<1>5. CASE NoFirstSample
  <2>1. stopRequested' \in BOOLEAN
    BY <1>5, Zenon DEF NoFirstSample
  <2> QED BY <1>5, <2>1 DEF NoFirstSample
<1>6. CASE Emit
  BY <1>6, SentAssumption, EventNames DEF Emit, EmitRaises, SelfStop
<1>7. CASE Emitted
  BY <1>7, SentAssumption, EventNames DEF Emitted, EmitRaises, SelfStop
<1>8. CASE \E o \in Outcomes : EngineLeaves(o)
  BY <1>8, SentAssumption, EventNames DEF EngineLeaves, SelfStop
<1>9. CASE EngineReturns
  <2>1. engine' \in {"done", "flushing"} /\ outcome' \in {outcome, "raised"}
    BY <1>9 DEF EngineReturns
  <2>2. status \in Seq(Events)
    BY DEF TypeOK
  <2>3. status' = status \/ Write("frame")
    BY <1>9, Zenon DEF EngineReturns
  <2>4. status' \in Seq(Events)
    BY <2>2, <2>3, EventNames, AppendProperties DEF Write
  <2> QED BY <1>9, <2>1, <2>4, SentAssumption DEF EngineReturns
<1>10. CASE EngineFlushed
  BY <1>10, SentAssumption, EventNames DEF EngineFlushed
<1> QED BY <1>1, <1>2, <1>3, <1>4, <1>5, <1>6, <1>7, <1>8, <1>9, <1>10 DEF Engine

(* The done-callback of watch_engine_death and the report it schedules     *)
(* keep the state well typed.                                              *)
LEMMA TypeWatch == TypeOK /\ WatchStep => TypeOK'
<1> SUFFICES ASSUME TypeOK, WatchStep PROVE TypeOK'
  OBVIOUS
<1> USE DEF TypeOK, Write, DrainReturns, DrainParks, DrainRaises, MainStates, EngineStates,
        Outcomes
<1>1. CASE OnDone
  BY <1>1, SentAssumption, EventNames DEF OnDone
<1>2. CASE Fail
  <2>1. eof' \in BOOLEAN
    BY <1>2, Zenon DEF Fail
  <2>2. status' \in Seq(Events)
    BY <1>2, EventNames DEF Fail
  <2> QED BY <1>2, <2>1, <2>2 DEF Fail
<1>3. CASE FeedEof
  BY <1>3, SentAssumption, EventNames DEF FeedEof
<1> QED BY <1>1, <1>2, <1>3 DEF WatchStep

(* Every reachable state is well typed, for every number of commands and   *)
(* each of the three programs.                                             *)
THEOREM TypeCorrect == Spec => []TypeOK
<1>1. TypeOK /\ [Next]_vars => TypeOK'
  <2>1. TypeOK /\ UNCHANGED vars => TypeOK'
    BY DEF TypeOK, vars
  <2>2. Finished => UNCHANGED vars
    BY DEF Finished
  <2> QED BY <2>1, <2>2, TypeSupervisor, TypeMain, TypeEngine, TypeWatch DEF Next
<1> QED BY <1>1, TypeInit, PTL DEF Spec
-----------------------------------------------------------------------------
(* The acknowledgement.  Either `stopped` was never said and nothing has   *)
(* begun to say it, or it was the last line and nobody is left to write    *)
(* another: the engine is done, its callback has run, and the report it    *)
(* may have started has been written.                                      *)
LastSaidStopped == /\ status # <<>> /\ status[Len(status)] = "stopped"
                   /\ \A i \in DOMAIN status : status[i] = "stopped" => i = Len(status)

Silent == ~Said("stopped") /\ main # "stopped-send" /\ exit # "zero"

Acknowledged == /\ main \in {"stopped-send", "exited"} /\ reason = "stop"
                /\ engine = "done" /\ watch = "fired" /\ report # "created"
                /\ LastSaidStopped

AckInv ==
    /\ reason # "none" => main \in {"settling", "stopped-send", "exited"}
    /\ engine = "absent" => /\ app = "satellite_rx"
                            /\ main \notin {"reading", "started-send", "working", "error-send",
                                            "settling", "stopped-send"}
    /\ app = "satellite_rx" /\ main \in {"proving", "ready-send", "condemned-send", "condemned"}
            => engine = "absent"
    /\ exit # "none" => main = "exited"
    /\ Silent \/ Acknowledged

(* Sending any line but `stopped` does not say `stopped`.                  *)
LEMMA SaidOther ==
    ASSUME TypeOK, NEW e \in Events, e # "stopped", Write(e), ~Said("stopped")
    PROVE  ~Said("stopped")'
BY DEF TypeOK, Write, Said

(* What was said depends on the lines written to the status connection     *)
(* alone.                                                                  *)
LEMMA SaidKept ==
    ASSUME status' = status
    PROVE  Said("stopped")' = Said("stopped") /\ LastSaidStopped' = LastSaidStopped
BY DEF Said, LastSaidStopped

(* The acknowledgement invariant holds when the program starts.            *)
LEMMA AckInit == Init => AckInv
<1> SUFFICES ASSUME Init PROVE AckInv
  OBVIOUS
<1>1. ~Said("stopped")
  BY DEF Init, Said
<1> QED BY <1>1 DEF Init, AckInv, Silent

(* Every step of every actor keeps the acknowledgement invariant. The step *)
(* that matters is AckStop: the gather of the shutdown has waited for the  *)
(* engine and for the watch's report, so nobody is left to write.          *)
LEMMA AckStep == TypeOK /\ AckInv /\ Next => AckInv'
<1> SUFFICES ASSUME TypeOK, AckInv, Next PROVE AckInv'
  OBVIOUS
<1> USE DEF AckInv, Silent, Acknowledged, Alive
<1>1. CASE \E c \in Commands : SupervisorSends(c)
  BY <1>1, SaidKept DEF SupervisorSends
<1>2. CASE SupervisorCloses
  BY <1>2, SaidKept DEF SupervisorCloses
<1>3. CASE StatusStalls
  BY <1>3, SaidKept DEF StatusStalls, StatusPeer
<1>4. CASE StatusResumes
  BY <1>4, SaidKept DEF StatusResumes, StatusPeer
<1>5. CASE StatusCloses
  BY <1>5, SaidKept DEF StatusCloses, StatusPeer
<1>6. CASE Announce
  BY <1>6, SaidOther, SaidKept, EventNames DEF Announce, Exit, EngineAfterReady
<1>7. CASE Announced
  BY <1>7, SaidKept DEF Announced, Exit, EngineAfterReady
<1>8. CASE ProofFails
  BY <1>8, SaidOther, SaidKept, EventNames DEF ProofFails
<1>9. CASE ProofFailureSent
  BY <1>9, SaidKept DEF ProofFailureSent
<1>10. CASE Condemned
  BY <1>10, SaidKept DEF Condemned, Exit
<1>11. CASE OnNoise
  BY <1>11, SaidKept DEF OnNoise, Consume
<1>12. CASE OnStart
  BY <1>12, SaidOther, SaidKept, EventNames DEF OnStart, Consume, HandlerRaises, LoopReturns
<1>13. CASE StartedSent
  BY <1>13, SaidOther, SaidKept, EventNames DEF StartedSent, HandlerRaises, LoopReturns
<1>14. CASE OnWork
  BY <1>14, SaidKept DEF OnWork, Consume
<1>15. CASE WorkDone
  BY <1>15, SaidOther, SaidKept, EventNames DEF WorkDone, HandlerRaises, LoopReturns
<1>16. CASE HandlerErrorSent
  BY <1>16, SaidKept DEF HandlerErrorSent, LoopReturns
<1>17. CASE OnStop
  BY <1>17, SaidKept DEF OnStop, Consume, LoopReturns
<1>18. CASE OnEof
  BY <1>18, SaidKept DEF OnEof, LoopReturns
<1>19. CASE AckStop
  <2>1. /\ main = "settling" /\ reason = "stop" /\ engine = "done" /\ watch = "fired"
        /\ report # "created" /\ ~Said("stopped")
    BY <1>19 DEF AckStop, GatherReturns, EngineSettled
  <2>2. CASE peer = "closed"
    BY <1>19, <2>1, <2>2, SaidKept DEF AckStop, Write, Exit, DrainReturns, DrainParks
  <2>3. CASE peer # "closed"
    <3>1. status' = Append(status, "stopped")
      BY <1>19, <2>3 DEF AckStop, Write
    <3>2. status \in Seq(Events) /\ "stopped" \in Events
      BY EventNames DEF TypeOK
    <3>3. /\ status' \in Seq(Events) /\ Len(status') = Len(status) + 1 /\ Len(status) \in Nat
          /\ status'[Len(status) + 1] = "stopped"
          /\ \A i \in 1 .. Len(status) : status'[i] = status[i]
      BY <3>1, <3>2, AppendProperties, LenProperties
    <3>4. \A i \in 1 .. Len(status) : status[i] # "stopped"
      BY <2>1, <3>2 DEF Said
    <3>5. LastSaidStopped'
      BY <3>3, <3>4 DEF LastSaidStopped
    <3> QED BY <1>19, <2>1, <2>3, <3>5 DEF AckStop, Exit, DrainReturns, DrainParks
  <2> QED BY <2>2, <2>3
<1>20. CASE StopAcked
  BY <1>20, SaidKept DEF StopAcked, Exit
<1>21. CASE ExitFailed
  BY <1>21, SaidKept DEF ExitFailed, Exit
<1>22. CASE ContextStreams
  BY <1>22, SaidKept DEF ContextStreams
<1>23. CASE FirstSample
  BY <1>23, SaidKept DEF FirstSample
<1>24. CASE EngineAnnounces
  BY <1>24, SaidOther, SaidKept, EventNames DEF EngineAnnounces
<1>25. CASE EngineAnnounced
  BY <1>25, SaidKept DEF EngineAnnounced
<1>26. CASE NoFirstSample
  BY <1>26, SaidKept DEF NoFirstSample
<1>27. CASE Emit
  BY <1>27, SaidOther, SaidKept, EventNames DEF Emit, EmitRaises
<1>28. CASE Emitted
  BY <1>28, SaidKept DEF Emitted, EmitRaises
<1>29. CASE \E o \in Outcomes : EngineLeaves(o)
  BY <1>29, SaidKept DEF EngineLeaves
<1>30. CASE EngineReturns
  BY <1>30, SaidOther, SaidKept, EventNames DEF EngineReturns
<1>31. CASE EngineFlushed
  BY <1>31, SaidKept DEF EngineFlushed
<1>32. CASE OnDone
  BY <1>32, SaidKept DEF OnDone
<1>33. CASE Fail
  BY <1>33, SaidOther, SaidKept, EventNames DEF Fail, ReportCode
<1>34. CASE FeedEof
  BY <1>34, SaidKept DEF FeedEof
<1>35. CASE Finished
  BY <1>35, SaidKept DEF Finished, vars
<1> QED BY <1>1, <1>2, <1>3, <1>4, <1>5, <1>6, <1>7, <1>8, <1>9, <1>10, <1>11, <1>12, <1>13,
        <1>14, <1>15, <1>16, <1>17, <1>18, <1>19, <1>20, <1>21, <1>22, <1>23, <1>24, <1>25,
        <1>26, <1>27, <1>28, <1>29, <1>30, <1>31, <1>32, <1>33, <1>34, <1>35
     DEF Next, Supervisor, MainStep, Startup, CommandLoop, Shutdown, Engine, WatchStep

(* Typing and the acknowledgement invariant hold in every reachable state. *)
LEMMA Invariance == Spec => [](TypeOK /\ AckInv)
<1>1. TypeOK /\ AckInv /\ [Next]_vars => AckInv'
  <2>1. AckInv /\ UNCHANGED vars => AckInv'
    BY SaidKept DEF AckInv, Silent, Acknowledged, vars
  <2> QED BY <2>1, AckStep
<1> QED BY <1>1, AckInit, TypeCorrect, PTL DEF Spec

(* Exit code 0 is reached only through a stop that was accepted, after the *)
(* engine is done, with `stopped` as the last line: the P0-08 exit         *)
(* semantics of run_command_loop and of every amain.                       *)
THEOREM CleanExitCorrect == Spec => []CleanExit
<1>1. AckInv => CleanExit
  BY DEF AckInv, Silent, Acknowledged, LastSaidStopped, CleanExit
<1> QED BY <1>1, Invariance, PTL

(* Nothing follows `stopped`: neither a frame nor the report of a death    *)
(* that watch_engine_death had still to send.                              *)
THEOREM StoppedIsLastCorrect == Spec => []StoppedIsLast
<1>1. AckInv => StoppedIsLast
  BY DEF AckInv, Silent, Acknowledged, LastSaidStopped, StoppedIsLast, Said
<1> QED BY <1>1, Invariance, PTL
-----------------------------------------------------------------------------
(* The session implements SpawnPromise.  A step of the session changes at  *)
(* most one of the four things the promise is about, except the            *)
(* acknowledgement that exits at once.                                     *)
Stutters == /\ (reason = "stop") <=> (reason = "stop")'
            /\ (engine = "done") <=> (engine = "done")'
            /\ Said("stopped") <=> Said("stopped")'
            /\ exit' = exit

Accepts == /\ exit = "none" /\ exit' = exit
           /\ reason # "stop" /\ reason' = "stop"
           /\ (engine = "done") <=> (engine = "done")'
           /\ Said("stopped") <=> Said("stopped")'

Settles == /\ exit = "none" /\ exit' = exit
           /\ engine # "done" /\ engine' = "done"
           /\ (reason = "stop") <=> (reason = "stop")'
           /\ Said("stopped") <=> Said("stopped")'

Acks == /\ exit = "none" /\ exit' \in {"none", "zero"}
        /\ reason = "stop" /\ reason' = "stop"
        /\ engine = "done" /\ engine' = "done"
        /\ ~Said("stopped") /\ Said("stopped")'

Exits == /\ exit = "none"
         /\ exit' = "nonzero" \/ (exit' = "zero" /\ Said("stopped"))
         /\ (reason = "stop") <=> (reason = "stop")'
         /\ (engine = "done") <=> (engine = "done")'
         /\ Said("stopped") <=> Said("stopped")'

(* A status connection whose last line is `stopped` has said `stopped`.    *)
LEMMA LastSaid == ASSUME TypeOK, LastSaidStopped PROVE Said("stopped")
BY DEF TypeOK, LastSaidStopped, Said

(* Every step of the session stutters on the abstract state or is one of   *)
(* the promise's five moves.                                               *)
LEMMA StepSimulation ==
    TypeOK /\ AckInv /\ Next => Stutters \/ Accepts \/ Settles \/ Acks \/ Exits
<1> SUFFICES ASSUME TypeOK, AckInv, Next
             PROVE  Stutters \/ Accepts \/ Settles \/ Acks \/ Exits
  OBVIOUS
<1> USE DEF AckInv, Silent, Acknowledged, Alive, Stutters, Accepts, Settles, Acks, Exits
<1>1. CASE \E c \in Commands : SupervisorSends(c)
  BY <1>1, SaidKept DEF SupervisorSends
<1>2. CASE SupervisorCloses
  BY <1>2, SaidKept DEF SupervisorCloses
<1>3. CASE StatusStalls
  BY <1>3, SaidKept DEF StatusStalls, StatusPeer
<1>4. CASE StatusResumes
  BY <1>4, SaidKept DEF StatusResumes, StatusPeer
<1>5. CASE StatusCloses
  BY <1>5, SaidKept DEF StatusCloses, StatusPeer
<1>6. CASE Announce
  BY <1>6, SaidOther, SaidKept, EventNames DEF Announce, Exit, EngineAfterReady
<1>7. CASE Announced
  BY <1>7, SaidKept DEF Announced, Exit, EngineAfterReady
<1>8. CASE ProofFails
  BY <1>8, SaidOther, SaidKept, EventNames DEF ProofFails
<1>9. CASE ProofFailureSent
  BY <1>9, SaidKept DEF ProofFailureSent
<1>10. CASE Condemned
  BY <1>10, SaidKept DEF Condemned, Exit
<1>11. CASE OnNoise
  BY <1>11, SaidKept DEF OnNoise, Consume
<1>12. CASE OnStart
  BY <1>12, SaidOther, SaidKept, EventNames DEF OnStart, Consume, HandlerRaises, LoopReturns
<1>13. CASE StartedSent
  BY <1>13, SaidOther, SaidKept, EventNames DEF StartedSent, HandlerRaises, LoopReturns
<1>14. CASE OnWork
  BY <1>14, SaidKept DEF OnWork, Consume
<1>15. CASE WorkDone
  BY <1>15, SaidOther, SaidKept, EventNames DEF WorkDone, HandlerRaises, LoopReturns
<1>16. CASE HandlerErrorSent
  BY <1>16, SaidKept DEF HandlerErrorSent, LoopReturns
<1>17. CASE OnStop
  BY <1>17, SaidKept DEF OnStop, Consume, LoopReturns
<1>18. CASE OnEof
  BY <1>18, SaidKept DEF OnEof, LoopReturns
<1>19. CASE AckStop
  <2>1. /\ main = "settling" /\ reason = "stop" /\ reason' = reason
        /\ engine = "done" /\ engine' = engine /\ ~Said("stopped")
    BY <1>19 DEF AckStop, GatherReturns, EngineSettled
  <2>2. CASE peer = "closed"
    BY <1>19, <2>1, <2>2, SaidKept DEF AckStop, Write, Exit, DrainReturns, DrainParks
  <2>3. CASE peer # "closed"
    <3>1. status' = Append(status, "stopped")
      BY <1>19, <2>3 DEF AckStop, Write
    <3>2. Said("stopped")'
      BY <3>1, EventNames DEF Said, TypeOK
    <3>3. exit = "none" /\ exit' \in {"none", "zero"}
      BY <1>19, <2>1, <2>3 DEF AckStop, Exit, DrainReturns, DrainParks, DrainRaises, TypeOK
    <3> QED BY <2>1, <3>2, <3>3
  <2> QED BY <2>2, <2>3
<1>20. CASE StopAcked
  BY <1>20, SaidKept, LastSaid DEF StopAcked, Exit, DrainReturns
<1>21. CASE ExitFailed
  BY <1>21, SaidKept DEF ExitFailed, Exit
<1>22. CASE ContextStreams
  BY <1>22, SaidKept DEF ContextStreams
<1>23. CASE FirstSample
  BY <1>23, SaidKept DEF FirstSample
<1>24. CASE EngineAnnounces
  BY <1>24, SaidOther, SaidKept, EventNames DEF EngineAnnounces
<1>25. CASE EngineAnnounced
  BY <1>25, SaidKept DEF EngineAnnounced
<1>26. CASE NoFirstSample
  BY <1>26, SaidKept DEF NoFirstSample
<1>27. CASE Emit
  BY <1>27, SaidOther, SaidKept, EventNames DEF Emit, EmitRaises
<1>28. CASE Emitted
  BY <1>28, SaidKept DEF Emitted, EmitRaises
<1>29. CASE \E o \in Outcomes : EngineLeaves(o)
  BY <1>29, SaidKept DEF EngineLeaves
<1>30. CASE EngineReturns
  BY <1>30, SaidOther, SaidKept, EventNames DEF EngineReturns
<1>31. CASE EngineFlushed
  BY <1>31, SaidKept DEF EngineFlushed
<1>32. CASE OnDone
  BY <1>32, SaidKept DEF OnDone
<1>33. CASE Fail
  BY <1>33, SaidOther, SaidKept, EventNames DEF Fail, ReportCode
<1>34. CASE FeedEof
  BY <1>34, SaidKept DEF FeedEof
<1>35. CASE Finished
  BY <1>35, SaidKept DEF Finished, vars
<1> QED BY <1>1, <1>2, <1>3, <1>4, <1>5, <1>6, <1>7, <1>8, <1>9, <1>10, <1>11, <1>12, <1>13,
        <1>14, <1>15, <1>16, <1>17, <1>18, <1>19, <1>20, <1>21, <1>22, <1>23, <1>24, <1>25,
        <1>26, <1>27, <1>28, <1>29, <1>30, <1>31, <1>32, <1>33, <1>34, <1>35
     DEF Next, Supervisor, MainStep, Startup, CommandLoop, Shutdown, Engine, WatchStep

(* The refinement: every behaviour of the session is one SpawnPromise      *)
(* allows, with accepted, settled and acked read off the session's state.  *)
THEOREM Refinement == Spec => PromiseKept
<1>1. Init => Promise!Init
  <2> SUFFICES ASSUME Init PROVE Promise!Init
    OBVIOUS
  <2>1. ~Said("stopped")
    BY DEF Init, Said
  <2> QED BY <2>1 DEF Init, Promise!Init
<1>2. TypeOK /\ AckInv /\ [Next]_vars => [Promise!Next]_(Promise!vars)
  <2>a. ((reason = "stop") <=> (reason = "stop")') => (reason = "stop")' = (reason = "stop")
    OBVIOUS
  <2>b. ((engine = "done") <=> (engine = "done")') => (engine = "done")' = (engine = "done")
    OBVIOUS
  <2>c. (Said("stopped") <=> Said("stopped")') => Said("stopped")' = Said("stopped")
    BY DEF Said
  <2>1. Stutters => UNCHANGED Promise!vars
    BY Zenon, <2>a, <2>b, <2>c DEF Stutters, Promise!vars
  <2>2. Accepts => Promise!Accept
    BY Zenon, <2>b, <2>c DEF Accepts, Promise!Accept, Promise!Running
  <2>3. Settles => Promise!Settle
    BY Zenon, <2>a, <2>c DEF Settles, Promise!Settle, Promise!Running
  <2>4. Acks => Promise!Acknowledge
    BY Zenon DEF Acks, Promise!Acknowledge, Promise!Running
  <2>5. Exits => Promise!ExitClean \/ Promise!ExitFailed
    BY Zenon, <2>a, <2>b, <2>c DEF Exits, Promise!ExitClean, Promise!ExitFailed, Promise!Running
  <2>6. UNCHANGED vars => Stutters
    BY DEF vars, Stutters, Said
  <2> QED BY <2>1, <2>2, <2>3, <2>4, <2>5, <2>6, StepSimulation DEF Promise!Next
<1> QED BY <1>1, <1>2, Invariance, PTL DEF Spec, PromiseKept, Promise!Spec
-----------------------------------------------------------------------------
(* What else the supervisor is told.  HandlerInv: a handler that raised    *)
(* leaves the loop for good.  ReportInv: the callback of a dead engine     *)
(* always reports an EngineFailure, and the gather waits for the callback. *)
(* ReadyInv: who may still say `ready`, and who has heard it.              *)
HandlerInv ==
    /\ main = "error-send" => reason = "none"
    /\ Said("handler-failed") => /\ main \in {"error-send", "settling", "exited"}
                                 /\ reason \in {"none", "handler-failed"}
                                 /\ main = "settling" => reason = "handler-failed"
                                 /\ exit # "zero"

ReportInv ==
    /\ report # "none" => watch = "fired"
    /\ watch = "fired" => engine = "done"
    /\ watch = "fired" /\ outcome = "failed" => report # "none"
    /\ report \in {"sending", "done"} /\ outcome = "failed" /\ peer # "closed"
            => Said("engine-died")
    /\ main \in {"stopped-send", "exited"} /\ reason # "none"
            => engine = "done" /\ watch = "fired" /\ report # "created"

ReadyOnce == \A i, j \in DOMAIN status : status[i] = "ready" /\ status[j] = "ready" => i = j

StartedAfterReady ==
    app # "cubesat_rx" => \A i \in DOMAIN status :
        status[i] = "started" => \E j \in 1 .. i : status[j] = "ready"

ReadyPlaces ==
    /\ Said("ready") => proof
    /\ app = "cubesat_rx" =>
            /\ main \notin {"proving", "ready-send", "condemned-send", "condemned"}
            /\ engine = "proving" => ~Said("ready")
    /\ app # "cubesat_rx" =>
            /\ main \in {"proving", "condemned-send", "condemned"} => ~Said("ready")
            /\ main \in {"ready-send", "reading", "started-send", "working"} => Said("ready")

ReadyInv == ReadyPlaces /\ ReadyOnce /\ StartedAfterReady

(* A line is in the status exactly if it was there before or is the one    *)
(* that was just written to a peer that is still connected.                *)
LEMMA WriteSays ==
    ASSUME TypeOK, NEW e \in Events, Write(e)
    PROVE  /\ Said("ready")' <=> Said("ready") \/ (e = "ready" /\ peer # "closed")
           /\ Said("handler-failed")'
                <=> Said("handler-failed") \/ (e = "handler-failed" /\ peer # "closed")
           /\ Said("engine-died")'
                <=> Said("engine-died") \/ (e = "engine-died" /\ peer # "closed")
BY DEF TypeOK, Write, Said

(* A step that writes nothing says nothing and moves no line.              *)
LEMMA KeptSays ==
    ASSUME status' = status, app' = app
    PROVE  /\ Said("ready")' <=> Said("ready")
           /\ Said("handler-failed")' <=> Said("handler-failed")
           /\ Said("engine-died")' <=> Said("engine-died")
           /\ ReadyOnce => ReadyOnce'
           /\ StartedAfterReady => StartedAfterReady'
BY DEF Said, ReadyOnce, StartedAfterReady

(* The order of `ready` and `started` survives any line that is not one of *)
(* them, the first `ready`, and a `started` after a `ready`.               *)
LEMMA WriteOrder ==
    ASSUME TypeOK, NEW e \in Events, Write(e), app' = app, ReadyOnce, StartedAfterReady,
           e = "ready" => ~Said("ready"),
           e = "started" /\ app # "cubesat_rx" => Said("ready")
    PROVE  ReadyOnce' /\ StartedAfterReady'
<1>1. CASE peer = "closed"
  BY <1>1, KeptSays DEF Write
<1>2. CASE peer # "closed"
  <2>1. status' = Append(status, e) /\ status \in Seq(Events)
    BY <1>2 DEF Write, TypeOK
  <2>2. /\ Len(status) \in Nat /\ Len(status') = Len(status) + 1
        /\ DOMAIN status' = 1 .. Len(status) + 1 /\ DOMAIN status = 1 .. Len(status)
        /\ \A k \in DOMAIN status : status'[k] = status[k]
        /\ status'[Len(status) + 1] = e
    BY <2>1
  <2>3. ReadyOnce'
    BY <2>2 DEF ReadyOnce, Said
  <2>4. StartedAfterReady'
    BY <2>2 DEF StartedAfterReady, Said
  <2> QED BY <2>3, <2>4
<1> QED BY <1>1, <1>2

(* After a handler raised, amain is on its way out: no step of any actor   *)
(* brings it back to the loop, acknowledges a stop or exits with zero.     *)
LEMMA HandlerStep == TypeOK /\ AckInv /\ HandlerInv /\ Next => HandlerInv'
<1> SUFFICES ASSUME TypeOK, AckInv, HandlerInv, Next PROVE HandlerInv'
  OBVIOUS
<1> USE DEF HandlerInv, Alive, AckInv
<1>1. CASE \E c \in Commands : SupervisorSends(c)
  BY <1>1, KeptSays DEF SupervisorSends
<1>2. CASE SupervisorCloses
  BY <1>2, KeptSays DEF SupervisorCloses
<1>3. CASE StatusStalls
  BY <1>3, KeptSays DEF StatusStalls, StatusPeer
<1>4. CASE StatusResumes
  BY <1>4, KeptSays DEF StatusResumes, StatusPeer
<1>5. CASE StatusCloses
  BY <1>5, KeptSays DEF StatusCloses, StatusPeer
<1>6. CASE Announce
  BY <1>6, KeptSays, WriteSays, EventNames DEF Announce, Exit, EngineAfterReady
<1>7. CASE Announced
  BY <1>7, KeptSays DEF Announced, Exit, EngineAfterReady
<1>8. CASE ProofFails
  BY <1>8, KeptSays, WriteSays, EventNames DEF ProofFails
<1>9. CASE ProofFailureSent
  BY <1>9, KeptSays DEF ProofFailureSent
<1>10. CASE Condemned
  BY <1>10, KeptSays DEF Condemned, Exit
<1>11. CASE OnNoise
  BY <1>11, KeptSays DEF OnNoise, Consume
<1>12. CASE OnStart
  BY <1>12, KeptSays, WriteSays, EventNames DEF OnStart, Consume, HandlerRaises, LoopReturns
<1>13. CASE StartedSent
  BY <1>13, KeptSays, WriteSays, EventNames DEF StartedSent, HandlerRaises, LoopReturns
<1>14. CASE OnWork
  BY <1>14, KeptSays DEF OnWork, Consume
<1>15. CASE WorkDone
  BY <1>15, KeptSays, WriteSays, EventNames DEF WorkDone, HandlerRaises, LoopReturns
<1>16. CASE HandlerErrorSent
  BY <1>16, KeptSays DEF HandlerErrorSent, LoopReturns
<1>17. CASE OnStop
  BY <1>17, KeptSays DEF OnStop, Consume, LoopReturns
<1>18. CASE OnEof
  BY <1>18, KeptSays DEF OnEof, LoopReturns
<1>19. CASE AckStop
  BY <1>19, KeptSays, WriteSays, EventNames DEF AckStop, Exit, GatherReturns, EngineSettled
<1>20. CASE StopAcked
  BY <1>20, KeptSays DEF StopAcked, Exit
<1>21. CASE ExitFailed
  BY <1>21, KeptSays DEF ExitFailed, Exit, GatherReturns, EngineSettled
<1>22. CASE ContextStreams
  BY <1>22, KeptSays DEF ContextStreams
<1>23. CASE FirstSample
  BY <1>23, KeptSays DEF FirstSample
<1>24. CASE EngineAnnounces
  BY <1>24, KeptSays, WriteSays, EventNames DEF EngineAnnounces
<1>25. CASE EngineAnnounced
  BY <1>25, KeptSays DEF EngineAnnounced
<1>26. CASE NoFirstSample
  BY <1>26, KeptSays DEF NoFirstSample
<1>27. CASE Emit
  BY <1>27, KeptSays, WriteSays, EventNames DEF Emit, EmitRaises
<1>28. CASE Emitted
  BY <1>28, KeptSays DEF Emitted, EmitRaises
<1>29. CASE \E o \in Outcomes : EngineLeaves(o)
  BY <1>29, KeptSays DEF EngineLeaves
<1>30. CASE EngineReturns
  BY <1>30, KeptSays, WriteSays, EventNames DEF EngineReturns
<1>31. CASE EngineFlushed
  BY <1>31, KeptSays DEF EngineFlushed
<1>32. CASE OnDone
  BY <1>32, KeptSays DEF OnDone
<1>33. CASE Fail
  BY <1>33, KeptSays, WriteSays, EventNames DEF Fail, ReportCode
<1>34. CASE FeedEof
  BY <1>34, KeptSays DEF FeedEof
<1>35. CASE Finished
  BY <1>35, KeptSays DEF Finished, vars
<1> QED BY <1>1, <1>2, <1>3, <1>4, <1>5, <1>6, <1>7, <1>8, <1>9, <1>10, <1>11, <1>12, <1>13,
        <1>14, <1>15, <1>16, <1>17, <1>18, <1>19, <1>20, <1>21, <1>22, <1>23, <1>24, <1>25,
        <1>26, <1>27, <1>28, <1>29, <1>30, <1>31, <1>32, <1>33, <1>34, <1>35
     DEF Next, Supervisor, MainStep, Startup, CommandLoop, Shutdown, Engine, WatchStep

(* No step loses the report of an EngineFailure: the callback creates it,  *)
(* the report writes it, and the gather does not return before that.       *)
LEMMA ReportStep == TypeOK /\ AckInv /\ ReportInv /\ Next => ReportInv'
<1> SUFFICES ASSUME TypeOK, AckInv, ReportInv, Next PROVE ReportInv'
  OBVIOUS
<1> USE DEF ReportInv, Alive, AckInv, Acknowledged, Silent
<1>1. CASE \E c \in Commands : SupervisorSends(c)
  BY <1>1, KeptSays DEF SupervisorSends
<1>2. CASE SupervisorCloses
  BY <1>2, KeptSays DEF SupervisorCloses
<1>3. CASE StatusStalls
  BY <1>3, KeptSays DEF StatusStalls, StatusPeer
<1>4. CASE StatusResumes
  BY <1>4, KeptSays DEF StatusResumes, StatusPeer
<1>5. CASE StatusCloses
  BY <1>5, KeptSays DEF StatusCloses, StatusPeer
<1>6. CASE Announce
  BY <1>6, KeptSays, WriteSays, EventNames DEF Announce, Exit, EngineAfterReady
<1>7. CASE Announced
  BY <1>7, KeptSays DEF Announced, Exit, EngineAfterReady
<1>8. CASE ProofFails
  BY <1>8, KeptSays, WriteSays, EventNames DEF ProofFails
<1>9. CASE ProofFailureSent
  BY <1>9, KeptSays DEF ProofFailureSent
<1>10. CASE Condemned
  BY <1>10, KeptSays DEF Condemned, Exit
<1>11. CASE OnNoise
  BY <1>11, KeptSays DEF OnNoise, Consume
<1>12. CASE OnStart
  BY <1>12, KeptSays, WriteSays, EventNames DEF OnStart, Consume, HandlerRaises, LoopReturns
<1>13. CASE StartedSent
  BY <1>13, KeptSays, WriteSays, EventNames DEF StartedSent, HandlerRaises, LoopReturns
<1>14. CASE OnWork
  BY <1>14, KeptSays DEF OnWork, Consume
<1>15. CASE WorkDone
  BY <1>15, KeptSays, WriteSays, EventNames DEF WorkDone, HandlerRaises, LoopReturns
<1>16. CASE HandlerErrorSent
  BY <1>16, KeptSays DEF HandlerErrorSent, LoopReturns
<1>17. CASE OnStop
  BY <1>17, KeptSays DEF OnStop, Consume, LoopReturns
<1>18. CASE OnEof
  BY <1>18, KeptSays DEF OnEof, LoopReturns
<1>19. CASE AckStop
  BY <1>19, KeptSays, WriteSays, EventNames DEF AckStop, Exit, GatherReturns, EngineSettled
<1>20. CASE StopAcked
  BY <1>20, KeptSays DEF StopAcked, Exit
<1>21. CASE ExitFailed
  BY <1>21, KeptSays DEF ExitFailed, Exit, GatherReturns, EngineSettled
<1>22. CASE ContextStreams
  BY <1>22, KeptSays DEF ContextStreams
<1>23. CASE FirstSample
  BY <1>23, KeptSays DEF FirstSample
<1>24. CASE EngineAnnounces
  BY <1>24, KeptSays, WriteSays, EventNames DEF EngineAnnounces
<1>25. CASE EngineAnnounced
  BY <1>25, KeptSays DEF EngineAnnounced
<1>26. CASE NoFirstSample
  BY <1>26, KeptSays DEF NoFirstSample
<1>27. CASE Emit
  BY <1>27, KeptSays, WriteSays, EventNames DEF Emit, EmitRaises
<1>28. CASE Emitted
  BY <1>28, KeptSays DEF Emitted, EmitRaises
<1>29. CASE \E o \in Outcomes : EngineLeaves(o)
  BY <1>29, KeptSays DEF EngineLeaves
<1>30. CASE EngineReturns
  BY <1>30, KeptSays, WriteSays, EventNames DEF EngineReturns
<1>31. CASE EngineFlushed
  BY <1>31, KeptSays DEF EngineFlushed
<1>32. CASE OnDone
  BY <1>32, KeptSays DEF OnDone
<1>33. CASE Fail
  BY <1>33, KeptSays, WriteSays, EventNames DEF Fail, ReportCode
<1>34. CASE FeedEof
  BY <1>34, KeptSays DEF FeedEof
<1>35. CASE Finished
  BY <1>35, KeptSays DEF Finished, vars
<1> QED BY <1>1, <1>2, <1>3, <1>4, <1>5, <1>6, <1>7, <1>8, <1>9, <1>10, <1>11, <1>12, <1>13,
        <1>14, <1>15, <1>16, <1>17, <1>18, <1>19, <1>20, <1>21, <1>22, <1>23, <1>24, <1>25,
        <1>26, <1>27, <1>28, <1>29, <1>30, <1>31, <1>32, <1>33, <1>34, <1>35
     DEF Next, Supervisor, MainStep, Startup, CommandLoop, Shutdown, Engine, WatchStep

(* No step says `ready` without a sample or a second time, and none but    *)
(* cubesat_rx answers a start before it.                                   *)
LEMMA ReadyStep == TypeOK /\ AckInv /\ ReadyPlaces /\ Next => ReadyPlaces'
<1> SUFFICES ASSUME TypeOK, AckInv, ReadyPlaces, Next PROVE ReadyPlaces'
  OBVIOUS
<1> USE DEF ReadyPlaces, Alive, AckInv
<1>1. CASE \E c \in Commands : SupervisorSends(c)
  BY <1>1, KeptSays DEF SupervisorSends
<1>2. CASE SupervisorCloses
  BY <1>2, KeptSays DEF SupervisorCloses
<1>3. CASE StatusStalls
  BY <1>3, KeptSays DEF StatusStalls, StatusPeer
<1>4. CASE StatusResumes
  BY <1>4, KeptSays DEF StatusResumes, StatusPeer
<1>5. CASE StatusCloses
  BY <1>5, KeptSays DEF StatusCloses, StatusPeer
<1>6. CASE Announce
  BY <1>6, KeptSays, WriteSays, EventNames DEF Announce, Exit, EngineAfterReady, DrainReturns,
      DrainParks, DrainRaises
<1>7. CASE Announced
  BY <1>7, KeptSays DEF Announced, Exit, EngineAfterReady
<1>8. CASE ProofFails
  BY <1>8, KeptSays, WriteSays, EventNames DEF ProofFails
<1>9. CASE ProofFailureSent
  BY <1>9, KeptSays DEF ProofFailureSent
<1>10. CASE Condemned
  BY <1>10, KeptSays DEF Condemned, Exit
<1>11. CASE OnNoise
  BY <1>11, KeptSays DEF OnNoise, Consume
<1>12. CASE OnStart
  BY <1>12, KeptSays, WriteSays, EventNames DEF OnStart, Consume, HandlerRaises, LoopReturns
<1>13. CASE StartedSent
  BY <1>13, KeptSays, WriteSays, EventNames DEF StartedSent, HandlerRaises, LoopReturns
<1>14. CASE OnWork
  BY <1>14, KeptSays DEF OnWork, Consume
<1>15. CASE WorkDone
  BY <1>15, KeptSays, WriteSays, EventNames DEF WorkDone, HandlerRaises, LoopReturns
<1>16. CASE HandlerErrorSent
  BY <1>16, KeptSays DEF HandlerErrorSent, LoopReturns
<1>17. CASE OnStop
  BY <1>17, KeptSays DEF OnStop, Consume, LoopReturns
<1>18. CASE OnEof
  BY <1>18, KeptSays DEF OnEof, LoopReturns
<1>19. CASE AckStop
  BY <1>19, KeptSays, WriteSays, EventNames DEF AckStop, Exit, GatherReturns, EngineSettled
<1>20. CASE StopAcked
  BY <1>20, KeptSays DEF StopAcked, Exit
<1>21. CASE ExitFailed
  BY <1>21, KeptSays DEF ExitFailed, Exit, GatherReturns, EngineSettled
<1>22. CASE ContextStreams
  BY <1>22, KeptSays DEF ContextStreams
<1>23. CASE FirstSample
  BY <1>23, KeptSays DEF FirstSample
<1>24. CASE EngineAnnounces
  BY <1>24, KeptSays, WriteSays, EventNames DEF EngineAnnounces
<1>25. CASE EngineAnnounced
  BY <1>25, KeptSays DEF EngineAnnounced
<1>26. CASE NoFirstSample
  BY <1>26, KeptSays DEF NoFirstSample
<1>27. CASE Emit
  BY <1>27, KeptSays, WriteSays, EventNames DEF Emit, EmitRaises
<1>28. CASE Emitted
  BY <1>28, KeptSays DEF Emitted, EmitRaises
<1>29. CASE \E o \in Outcomes : EngineLeaves(o)
  BY <1>29, KeptSays DEF EngineLeaves
<1>30. CASE EngineReturns
  BY <1>30, KeptSays, WriteSays, EventNames DEF EngineReturns
<1>31. CASE EngineFlushed
  BY <1>31, KeptSays DEF EngineFlushed
<1>32. CASE OnDone
  BY <1>32, KeptSays DEF OnDone
<1>33. CASE Fail
  BY <1>33, KeptSays, WriteSays, EventNames DEF Fail, ReportCode
<1>34. CASE FeedEof
  BY <1>34, KeptSays DEF FeedEof
<1>35. CASE Finished
  BY <1>35, KeptSays DEF Finished, vars
<1> QED BY <1>1, <1>2, <1>3, <1>4, <1>5, <1>6, <1>7, <1>8, <1>9, <1>10, <1>11, <1>12, <1>13,
        <1>14, <1>15, <1>16, <1>17, <1>18, <1>19, <1>20, <1>21, <1>22, <1>23, <1>24, <1>25,
        <1>26, <1>27, <1>28, <1>29, <1>30, <1>31, <1>32, <1>33, <1>34, <1>35
     DEF Next, Supervisor, MainStep, Startup, CommandLoop, Shutdown, Engine, WatchStep

(* No step writes a second `ready`, or a `started` that no `ready` comes   *)
(* before: the lines are appended, and only these actions append them.     *)
LEMMA OrderStep ==
    TypeOK /\ AckInv /\ ReadyInv /\ Next => ReadyOnce' /\ StartedAfterReady'
<1> SUFFICES ASSUME TypeOK, AckInv, ReadyInv, Next PROVE ReadyOnce' /\ StartedAfterReady'
  OBVIOUS
<1> USE DEF ReadyInv, AckInv
<1>0. app' = app
  BY Zenon DEF Next, Supervisor, SupervisorSends, SupervisorCloses, StatusStalls, StatusResumes,
     StatusCloses, StatusPeer, MainStep, Startup, Announce, Announced, ProofFails,
     ProofFailureSent, Condemned, CommandLoop, OnNoise, OnStart, StartedSent, OnWork, WorkDone,
     HandlerErrorSent, OnStop, OnEof, Shutdown, AckStop, StopAcked, ExitFailed, Engine,
     ContextStreams, FirstSample, EngineAnnounces, EngineAnnounced, NoFirstSample, Emit,
         Emitted,
     EngineLeaves, EngineReturns, EngineFlushed, WatchStep, OnDone, Fail, FeedEof, Finished,
         vars
<1>1. \/ status' = status
      \/ \E e \in Events \ {"ready", "started"} : Write(e)
      \/ Write("ready") /\ main = "proving" /\ Announce
      \/ Write("ready") /\ EngineAnnounces
      \/ Write("started") /\ OnStart
  <2>1. CASE Supervisor
    BY <2>1 DEF Supervisor, SupervisorSends, SupervisorCloses, StatusStalls, StatusResumes,
       StatusCloses, StatusPeer
  <2>2. CASE Startup
    BY <2>2, EventNames DEF Startup, Announce, Announced, ProofFails, ProofFailureSent,
        Condemned
  <2>3. CASE CommandLoop
    BY <2>3, EventNames DEF CommandLoop, OnNoise, OnStart, StartedSent, OnWork, WorkDone,
       HandlerErrorSent, OnStop, OnEof, HandlerRaises
  <2>4. CASE Shutdown
    BY <2>4, EventNames DEF Shutdown, AckStop, StopAcked, ExitFailed
  <2>5. CASE Engine
    BY <2>5, EventNames DEF Engine, ContextStreams, FirstSample, EngineAnnounces,
       EngineAnnounced, NoFirstSample, Emit, Emitted, EngineLeaves, EngineReturns, EngineFlushed
  <2>6. CASE WatchStep
    BY <2>6, EventNames DEF WatchStep, OnDone, Fail, FeedEof, ReportCode
  <2>7. CASE Finished
    BY <2>7 DEF Finished, vars
  <2> QED BY <2>1, <2>2, <2>3, <2>4, <2>5, <2>6, <2>7 DEF Next, MainStep
<1>2. CASE status' = status
  BY <1>0, <1>2, KeptSays
<1>3. CASE \E e \in Events \ {"ready", "started"} : Write(e)
  BY <1>0, <1>3, WriteOrder
<1>4. CASE Write("ready") /\ main = "proving" /\ Announce
  BY <1>0, <1>4, WriteOrder, EventNames DEF ReadyPlaces
<1>5. CASE Write("ready") /\ EngineAnnounces
  BY <1>0, <1>5, WriteOrder, EventNames DEF ReadyPlaces, EngineAnnounces
<1>6. CASE Write("started") /\ OnStart
  BY <1>0, <1>6, WriteOrder, EventNames DEF ReadyPlaces, OnStart, Consume
<1> QED BY <1>1, <1>2, <1>3, <1>4, <1>5, <1>6

(* Nothing was said and nobody failed when the program starts.             *)
LEMMA ToldInit == Init => HandlerInv /\ ReportInv /\ ReadyInv
<1> SUFFICES ASSUME Init PROVE HandlerInv /\ ReportInv /\ ReadyInv
  OBVIOUS
<1>1. status = <<>> /\ ~Said("ready") /\ ~Said("handler-failed")
  BY DEF Init, Said
<1>2. ReadyOnce /\ StartedAfterReady
  BY <1>1 DEF ReadyOnce, StartedAfterReady
<1> QED BY <1>1, <1>2 DEF Init, HandlerInv, ReportInv, ReadyInv, ReadyPlaces

(* The three hold in every reachable state.                                *)
LEMMA ToldInvariance == Spec => [](HandlerInv /\ ReportInv /\ ReadyInv)
<1> DEFINE Told == HandlerInv /\ ReportInv /\ ReadyInv
<1>1. TypeOK /\ AckInv /\ Told /\ [Next]_vars => Told'
  <2>1. Told /\ UNCHANGED vars => Told'
    BY KeptSays DEF vars, HandlerInv, ReportInv, ReadyInv, ReadyPlaces
  <2>2. TypeOK /\ AckInv /\ Told /\ Next => Told'
    BY HandlerStep, ReportStep, ReadyStep, OrderStep DEF ReadyInv
  <2> QED BY <2>1, <2>2
<1> QED BY <1>1, ToldInit, Invariance, PTL DEF Spec

(* `ready` is said once and only after a first sample was seen, and bidir  *)
(* and satellite_rx answer no start before it.                             *)
THEOREM ReadyIsProofCorrect == Spec => []ReadyIsProof
<1>1. TypeOK /\ ReadyInv => ReadyIsProof
  <2> SUFFICES ASSUME TypeOK, ReadyInv PROVE ReadyIsProof
    OBVIOUS
  <2>1. \A i \in DOMAIN status : status[i] = "ready" => proof
    BY DEF ReadyInv, ReadyPlaces, Said
  <2> QED BY <2>1 DEF ReadyInv, ReadyOnce, StartedAfterReady, ReadyIsProof
<1> QED BY <1>1, TypeCorrect, ToldInvariance, PTL

(* A command whose handler raised fails the pass: the loop is over, no     *)
(* stop is acknowledged and the exit code is not zero.                     *)
THEOREM HandlerFailureFailsCorrect == Spec => []HandlerFailureFails
<1>1. HandlerInv => HandlerFailureFails
  BY DEF HandlerInv, HandlerFailureFails
<1> QED BY <1>1, ToldInvariance, PTL

(* An engine that failed is reported before the process exits, a requested *)
(* stop included, as long as there is a status peer to tell.               *)
THEOREM EngineFailureReportedCorrect == Spec => []EngineFailureReported
<1>1. TypeOK /\ ReportInv => EngineFailureReported
  BY DEF TypeOK, ReportInv, EngineFailureReported
<1> QED BY <1>1, TypeCorrect, ToldInvariance, PTL
-----------------------------------------------------------------------------
(* In the two programs whose engine does not touch stop_requested, the     *)
(* flag is set only by an amain that is on its way out, so the callback    *)
(* that stays silent because of the flag leaves nobody in the loop.        *)
FlagInv ==
    app # "cubesat_rx" =>
        /\ stopRequested => main \in {"condemned", "settling", "stopped-send", "exited"}
        /\ watch = "fired" /\ report = "none" => stopRequested

(* No step of those programs sets the flag under a live command loop, and  *)
(* none comes back to the loop once it is set.                             *)
LEMMA FlagStep == TypeOK /\ FlagInv /\ Next => FlagInv'
<1> SUFFICES ASSUME TypeOK, FlagInv, Next PROVE FlagInv'
  OBVIOUS
<1> USE DEF FlagInv, Alive
<1>1. CASE \E c \in Commands : SupervisorSends(c)
  BY <1>1 DEF SupervisorSends
<1>2. CASE SupervisorCloses
  BY <1>2 DEF SupervisorCloses
<1>3. CASE StatusStalls
  BY <1>3 DEF StatusStalls, StatusPeer
<1>4. CASE StatusResumes
  BY <1>4 DEF StatusResumes, StatusPeer
<1>5. CASE StatusCloses
  BY <1>5 DEF StatusCloses, StatusPeer
<1>6. CASE Announce
  BY <1>6 DEF Announce, Exit, EngineAfterReady
<1>7. CASE Announced
  BY <1>7 DEF Announced, Exit, EngineAfterReady
<1>8. CASE ProofFails
  BY <1>8 DEF ProofFails
<1>9. CASE ProofFailureSent
  BY <1>9 DEF ProofFailureSent
<1>10. CASE Condemned
  BY <1>10 DEF Condemned, Exit
<1>11. CASE OnNoise
  BY <1>11 DEF OnNoise, Consume
<1>12. CASE OnStart
  BY <1>12 DEF OnStart, Consume, HandlerRaises, LoopReturns
<1>13. CASE StartedSent
  BY <1>13 DEF StartedSent, HandlerRaises, LoopReturns
<1>14. CASE OnWork
  BY <1>14 DEF OnWork, Consume
<1>15. CASE WorkDone
  BY <1>15 DEF WorkDone, HandlerRaises, LoopReturns
<1>16. CASE HandlerErrorSent
  BY <1>16 DEF HandlerErrorSent, LoopReturns
<1>17. CASE OnStop
  BY <1>17 DEF OnStop, Consume, LoopReturns
<1>18. CASE OnEof
  BY <1>18 DEF OnEof, LoopReturns
<1>19. CASE AckStop
  BY <1>19 DEF AckStop, Exit, GatherReturns, EngineSettled
<1>20. CASE StopAcked
  BY <1>20 DEF StopAcked, Exit
<1>21. CASE ExitFailed
  BY <1>21 DEF ExitFailed, Exit, GatherReturns, EngineSettled
<1>22. CASE ContextStreams
  BY <1>22 DEF ContextStreams
<1>23. CASE FirstSample
  BY <1>23 DEF FirstSample
<1>24. CASE EngineAnnounces
  BY <1>24 DEF EngineAnnounces
<1>25. CASE EngineAnnounced
  BY <1>25 DEF EngineAnnounced
<1>26. CASE NoFirstSample
  BY <1>26 DEF NoFirstSample
<1>27. CASE Emit
  <2>1. app # "cubesat_rx" => (stopRequested' <=> stopRequested)
    BY <1>27, Zenon DEF Emit, EmitRaises, SelfStop
  <2>2. UNCHANGED <<app, main, watch, report>>
    BY <1>27 DEF Emit, EmitRaises
  <2> QED BY <2>1, <2>2
<1>28. CASE Emitted
  <2>1. app # "cubesat_rx" => (stopRequested' <=> stopRequested)
    BY <1>28, Zenon DEF Emitted, EmitRaises, SelfStop
  <2>2. UNCHANGED <<app, main, watch, report>>
    BY <1>28 DEF Emitted, EmitRaises
  <2> QED BY <2>1, <2>2
<1>29. CASE \E o \in Outcomes : EngineLeaves(o)
  BY <1>29 DEF EngineLeaves, SelfStop
<1>30. CASE EngineReturns
  BY <1>30 DEF EngineReturns
<1>31. CASE EngineFlushed
  BY <1>31 DEF EngineFlushed
<1>32. CASE OnDone
  BY <1>32 DEF OnDone
<1>33. CASE Fail
  BY <1>33 DEF Fail, ReportCode
<1>34. CASE FeedEof
  BY <1>34 DEF FeedEof
<1>35. CASE Finished
  BY <1>35 DEF Finished, vars
<1> QED BY <1>1, <1>2, <1>3, <1>4, <1>5, <1>6, <1>7, <1>8, <1>9, <1>10, <1>11, <1>12, <1>13,
        <1>14, <1>15, <1>16, <1>17, <1>18, <1>19, <1>20, <1>21, <1>22, <1>23, <1>24, <1>25,
        <1>26, <1>27, <1>28, <1>29, <1>30, <1>31, <1>32, <1>33, <1>34, <1>35
     DEF Next, Supervisor, MainStep, Startup, CommandLoop, Shutdown, Engine, WatchStep

(* The deaf loop that cubesat_rx can fall into is out of reach of bidir    *)
(* and satellite_rx: whatever their engine returns or raises, an idle      *)
(* command loop over a dead engine has its report under way.               *)
THEOREM OnlyCubesatIsDeaf == Spec => [](app # "cubesat_rx" => NoDeafLoop)
<1>1. Init => FlagInv
  BY DEF Init, FlagInv
<1>2. TypeOK /\ FlagInv /\ [Next]_vars => FlagInv'
  <2>1. FlagInv /\ UNCHANGED vars => FlagInv'
    BY DEF vars, FlagInv
  <2> QED BY <2>1, FlagStep
<1>3. FlagInv => (app # "cubesat_rx" => NoDeafLoop)
  BY DEF FlagInv, NoDeafLoop
<1> QED BY <1>1, <1>2, <1>3, TypeCorrect, PTL DEF Spec
=============================================================================
