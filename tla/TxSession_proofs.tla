--------------------------- MODULE TxSession_proofs ---------------------------
(* One transmit pass of any of the four programs, for any burst, driver    *)
(* and supervisor: a stop silences the radio within one write, and the     *)
(* acknowledgement of it is the last word of a process that is off the     *)
(* air.  Before it one burst, for any waveform length, MTU, chunk size and *)
(* limits, and for any answers of the driver: what is on the air is what   *)
(* the caller is told, and "complete" and "stalled" mean what they say.    *)
EXTENDS TxSession, SequenceTheorems, TLAPS

USE DEF env

-----------------------------------------------------------------------------
(* One burst.                                                              *)

(* The samples of the next chunk follow those already on the air.          *)
LEMMA NextSamples ==
    ASSUME NEW s \in Seq(Nat), NEW n \in Nat, NEW r \in Nat \ {0},
           Len(s) = n, \A k \in DOMAIN s : s[k] = k - 1
    PROVE  LET t == s \o [k \in 1 .. r |-> n + k - 1]
           IN  t \in Seq(Nat) /\ Len(t) = n + r /\ \A k \in DOMAIN t : t[k] = k - 1
<1> DEFINE c == [k \in 1 .. r |-> n + k - 1]
<1> DEFINE t == s \o c
<1>1. c \in [1 .. r -> Nat]
  OBVIOUS
<1>2. c \in Seq(Nat) /\ Len(c) = r /\ \A k \in 1 .. r : c[k] = n + k - 1
  BY <1>1, SeqDef, LenProperties
<1> HIDE DEF c
<1>3. /\ t \in Seq(Nat) /\ Len(t) = n + r
      /\ \A k \in 1 .. Len(s) + Len(c) : t[k] = IF k <= Len(s) THEN s[k] ELSE c[k - Len(s)]
  BY <1>2, ConcatProperties
<1> HIDE DEF t
<1>4. DOMAIN t = 1 .. n + r /\ DOMAIN s = 1 .. n
  BY <1>3, LenProperties
<1>5. \A k \in 1 .. n + r : t[k] = k - 1
  <2> TAKE k \in 1 .. n + r
  <2>1. CASE k <= n
    <3>1. k \in DOMAIN s /\ k \in 1 .. Len(s) + Len(c) /\ k <= Len(s)
      BY <1>2, <1>4, <2>1
    <3>2. t[k] = s[k]
      BY <1>3, <3>1
    <3> QED BY <3>1, <3>2
  <2>2. CASE k > n
    <3>1. k - n \in 1 .. r
      BY <2>2
    <3>2. t[k] = c[k - n] /\ c[k - n] = n + (k - n) - 1
      BY <1>2, <1>3, <2>2, <3>1
    <3> QED BY <3>2
  <2> QED BY <2>1, <2>2
<1>6. t \in Seq(Nat) /\ Len(t) = n + r /\ \A k \in DOMAIN t : t[k] = k - 1
  BY <1>3, <1>4, <1>5
<1> QED BY <1>6 DEF t, c

-----------------------------------------------------------------------------
(* What is known at each place of the loop.  The count of empty writes is  *)
(* the stall counter, which is below its limit until the burst is called   *)
(* stalled; the status is drained only after the last sample; and no       *)
(* discard has been heard while the drain goes on.                         *)
NoDiscard == \A k \in DOMAIN heard : heard[k] # "discard"

BurstInv ==
    /\ TypeOK /\ FlownAsTold
    /\ empties = stalls
    /\ outcome = "stalled" <=> stalls = MaxStalls + 1
    /\ pc = "done" <=> outcome # "none"
    /\ pc # "done" => N > 0
    /\ pc = "write" => i < N
    /\ pc = "top" => NoDiscard
    /\ pc = "write" => NoDiscard
    /\ pc = "status" \/ outcome = "complete" => i = N /\ NoDiscard /\ N > 0

(* Nothing is on the air and nothing was counted; a burst that is refused  *)
(* is over at once.                                                        *)
LEMMA BurstInit == Init => BurstInv
<1> SUFFICES ASSUME Init PROVE BurstInv
  OBVIOUS
<1>1. air = <<>> /\ heard = <<>> /\ i = 0 /\ started = 0
  BY DEF Init
<1>2. Refused => pc = "done" /\ outcome = "error"
  BY DEF Init
<1>3. ~Refused => pc = "top" /\ outcome = "none" /\ N > 0
  BY BurstAssumption DEF Init, Refused
<1>4. FlownAsTold
  BY <1>1 DEF FlownAsTold
<1>5. NoDiscard /\ heard \in Seq(Statuses) /\ air \in Seq(Nat)
  BY <1>1 DEF NoDiscard
<1>6. /\ stalls = 0 /\ empties = 0 /\ polls = 0
      /\ aborted \in BOOLEAN /\ expired \in BOOLEAN
  BY DEF Init
<1>7. N \in Nat /\ MaxStalls \in Nat /\ MaxPolls \in Nat
  BY BurstAssumption
<1>8. TypeOK
  BY <1>1, <1>2, <1>3, <1>5, <1>6, <1>7 DEF TypeOK, Outcomes
<1>9. 0 # MaxStalls + 1
  BY <1>7
<1> QED BY <1>2, <1>3, <1>4, <1>5, <1>6, <1>8, <1>9 DEF BurstInv

(* Progress resets the stall counter, an empty write counts one, and the   *)
(* burst is finished with the outcome its last step met.                   *)
LEMMA BurstStep == BurstInv /\ [Next]_vars => BurstInv'
<1> SUFFICES ASSUME BurstInv, [Next]_vars PROVE BurstInv'
  OBVIOUS
<1>0. N \in Nat /\ MaxStalls \in Nat /\ MaxPolls \in Nat
  BY BurstAssumption
<1> USE DEF BurstInv
<1>1. CASE Abort \/ Expire
  BY <1>1 DEF Abort, Expire, TypeOK, FlownAsTold, NoDiscard
<1>2. CASE Top
  <2>1. UNCHANGED <<i, stalls, started, polls, env, air, empties, heard>> /\ pc = "top"
    BY <1>2 DEF Top
  <2>2. FlownAsTold' /\ NoDiscard'
    BY <2>1 DEF FlownAsTold, NoDiscard
  <2>3. \/ pc' = "done" /\ outcome' \in {"cancelled", "deadline"}
        \/ pc' = "write" /\ i < N /\ outcome' = outcome
        \/ pc' = "status" /\ i >= N /\ outcome' = outcome
    BY <1>2 DEF Top, Finish
  <2> QED BY <1>0, <2>1, <2>2, <2>3 DEF TypeOK, Outcomes
<1>3. ASSUME NEW ret \in 1 .. N, Accept(ret) PROVE BurstInv'
  <2>1. ret \in 1 .. num /\ pc = "write" /\ i \in 0 .. N
    BY <1>3 DEF Accept, TypeOK
  <2>2. i + ret \in 0 .. N
    <3>1. num <= N - i /\ num \in Int
      BY <1>0, <2>1, BurstAssumption DEF num, chunk
    <3> QED BY <1>0, <2>1, <3>1
  <2>3. /\ air' = air \o [k \in 1 .. ret |-> i + k - 1] /\ i' = i + ret
        /\ stalls' = 0 /\ empties' = 0 /\ started' = 1 /\ pc' = "top"
        /\ UNCHANGED <<polls, env, outcome, heard>>
    BY <1>3 DEF Accept, TypeOK
  <2>4. air' \in Seq(Nat) /\ Len(air') = i' /\ \A k \in DOMAIN air' : air'[k] = k - 1
    <3>1. air \in Seq(Nat) /\ Len(air) = i /\ \A k \in DOMAIN air : air[k] = k - 1
      BY DEF TypeOK, FlownAsTold
    <3>2. i \in Nat /\ ret \in Nat \ {0}
      BY <1>0, <2>1
    <3> HIDE DEF BurstInv
    <3>3. LET t == air \o [k \in 1 .. ret |-> i + k - 1]
          IN  t \in Seq(Nat) /\ Len(t) = i + ret /\ \A k \in DOMAIN t : t[k] = k - 1
      BY <3>1, <3>2, NextSamples
    <3> QED BY <2>3, <3>3, Zenon
  <2>5. air' # <<>>
    <3>1. Len(air') > 0
      BY <1>0, <2>1, <2>3, <2>4
    <3> QED BY <3>1, EmptySeq
  <2>6. FlownAsTold'
    BY <2>3, <2>4, <2>5 DEF FlownAsTold
  <2>7. NoDiscard'
    BY <2>1, <2>3 DEF NoDiscard
  <2> QED BY <1>0, <2>1, <2>2, <2>3, <2>4, <2>6, <2>7 DEF TypeOK, Outcomes
<1>4. CASE TakeNothing
  <2>1. /\ stalls' = stalls + 1 /\ empties' = empties + 1 /\ pc = "write"
        /\ UNCHANGED <<i, started, polls, env, air, heard>>
    BY <1>4 DEF TakeNothing
  <2>2. \/ stalls + 1 > MaxStalls /\ pc' = "done" /\ outcome' = "stalled"
        \/ stalls + 1 <= MaxStalls /\ pc' = "top" /\ outcome' = outcome
    BY <1>0, <1>4 DEF TakeNothing, Finish, TypeOK
  <2>3. FlownAsTold' /\ NoDiscard'
    BY <2>1 DEF FlownAsTold, NoDiscard
  <2> QED BY <1>0, <2>1, <2>2, <2>3 DEF TypeOK, Outcomes
<1>5. CASE WriteFails
  <2>1. /\ pc = "write" /\ pc' = "done" /\ outcome' \in {"error", "raised"}
        /\ UNCHANGED <<i, stalls, started, polls, env, air, empties, heard>>
    BY <1>5 DEF WriteFails, Finish
  <2>2. FlownAsTold' /\ NoDiscard'
    BY <2>1 DEF FlownAsTold, NoDiscard
  <2> QED BY <1>0, <2>1, <2>2 DEF TypeOK, Outcomes
<1>6. ASSUME NEW s \in Statuses, PollStatus(s) PROVE BurstInv'
  <2>1. /\ pc = "status" /\ polls < MaxPolls /\ polls' = polls + 1
        /\ heard' = Append(heard, s)
        /\ UNCHANGED <<i, stalls, started, env, air, empties>>
    BY <1>6 DEF PollStatus
  <2>2. FlownAsTold'
    BY <2>1 DEF FlownAsTold
  <2>3. heard' \in Seq(Statuses)
    BY <2>1 DEF TypeOK
  <2>4. s # "discard" => NoDiscard'
    <3>1. heard \in Seq(Statuses) /\ NoDiscard
      BY <2>1 DEF TypeOK
    <3> QED BY <2>1, <3>1 DEF NoDiscard
  <2>5. \/ s = "discard" /\ pc' = "done" /\ outcome' = "discarded"
        \/ s = "clean" /\ pc' = "done" /\ outcome' = "complete"
        \/ s = "benign" /\ pc' = pc /\ outcome' = outcome
    BY <1>6 DEF PollStatus, Finish, Statuses
  <2> QED BY <1>0, <2>1, <2>2, <2>3, <2>4, <2>5 DEF TypeOK, Outcomes
<1>7. CASE StatusEnds
  <2>1. /\ pc = "status" /\ pc' = "done" /\ outcome' = "complete"
        /\ UNCHANGED <<i, stalls, started, polls, env, air, empties, heard>>
    BY <1>7 DEF StatusEnds, Finish
  <2>2. FlownAsTold' /\ NoDiscard'
    BY <2>1 DEF FlownAsTold, NoDiscard
  <2> QED BY <1>0, <2>1, <2>2 DEF TypeOK, Outcomes
<1>8. CASE UNCHANGED vars
  BY <1>8 DEF vars, TypeOK, FlownAsTold, NoDiscard
<1> HIDE DEF BurstInv
<1> QED BY <1>1, <1>2, <1>3, <1>4, <1>5, <1>6, <1>7, <1>8 DEF Next, Write, Status, Finished

(* The counters of write_burst keep their ranges: the offset never runs    *)
(* past the waveform, for any MTU and any answers of the driver.           *)
THEOREM TypeCorrect == Spec => []TypeOK
<1>1. BurstInv => TypeOK
  BY DEF BurstInv
<1> QED BY <1>1, BurstInit, BurstStep, PTL DEF Spec

(* Whatever the driver took of each chunk, the samples went out in order,  *)
(* none twice and none skipped, and the caller was told how many.          *)
THEOREM FlownAsToldCorrect == Spec => []FlownAsTold
<1>1. BurstInv => FlownAsTold
  BY DEF BurstInv
<1> QED BY <1>1, BurstInit, BurstStep, PTL DEF Spec

(* What the invariant says of a burst that has ended.                      *)
LEMMA BurstOutcome == BurstInv => OutcomeIsTrue
<1>1. BurstInv => CompleteIsWhole
  BY DEF BurstInv, NoDiscard, FlownAsTold, CompleteIsWhole
<1>2. BurstInv => StallIsExact
  BY BurstAssumption DEF BurstInv, TypeOK, StallIsExact
<1> QED BY <1>1, <1>2 DEF OutcomeIsTrue

(* A burst is called complete only if the whole waveform was taken and no  *)
(* status that was read reported a discard; it is called stalled after     *)
(* exactly one empty write too many in a row, and none is made after that. *)
THEOREM OutcomeIsTrueCorrect == Spec => []OutcomeIsTrue
BY BurstOutcome, BurstInit, BurstStep, PTL DEF Spec

-----------------------------------------------------------------------------
(* The pass.                                                               *)

USE DEF writer, program, loop, client, task, stub

Closed == main \in {"closing", "exited"}

(* The lines a transmitter or a stub sends, and what a stub's script holds. *)
TxLines == {"tx-device-probe-failed", "tx-preflight-failed", "tx-engine-unavailable", "ready",
            "stopped", "handler-failed", "started", "transmit_started", "transmit_complete",
            "tx-failed", "periodic", "signal", "frame_received", "tx_prepared",
            "tx_prepare_failed"}
ScriptLines == (TxLines \ {"stopped"}) \cup {"background"}

(* The events the actions name are such lines.                             *)
LEMMA LineNames ==
    /\ {"tx-device-probe-failed", "tx-preflight-failed",
           "tx-engine-unavailable"} \subseteq TxLines
    /\ {"ready", "stopped", "handler-failed", "started", "transmit_started"} \subseteq TxLines
    /\ {"transmit_complete", "tx-failed", "periodic"} \subseteq TxLines
    /\ {"started", "transmit_started", "transmit_complete", "signal"} \subseteq ScriptLines
    /\ {"frame_received", "tx_prepared", "tx_prepare_failed",
           "background"} \subseteq ScriptLines
    /\ "stopped" \notin ScriptLines /\ ScriptLines \ {"background"} \subseteq TxLines
BY Zenon DEF TxLines, ScriptLines

(* The types the arguments below need: what is counted is a number, and no *)
(* stub's script holds the acknowledgement.                                *)
TxTypeInv ==
    /\ app \in Apps
    /\ main \in {"probing", "building", "reading", "sending", "awaiting", "closing", "exited"}
    /\ burst \in {"none", "opening", "writing", "told", "thrown", "raised", "ok", "failed"}
    /\ i \in Nat /\ late \in Nat /\ started \in {0, 1}
    /\ status \in Seq(TxLines) /\ script \in Seq(ScriptLines)

(* The samples of a burst are counted up from what was accepted before.    *)
LEMMA WriterCounts ==
    ASSUME i \in Nat, started \in {0, 1}, Top \/ Write \/ Status
    PROVE  /\ i' \in Nat /\ started' \in {0, 1} /\ i' - i \in Nat
           /\ i' # i => pc = "write" /\ pc' = "top" /\ i' - i <= chunk
           /\ started' > started => started = 0
           /\ started' # started => started = 0 /\ started' = 1
<1>1. ASSUME NEW ret \in 1 .. N, Accept(ret)
      PROVE  /\ pc = "write" /\ pc' = "top" /\ i' = i + ret /\ ret \in Nat /\ ret <= chunk
             /\ started' = 1
  BY <1>1, BurstAssumption DEF Accept, num, chunk
<1>2. CASE Top
  BY <1>2 DEF Top
<1>3. CASE TakeNothing \/ WriteFails
  BY <1>3 DEF TakeNothing, WriteFails
<1>4. CASE Status
  <2>1. UNCHANGED <<i, started>>
    BY <1>4 DEF Status, PollStatus, StatusEnds
  <2> QED BY <2>1
<1> QED BY <1>1, <1>2, <1>3, <1>4 DEF Write

(* Telling a line, or several, leaves a sequence of lines.                 *)
LEMMA TellTyped ==
    ASSUME status \in Seq(TxLines), NEW e \in TxLines, Tell(e)
    PROVE  status' \in Seq(TxLines)
BY DEF Tell

(* What a handler that raised leaves behind.                               *)
LEMMA RaisesTyped ==
    ASSUME TxTypeInv, NEW on, HandlerRaises(on)
    PROVE  status' \in Seq(TxLines) /\ main' \in {main, "awaiting", "closing"}
<1>1. Tell("handler-failed")
  BY DEF HandlerRaises
<1>2. main' = "awaiting" \/ main' = "closing"
  BY DEF HandlerRaises, Exit
<1> QED BY <1>1, <1>2, TellTyped, LineNames DEF TxTypeInv

(* What the end of the command loop leaves behind.                         *)
LEMMA VerdictTyped ==
    ASSUME TxTypeInv, NEW r, Verdict(r) \/ LoopReturns(r)
    PROVE  status' \in Seq(TxLines) /\ main' \in {"awaiting", "closing"}
<1>1. Tell("stopped") \/ UNCHANGED status
  BY DEF Verdict, LoopReturns
<1>2. main' \in {"awaiting", "closing"}
  BY DEF Verdict, LoopReturns, Exit
<1> QED BY <1>1, <1>2, TellTyped, LineNames DEF TxTypeInv

(* The clients, the loop and the threads keep the types.                   *)
LEMMA TxTypeInit == TxInit => TxTypeInv
BY TxProgramAssumption DEF TxInit, Init, TxTypeInv, Apps

(* Every step of every actor keeps the types.                              *)
LEMMA TxTypeStep == TxTypeInv /\ TxNext => TxTypeInv'
<1> SUFFICES ASSUME TxTypeInv, TxNext PROVE TxTypeInv'
  OBVIOUS
<1> USE DEF TxTypeInv, Tell, Exit
<1>1. CASE \E c \in Commands : SupervisorSends(c)
  BY <1>1 DEF SupervisorSends
<1>2. CASE SupervisorCloses
  BY <1>2 DEF SupervisorCloses
<1>3. CASE StatusCloses
  BY <1>3 DEF StatusCloses
<1>4. CASE Probe
  <2>1. status' \in {status, Append(status, "tx-device-probe-failed")}
    BY <1>4 DEF Probe, SpawnFails
  <2>2. status' \in Seq(TxLines)
    BY <2>1, LineNames
  <2> QED BY <1>4, <2>2 DEF Probe, SpawnFails
<1>5. CASE BuildFails
  <2>1. \E e \in {"tx-preflight-failed", "tx-engine-unavailable"} :
            status' \in {status, Append(status, e)}
    BY <1>5 DEF BuildFails, SpawnFails
  <2>2. status' \in Seq(TxLines)
    BY <2>1, LineNames
  <2>3. main' = "closing" /\ UNCHANGED <<app, burst, i, late, started, script>>
    BY <1>5, Zenon DEF BuildFails, SpawnFails, Exit
  <2> QED BY <2>2, <2>3
<1>6. CASE Ready
  BY <1>6, LineNames DEF Ready
<1>7. CASE OnStop
  BY <1>7, VerdictTyped DEF OnStop, Consume
<1>8. CASE OnEof
  BY <1>8, VerdictTyped DEF OnEof
<1>9. CASE OnStartBurst
  <2>1. status' \in Seq(TxLines) /\ main' \in {main, "awaiting", "closing"}
    <3>1. CASE Raises
      BY <1>9, <3>1, RaisesTyped DEF OnStartBurst
    <3>2. CASE ~Raises
      BY <1>9, <3>2, TellTyped, LineNames DEF OnStartBurst
    <3> QED BY <3>1, <3>2
  <2>2. burst' \in {burst, "opening"} /\ UNCHANGED <<app, i, late, started, script>>
    BY <1>9 DEF OnStartBurst
  <2> QED BY <2>1, <2>2
<1>10. CASE OnStartGraph
  <2>1. status' \in Seq(TxLines) /\ main' \in {main, "awaiting", "closing"}
    <3>1. CASE \E on : HandlerRaises(on)
      BY <3>1, RaisesTyped
    <3>2. CASE UNCHANGED <<main, status>>
      BY <3>2
    <3>3. CASE UNCHANGED main /\ status' = status \o <<"started", "transmit_started">>
      BY <3>3, LineNames
    <3> QED BY <1>10, <3>1, <3>2, <3>3 DEF OnStartGraph
  <2>2. UNCHANGED <<app, burst, i, late, started, script>>
    BY <1>10 DEF OnStartGraph
  <2> QED BY <2>1, <2>2
<1>11. CASE OnTransmitFrame
  <2>1. status' \in Seq(TxLines) /\ main' \in {main, "awaiting", "closing"}
    <3>1. CASE Raises
      BY <1>11, <3>1, RaisesTyped DEF OnTransmitFrame
    <3>2. CASE ~Raises
      BY <1>11, <3>2, TellTyped, LineNames DEF OnTransmitFrame
    <3> QED BY <3>1, <3>2
  <2>2. UNCHANGED <<app, burst, i, late, started, script>>
    BY <1>11 DEF OnTransmitFrame
  <2> QED BY <2>1, <2>2
<1>12. CASE OnSetDoppler
  BY <1>12, RaisesTyped DEF OnSetDoppler
<1>13. CASE \E c \in Commands : OnIgnored(c)
  BY <1>13 DEF OnIgnored, Consume
<1>14. CASE Settled
  BY <1>14, VerdictTyped DEF Settled
<1>15. CASE Leave
  BY <1>15 DEF Leave
<1>16. CASE StubStart
  BY <1>16, LineNames DEF StubStart, StubOn, Consume, StubScript
<1>17. CASE StubTransmit
  BY <1>17, LineNames DEF StubTransmit, Consume
<1>18. CASE StubPrepare
  BY <1>18, LineNames DEF StubPrepare, Consume
<1>19. CASE StubSends
  <2>1. Head(script) \in TxLines /\ Tail(script) \in Seq(ScriptLines)
    BY <1>19, LineNames DEF StubSends
  <2>2. status' \in Seq(TxLines)
    BY <1>19, <2>1, TellTyped DEF StubSends
  <2>3. main' \in {"closing", "reading", "sending"} /\ script' \in {<<>>, Tail(script)}
    <3>1. CASE Raises
      BY <1>19, <3>1, Zenon DEF StubSends, Exit
    <3>2. CASE ~Raises
      BY <1>19, <3>2, Zenon DEF StubSends, Exit
    <3> QED BY <3>1, <3>2
  <2>4. UNCHANGED <<app, burst, i, late, started>>
    BY <1>19 DEF StubSends
  <2>5. <<>> \in Seq(ScriptLines)
    OBVIOUS
  <2>6. script' \in Seq(ScriptLines)
    BY <2>1, <2>3, <2>5, Zenon
  <2> QED BY <2>2, <2>3, <2>4, <2>6
<1>20. CASE StubStarted
  BY <1>20 DEF StubStarted
<1>21. CASE PeriodicSends
  BY <1>21, LineNames DEF PeriodicSends
<1>22. CASE StubStop
  BY <1>22, LineNames DEF StubStop
<1>23. CASE StubEof
  BY <1>23 DEF StubEof
<1>24. CASE SinkFile
  BY <1>24, BurstAssumption DEF SinkFile
<1>25. CASE SinkOpens
  BY <1>25 DEF SinkOpens
<1>26. CASE SinkWrites
  BY <1>26, WriterCounts DEF SinkWrites
<1>27. CASE SinkReturns
  BY <1>27 DEF SinkReturns
<1>28. CASE Announce
  BY <1>28, LineNames DEF Announce
<1>29. CASE BurstResumes
  <2>1. status' \in Seq(TxLines)
    BY <1>29, TellTyped, LineNames DEF BurstResumes
  <2> QED BY <1>29, <2>1 DEF BurstResumes
<1>30. CASE OnBurstDone
  BY <1>30 DEF OnBurstDone
<1>31. CASE Deadline
  BY <1>31 DEF Deadline, Expire
<1>32. CASE Over
  BY <1>32 DEF Over, txVars
<1> QED BY <1>1, <1>2, <1>3, <1>4, <1>5, <1>6, <1>7, <1>8, <1>9, <1>10, <1>11, <1>12, <1>13,
        <1>14, <1>15, <1>16, <1>17, <1>18, <1>19, <1>20, <1>21, <1>22, <1>23, <1>24, <1>25,
        <1>26, <1>27, <1>28, <1>29, <1>30, <1>31, <1>32
     DEF TxNext, Supervisor, Main, Stubs, Thread, Posted

-----------------------------------------------------------------------------
(* What the sink thread has posted to the event loop and the loop has not  *)
(* yet run: at most one announcement and then the result, and nothing once *)
(* the burst task is over.                                                 *)
PostedInv ==
    /\ burst \in {"none", "opening", "ok", "raised", "failed"} => posted = <<>>
    /\ burst = "writing" => posted \in {<<>>, <<"announce">>}
    /\ burst = "writing" /\ started = 0 => posted = <<>>
    /\ burst = "told" => posted \in {<<"result">>, <<"announce", "result">>}
    /\ burst = "thrown" => posted \in {<<"result">>, <<"announce", "result">>}

(* The queue of callbacks, first in first out, over the few contents it has. *)
LEMMA Callbacks ==
    /\ <<>> \o <<"result">> = <<"result">>
    /\ <<>> \o <<"announce", "result">> = <<"announce", "result">>
    /\ <<"announce">> \o <<"result">> = <<"announce", "result">>
    /\ Append(<<>>, "announce") = <<"announce">>
    /\ Head(<<"result">>) = "result" /\ Tail(<<"result">>) = <<>>
    /\ Head(<<"announce">>) = "announce" /\ Tail(<<"announce">>) = <<>>
    /\ Head(<<"announce", "result">>) = "announce"
    /\ Tail(<<"announce", "result">>) = <<"result">>
<1>1. /\ <<>> \o <<"result">> = <<"result">>
      /\ <<>> \o <<"announce", "result">> = <<"announce", "result">>
  <2>1. <<"result">> \in Seq({"announce", "result"})
    OBVIOUS
  <2>2. <<"announce", "result">> \in Seq({"announce", "result"})
    OBVIOUS
  <2> QED BY <2>1, <2>2, ConcatEmptySeq, Zenon
<1>2. <<"announce">> \o <<"result">> = <<"announce", "result">>
  <2> DEFINE S == {"announce", "result"}
             a == <<"announce">>
             r == <<"result">>
             t == <<"announce", "result">>
  <2>1. a \in Seq(S) /\ r \in Seq(S) /\ t \in Seq(S) /\ Len(a) = 1 /\ Len(r) = 1 /\ Len(t) = 2
    OBVIOUS
  <2>2. a[1] = "announce" /\ r[1] = "result" /\ t[1] = a[1] /\ t[2] = r[1]
    OBVIOUS
  <2> HIDE DEF S, a, r, t
  <2>3. /\ a \o r \in Seq(S) /\ Len(a \o r) = 2
        /\ \A k \in 1 .. 2 : (a \o r)[k] = t[k]
    BY <2>1, <2>2, ConcatProperties
  <2>4. a \o r = t
    BY <2>1, <2>3, SeqEqual
  <2> QED BY <2>4 DEF a, r, t
<1>3. Append(<<>>, "announce") = <<"announce">>
  OBVIOUS
<1>4. Head(<<"result">>) = "result" /\ Tail(<<"result">>) = <<>>
  OBVIOUS
<1>5. Head(<<"announce">>) = "announce" /\ Tail(<<"announce">>) = <<>>
  OBVIOUS
<1>6. /\ Head(<<"announce", "result">>) = "announce"
      /\ Tail(<<"announce", "result">>) = <<"result">>
  OBVIOUS
<1> QED BY <1>1, <1>2, <1>3, <1>4, <1>5, <1>6

(* No step posts out of turn: the first accepted sample announces, the     *)
(* result is posted last, and the task ends when the loop has run it.      *)
LEMMA PostedStep == TxTypeInv /\ PostedInv /\ TxNext => PostedInv'
<1> SUFFICES ASSUME TxTypeInv, PostedInv, TxNext PROVE PostedInv'
  OBVIOUS
<1> USE DEF PostedInv
<1>1. CASE \E c \in Commands : SupervisorSends(c)
  BY <1>1 DEF SupervisorSends
<1>2. CASE SupervisorCloses
  BY <1>2 DEF SupervisorCloses
<1>3. CASE StatusCloses
  BY <1>3 DEF StatusCloses
<1>4. CASE Probe
  BY <1>4 DEF Probe, SpawnFails
<1>5. CASE BuildFails
  BY <1>5 DEF BuildFails, SpawnFails
<1>6. CASE Ready
  BY <1>6 DEF Ready
<1>7. CASE OnStop
  BY <1>7 DEF OnStop, LoopReturns, Verdict, Consume
<1>8. CASE OnEof
  BY <1>8 DEF OnEof, LoopReturns, Verdict
<1>9. CASE OnStartBurst
  BY <1>9 DEF OnStartBurst, HandlerRaises, Consume
<1>10. CASE OnStartGraph
  BY <1>10 DEF OnStartGraph, HandlerRaises, Consume
<1>11. CASE OnTransmitFrame
  BY <1>11 DEF OnTransmitFrame, HandlerRaises, Consume
<1>12. CASE OnSetDoppler
  BY <1>12 DEF OnSetDoppler, HandlerRaises, Consume
<1>13. CASE \E c \in Commands : OnIgnored(c)
  BY <1>13 DEF OnIgnored, Consume
<1>14. CASE Settled
  BY <1>14 DEF Settled, Verdict
<1>15. CASE Leave
  BY <1>15 DEF Leave
<1>16. CASE StubStart
  BY <1>16 DEF StubStart, StubOn, Consume
<1>17. CASE StubTransmit
  BY <1>17 DEF StubTransmit, Consume
<1>18. CASE StubPrepare
  BY <1>18 DEF StubPrepare, Consume
<1>19. CASE StubSends
  BY <1>19 DEF StubSends
<1>20. CASE StubStarted
  BY <1>20 DEF StubStarted
<1>21. CASE PeriodicSends
  BY <1>21 DEF PeriodicSends
<1>22. CASE StubStop
  BY <1>22 DEF StubStop, StubOn, Consume
<1>23. CASE StubEof
  BY <1>23 DEF StubEof
<1>24. CASE SinkFile
  BY <1>24, Callbacks, Zenon DEF SinkFile, Post
<1>25. CASE SinkOpens
  BY <1>25, Callbacks, Zenon DEF SinkOpens, Post
<1>26. CASE SinkWrites
  <2>1. /\ burst = "writing" /\ burst' = burst
        /\ posted' = IF started' > started THEN Append(posted, "announce") ELSE posted
        /\ Top \/ Write \/ Status
    BY <1>26 DEF SinkWrites
  <2>2. /\ started' > started => started = 0
        /\ started' # started => started = 0 /\ started' = 1
    BY <2>1, WriterCounts DEF TxTypeInv
  <2>3. CASE started' > started
    <3>1. posted' = <<"announce">> /\ started' # 0
      BY <2>1, <2>2, <2>3, Callbacks
    <3> QED BY <2>1, <3>1, Zenon
  <2>4. CASE ~(started' > started)
    <3>1. started' = started
      BY <2>2, <2>4
    <3> QED BY <2>1, <2>4, <3>1, Zenon
  <2> QED BY <2>3, <2>4
<1>27. CASE SinkReturns
  BY <1>27, Callbacks, Zenon DEF SinkReturns, Post
<1>28. CASE Announce
  <2>1. CASE posted = <<"announce">>
    BY <1>28, <2>1, Callbacks, Zenon DEF Announce
  <2>2. CASE posted = <<"announce", "result">>
    BY <1>28, <2>2, Callbacks, Zenon DEF Announce
  <2>3. CASE posted = <<"result">>
    BY <1>28, <2>3, Callbacks, Zenon DEF Announce
  <2>4. posted # <<>> /\ burst' = burst /\ started' = started
    BY <1>28, Zenon DEF Announce
  <2> QED BY <2>1, <2>2, <2>3, <2>4, Zenon DEF TxTypeInv
<1>29. CASE BurstResumes
  <2>1. posted = <<"result">>
    <3>1. posted # <<"announce">> /\ posted # <<"announce", "result">> /\ posted # <<>>
      BY <1>29, Callbacks DEF BurstResumes
    <3> QED BY <3>1, Zenon DEF TxTypeInv
  <2>2. posted' = <<>> /\ burst' \in {"raised", "ok"}
    BY <1>29, <2>1, Callbacks DEF BurstResumes
  <2> QED BY <2>2
<1>30. CASE OnBurstDone
  BY <1>30 DEF OnBurstDone
<1>31. CASE Deadline
  BY <1>31 DEF Deadline, Expire
<1>32. CASE Over
  BY <1>32 DEF Over, txVars
<1> QED BY <1>1, <1>2, <1>3, <1>4, <1>5, <1>6, <1>7, <1>8, <1>9, <1>10, <1>11, <1>12, <1>13,
        <1>14, <1>15, <1>16, <1>17, <1>18, <1>19, <1>20, <1>21, <1>22, <1>23, <1>24, <1>25,
        <1>26, <1>27, <1>28, <1>29, <1>30, <1>31, <1>32
     DEF TxNext, Supervisor, Main, Stubs, Thread, Posted

-----------------------------------------------------------------------------
(* Which program is where: only ax25_tx has a burst and only fm_tx a graph, *)
(* a stub's script runs between two reads, and a process that is leaving   *)
(* has neither a thread that may write nor a carrier.                      *)
PlaceInv ==
    /\ app # "ax25_tx" => burst = "none"
    /\ app # "fm_tx" => graph = "idle"
    /\ main \in {"probing", "building"} => burst = "none" /\ graph = "idle"
    /\ main = "sending" => Stub
    /\ main = "awaiting" => app = "ax25_tx"
    /\ periodic => Stub
    /\ script # <<>> => main = "sending"
    /\ Closed => ~BurstPending /\ graph # "on"

(* No step starts a burst or a carrier in a process that is leaving, and   *)
(* none leaves before both are down.                                       *)
LEMMA PlaceStep == TxTypeInv /\ PostedInv /\ PlaceInv /\ TxNext => PlaceInv'
<1> SUFFICES ASSUME TxTypeInv, PostedInv, PlaceInv, TxNext PROVE PlaceInv'
  OBVIOUS
<1> USE DEF TxTypeInv, PlaceInv, Closed, BurstPending, Stub, Apps, Exit
<1>1. CASE \E c \in Commands : SupervisorSends(c)
  BY <1>1 DEF SupervisorSends
<1>2. CASE SupervisorCloses
  BY <1>2 DEF SupervisorCloses
<1>3. CASE StatusCloses
  BY <1>3 DEF StatusCloses
<1>4. CASE Probe
  BY <1>4 DEF Probe, SpawnFails
<1>5. CASE BuildFails
  BY <1>5 DEF BuildFails, SpawnFails
<1>6. CASE Ready
  BY <1>6 DEF Ready
<1>7. CASE OnStop
  BY <1>7 DEF OnStop, LoopReturns, Verdict, Consume
<1>8. CASE OnEof
  BY <1>8 DEF OnEof, LoopReturns, Verdict
<1>9. CASE OnStartBurst
  BY <1>9 DEF OnStartBurst, HandlerRaises, Consume
<1>10. CASE OnStartGraph
  BY <1>10 DEF OnStartGraph, HandlerRaises, Consume
<1>11. CASE OnTransmitFrame
  BY <1>11 DEF OnTransmitFrame, HandlerRaises, Consume
<1>12. CASE OnSetDoppler
  BY <1>12 DEF OnSetDoppler, HandlerRaises, Consume
<1>13. CASE \E c \in Commands : OnIgnored(c)
  BY <1>13 DEF OnIgnored, Consume
<1>14. CASE Settled
  BY <1>14 DEF Settled, Verdict
<1>15. CASE Leave
  BY <1>15 DEF Leave
<1>16. CASE StubStart
  BY <1>16 DEF StubStart, StubOn, Consume
<1>17. CASE StubTransmit
  BY <1>17 DEF StubTransmit, Consume
<1>18. CASE StubPrepare
  BY <1>18 DEF StubPrepare, Consume
<1>19. CASE StubSends
  <2>1. script # <<>> /\ script \in Seq(ScriptLines) /\ main = "sending" /\ Stub
    BY <1>19 DEF StubSends
  <2>2. Len(script) = 1 => Tail(script) = <<>>
    <3>1. Tail(script) \in Seq(ScriptLines) /\ Len(script) - 1 = Len(Tail(script))
      BY <2>1
    <3>2. Len(script) = 1 => Len(Tail(script)) \notin Nat \ {0}
      BY <3>1
    <3> QED BY <3>1, <3>2, EmptySeq, Zenon
  <2> QED BY <1>19, <2>1, <2>2 DEF StubSends
<1>20. CASE StubStarted
  BY <1>20 DEF StubStarted
<1>21. CASE PeriodicSends
  BY <1>21 DEF PeriodicSends
<1>22. CASE StubStop
  BY <1>22 DEF StubStop, StubOn, Consume
<1>23. CASE StubEof
  BY <1>23 DEF StubEof
<1>24. CASE SinkFile
  BY <1>24 DEF SinkFile
<1>25. CASE SinkOpens
  BY <1>25 DEF SinkOpens
<1>26. CASE SinkWrites
  BY <1>26 DEF SinkWrites
<1>27. CASE SinkReturns
  BY <1>27 DEF SinkReturns
<1>28. CASE Announce
  BY <1>28 DEF Announce
<1>29. CASE BurstResumes
  BY <1>29 DEF BurstResumes, PostedInv
<1>30. CASE OnBurstDone
  BY <1>30 DEF OnBurstDone
<1>31. CASE Deadline
  BY <1>31 DEF Deadline, Expire
<1>32. CASE Over
  BY <1>32 DEF Over, txVars
<1> QED BY <1>1, <1>2, <1>3, <1>4, <1>5, <1>6, <1>7, <1>8, <1>9, <1>10, <1>11, <1>12, <1>13,
        <1>14, <1>15, <1>16, <1>17, <1>18, <1>19, <1>20, <1>21, <1>22, <1>23, <1>24, <1>25,
        <1>26, <1>27, <1>28, <1>29, <1>30, <1>31, <1>32
     DEF TxNext, Supervisor, Main, Stubs, Thread, Posted

-----------------------------------------------------------------------------
(* However the command loop ended, the abort flag is set and stays set.    *)
(* A chunk that was already in the driver's hands may still be taken; the  *)
(* writer then meets the flag at the top of its loop and offers no more.   *)
RevokeInv ==
    /\ reason # "none" => aborted /\ main \in {"awaiting", "closing", "exited"}
    /\ late > 0 => reason # "none" /\ pc # "write" /\ late <= chunk

(* No step takes the flag back, and only a write that was under way counts *)
(* as late.                                                                *)
LEMMA RevokeStep == TxTypeInv /\ PlaceInv /\ RevokeInv /\ TxNext => RevokeInv'
<1> SUFFICES ASSUME TxTypeInv, PlaceInv, RevokeInv, TxNext PROVE RevokeInv'
  OBVIOUS
<1> USE DEF TxTypeInv, RevokeInv, Exit
<1>1. CASE \E c \in Commands : SupervisorSends(c)
  BY <1>1 DEF SupervisorSends
<1>2. CASE SupervisorCloses
  BY <1>2 DEF SupervisorCloses
<1>3. CASE StatusCloses
  BY <1>3 DEF StatusCloses
<1>4. CASE Probe
  BY <1>4 DEF Probe, SpawnFails
<1>5. CASE BuildFails
  BY <1>5 DEF BuildFails, SpawnFails
<1>6. CASE Ready
  BY <1>6 DEF Ready
<1>7. CASE OnStop
  BY <1>7 DEF OnStop, LoopReturns, Verdict, Consume
<1>8. CASE OnEof
  BY <1>8 DEF OnEof, LoopReturns, Verdict
<1>9. CASE OnStartBurst
  BY <1>9 DEF OnStartBurst, HandlerRaises, Consume
<1>10. CASE OnStartGraph
  BY <1>10 DEF OnStartGraph, HandlerRaises, Consume
<1>11. CASE OnTransmitFrame
  BY <1>11 DEF OnTransmitFrame, HandlerRaises, Consume
<1>12. CASE OnSetDoppler
  BY <1>12 DEF OnSetDoppler, HandlerRaises, Consume
<1>13. CASE \E c \in Commands : OnIgnored(c)
  BY <1>13 DEF OnIgnored, Consume
<1>14. CASE Settled
  BY <1>14 DEF Settled, Verdict
<1>15. CASE Leave
  BY <1>15 DEF Leave
<1>16. CASE StubStart
  BY <1>16 DEF StubStart, StubOn, Consume
<1>17. CASE StubTransmit
  BY <1>17 DEF StubTransmit, Consume
<1>18. CASE StubPrepare
  BY <1>18 DEF StubPrepare, Consume
<1>19. CASE StubSends
  BY <1>19 DEF StubSends
<1>20. CASE StubStarted
  BY <1>20 DEF StubStarted, PlaceInv
<1>21. CASE PeriodicSends
  BY <1>21 DEF PeriodicSends
<1>22. CASE StubStop
  BY <1>22 DEF StubStop, StubOn, Consume
<1>23. CASE StubEof
  BY <1>23 DEF StubEof
<1>24. CASE SinkFile
  BY <1>24 DEF SinkFile
<1>25. CASE SinkOpens
  BY <1>25 DEF SinkOpens
<1>26. CASE SinkWrites
  <2>1. /\ Top \/ Write \/ Status
        /\ late' = IF reason # "none" THEN late + (i' - i) ELSE late
        /\ UNCHANGED <<reason, main>>
    BY <1>26 DEF SinkWrites
  <2>2. aborted => aborted'
    BY <2>1, Zenon DEF Top, Write, Accept, TakeNothing, WriteFails, Status, PollStatus,
        StatusEnds
  <2>3. /\ i \in Nat /\ i' \in Nat /\ late \in Nat
        /\ i' # i => pc = "write" /\ pc' = "top" /\ i' - i <= chunk
    BY <2>1, WriterCounts
  <2>4. aborted /\ pc # "write" => pc' # "write"
    <3>1. CASE Top
      BY <3>1 DEF Top, Finish
    <3>2. CASE Write
      BY <3>2 DEF Write, Accept, TakeNothing, WriteFails
    <3>3. CASE Status
      BY <3>3 DEF Status, PollStatus, StatusEnds, Statuses, Finish
    <3> QED BY <2>1, <3>1, <3>2, <3>3
  <2>5. CASE i' = i
    BY <2>1, <2>2, <2>3, <2>4, <2>5
  <2>6. CASE i' # i
    <3>1. late = 0 /\ i' - i \in Int
      BY <2>3, <2>6
    <3>2. CASE reason = "none"
      BY <2>1, <3>1, <3>2
    <3>3. CASE reason # "none"
      <4>1. aborted' /\ reason' # "none" /\ main' = main /\ main \in {"awaiting", "closing",
                "exited"}
        BY <2>1, <2>2, <3>3, Zenon
      <4>2. late' = i' - i /\ late' <= chunk /\ pc' = "top"
        BY <2>1, <2>3, <2>6, <3>1, <3>3
      <4> QED BY <4>1, <4>2, Zenon
    <3> QED BY <3>2, <3>3
  <2> QED BY <2>5, <2>6
<1>27. CASE SinkReturns
  BY <1>27 DEF SinkReturns
<1>28. CASE Announce
  BY <1>28 DEF Announce
<1>29. CASE BurstResumes
  BY <1>29 DEF BurstResumes
<1>30. CASE OnBurstDone
  BY <1>30 DEF OnBurstDone
<1>31. CASE Deadline
  BY <1>31 DEF Deadline, Expire
<1>32. CASE Over
  BY <1>32 DEF Over, txVars
<1> QED BY <1>1, <1>2, <1>3, <1>4, <1>5, <1>6, <1>7, <1>8, <1>9, <1>10, <1>11, <1>12, <1>13,
        <1>14, <1>15, <1>16, <1>17, <1>18, <1>19, <1>20, <1>21, <1>22, <1>23, <1>24, <1>25,
        <1>26, <1>27, <1>28, <1>29, <1>30, <1>31, <1>32
     DEF TxNext, Supervisor, Main, Stubs, Thread, Posted

-----------------------------------------------------------------------------
(* The acknowledgement.  Either `stopped` was never said, or it is the last *)
(* line of a process that is leaving and has no background task left; and  *)
(* such a process has nothing posted that the loop could still run.        *)
LastSaidStopped == /\ status # <<>> /\ status[Len(status)] = "stopped"
                   /\ \A k \in DOMAIN status : status[k] = "stopped" => k = Len(status)

FinalInv == ~Said("stopped") \/ (Closed /\ ~periodic /\ LastSaidStopped)

(* Any other line does not say `stopped`.                                  *)
LEMMA TellOther ==
    ASSUME TxTypeInv, NEW e \in TxLines, e # "stopped", Tell(e), ~Said("stopped")
    PROVE  ~Said("stopped")'
BY DEF TxTypeInv, Tell, Said

(* The acknowledgement is the last line, if there is a peer to hear it.    *)
LEMMA TellStopped ==
    ASSUME TxTypeInv, Tell("stopped"), ~Said("stopped")
    PROVE  ~Said("stopped")' \/ LastSaidStopped'
<1>1. CASE Raises
  BY <1>1 DEF Tell, Said, Raises
<1>2. CASE ~Raises
  BY <1>2, LineNames DEF TxTypeInv, Tell, Said, LastSaidStopped, Raises
<1> QED BY <1>1, <1>2

(* What was said depends on the lines written alone.                       *)
LEMMA KeptSaid ==
    ASSUME status' = status
    PROVE  Said("stopped")' = Said("stopped") /\ LastSaidStopped' = LastSaidStopped
BY DEF Said, LastSaidStopped

(* Several lines that are not it do not say `stopped` either.              *)
LEMMA AppendOther ==
    ASSUME TxTypeInv, NEW es \in Seq(TxLines \ {"stopped"}), status' = status \o es,
           ~Said("stopped")
    PROVE  ~Said("stopped")'
BY DEF TxTypeInv, Said

(* No step of any actor says anything after `stopped`: the burst task, its *)
(* announcement and the background task are over before it is said.        *)
LEMMA FinalStep == TxTypeInv /\ PostedInv /\ PlaceInv /\ FinalInv /\ TxNext => FinalInv'
<1> SUFFICES ASSUME TxTypeInv, PostedInv, PlaceInv, FinalInv, TxNext PROVE FinalInv'
  OBVIOUS
<1> USE DEF FinalInv, PlaceInv, Closed, Exit
<1>1. CASE \E c \in Commands : SupervisorSends(c)
  BY <1>1, KeptSaid DEF SupervisorSends
<1>2. CASE SupervisorCloses
  BY <1>2, KeptSaid DEF SupervisorCloses
<1>3. CASE StatusCloses
  BY <1>3, KeptSaid DEF StatusCloses
<1>4. CASE Probe
  <2>1. \/ status' = status
        \/ status' = status \o <<"tx-device-probe-failed">>
    BY <1>4 DEF Probe, SpawnFails
  <2>2. <<"tx-device-probe-failed">> \in Seq(TxLines \ {"stopped"})
    BY DEF TxLines
  <2>3. main = "probing"
    BY <1>4 DEF Probe
  <2> QED BY <2>1, <2>2, <2>3, KeptSaid, AppendOther
<1>5. CASE BuildFails
  <2>1. \E es \in {<<>>, <<"tx-preflight-failed">>, <<"tx-engine-unavailable">>} :
            status' = status \/ status' = status \o es
    BY <1>5 DEF BuildFails, SpawnFails
  <2>2. \A es \in {<<>>, <<"tx-preflight-failed">>, <<"tx-engine-unavailable">>} :
            es \in Seq(TxLines \ {"stopped"})
    <3>1. <<>> \in Seq(TxLines \ {"stopped"})
      OBVIOUS
    <3>2. <<"tx-preflight-failed">> \in Seq(TxLines \ {"stopped"})
      BY DEF TxLines
    <3>3. <<"tx-engine-unavailable">> \in Seq(TxLines \ {"stopped"})
      BY DEF TxLines
    <3> QED BY <3>1, <3>2, <3>3, Zenon
  <2>3. main = "building"
    BY <1>5 DEF BuildFails
  <2> QED BY <2>1, <2>2, <2>3, KeptSaid, AppendOther
<1>6. CASE Ready
  BY <1>6, KeptSaid, TellOther, LineNames DEF Ready
<1>7. CASE OnStop
  <2>1. main \in {"reading", "awaiting"} /\ ~periodic /\ periodic' = periodic
    BY <1>7 DEF OnStop, Stub, Consume
  <2>2. \/ status' = status
        \/ Tell("stopped") /\ Closed'
    BY <1>7 DEF OnStop, LoopReturns, Verdict
  <2> QED BY <2>1, <2>2, KeptSaid, TellStopped
<1>8. CASE OnEof
  <2>1. main \in {"reading", "awaiting"} /\ ~periodic /\ periodic' = periodic
    BY <1>8 DEF OnEof, Stub, Consume
  <2>2. \/ status' = status
        \/ Tell("stopped") /\ Closed'
    BY <1>8 DEF OnEof, LoopReturns, Verdict
  <2> QED BY <2>1, <2>2, KeptSaid, TellStopped
<1>9. CASE OnStartBurst
  BY <1>9, KeptSaid, TellOther, LineNames DEF OnStartBurst, HandlerRaises, Consume
<1>10. CASE OnStartGraph
  <2>1. \/ status' = status
        \/ Tell("handler-failed")
        \/ status' = status \o <<"started", "transmit_started">>
    BY <1>10 DEF OnStartGraph, HandlerRaises
  <2>2. <<"started", "transmit_started">> \in Seq(TxLines \ {"stopped"})
    BY DEF TxLines
  <2>3. main = "reading"
    BY <1>10 DEF OnStartGraph, Consume
  <2> QED BY <2>1, <2>2, <2>3, KeptSaid, AppendOther, TellOther, LineNames
<1>11. CASE OnTransmitFrame
  BY <1>11, KeptSaid, TellOther, LineNames DEF OnTransmitFrame, HandlerRaises, Consume
<1>12. CASE OnSetDoppler
  BY <1>12, KeptSaid, TellOther, LineNames DEF OnSetDoppler, HandlerRaises, Consume
<1>13. CASE \E c \in Commands : OnIgnored(c)
  BY <1>13, KeptSaid DEF OnIgnored, Consume
<1>14. CASE Settled
  <2>1. main \in {"reading", "awaiting"} /\ ~periodic /\ periodic' = periodic
    BY <1>14 DEF Settled, Stub, Consume
  <2>2. \/ status' = status
        \/ Tell("stopped") /\ Closed'
    BY <1>14 DEF Settled, LoopReturns, Verdict
  <2> QED BY <2>1, <2>2, KeptSaid, TellStopped
<1>15. CASE Leave
  BY <1>15, KeptSaid DEF Leave
<1>16. CASE StubStart
  BY <1>16, KeptSaid DEF StubStart, StubOn, Consume
<1>17. CASE StubTransmit
  BY <1>17, KeptSaid DEF StubTransmit, Consume
<1>18. CASE StubPrepare
  BY <1>18, KeptSaid DEF StubPrepare, Consume
<1>19. CASE StubSends
  <2>1. Head(script) \in ScriptLines \ {"background"} /\ main = "sending" /\ Tell(Head(script))
    BY <1>19 DEF StubSends, TxTypeInv
  <2> QED BY <2>1, TellOther, LineNames
<1>20. CASE StubStarted
  BY <1>20, KeptSaid DEF StubStarted
<1>21. CASE PeriodicSends
  BY <1>21, KeptSaid, TellOther, LineNames DEF PeriodicSends
<1>22. CASE StubStop
  BY <1>22, TellStopped DEF StubStop, StubOn, Consume
<1>23. CASE StubEof
  BY <1>23, KeptSaid DEF StubEof
<1>24. CASE SinkFile
  BY <1>24, KeptSaid DEF SinkFile
<1>25. CASE SinkOpens
  BY <1>25, KeptSaid DEF SinkOpens
<1>26. CASE SinkWrites
  BY <1>26, KeptSaid DEF SinkWrites
<1>27. CASE SinkReturns
  BY <1>27, KeptSaid DEF SinkReturns
<1>28. CASE Announce
  BY <1>28, KeptSaid, TellOther, LineNames DEF Announce, PostedInv, BurstPending, TxTypeInv
<1>29. CASE BurstResumes
  BY <1>29, KeptSaid, TellOther, LineNames DEF BurstResumes, PostedInv, BurstPending, TxTypeInv
<1>30. CASE OnBurstDone
  BY <1>30, KeptSaid DEF OnBurstDone
<1>31. CASE Deadline
  BY <1>31, KeptSaid DEF Deadline, Expire
<1>32. CASE Over
  BY <1>32, KeptSaid DEF Over, txVars
<1> QED BY <1>1, <1>2, <1>3, <1>4, <1>5, <1>6, <1>7, <1>8, <1>9, <1>10, <1>11, <1>12, <1>13,
        <1>14, <1>15, <1>16, <1>17, <1>18, <1>19, <1>20, <1>21, <1>22, <1>23, <1>24, <1>25,
        <1>26, <1>27, <1>28, <1>29, <1>30, <1>31, <1>32
     DEF TxNext, Supervisor, Main, Stubs, Thread, Posted

-----------------------------------------------------------------------------
TxInv == TxTypeInv /\ PostedInv /\ PlaceInv /\ RevokeInv /\ FinalInv

(* All of it holds when the program starts: nothing is on the air and      *)
(* nothing was said.                                                       *)
LEMMA TxInvInit == TxInit => TxInv
<1> SUFFICES ASSUME TxInit PROVE TxInv
  OBVIOUS
<1>1. ~Said("stopped")
  BY DEF TxInit, Said
<1>2. PostedInv /\ RevokeInv
  BY DEF TxInit, PostedInv, RevokeInv
<1>3. PlaceInv
  BY DEF TxInit, PlaceInv, Closed
<1> QED BY <1>1, <1>2, <1>3, TxTypeInit DEF TxInv, FinalInv

(* And in every reachable state.                                           *)
LEMMA TxInvariance == TxSpec => []TxInv
<1>1. TxInv /\ TxNext => TxInv'
  BY TxTypeStep, PostedStep, PlaceStep, RevokeStep, FinalStep DEF TxInv
<1>2. TxInv /\ UNCHANGED txVars => TxInv'
  BY TxTypeStep, PostedStep, PlaceStep, RevokeStep, KeptSaid
     DEF txVars, TxInv, TxTypeInv, PostedInv, PlaceInv, RevokeInv, FinalInv, Closed, Stub,
         BurstPending
<1> QED BY <1>1, <1>2, TxInvInit, PTL DEF TxSpec

(* Once a stop, a lost control socket or a failed handler has revoked the  *)
(* authority to transmit, at most what one write had already handed to the *)
(* driver goes out, for any waveform, MTU and chunk size and whatever the  *)
(* driver answers (_soapy_tx.write_burst under cubesat_gfsk_ax25_tx).      *)
THEOREM RevokedIsQuietCorrect == TxSpec => []RevokedIsQuiet
<1>1. TxInv => RevokedIsQuiet
  BY DEF TxInv, RevokeInv, RevokedIsQuiet
<1> QED BY <1>1, TxInvariance, PTL

(* A `stopped` can be believed: no thread writes and no carrier is up when *)
(* it is said or when the process is gone, and nothing is said after it.   *)
THEOREM StoppedIsFinalCorrect == TxSpec => []StoppedIsFinal
<1>1. TxInv => OffAirBeforeStopped
  BY DEF TxInv, FinalInv, PlaceInv, Closed, OffAirBeforeStopped
<1>2. TxInv => StoppedIsLast
  BY DEF TxInv, FinalInv, LastSaidStopped, StoppedIsLast, Said
<1> QED BY <1>1, <1>2, TxInvariance, PTL DEF StoppedIsFinal

-----------------------------------------------------------------------------
(* The burst inside the session.  Until the sink is opened the writer is   *)
(* untouched; then the device sink runs it, step by step, or the file sink *)
(* does it all at once.                                                    *)
FreshInv ==
    burst \in {"none", "opening"} =>
        /\ i = 0 /\ stalls = 0 /\ started = 0 /\ empties = 0
        /\ air = <<>> /\ heard = <<>>

(* The file sink writes the whole waveform, or nothing if it is too late.  *)
LEMMA FileBurst ==
    ASSUME BurstInv, FreshInv, SinkFile, N > 0
    PROVE  BurstInv'
<1>0. N \in Nat /\ MaxStalls \in Nat /\ MaxPolls \in Nat
  BY BurstAssumption
<1>1. /\ i = 0 /\ stalls = 0 /\ started = 0 /\ empties = 0 /\ air = <<>> /\ heard = <<>>
      /\ pc' = "done" /\ UNCHANGED <<stalls, polls, aborted, expired, empties, heard>>
  BY DEF SinkFile, FreshInv
<1>2. NoDiscard' /\ heard' \in Seq(Statuses)
  BY <1>1 DEF NoDiscard
<1>3. polls' \in 0 .. MaxPolls /\ aborted' \in BOOLEAN /\ expired' \in BOOLEAN
  BY <1>1 DEF BurstInv, TypeOK
<1>4. CASE aborted
  <2>1. outcome' = "cancelled" /\ UNCHANGED <<i, started, air>>
    BY <1>4 DEF SinkFile
  <2>2. FlownAsTold' /\ air' \in Seq(Nat)
    BY <1>1, <2>1 DEF FlownAsTold
  <2> QED BY <1>0, <1>1, <1>2, <1>3, <2>1, <2>2 DEF BurstInv, TypeOK, Outcomes
<1>5. CASE ~aborted
  <2>1. outcome' = "complete" /\ i' = N /\ started' = 1 /\ air' = [k \in 1 .. N |-> k - 1]
    BY <1>5 DEF SinkFile
  <2>2. [k \in 1 .. N |-> k - 1] \in [1 .. N -> Nat]
    BY <1>0
  <2>3. air' \in Seq(Nat) /\ Len(air') = N /\ DOMAIN air' = 1 .. N
    BY <1>0, <2>1, <2>2, SeqDef, LenProperties
  <2>4. air' # <<>>
    BY <2>3
  <2>5. FlownAsTold'
    BY <2>1, <2>3, <2>4 DEF FlownAsTold
  <2> QED BY <1>0, <1>1, <1>2, <1>3, <2>1, <2>3, <2>5 DEF BurstInv, TypeOK, Outcomes
<1> QED BY <1>4, <1>5

(* Every step of the session is one of the file sink, or to the writer a   *)
(* step of its own or none.                                                *)
LEMMA SessionWriter == TxTypeInv /\ TxNext => SinkFile \/ [Next]_vars
<1> SUFFICES ASSUME TxTypeInv, TxNext, ~SinkFile PROVE [Next]_vars
  OBVIOUS
<1>1. CASE SinkWrites
  BY <1>1 DEF SinkWrites, Next
<1>2. CASE Deadline
  BY <1>2 DEF Deadline, Next
<1>3. ASSUME UNCHANGED <<writer, expired>>, aborted' = aborted \/ aborted' = TRUE
      PROVE  [Next]_vars
  <2>1. CASE aborted' = aborted
    BY <1>3, <2>1 DEF vars
  <2>2. CASE aborted' # aborted
    BY <1>3, <2>2, Zenon DEF Next, Abort, vars
  <2> QED BY <2>1, <2>2
<1>4. CASE Supervisor \/ Main \/ Stubs \/ Over
  <2>1. UNCHANGED <<writer, expired>>
    BY <1>4, Zenon DEF Supervisor, SupervisorSends, SupervisorCloses, StatusCloses, Main,
        Probe, BuildFails,
       Ready, OnStop, OnEof, OnStartBurst, OnStartGraph, OnTransmitFrame, OnSetDoppler,
           OnIgnored,
       Settled, Leave, Stubs, StubStart, StubTransmit, StubPrepare, StubSends, StubStarted,
       PeriodicSends, StubStop, StubEof, Over, txVars
  <2>2. aborted' = aborted \/ aborted' = TRUE
    BY <1>4, Zenon DEF Supervisor, SupervisorSends, SupervisorCloses, StatusCloses, Main,
        Probe, BuildFails,
       SpawnFails, Ready, OnStop, OnEof, LoopReturns, HandlerRaises, OnStartBurst, OnStartGraph,
       OnTransmitFrame, OnSetDoppler, OnIgnored, Settled, Leave, Stubs, StubStart, StubTransmit,
       StubPrepare, StubSends, StubStarted, PeriodicSends, StubStop, StubEof, Over, txVars
  <2> QED BY <1>3, <2>1, <2>2
<1>5. CASE SinkOpens \/ SinkReturns \/ Posted
  <2>1. UNCHANGED <<writer, expired>> /\ (aborted' = aborted \/ aborted' = TRUE)
    BY <1>5, Zenon DEF SinkOpens, SinkReturns, Posted, Announce, BurstResumes, OnBurstDone
  <2> QED BY <1>3, <2>1
<1> QED BY <1>1, <1>2, <1>4, <1>5 DEF TxNext, Thread

(* The writer is not touched before the sink is opened, and no burst goes  *)
(* back to that point.                                                     *)
LEMMA FreshStep == TxTypeInv /\ FreshInv /\ TxNext => FreshInv'
<1> SUFFICES ASSUME TxTypeInv, FreshInv, TxNext, burst' \in {"none", "opening"} PROVE FreshInv'
  BY DEF FreshInv
<1>1. CASE Supervisor \/ Main \/ Stubs \/ Over
  <2>1. UNCHANGED <<writer, expired>>
    BY <1>1, Zenon DEF Supervisor, SupervisorSends, SupervisorCloses, StatusCloses, Main, Probe,
       BuildFails, Ready, OnStop, OnEof, OnStartBurst, OnStartGraph, OnTransmitFrame,
       OnSetDoppler, OnIgnored, Settled, Leave, Stubs, StubStart, StubTransmit, StubPrepare,
       StubSends, StubStarted, PeriodicSends, StubStop, StubEof, Over, txVars
  <2>2. burst' = burst \/ burst = "none"
    BY <1>1, Zenon DEF Supervisor, SupervisorSends, SupervisorCloses, StatusCloses, Main, Probe,
       BuildFails, Ready, OnStop, OnEof, OnStartBurst, OnStartGraph, OnTransmitFrame,
       OnSetDoppler, OnIgnored, Settled, Leave, Stubs, StubStart, StubTransmit, StubPrepare,
       StubSends, StubStarted, PeriodicSends, StubStop, StubEof, Over, txVars
  <2> QED BY <2>1, <2>2 DEF FreshInv
<1>2. CASE Thread \/ Posted \/ Deadline
  <2>1. burst' = burst /\ burst # "writing" /\ UNCHANGED <<writer, expired>>
    BY <1>2 DEF Thread, SinkFile, SinkOpens, SinkWrites, SinkReturns, Posted, Announce,
       BurstResumes, OnBurstDone, Deadline
  <2> QED BY <2>1 DEF FreshInv
<1> QED BY <1>1, <1>2 DEF TxNext

(* The two hold in every reachable state of a session with a waveform that *)
(* is not empty, as every waveform the app builds is.                      *)
LEMMA SessionBurst == ASSUME N > 0 PROVE TxSpec => [](BurstInv /\ FreshInv)
<1>1. TxInit => BurstInv /\ FreshInv
  BY BurstInit DEF TxInit, Init, FreshInv
<1>2. TxTypeInv /\ BurstInv /\ FreshInv /\ [TxNext]_txVars => (BurstInv /\ FreshInv)'
  <2>1. TxTypeInv /\ BurstInv /\ FreshInv /\ TxNext => (BurstInv /\ FreshInv)'
    BY SessionWriter, BurstStep, FreshStep, FileBurst
  <2>2. UNCHANGED txVars => UNCHANGED vars /\ UNCHANGED burst
    BY DEF txVars, vars
  <2>3. FreshInv /\ UNCHANGED txVars => FreshInv'
    BY DEF txVars, FreshInv
  <2> QED BY <2>1, <2>2, <2>3, BurstStep
<1>3. TxInv => TxTypeInv
  BY DEF TxInv
<1> QED BY <1>1, <1>2, <1>3, TxInvariance, PTL DEF TxSpec

(* Inside a session, under stops, a lost socket and a file or a device for *)
(* a sink, the burst still flies in order and is told as it flew.          *)
THEOREM FlownInSession == ASSUME N > 0 PROVE TxSpec => []FlownAsTold
<1>1. BurstInv => FlownAsTold
  BY DEF BurstInv
<1> QED BY <1>1, SessionBurst, PTL

(* And a burst of a session that is called complete is whole, with no      *)
(* discard among the statuses that were read; one that is called stalled   *)
(* met one empty write too many in a row.                                  *)
THEOREM OutcomeInSession == ASSUME N > 0 PROVE TxSpec => []OutcomeIsTrue
BY BurstOutcome, SessionBurst, PTL
=============================================================================
