------------------------- MODULE BidirUplink_proofs --------------------------
(* The uplink for any frame ids, any number of commands and bursts of any  *)
(* length, under an obedient or any other client: RX and TX never stream   *)
(* together, the device is not closed under a burst, and nothing flies     *)
(* that was not staged and acknowledged for that flight.                   *)
EXTENDS BidirUplink, SequenceTheorems, TLAPS

USE DEF clientVars, ctlVars, workerVars, flagVars, deviceVars, readerVars, historyVars

(* The head of a queue and what follows it.                                *)
LEMMA HeadTail ==
    ASSUME NEW S, NEW q \in Seq(S), q # <<>>
    PROVE  Head(q) \in S /\ Tail(q) \in Seq(S)
BY HeadTailProperties

(* A counter per frame id, counted up once.                                *)
LEMMA Increment ==
    ASSUME NEW F, NEW g \in [F -> Nat], NEW f \in F
    PROVE  [g EXCEPT ![f] = @ + 1] \in [F -> Nat]
OBVIOUS

(* A command to prepare or to transmit carries a frame id.                 *)
LEMMA Requests ==
    ASSUME NEW c \in Command, c.op \in {"prepare", "transmit"}
    PROVE  c \in Request
BY DEF Command, Request

-----------------------------------------------------------------------------
(* A burst counts its chunks up to its length and not beyond: the worker   *)
(* polls the abort only while some are left.                               *)
BurstInv ==
    /\ late <= written
    /\ worker \in {"called", "claimed", "rx-stopped"} => written = 0
    /\ worker \in {"writing", "polled"} => written < Chunks


(* The flags of the app and of the device.                                 *)
FlagType ==
    /\ obedient \in BOOLEAN /\ stop \in BOOLEAN /\ building \in BOOLEAN
    /\ txActive \in BOOLEAN /\ suspended \in BOOLEAN
    /\ rxOn \in BOOLEAN /\ txOn \in BOOLEAN /\ closed \in BOOLEAN
    /\ stale \in BOOLEAN /\ ioStop \in BOOLEAN

(* Everything else: where each actor is, the queues and the counters.      *)
DataType ==
    /\ inbox \in Seq(Command) /\ sent \in 0 .. MaxSent
    /\ client \in {"idle", "preparing", "keyed", "transmitting", "quiet", "resuming", "gone"}
    /\ main \in {"reading", "preparing", "resuming", "resume-locked", "resume-clear",
                 "settling", "closing", "done"}
    /\ spawned \in Seq(Frames) /\ lockQueue \in Seq(Request)
    /\ staged \in Frames \cup {NoFrame}
    /\ worker \in {"idle", "called", "claimed", "rx-stopped", "polled", "writing",
                   "cleanup", "releasing", "returned"}
    /\ written \in 0 .. Chunks /\ late \in 0 .. Chunks
    /\ device \in {"free", "reader", "worker", "resume"}
    /\ reader \in {"checking", "locking", "reading", "failed", "ended"}
    /\ licence \in [Frames -> Nat] /\ flown \in [Frames -> Nat]
    /\ asked \in Nat /\ answered \in Nat

TypeInv == DataType /\ BurstInv

(* A step sets a flag, clears it, leaves it or takes a boolean choice.     *)
LEMMA FlagStep == FlagType /\ [Next]_vars => FlagType'
<1> SUFFICES ASSUME FlagType, [Next]_vars PROVE FlagType'
  OBVIOUS
<1> USE DEF FlagType
<1>1. CASE ClientStep
  BY <1>1, Zenon DEF ClientStep, ClientSends
<1>2. CASE LoopStep
  <2>1. CASE OnPrepare
    BY <2>1, Zenon DEF OnPrepare
  <2>2. CASE OnTransmit
    BY <2>2, Zenon DEF OnTransmit
  <2>3. CASE OnResume
    BY <2>3, Zenon DEF OnResume
  <2>4. CASE OnStop
    BY <2>4, Zenon DEF OnStop
  <2>5. CASE OnEngineEof
    BY <2>5, Zenon DEF OnEngineEof
  <2>6. CASE OnUnresolved
    BY <2>6, Zenon DEF OnUnresolved
  <2> QED BY <1>2, <2>1, <2>2, <2>3, <2>4, <2>5, <2>6 DEF LoopStep
<1>3. CASE ControllerStep
  <2>1. CASE BeginPrepare
    BY <2>1, Zenon DEF BeginPrepare
  <2>2. CASE Stage
    BY <2>2, Zenon DEF Stage, PrepareDone
  <2>3. CASE RejectStage
    BY <2>3, Zenon DEF RejectStage, PrepareDone
  <2>4. CASE TaskStarts
    BY <2>4, Zenon DEF TaskStarts
  <2>5. CASE TransmitRefuses
    BY <2>5, Zenon DEF TransmitRefuses, Complete
  <2>6. CASE TransmitBegins
    BY <2>6, Zenon DEF TransmitBegins
  <2>7. CASE TransmitCompletes
    BY <2>7, Zenon DEF TransmitCompletes, Complete
  <2> QED BY <1>3, <2>1, <2>2, <2>3, <2>4, <2>5, <2>6, <2>7 DEF ControllerStep
<1>4. CASE WorkerStep
  <2>1. CASE Claim
    BY <2>1, Zenon DEF Claim
  <2>2. CASE StopRx
    BY <2>2, ZenonT(60) DEF StopRx
  <2>3. CASE OpenTx
    BY <2>3, ZenonT(60) DEF OpenTx
  <2>4. CASE PollAbort
    BY <2>4, Zenon DEF PollAbort
  <2>5. CASE WriteChunk
    BY <2>5, Zenon DEF WriteChunk
  <2>6. CASE Cleanup
    BY <2>6, Zenon DEF Cleanup
  <2>7. CASE Release
    BY <2>7, Zenon DEF Release
  <2> QED BY <1>4, <2>1, <2>2, <2>3, <2>4, <2>5, <2>6, <2>7 DEF WorkerStep
<1>5. CASE ResumeStep
  <2>1. CASE ResumeLock
    BY <2>1, Zenon DEF ResumeLock
  <2>2. CASE ResumeFails
    BY <2>2, Zenon DEF ResumeFails
  <2>3. CASE ResumeUnlock
    BY <2>3, Zenon DEF ResumeUnlock
  <2>4. CASE ResumeClear
    BY <2>4, Zenon DEF ResumeClear
  <2> QED BY <1>5, <2>1, <2>2, <2>3, <2>4 DEF ResumeStep
<1>6. CASE ReaderStep
  <2>1. CASE ReaderChecks
    BY <2>1, Zenon DEF ReaderChecks
  <2>2. CASE ReaderLocks
    BY <2>2, Zenon DEF ReaderLocks
  <2>3. CASE ReaderReads
    BY <2>3, Zenon DEF ReaderReads
  <2> QED BY <1>6, <2>1, <2>2, <2>3 DEF ReaderStep
<1>7. CASE ShutdownStep
  <2>1. CASE RequestStop
    BY <2>1, Zenon DEF RequestStop
  <2>2. CASE Settle
    BY <2>2, Zenon DEF Settle
  <2>3. CASE Close
    BY <2>3, Zenon DEF Close
  <2> QED BY <1>7, <2>1, <2>2, <2>3 DEF ShutdownStep
<1>8. CASE UNCHANGED vars
  BY <1>8, ZenonT(60) DEF vars
<1> QED BY <1>1, <1>2, <1>3, <1>4, <1>5, <1>6, <1>7, <1>8 DEF Next, Finished

(* The app starts with an idle receiver and nothing staged.                *)
LEMMA TypeInit == Init => TypeInv
<1> SUFFICES ASSUME Init PROVE TypeInv
  OBVIOUS
<1>1. inbox \in Seq(Command) /\ spawned \in Seq(Frames) /\ lockQueue \in Seq(Request)
  BY DEF Init
<1>2. licence \in [Frames -> Nat] /\ flown \in [Frames -> Nat]
  BY DEF Init
<1>3. sent \in 0 .. MaxSent /\ written \in 0 .. Chunks /\ late \in 0 .. Chunks
  BY UplinkAssumption DEF Init, MaxSent
<1> QED BY <1>1, <1>2, <1>3, UplinkAssumption DEF Init, TypeInv, DataType, BurstInv

(* A command of the client keeps the state well typed.                     *)
LEMMA TypeClient == ASSUME TypeInv, ClientStep PROVE TypeInv'
<1>1. PICK c \in Command : ClientSends(c)
  BY DEF ClientStep
<1>2. inbox' \in Seq(Command)
  BY <1>1 DEF ClientSends, Send, TypeInv, DataType
<1>3. sent' \in 0 .. MaxSent'
  BY <1>1, UplinkAssumption DEF ClientSends, Send, TypeInv, DataType, MaxSent
<1>4. client' \in {"preparing", "transmitting", "resuming", "gone"}
  <2>1. c.op \in {"prepare", "transmit", "resume", "stop"}
    BY DEF Command, Request
  <2> QED BY <1>1, <2>1 DEF ClientSends, Waiting
<1> QED BY <1>1, <1>2, <1>3, <1>4 DEF ClientSends, TypeInv, DataType, BurstInv

(* So does the command loop, whatever it reads.                            *)
LEMMA TypeLoop == ASSUME TypeInv, LoopStep PROVE TypeInv'
<1> USE DEF TypeInv, DataType, BurstInv, MaxSent
<1>1. CASE OnPrepare
  <2>1. inbox # <<>> /\ Head(inbox).op = "prepare" /\ inbox' = Tail(inbox)
    BY <1>1 DEF OnPrepare, Read
  <2>2. Head(inbox) \in Request /\ inbox' \in Seq(Command)
    BY <2>1, HeadTail, Requests
  <2>3. lockQueue' \in Seq(Request)
    BY <1>1, <2>2 DEF OnPrepare
  <2> QED BY <1>1, <2>2, <2>3 DEF OnPrepare
<1>2. CASE OnTransmit
  <2>1. inbox # <<>> /\ Head(inbox).op = "transmit" /\ inbox' = Tail(inbox)
    BY <1>2 DEF OnTransmit, Read
  <2>2. Head(inbox) \in Request /\ inbox' \in Seq(Command)
    BY <2>1, HeadTail, Requests
  <2>3. Head(inbox).frame \in Frames
    BY <2>2 DEF Request
  <2>4. spawned' \in Seq(Frames)
    BY <1>2, <2>3 DEF OnTransmit
  <2> QED BY <1>2, <2>2, <2>4, SMTT(30) DEF OnTransmit
<1>3. CASE OnResume
  <2>1. inbox' \in Seq(Command)
    BY <1>3, HeadTail DEF OnResume, Read
  <2> QED BY <1>3, <2>1 DEF OnResume
<1>4. CASE OnStop
  <2>1. inbox' \in Seq(Command)
    BY <1>4, HeadTail DEF OnStop, Read
  <2> QED BY <1>4, <2>1 DEF OnStop
<1>5. CASE OnEngineEof
  BY <1>5 DEF OnEngineEof
<1>6. CASE OnUnresolved
  <2>1. inbox' \in Seq(Command)
    BY <1>6, HeadTail DEF OnUnresolved, Read
  <2> QED BY <1>6, <2>1 DEF OnUnresolved, Hears
<1> QED BY <1>1, <1>2, <1>3, <1>4, <1>5, <1>6 DEF LoopStep

(* So does the controller, which stages bursts and runs them one by one.   *)
LEMMA TypeController == ASSUME TypeInv, ControllerStep PROVE TypeInv'
<1> USE DEF TypeInv, DataType, BurstInv, MaxSent
<1>1. lockQueue # <<>> => Head(lockQueue) \in Request /\ Tail(lockQueue) \in Seq(Request)
  BY HeadTail
<1>2. CASE BeginPrepare
  BY <1>2 DEF BeginPrepare
<1>3. CASE Stage
  <2>1. licence' \in [Frames -> Nat]
    BY <1>1, <1>3, SMTT(30) DEF Stage, Holds, Request
  <2>2. staged' \in Frames /\ lockQueue' \in Seq(Request)
    BY <1>1, <1>3 DEF Stage, PrepareDone, Holds, Request
  <2> QED BY <1>3, <2>1, <2>2, SMTT(30) DEF Stage, PrepareDone, Hears
<1>4. CASE RejectStage
  <2>1. lockQueue' \in Seq(Request)
    BY <1>1, <1>4 DEF RejectStage, PrepareDone, Holds
  <2> QED BY <1>4, <2>1 DEF RejectStage, PrepareDone, Hears
<1>5. CASE TaskStarts
  <2>1. Head(spawned) \in Frames /\ spawned' \in Seq(Frames)
    BY <1>5, HeadTail DEF TaskStarts
  <2>2. lockQueue' \in Seq(Request)
    BY <1>5, <2>1 DEF TaskStarts, Transmit, Request
  <2> QED BY <1>5, <2>1, <2>2, SMTT(30) DEF TaskStarts
<1>6. CASE TransmitRefuses
  <2>1. lockQueue' \in Seq(Request)
    BY <1>1, <1>6 DEF TransmitRefuses, Complete, Holds
  <2> QED BY <1>6, <2>1 DEF TransmitRefuses, Complete, Hears
<1>7. CASE TransmitBegins
  BY <1>7, UplinkAssumption DEF TransmitBegins
<1>8. CASE TransmitCompletes
  <2>1. lockQueue' \in Seq(Request)
    BY <1>1, <1>8 DEF TransmitCompletes, Complete, Holds
  <2> QED BY <1>8, <2>1 DEF TransmitCompletes, Complete, Hears
<1> QED BY <1>2, <1>3, <1>4, <1>5, <1>6, <1>7, <1>8 DEF ControllerStep

(* So does each step of a burst.                                           *)
LEMMA TypeWorker == ASSUME TypeInv, worker # "idle" => Holds("transmit"), WorkerStep PROVE TypeInv'
<1> USE DEF TypeInv, DataType, BurstInv
<1>1. CASE Claim
  BY <1>1 DEF Claim, MaxSent
<1>2. CASE StopRx
  <2>1. /\ worker' \in {"rx-stopped", "releasing"} /\ device' = "worker" /\ worker = "claimed"
        /\ UNCHANGED <<obedient, clientVars, main, stop, ctlVars, written, late, reader,
                       historyVars>>
    BY <1>2 DEF StopRx
  <2> QED BY <2>1 DEF MaxSent
<1>3. CASE OpenTx
  BY <1>3, UplinkAssumption DEF OpenTx, MaxSent
<1>4. CASE PollAbort
  BY <1>4 DEF PollAbort, MaxSent
<1>5. CASE WriteChunk
  <2> DEFINE f == Head(lockQueue).frame
  <2>1. f \in Frames
    <3>1. lockQueue # <<>>
      BY <1>5 DEF WriteChunk, Holds
    <3>2. Head(lockQueue) \in Request
      BY <3>1, HeadTail
    <3> QED BY <3>2 DEF Request
  <2>2. flown' \in [Frames -> Nat]
    <3>1. flown' = flown \/ flown' = [flown EXCEPT ![f] = @ + 1]
      BY <1>5, Zenon DEF WriteChunk
    <3> HIDE DEF f
    <3>2. [flown EXCEPT ![f] = @ + 1] \in [Frames -> Nat]
      BY <2>1, Increment
    <3> QED BY <3>1, <3>2
  <2>3. written' \in 0 .. Chunks /\ late' \in 0 .. Chunks /\ late' <= written'
    BY <1>5, UplinkAssumption, SMTT(30) DEF WriteChunk
  <2>4. worker' \in {"writing", "cleanup"} /\ (worker' = "writing" => written' < Chunks)
    BY <1>5, UplinkAssumption DEF WriteChunk
  <2> QED BY <1>5, <2>2, <2>3, <2>4 DEF WriteChunk, MaxSent
<1>6. CASE Cleanup
  BY <1>6 DEF Cleanup, MaxSent
<1>7. CASE Release
  BY <1>7 DEF Release, MaxSent
<1> HIDE DEF TypeInv
<1> QED BY <1>1, <1>2, <1>3, <1>4, <1>5, <1>6, <1>7 DEF WorkerStep

(* And the resume, the reader and the shutdown, which touch only the       *)
(* device and the flags.                                                   *)
LEMMA TypeDevice ==
    ASSUME TypeInv, ResumeStep \/ ReaderStep \/ ShutdownStep \/ UNCHANGED vars
    PROVE  TypeInv'
<1> USE DEF TypeInv, DataType, BurstInv, MaxSent
<1>1. CASE ResumeStep
  <2>1. CASE ResumeLock
    BY <2>1 DEF ResumeLock
  <2>2. CASE ResumeFails
    BY <2>2 DEF ResumeFails
  <2>3. CASE ResumeUnlock
    BY <2>3 DEF ResumeUnlock
  <2>4. CASE ResumeClear
    BY <2>4 DEF ResumeClear, Hears
  <2> QED BY <1>1, <2>1, <2>2, <2>3, <2>4 DEF ResumeStep
<1>2. CASE ReaderStep
  <2>1. CASE ReaderChecks
    BY <2>1 DEF ReaderChecks
  <2>2. CASE ReaderLocks
    BY <2>2 DEF ReaderLocks
  <2>3. CASE ReaderReads
    BY <2>3 DEF ReaderReads
  <2> QED BY <1>2, <2>1, <2>2, <2>3 DEF ReaderStep
<1>3. CASE ShutdownStep
  <2>1. CASE RequestStop
    BY <2>1 DEF RequestStop
  <2>2. CASE Settle
    BY <2>2 DEF Settle
  <2>3. CASE Close
    BY <2>3 DEF Close
  <2> QED BY <1>3, <2>1, <2>2, <2>3 DEF ShutdownStep
<1>4. CASE UNCHANGED vars
  BY <1>4 DEF vars
<1> QED BY <1>1, <1>2, <1>3, <1>4

-----------------------------------------------------------------------------
(* The controller's lock.  A prepare is awaited by the command loop, so    *)
(* there is never more than one of them at the lock, and none while the    *)
(* loop does anything else; a burst holds the lock until it is answered;   *)
(* the shutdown waits for all of them before it closes the device.         *)
NoPrepares(q) == \A i \in 1 .. Len(q) : q[i].op # "prepare"
OnePrepare(q) == \A i, j \in 1 .. Len(q) : q[i].op = "prepare" /\ q[j].op = "prepare" => i = j

QueueInv ==
    /\ OnePrepare(lockQueue) /\ (main # "preparing" => NoPrepares(lockQueue))
    /\ worker # "idle" => Holds("transmit")
    /\ main \in {"closing", "done"} => spawned = <<>> /\ lockQueue = <<>>
    /\ closed => main = "done"

(* Who leaves the lock, leaves the others in their order.                  *)
LEMMA Leave ==
    ASSUME NEW q \in Seq(Request), q # <<>>
    PROVE  /\ OnePrepare(q) => OnePrepare(Tail(q))
           /\ NoPrepares(q) => NoPrepares(Tail(q)) /\ Head(q).op # "prepare"
           /\ OnePrepare(q) /\ Head(q).op = "prepare" => NoPrepares(Tail(q))
<1>1. /\ Len(Tail(q)) = Len(q) - 1 /\ Len(q) \in Nat \ {0} /\ Head(q) = q[1]
      /\ \A i \in 1 .. Len(q) - 1 : Tail(q)[i] = q[i + 1]
  BY HeadTailProperties, EmptySeq
<1> QED BY <1>1 DEF OnePrepare, NoPrepares

(* Who comes to the lock waits behind the others.                          *)
LEMMA Join ==
    ASSUME NEW q \in Seq(Request), NEW r \in Request
    PROVE  /\ r.op = "transmit" /\ OnePrepare(q) => OnePrepare(Append(q, r))
           /\ r.op = "transmit" /\ NoPrepares(q) => NoPrepares(Append(q, r))
           /\ NoPrepares(q) => OnePrepare(Append(q, r))
           /\ q # <<>> => Append(q, r) # <<>> /\ Head(Append(q, r)) = Head(q)
<1>1. /\ Len(Append(q, r)) = Len(q) + 1 /\ Len(q) \in Nat /\ Append(q, r)[Len(q) + 1] = r
      /\ \A i \in 1 .. Len(q) : Append(q, r)[i] = q[i]
      /\ Append(q, r) # <<>>
  BY AppendProperties
<1>2. q # <<>> => Head(Append(q, r)) = Head(q)
  BY HeadTailAppend
<1> QED BY <1>1, <1>2 DEF OnePrepare, NoPrepares

(* Nobody is at the lock of an app that starts.                            *)
LEMMA QueueInit == Init => QueueInv
BY DEF Init, QueueInv, OnePrepare, NoPrepares

(* The command loop sends a prepare to the lock only when no other is      *)
(* there, because it awaits each.                                          *)
LEMMA QueueLoop == ASSUME TypeInv, QueueInv, LoopStep PROVE QueueInv'
<1> USE DEF QueueInv, Holds, Read
<1>1. CASE OnPrepare
  <2>1. lockQueue \in Seq(Request) /\ Head(inbox) \in Request
    <3>1. Head(inbox) \in Command /\ Head(inbox).op = "prepare"
      BY <1>1, HeadTail DEF OnPrepare, TypeInv, DataType
    <3> QED BY <3>1, Requests DEF TypeInv, DataType
  <2>2. lockQueue' = Append(lockQueue, Head(inbox)) /\ NoPrepares(lockQueue)
    BY <1>1 DEF OnPrepare
  <2>3. OnePrepare(lockQueue')
    BY <2>1, <2>2, Join
  <2>4. lockQueue # <<>> => lockQueue' # <<>> /\ Head(lockQueue') = Head(lockQueue)
    BY <2>1, <2>2, Join
  <2> QED BY <1>1, <2>3, <2>4 DEF OnPrepare
<1>2. CASE OnUnresolved \/ OnTransmit \/ OnResume \/ OnStop \/ OnEngineEof
  BY <1>2 DEF OnUnresolved, OnTransmit, OnResume, OnStop, OnEngineEof, OnePrepare, NoPrepares
<1> QED BY <1>1, <1>2 DEF LoopStep

(* The holder of the lock leaves it when its answer was sent.              *)
LEMMA QueueController == ASSUME TypeInv, QueueInv, ControllerStep PROVE QueueInv'
<1> USE DEF QueueInv, Holds
<1>1. lockQueue \in Seq(Request) /\ spawned \in Seq(Frames)
  BY DEF TypeInv, DataType
<1>2. CASE BeginPrepare
  BY <1>2 DEF BeginPrepare, OnePrepare, NoPrepares
<1>3. CASE Stage \/ RejectStage
  <2>1. /\ lockQueue # <<>> /\ Head(lockQueue).op = "prepare" /\ lockQueue' = Tail(lockQueue)
        /\ main' = "reading" /\ UNCHANGED <<worker, spawned, closed>>
    BY <1>3 DEF Stage, RejectStage, PrepareDone
  <2>2. main = "preparing"
    BY <1>1, <2>1, Leave
  <2>3. OnePrepare(lockQueue') /\ NoPrepares(lockQueue')
    BY <1>1, <2>1, Leave
  <2> QED BY <2>1, <2>2, <2>3
<1>4. CASE TaskStarts
  <2>1. spawned # <<>> /\ Transmit(Head(spawned)) \in Request
    <3>1. spawned # <<>>
      BY <1>4 DEF TaskStarts
    <3>2. Head(spawned) \in Frames
      BY <1>1, <3>1, HeadTail
    <3> QED BY <3>1, <3>2 DEF Transmit, Request
  <2>2. /\ lockQueue' = Append(lockQueue, Transmit(Head(spawned)))
        /\ Transmit(Head(spawned)).op = "transmit" /\ UNCHANGED <<worker, main, closed>>
    BY <1>4 DEF TaskStarts, Transmit
  <2>3. OnePrepare(lockQueue') /\ (NoPrepares(lockQueue) => NoPrepares(lockQueue'))
    BY <1>1, <2>1, <2>2, Join
  <2>4. lockQueue # <<>> => lockQueue' # <<>> /\ Head(lockQueue') = Head(lockQueue)
    BY <1>1, <2>1, <2>2, Join
  <2> QED BY <2>1, <2>2, <2>3, <2>4
<1>5. CASE TransmitRefuses \/ TransmitCompletes
  <2>1. /\ lockQueue # <<>> /\ lockQueue' = Tail(lockQueue) /\ worker' = "idle"
        /\ UNCHANGED <<main, spawned, closed>>
    BY <1>5 DEF TransmitRefuses, TransmitCompletes, Complete
  <2>2. OnePrepare(lockQueue') /\ (NoPrepares(lockQueue) => NoPrepares(lockQueue'))
    BY <1>1, <2>1, Leave
  <2> QED BY <2>1, <2>2
<1>6. CASE TransmitBegins
  BY <1>6 DEF TransmitBegins, OnePrepare, NoPrepares
<1> QED BY <1>2, <1>3, <1>4, <1>5, <1>6 DEF ControllerStep

(* Nobody else touches the lock, and the device is closed at the very end. *)
LEMMA QueueRest ==
    ASSUME TypeInv, QueueInv,
           ClientStep \/ WorkerStep \/ ResumeStep \/ ReaderStep \/ ShutdownStep \/ UNCHANGED vars
    PROVE  QueueInv'
<1> USE DEF QueueInv, Holds, OnePrepare, NoPrepares
<1>1. CASE ClientStep
  BY <1>1 DEF ClientStep, ClientSends
<1>2. CASE WorkerStep
  <2>1. worker # "idle" /\ UNCHANGED <<lockQueue, spawned, main, closed>>
    BY <1>2, Zenon DEF WorkerStep, Claim, StopRx, OpenTx, PollAbort, WriteChunk, Cleanup, Release
  <2> QED BY <2>1
<1>3. CASE ResumeStep
  BY <1>3 DEF ResumeStep, ResumeLock, ResumeFails, ResumeUnlock, ResumeClear
<1>4. CASE ReaderStep
  BY <1>4 DEF ReaderStep, ReaderChecks, ReaderLocks, ReaderReads
<1>5. CASE ShutdownStep
  BY <1>5 DEF ShutdownStep, RequestStop, Settle, Close
<1>6. CASE UNCHANGED vars
  BY <1>6 DEF vars
<1> QED BY <1>1, <1>2, <1>3, <1>4, <1>5, <1>6

(* The types and the lock together are preserved by every step.            *)
LEMMA QueueStep == TypeInv /\ QueueInv /\ [Next]_vars => (TypeInv /\ QueueInv)'
<1> SUFFICES ASSUME TypeInv, QueueInv, [Next]_vars PROVE (TypeInv /\ QueueInv)'
  OBVIOUS
<1>1. CASE ClientStep
  BY <1>1, TypeClient, QueueRest
<1>2. CASE LoopStep
  BY <1>2, TypeLoop, QueueLoop
<1>3. CASE ControllerStep
  BY <1>3, TypeController, QueueController
<1>4. CASE WorkerStep
  <2>1. worker # "idle" => Holds("transmit")
    BY DEF QueueInv
  <2> QED BY <1>4, <2>1, TypeWorker, QueueRest
<1>5. CASE ResumeStep \/ ReaderStep \/ ShutdownStep \/ UNCHANGED vars
  BY <1>5, TypeDevice, QueueRest
<1> QED BY <1>1, <1>2, <1>3, <1>4, <1>5 DEF Next, Finished

(* Every variable of the uplink keeps its type: among others a burst never *)
(* takes more chunks than it has, and each client's commands are bounded.  *)
THEOREM TypeCorrect == Spec => []TypeOK
<1>1. Init => TypeInv /\ QueueInv /\ FlagType
  <2>1. Init => FlagType
    BY Zenon DEF Init, FlagType
  <2> QED BY <2>1, TypeInit, QueueInit
<1>2. TypeInv /\ QueueInv /\ FlagType => TypeOK
  BY DEF TypeInv, DataType, FlagType, TypeOK
<1> QED BY <1>1, <1>2, QueueStep, FlagStep, PTL DEF Spec

-----------------------------------------------------------------------------
(* The device lock.  Whoever holds it is at a known place, the burst       *)
(* worker holds it from the moment RX is stopped until its cleanup is done,*)
(* and only the holder touches the streams.                                *)
LockInv ==
    /\ device = "worker" <=>
         worker \in {"rx-stopped", "writing", "polled", "cleanup", "releasing"}
    /\ device = "resume" <=> main = "resume-locked"
    /\ device = "reader" <=> reader = "reading"
    /\ worker \in {"rx-stopped", "writing", "polled", "cleanup"} => ~rxOn
    /\ txOn => worker \in {"writing", "polled", "cleanup"}

(* An idle device is locked by nobody.                                     *)
LEMMA LockInit == Init => LockInv
BY DEF Init, LockInv

(* The lock is taken when it is free and given back by its holder; RX is   *)
(* restarted only under it.                                                *)
LEMMA LockStep == TypeInv /\ QueueInv /\ LockInv /\ [Next]_vars => LockInv'
<1> SUFFICES ASSUME TypeInv, QueueInv, LockInv, [Next]_vars PROVE LockInv'
  OBVIOUS
<1> USE DEF LockInv
<1>1. CASE ClientStep
  BY <1>1 DEF ClientStep, ClientSends
<1>2. CASE LoopStep
  BY <1>2 DEF LoopStep, OnPrepare, OnUnresolved, OnTransmit, OnResume, OnStop, OnEngineEof, Read
<1>3. CASE Stage \/ RejectStage
  <2>1. main = "preparing"
    <3>1. lockQueue \in Seq(Request) /\ lockQueue # <<>> /\ Head(lockQueue).op = "prepare"
      BY <1>3 DEF Stage, RejectStage, Holds, TypeInv, DataType
    <3> QED BY <3>1, Leave DEF QueueInv
  <2>2. main' = "reading" /\ UNCHANGED <<device, worker, reader, rxOn, txOn>>
    BY <1>3 DEF Stage, RejectStage, PrepareDone
  <2> QED BY <2>1, <2>2
<1>4. CASE BeginPrepare \/ TaskStarts \/ TransmitRefuses \/ TransmitBegins \/ TransmitCompletes
  BY <1>4 DEF BeginPrepare, TaskStarts, TransmitRefuses, TransmitBegins, TransmitCompletes
<1>5. CASE WorkerStep
  <2>1. CASE Claim
    BY <2>1 DEF Claim
  <2>2. CASE StopRx
    BY <2>2 DEF StopRx
  <2>3. CASE OpenTx
    BY <2>3 DEF OpenTx
  <2>4. CASE PollAbort
    BY <2>4 DEF PollAbort
  <2>5. CASE WriteChunk
    BY <2>5 DEF WriteChunk
  <2>6. CASE Cleanup
    BY <2>6 DEF Cleanup
  <2>7. CASE Release
    BY <2>7 DEF Release
  <2> QED BY <1>5, <2>1, <2>2, <2>3, <2>4, <2>5, <2>6, <2>7 DEF WorkerStep
<1>6. CASE ResumeStep
  BY <1>6 DEF ResumeStep, ResumeLock, ResumeFails, ResumeUnlock, ResumeClear
<1>7. CASE ReaderStep
  BY <1>7 DEF ReaderStep, ReaderChecks, ReaderLocks, ReaderReads
<1>8. CASE ShutdownStep
  BY <1>8 DEF ShutdownStep, RequestStop, Settle, Close
<1>9. CASE UNCHANGED vars
  BY <1>9 DEF vars
<1> QED BY <1>1, <1>2, <1>3, <1>4, <1>5, <1>6, <1>7, <1>8, <1>9
         DEF Next, ControllerStep, Finished

(* Break before make: RX and TX never stream together on the one device,   *)
(* however resume_rx, bursts, the reader and the shutdown interleave.      *)
THEOREM HalfDuplexCorrect == Spec => []HalfDuplex
<1>1. Init => TypeInv /\ QueueInv /\ LockInv
  BY TypeInit, QueueInit, LockInit
<1>2. LockInv => HalfDuplex
  BY DEF LockInv, HalfDuplex
<1> QED BY <1>1, <1>2, QueueStep, LockStep, PTL DEF Spec

(* The shutdown closes the device only when no burst is on it or can get   *)
(* there any more.                                                         *)
THEOREM NoCloseUnderBurstCorrect == Spec => []NoCloseUnderBurst
<1>1. Init => TypeInv /\ QueueInv /\ LockInv
  BY TypeInit, QueueInit, LockInit
<1>2. QueueInv /\ LockInv => NoCloseUnderBurst
  BY DEF QueueInv, LockInv, Holds, NoCloseUnderBurst
<1> QED BY <1>1, <1>2, QueueStep, LockStep, PTL DEF Spec

-----------------------------------------------------------------------------
(* Every acknowledgement covers at most one flight: it is spent, or still  *)
(* staged, or with the burst that holds the lock and has not begun.        *)
Unflown(f) == worker # "idle" /\ Head(lockQueue).frame = f /\ written = 0
              /\ worker \notin {"cleanup", "releasing", "returned"}

LicenceInv ==
    \A f \in Frames : flown[f] + (IF staged = f THEN 1 ELSE 0)
                               + (IF Unflown(f) THEN 1 ELSE 0) <= licence[f]

(* Nothing was acknowledged and nothing has flown.                         *)
LEMMA LicenceInit == Init => LicenceInv
BY UplinkAssumption DEF Init, LicenceInv, Unflown

(* A step that spends no acknowledgement keeps the account.                *)
LEMMA Unspent ==
    ASSUME TypeInv, LicenceInv, UNCHANGED <<flown, licence>>,
           NEW f \in Frames, staged' # f \/ staged' = staged, Unflown(f)' => Unflown(f)
    PROVE  flown'[f] + (IF staged' = f THEN 1 ELSE 0) + (IF Unflown(f)' THEN 1 ELSE 0)
             <= licence'[f]
<1>1. flown[f] \in Nat /\ licence[f] \in Nat
  BY DEF TypeInv, DataType
<1>2. flown[f] + (IF staged = f THEN 1 ELSE 0) + (IF Unflown(f) THEN 1 ELSE 0) <= licence[f]
  BY DEF LicenceInv
<1>3. flown'[f] = flown[f] /\ licence'[f] = licence[f] /\ (staged' = f => staged = f)
  OBVIOUS
<1> QED BY <1>1, <1>2, <1>3

(* Staging an acknowledged frame adds one to its account; the burst takes  *)
(* it over from the stage, and its first chunk spends it.                  *)
LEMMA LicenceStep == TypeInv /\ QueueInv /\ LicenceInv /\ [Next]_vars => LicenceInv'
<1> SUFFICES ASSUME TypeInv, QueueInv, LicenceInv, [Next]_vars, NEW f \in Frames
    PROVE  flown'[f] + (IF staged' = f THEN 1 ELSE 0) + (IF Unflown(f)' THEN 1 ELSE 0)
             <= licence'[f]
  BY DEF LicenceInv
<1>f. f # NoFrame
  BY UplinkAssumption
<1>t. flown[f] \in Nat /\ licence[f] \in Nat
  BY DEF TypeInv, DataType
<1>l. flown[f] + (IF staged = f THEN 1 ELSE 0) + (IF Unflown(f) THEN 1 ELSE 0) <= licence[f]
  BY DEF LicenceInv
<1>h. worker # "idle" => lockQueue # <<>> /\ Head(lockQueue).op = "transmit"
  BY DEF QueueInv, Holds
<1>1. CASE UNCHANGED <<flown, licence, staged, worker, written, lockQueue>>
  <2>1. Unflown(f)' = Unflown(f)
    BY <1>1 DEF Unflown
  <2> QED BY <1>1, <2>1, Unspent
<1>2. CASE OnPrepare \/ TaskStarts
  <2>1. PICK r : r \in Request /\ lockQueue' = Append(lockQueue, r)
    <3>1. CASE OnPrepare
      <4>1. inbox # <<>> /\ Head(inbox).op = "prepare" /\ inbox \in Seq(Command)
        BY <3>1 DEF OnPrepare, Read, TypeInv, DataType
      <4> QED BY <3>1, <4>1, HeadTail, Requests DEF OnPrepare
    <3>2. CASE TaskStarts
      <4>1. Head(spawned) \in Frames
        BY <3>2, HeadTail DEF TaskStarts, TypeInv, DataType
      <4> QED BY <3>2, <4>1 DEF TaskStarts, Transmit, Request
    <3> QED BY <1>2, <3>1, <3>2
  <2>2. UNCHANGED <<flown, licence, staged, worker, written>>
    BY <1>2 DEF OnPrepare, TaskStarts
  <2>3. lockQueue # <<>> => Head(lockQueue') = Head(lockQueue)
    BY <2>1, Join DEF TypeInv, DataType
  <2>4. Unflown(f)' => Unflown(f)
    BY <1>h, <2>2, <2>3 DEF Unflown
  <2> QED BY <2>2, <2>4, Unspent
<1>3. CASE BeginPrepare
  <2>1. UNCHANGED <<flown, licence, worker, written, lockQueue>> /\ staged' = NoFrame
    BY <1>3 DEF BeginPrepare
  <2>2. Unflown(f)' => Unflown(f)
    BY <2>1 DEF Unflown
  <2> QED BY <1>f, <2>1, <2>2, Unspent
<1>4. CASE Stage
  <2> DEFINE g == Head(lockQueue).frame
  <2>1. /\ lockQueue # <<>> /\ Head(lockQueue).op = "prepare"
        /\ staged' = g /\ licence' = [licence EXCEPT ![g] = @ + 1]
        /\ UNCHANGED <<flown, worker>>
    BY <1>4 DEF Stage, Holds, PrepareDone
  <2>2. worker' = "idle" /\ ~Unflown(f)'
    BY <1>h, <2>1 DEF Unflown
  <2>3. licence'[f] = IF f = g THEN licence[f] + 1 ELSE licence[f]
    BY <2>1 DEF TypeInv, DataType
  <2>4. flown'[f] = flown[f] /\ (staged' = f => f = g)
    BY <2>1
  <2> HIDE DEF g
  <2> QED BY <1>t, <1>l, <2>2, <2>3, <2>4
<1>5. CASE RejectStage \/ TransmitRefuses \/ TransmitCompletes
  <2>1. UNCHANGED <<flown, licence>> /\ (staged' = staged \/ staged' = NoFrame)
    BY <1>5 DEF RejectStage, PrepareDone, TransmitRefuses, TransmitCompletes
  <2>2. worker' = "idle"
    BY <1>5, <1>h DEF RejectStage, PrepareDone, Holds, TransmitRefuses, TransmitCompletes
  <2>3. ~Unflown(f)'
    BY <2>2 DEF Unflown
  <2> QED BY <1>f, <2>1, <2>3, Unspent
<1>6. CASE TransmitBegins
  <2> DEFINE g == Head(lockQueue).frame
  <2>1. /\ worker = "idle" /\ staged = g /\ staged' = NoFrame
        /\ UNCHANGED <<flown, licence, lockQueue>>
    BY <1>6 DEF TransmitBegins
  <2>2. ~Unflown(f) /\ (Unflown(f)' => f = staged)
    BY <2>1 DEF Unflown
  <2> QED BY <1>f, <1>t, <1>l, <2>1, <2>2
<1>7. CASE Claim \/ StopRx \/ OpenTx \/ PollAbort \/ Cleanup \/ Release
  <2>1. UNCHANGED <<flown, licence, staged, written, lockQueue>>
    BY <1>7 DEF Claim, StopRx, OpenTx, PollAbort, Cleanup, Release
  <2>2. \/ worker \notin {"idle", "cleanup", "releasing", "returned"}
        \/ worker' \in {"cleanup", "releasing", "returned"}
    BY <1>7 DEF Claim, StopRx, OpenTx, PollAbort, Cleanup, Release
  <2>3. Unflown(f)' => Unflown(f)
    BY <2>1, <2>2 DEF Unflown
  <2> QED BY <2>1, <2>3, Unspent
<1>8. CASE WriteChunk
  <2> DEFINE g == Head(lockQueue).frame
  <2>1. worker = "polled" /\ UNCHANGED <<licence, staged, lockQueue>>
    BY <1>8 DEF WriteChunk
  <2>2. CASE worker' = "cleanup" /\ UNCHANGED <<written, late, flown>>
    <3>1. ~Unflown(f)'
      BY <2>2 DEF Unflown
    <3> QED BY <2>1, <2>2, <3>1, Unspent
  <2>3. CASE /\ written' = written + 1
             /\ flown' = IF written = 0 THEN [flown EXCEPT ![g] = @ + 1] ELSE flown
    <3>1. ~Unflown(f)'
      BY <2>3 DEF Unflown, TypeInv, DataType
    <3>2. CASE written # 0
      BY <2>1, <2>3, <3>1, <3>2, Unspent
    <3>3. CASE written = 0
      <4>1. Unflown(f) <=> f = g
        BY <2>1, <3>3 DEF Unflown
      <4>2. flown'[f] = IF f = g THEN flown[f] + 1 ELSE flown[f]
        BY <2>3, <3>3 DEF TypeInv, DataType
      <4> HIDE DEF g
      <4> QED BY <1>t, <1>l, <2>1, <3>1, <4>1, <4>2
    <3> QED BY <3>2, <3>3
  <2>4. \/ worker' = "cleanup" /\ UNCHANGED <<written, late, flown>>
        \/ /\ written' = written + 1
           /\ flown' = IF written = 0 THEN [flown EXCEPT ![g] = @ + 1] ELSE flown
    BY <1>8, Zenon DEF WriteChunk
  <2> QED BY <2>2, <2>3, <2>4
<1>9. CASE \/ ClientStep \/ OnUnresolved \/ OnTransmit \/ OnResume \/ OnStop \/ OnEngineEof
           \/ UNCHANGED vars
  BY <1>1, <1>9
     DEF ClientStep, ClientSends, OnUnresolved, OnTransmit, OnResume, OnStop, OnEngineEof, vars
<1>10. CASE ResumeStep
  BY <1>1, <1>10 DEF ResumeStep, ResumeLock, ResumeFails, ResumeUnlock, ResumeClear
<1>11. CASE ReaderStep
  BY <1>1, <1>11 DEF ReaderStep, ReaderChecks, ReaderLocks, ReaderReads
<1>12. CASE ShutdownStep
  BY <1>1, <1>12 DEF ShutdownStep, RequestStop, Settle, Close
<1> QED BY <1>2, <1>3, <1>4, <1>5, <1>6, <1>7, <1>8, <1>9, <1>10, <1>11, <1>12
         DEF Next, LoopStep, ControllerStep, WorkerStep, Finished

(* Nothing flies that was not staged and acknowledged for this flight: an  *)
(* acknowledgement flies at most once, whatever the client sends.          *)
THEOREM FliesOnlyLicensedCorrect == Spec => []FliesOnlyLicensed
<1>1. Init => TypeInv /\ QueueInv /\ LicenceInv
  BY TypeInit, QueueInit, LicenceInit
<1>2. TypeInv /\ QueueInv /\ LicenceInv => FliesOnlyLicensed
  <2> SUFFICES ASSUME TypeInv, QueueInv, LicenceInv, NEW f \in Frames PROVE flown[f] <= licence[f]
    BY DEF QueueInv, FliesOnlyLicensed
  <2>1. flown[f] \in Nat /\ licence[f] \in Nat
    BY DEF TypeInv, DataType
  <2>2. flown[f] + (IF staged = f THEN 1 ELSE 0) + (IF Unflown(f) THEN 1 ELSE 0) <= licence[f]
    BY DEF LicenceInv
  <2> QED BY <2>1, <2>2
<1> QED BY <1>1, <1>2, QueueStep, LicenceStep, PTL DEF Spec

-----------------------------------------------------------------------------
(* A chunk may be accepted after the stop only if its poll came before it; *)
(* the next poll sees the stop and ends the burst.                         *)
LateInv == late # 0 => late = 1 /\ stop /\ worker # "polled"

(* Nobody takes the stop back, and a poll that sees it hands out no more.  *)
LEMMA LateStep == TypeInv /\ FlagType /\ LateInv /\ [Next]_vars => LateInv'
<1> SUFFICES ASSUME TypeInv, FlagType, LateInv, [Next]_vars PROVE LateInv'
  OBVIOUS
<1> USE DEF LateInv
<1>1. CASE WriteChunk
  <2>1. late = 0 /\ stop' = stop /\ worker' # "polled"
    BY <1>1 DEF WriteChunk
  <2>2. late' = late \/ (late' = late + 1 /\ stop)
    BY <1>1, Zenon DEF WriteChunk
  <2> QED BY <2>1, <2>2
<1>2. CASE PollAbort
  <2>1. late' = late /\ stop' = stop /\ (stop => worker' # "polled")
    BY <1>2 DEF PollAbort
  <2> QED BY <2>1
<1>3. CASE TransmitBegins
  BY <1>3 DEF TransmitBegins
<1>4. CASE ControllerStep /\ ~TransmitBegins
  <2>1. late' = late /\ stop' = stop /\ (worker' = worker \/ worker' = "idle")
    BY <1>4, Zenon DEF ControllerStep, BeginPrepare, Stage, RejectStage, PrepareDone, TaskStarts,
       TransmitRefuses, TransmitCompletes
  <2> QED BY <2>1
<1>5. CASE Claim \/ StopRx \/ OpenTx \/ Cleanup \/ Release
  <2>1. late' = late /\ stop' = stop /\ worker' # "polled"
    BY <1>5 DEF Claim, StopRx, OpenTx, Cleanup, Release
  <2> QED BY <2>1
<1>6. CASE ClientStep \/ LoopStep \/ ResumeStep \/ ReaderStep \/ ShutdownStep
  <2>1. late' = late /\ worker' = worker
    BY <1>6 DEF ClientStep, ClientSends, LoopStep, OnPrepare, OnUnresolved, OnTransmit,
       OnResume, OnStop, OnEngineEof, ResumeStep, ResumeLock, ResumeFails, ResumeUnlock,
       ResumeClear, ReaderStep, ReaderChecks, ReaderLocks, ReaderReads, ShutdownStep, RequestStop, Settle, Close
  <2>2. stop => stop'
    BY <1>6, Zenon DEF ClientStep, ClientSends, LoopStep, OnPrepare, OnUnresolved, OnTransmit,
       OnResume, OnStop, OnEngineEof, ResumeStep, ResumeLock, ResumeFails, ResumeUnlock,
       ResumeClear, ReaderStep, ReaderChecks, ReaderLocks, ReaderReads, ShutdownStep, RequestStop, Settle, Close
  <2> QED BY <2>1, <2>2
<1>7. CASE UNCHANGED vars
  BY <1>7 DEF vars
<1> QED BY <1>1, <1>2, <1>3, <1>4, <1>5, <1>6, <1>7 DEF Next, WorkerStep, Finished

(* A stop stops the radiation: however long the burst, the device accepts  *)
(* at most the one chunk whose abort poll came before it.                  *)
THEOREM StopEndsBurstCorrect == Spec => []StopEndsBurst
<1>1. Init => TypeInv /\ QueueInv /\ FlagType /\ LateInv
  <2>1. Init => FlagType
    BY Zenon DEF Init, FlagType
  <2>2. Init => LateInv
    BY DEF Init, LateInv
  <2> QED BY <2>1, <2>2, TypeInit, QueueInit
<1>2. TypeInv /\ LateInv => StopEndsBurst
  BY DEF TypeInv, DataType, LateInv, StopEndsBurst
<1> QED BY <1>1, <1>2, QueueStep, FlagStep, LateStep, PTL DEF Spec

-----------------------------------------------------------------------------
(* The handshake.  An obedient client has one request under way and no     *)
(* more: it is the only one in its inbox, a stop apart, or it is being     *)
(* served, by a burst task, at the controller's lock or by a resume.       *)
Resuming == main \in {"resuming", "resume-locked", "resume-clear"}
Serving  == spawned # <<>> \/ lockQueue # <<>> \/ Resuming

HandshakeInv ==
    obedient =>
        /\ \A k \in 2 .. Len(inbox) : inbox[k].op = "stop"
        /\ client # "gone" => \A k \in 1 .. Len(inbox) : inbox[k].op # "stop"
        /\ inbox # <<>> /\ inbox[1].op # "stop" => ~Serving
        /\ client \in {"idle", "keyed", "quiet"} => inbox = <<>> /\ ~Serving
        /\ lockQueue # <<>> => Len(lockQueue) = 1 /\ spawned = <<>> /\ ~Resuming
        /\ spawned # <<>> => Len(spawned) = 1 /\ ~Resuming

(* Reading the inbox of an obedient client takes its only request, or a    *)
(* stop, and leaves nothing but a stop.                                    *)
LEMMA HandshakeRead ==
    ASSUME TypeInv, HandshakeInv, obedient, inbox # <<>>, inbox' = Tail(inbox)
    PROVE  /\ Head(inbox) = inbox[1]
           /\ \A k \in 1 .. Len(inbox') : inbox'[k].op = "stop"
           /\ client # "gone" => inbox' = <<>> /\ inbox[1].op # "stop"
<1>1. /\ inbox \in Seq(Command) /\ Len(inbox) \in Nat \ {0}
      /\ Tail(inbox) \in Seq(Command) /\ Len(Tail(inbox)) = Len(inbox) - 1
      /\ \A k \in 1 .. Len(Tail(inbox)) : Tail(inbox)[k] = inbox[k + 1]
  BY HeadTailProperties, EmptySeq DEF TypeInv, DataType
<1>2. Head(inbox) = inbox[1]
  BY <1>1
<1>3. \A k \in 1 .. Len(inbox') : inbox'[k].op = "stop"
  BY <1>1 DEF HandshakeInv
<1>4. ASSUME client # "gone" PROVE inbox' = <<>> /\ inbox[1].op # "stop"
  <2>1. \A k \in 1 .. Len(inbox) : inbox[k].op # "stop"
    BY <1>4 DEF HandshakeInv
  <2>2. Len(inbox) < 2
    BY <1>1, <2>1 DEF HandshakeInv
  <2>3. Len(inbox') \notin Nat \ {0} /\ inbox' \in Seq(Command)
    BY <1>1, <2>2
  <2> QED BY <1>1, <2>1, <2>3, EmptySeq
<1> QED BY <1>2, <1>3, <1>4

(* While a request is being served, the inbox of an obedient client that   *)
(* has not stopped is empty.                                               *)
LEMMA HandshakeServed ==
    ASSUME TypeInv, HandshakeInv, obedient, Serving
    PROVE  /\ client # "gone" => inbox = <<>>
           /\ inbox # <<>> => inbox[1].op = "stop"
<1>1. inbox # <<>> => Len(inbox) \in Nat \ {0}
  BY EmptySeq DEF TypeInv, DataType
<1> QED BY <1>1, SMTT(30) DEF HandshakeInv, TypeInv, DataType

(* A queue of one is empty when its head has left.                         *)
LEMMA OnlyOne ==
    ASSUME NEW S, NEW q \in Seq(S), Len(q) = 1
    PROVE  q # <<>> /\ Tail(q) = <<>>
<1>1. q # <<>>
  BY EmptySeq
<1>2. Tail(q) \in Seq(S) /\ Len(Tail(q)) \notin Nat \ {0}
  BY <1>1, HeadTailProperties
<1> QED BY <1>1, <1>2, EmptySeq

(* An empty queue that one joins has one.                                  *)
LEMMA FirstOne ==
    ASSUME NEW S, NEW e \in S
    PROVE  Len(Append(<<>>, e)) = 1 /\ Append(<<>>, e)[1] = e
OBVIOUS

(* No step gives an obedient client a second request under way: it sends   *)
(* one only when the answer to the last has reached it.                    *)
LEMMA HandshakeStep == TypeInv /\ QueueInv /\ HandshakeInv /\ [Next]_vars => HandshakeInv'
<1> SUFFICES ASSUME TypeInv, QueueInv, HandshakeInv, [Next]_vars, obedient' PROVE HandshakeInv'
  BY DEF HandshakeInv
<1>o. obedient' = obedient
  BY Zenon DEF Next, ClientStep, ClientSends, LoopStep, OnPrepare, OnUnresolved, OnTransmit,
     OnResume, OnStop, OnEngineEof, ControllerStep, BeginPrepare, Stage, RejectStage, PrepareDone, TaskStarts,
     TransmitRefuses, TransmitBegins, TransmitCompletes, WorkerStep, Claim, StopRx, OpenTx,
     PollAbort, WriteChunk, Cleanup, Release, ResumeStep, ResumeLock, ResumeFails, ResumeUnlock,
     ResumeClear, ReaderStep, ReaderChecks, ReaderLocks, ReaderReads, ShutdownStep, RequestStop,
     Settle, Close, Finished, vars
<1>b. obedient
  BY <1>o
<1>t. inbox \in Seq(Command) /\ spawned \in Seq(Frames) /\ lockQueue \in Seq(Request)
  BY DEF TypeInv, DataType
<1>1. ASSUME NEW c \in Command, ClientSends(c) PROVE HandshakeInv'
  <2>1. /\ inbox' = Append(inbox, c) /\ client # "gone"
        /\ UNCHANGED <<main, spawned, lockQueue>> /\ client' = Waiting[c.op]
    BY <1>1 DEF ClientSends, Send
  <2>2. Serving' = Serving /\ Resuming' = Resuming
    BY <2>1 DEF Serving, Resuming
  <2>3. CASE c.op = "stop"
    <3>1. client' = "gone"
      BY <2>1, <2>3 DEF Waiting
    <3>2. /\ Len(inbox') = Len(inbox) + 1 /\ Len(inbox) \in Nat /\ inbox'[Len(inbox) + 1] = c
          /\ \A k \in 1 .. Len(inbox) : inbox'[k] = inbox[k]
      BY <1>t, <2>1, AppendProperties
    <3>3. \A k \in 2 .. Len(inbox') : inbox'[k].op = "stop"
      BY <1>b, <2>3, <3>2 DEF HandshakeInv
    <3>4. inbox' # <<>> /\ inbox'[1].op # "stop" => ~Serving
      <4>1. CASE Len(inbox) = 0
        BY <2>3, <3>2, <4>1
      <4>2. CASE Len(inbox) # 0
        <5>1. inbox # <<>> /\ inbox'[1] = inbox[1]
          BY <1>t, <3>2, <4>2, EmptySeq
        <5> QED BY <1>b, <5>1 DEF HandshakeInv
      <4> QED BY <4>1, <4>2
    <3> QED BY <1>b, <2>1, <2>2, <3>1, <3>3, <3>4 DEF HandshakeInv
  <2>4. CASE c.op # "stop"
    <3>1. c.op \in {"prepare", "transmit", "resume"} /\ client \in {"idle", "keyed", "quiet"}
      BY <1>1, <1>b, <2>4 DEF ClientSends, MaySend, Command, Request
    <3>2. client' \in {"preparing", "transmitting", "resuming"}
      BY <2>1, <3>1 DEF Waiting
    <3>3. inbox = <<>> /\ ~Serving
      BY <1>b, <3>1 DEF HandshakeInv
    <3>4. Len(inbox') = 1 /\ inbox'[1] = c
      BY <2>1, <3>3, FirstOne
    <3> QED BY <2>1, <2>2, <2>4, <3>2, <3>3, <3>4 DEF HandshakeInv, Serving
  <2> QED BY <2>3, <2>4
<1>2. ASSUME inbox # <<>>, inbox' = Tail(inbox), client' = client
      PROVE  /\ \A k \in 2 .. Len(inbox') : inbox'[k].op = "stop"
             /\ client' # "gone" => \A k \in 1 .. Len(inbox') : inbox'[k].op # "stop"
             /\ ~(inbox' # <<>> /\ inbox'[1].op # "stop")
             /\ client' \notin {"idle", "keyed", "quiet"}
             /\ Head(inbox) = inbox[1] /\ (Head(inbox).op # "stop" => ~Serving)
  <2>1. /\ Head(inbox) = inbox[1]
        /\ \A k \in 1 .. Len(inbox') : inbox'[k].op = "stop"
        /\ client # "gone" => inbox' = <<>> /\ inbox[1].op # "stop"
    BY <1>b, <1>2, HandshakeRead
  <2>2. inbox' \in Seq(Command)
    BY <1>t, <1>2, HeadTail
  <2>3. inbox' # <<>> => Len(inbox') \in Nat \ {0}
    BY <2>2, EmptySeq
  <2>4. Len(<<>>) = 0
    OBVIOUS
  <2> QED BY <1>b, <1>2, <2>1, <2>3, <2>4 DEF HandshakeInv
<1>3. CASE OnPrepare
  <2>1. /\ inbox # <<>> /\ inbox' = Tail(inbox) /\ client' = client /\ spawned' = spawned
        /\ Head(inbox).op = "prepare" /\ lockQueue' = Append(lockQueue, Head(inbox))
        /\ main' = "preparing"
    BY <1>3 DEF OnPrepare, Read
  <2>2. spawned = <<>> /\ lockQueue = <<>> /\ ~Resuming'
    BY <1>2, <2>1 DEF Serving, Resuming
  <2>3. Len(lockQueue') = 1
    BY <1>t, <2>1, <2>2, HeadTail, FirstOne
  <2> QED BY <1>2, <2>1, <2>2, <2>3 DEF HandshakeInv
<1>4. CASE OnTransmit
  <2>1. /\ inbox # <<>> /\ inbox' = Tail(inbox) /\ client' = client /\ main' = main
        /\ Head(inbox).op = "transmit" /\ spawned' = Append(spawned, Head(inbox).frame)
        /\ lockQueue' = lockQueue
    BY <1>4 DEF OnTransmit, Read
  <2>2. spawned = <<>> /\ lockQueue = <<>> /\ ~Resuming'
    BY <1>2, <2>1 DEF Serving, Resuming
  <2>3. Len(spawned') = 1
    BY <2>1, <2>2, FirstOne
  <2> QED BY <1>2, <2>1, <2>2, <2>3 DEF HandshakeInv
<1>5. CASE OnResume
  <2>1. /\ inbox # <<>> /\ inbox' = Tail(inbox) /\ client' = client
        /\ Head(inbox).op = "resume" /\ UNCHANGED <<spawned, lockQueue>>
    BY <1>5 DEF OnResume, Read
  <2>2. spawned' = <<>> /\ lockQueue' = <<>>
    BY <1>2, <2>1 DEF Serving
  <2> QED BY <1>2, <2>1, <2>2 DEF HandshakeInv
<1>6. CASE OnStop
  <2>1. /\ inbox # <<>> /\ inbox' = Tail(inbox) /\ client' = client
        /\ main' = "settling" /\ UNCHANGED <<spawned, lockQueue>>
    BY <1>6 DEF OnStop, Read
  <2>2. ~Resuming'
    BY <2>1 DEF Resuming
  <2> QED BY <1>2, <1>b, <2>1, <2>2 DEF HandshakeInv
<1>13. CASE OnUnresolved
  <2>1. /\ inbox # <<>> /\ inbox' = Tail(inbox) /\ Head(inbox).op = "prepare"
        /\ client' = (IF client = "gone" THEN "gone" ELSE "idle")
        /\ UNCHANGED <<main, spawned, lockQueue>>
    BY <1>13 DEF OnUnresolved, Read, Hears
  <2>2. /\ Head(inbox) = inbox[1]
        /\ \A k \in 1 .. Len(inbox') : inbox'[k].op = "stop"
        /\ client # "gone" => inbox' = <<>>
    BY <1>b, <2>1, HandshakeRead
  <2>3. ~Serving /\ ~Serving'
    BY <1>b, <2>1, <2>2 DEF HandshakeInv, Serving, Resuming
  <2>4. spawned' = <<>> /\ lockQueue' = <<>>
    BY <2>3 DEF Serving
  <2>5. \A k \in 2 .. Len(inbox') : inbox'[k].op = "stop"
    <3>1. inbox' \in Seq(Command)
      BY <1>t, <2>1, HeadTail
    <3> QED BY <2>2, <3>1
  <2>6. client' # "gone" => inbox' = <<>> /\ \A k \in 1 .. Len(inbox') : inbox'[k].op # "stop"
    <3> SUFFICES ASSUME client' # "gone"
                 PROVE  inbox' = <<>> /\ \A k \in 1 .. Len(inbox') : inbox'[k].op # "stop"
      OBVIOUS
    <3>1. client # "gone"
      BY <2>1
    <3>2. inbox' = <<>>
      BY <2>2, <3>1, Zenon
    <3>3. 1 .. Len(inbox') = {}
      <4>1. Len(<<>>) = 0 /\ 1 .. 0 = {}
        OBVIOUS
      <4> QED BY <3>2, <4>1, Zenon
    <3> QED BY <3>2, <3>3, Zenon
  <2>7. client' \in {"gone", "idle"}
    BY <2>1
  <2> QED BY <2>3, <2>4, <2>5, <2>6, <2>7 DEF HandshakeInv
<1>7. CASE TaskStarts
  <2>1. /\ spawned # <<>> /\ spawned' = Tail(spawned) /\ UNCHANGED <<inbox, client, main>>
        /\ lockQueue' = Append(lockQueue, Transmit(Head(spawned)))
    BY <1>7 DEF TaskStarts
  <2>2. Len(spawned) = 1 /\ ~Resuming /\ lockQueue = <<>> /\ Serving
    BY <1>b, <2>1 DEF HandshakeInv, Serving
  <2>3. spawned' = <<>> /\ ~Resuming'
    BY <1>t, <2>1, <2>2, OnlyOne DEF Resuming
  <2>4. Len(lockQueue') = 1
    BY <2>1, <2>2, FirstOne
  <2> QED BY <1>b, <2>1, <2>2, <2>3, <2>4 DEF HandshakeInv
<1>8. ASSUME lockQueue # <<>>, lockQueue' = Tail(lockQueue), UNCHANGED <<inbox, spawned>>,
             main' \in {main, "reading"}, client' = client \/ client # "gone"
      PROVE  HandshakeInv'
  <2>1. Len(lockQueue) = 1 /\ spawned = <<>> /\ ~Resuming /\ Serving
    BY <1>b, <1>8 DEF HandshakeInv, Serving
  <2>2. lockQueue' = <<>> /\ spawned' = <<>> /\ ~Resuming' /\ ~Serving'
    BY <1>t, <1>8, <2>1, OnlyOne DEF Resuming, Serving
  <2>3. /\ client # "gone" => inbox = <<>>
        /\ inbox # <<>> => inbox[1].op = "stop"
    BY <1>b, <2>1, HandshakeServed
  <2>4. client \in {"idle", "keyed", "quiet"} => FALSE
    BY <1>b, <2>1 DEF HandshakeInv
  <2>5. Len(<<>>) = 0
    OBVIOUS
  <2> QED BY <1>8, <1>b, <2>2, <2>3, <2>4, <2>5 DEF HandshakeInv
<1>9. CASE Stage \/ RejectStage \/ TransmitRefuses \/ TransmitCompletes
  <2>1. /\ lockQueue # <<>> /\ lockQueue' = Tail(lockQueue) /\ UNCHANGED <<inbox, spawned>>
        /\ main' \in {main, "reading"} /\ (client' = client \/ client # "gone")
    BY <1>9 DEF Stage, RejectStage, PrepareDone, TransmitRefuses, TransmitCompletes, Complete,
       Holds, Hears
  <2> QED BY <1>8, <2>1
<1>10. CASE ResumeClear
  <2>1. /\ Resuming /\ ~Resuming' /\ UNCHANGED <<inbox, spawned, lockQueue>>
        /\ client' = client \/ client # "gone"
    BY <1>10 DEF ResumeClear, Resuming, Hears
  <2>2. Serving /\ spawned' = <<>> /\ lockQueue' = <<>> /\ ~Serving'
    BY <1>b, <2>1 DEF HandshakeInv, Serving
  <2>3. /\ client # "gone" => inbox = <<>>
        /\ inbox # <<>> => inbox[1].op = "stop"
    BY <1>b, <2>2, HandshakeServed
  <2>4. Len(<<>>) = 0
    OBVIOUS
  <2> QED BY <1>b, <2>1, <2>2, <2>3, <2>4 DEF HandshakeInv
<1>11. ASSUME UNCHANGED <<inbox, client, spawned, lockQueue>>, Resuming' => Resuming
       PROVE  HandshakeInv'
  BY <1>b, <1>11 DEF HandshakeInv, Serving
<1>12. CASE \/ OnEngineEof \/ BeginPrepare \/ TransmitBegins \/ WorkerStep
            \/ ResumeLock \/ ResumeFails \/ ResumeUnlock \/ ReaderStep \/ ShutdownStep
            \/ UNCHANGED vars
  <2>1. UNCHANGED <<inbox, client, spawned, lockQueue>>
    BY <1>12, Zenon DEF OnEngineEof, BeginPrepare, TransmitBegins, WorkerStep, Claim, StopRx,
       OpenTx, PollAbort, WriteChunk, Cleanup, Release, ResumeLock, ResumeFails, ResumeUnlock,
       ReaderStep, ReaderChecks, ReaderLocks, ReaderReads, ShutdownStep, RequestStop, Settle,
       Close, vars
  <2>2. main' = main \/ main' \in {"settling", "closing", "done"} \/ Resuming
    BY <1>12 DEF OnEngineEof, BeginPrepare, TransmitBegins, WorkerStep, Claim, StopRx,
       OpenTx, PollAbort, WriteChunk, Cleanup, Release, ResumeLock, ResumeFails, ResumeUnlock,
       ReaderStep, ReaderChecks, ReaderLocks, ReaderReads, ShutdownStep, RequestStop, Settle,
       Close, vars, Resuming
  <2> QED BY <1>11, <2>1, <2>2 DEF Resuming
<1> QED BY <1>1, <1>3, <1>4, <1>5, <1>6, <1>7, <1>9, <1>10, <1>12, <1>13
        DEF Next, ClientStep, LoopStep, ControllerStep, ResumeStep, Finished

(* With an obedient client no resume is under way while a burst is, so the *)
(* flag that a burst leaves is cleared only after RX was restarted.        *)
SuspendInv ==
    obedient =>
        /\ main \in {"resume-locked", "resume-clear"} => rxOn
        /\ worker = "releasing" => suspended
        /\ ~rxOn /\ device # "worker" /\ ~closed => suspended

(* RX is stopped under the device lock, which the burst gives back only    *)
(* with the flag up.                                                       *)
LEMMA SuspendStep ==
    TypeInv /\ QueueInv /\ LockInv /\ HandshakeInv /\ SuspendInv /\ [Next]_vars => SuspendInv'
<1> SUFFICES ASSUME TypeInv, QueueInv, LockInv, HandshakeInv, SuspendInv, [Next]_vars
             PROVE  SuspendInv'
  OBVIOUS
<1>o. obedient' = obedient
  BY Zenon DEF Next, ClientStep, ClientSends, LoopStep, OnPrepare, OnUnresolved, OnTransmit,
     OnResume, OnStop, OnEngineEof, ControllerStep, BeginPrepare, Stage, RejectStage, PrepareDone, TaskStarts,
     TransmitRefuses, TransmitBegins, TransmitCompletes, WorkerStep, Claim, StopRx, OpenTx,
     PollAbort, WriteChunk, Cleanup, Release, ResumeStep, ResumeLock, ResumeFails, ResumeUnlock,
     ResumeClear, ReaderStep, ReaderChecks, ReaderLocks, ReaderReads, ShutdownStep, RequestStop,
     Settle, Close, Finished, vars
<1>w. obedient /\ worker # "idle" => ~Resuming
  BY DEF QueueInv, Holds, HandshakeInv
<1> USE DEF SuspendInv
<1>1. CASE ClientStep
  BY <1>1 DEF ClientStep, ClientSends
<1>2. CASE LoopStep
  BY <1>2 DEF LoopStep, OnPrepare, OnUnresolved, OnTransmit, OnResume, OnStop, OnEngineEof
<1>3. CASE Stage \/ RejectStage
  BY <1>3 DEF Stage, RejectStage, PrepareDone
<1>4. CASE BeginPrepare \/ TaskStarts \/ TransmitRefuses \/ TransmitBegins \/ TransmitCompletes
  BY <1>4 DEF BeginPrepare, TaskStarts, TransmitRefuses, TransmitBegins, TransmitCompletes
<1>5. CASE WorkerStep
  <2>1. CASE Claim
    BY <2>1 DEF Claim
  <2>2. CASE StopRx
    BY <2>2, <1>w DEF StopRx, Resuming
  <2>3. CASE OpenTx
    BY <2>3 DEF OpenTx
  <2>4. CASE PollAbort
    BY <2>4 DEF PollAbort
  <2>5. CASE WriteChunk
    BY <2>5 DEF WriteChunk
  <2>6. CASE Cleanup
    BY <2>6 DEF Cleanup
  <2>7. CASE Release
    BY <2>7 DEF Release
  <2> QED BY <1>5, <2>1, <2>2, <2>3, <2>4, <2>5, <2>6, <2>7 DEF WorkerStep
<1>6. CASE ResumeStep
  <2>1. CASE ResumeLock
    BY <2>1 DEF ResumeLock
  <2>2. CASE ResumeFails
    BY <2>2 DEF ResumeFails
  <2>3. CASE ResumeUnlock
    BY <2>3 DEF ResumeUnlock
  <2>4. CASE ResumeClear
    BY <2>4, <1>w DEF ResumeClear, Resuming
  <2> QED BY <1>6, <2>1, <2>2, <2>3, <2>4 DEF ResumeStep
<1>7. CASE ReaderStep
  BY <1>7 DEF ReaderStep, ReaderChecks, ReaderLocks, ReaderReads, LockInv
<1>8. CASE ShutdownStep
  BY <1>8 DEF ShutdownStep, RequestStop, Settle, Close
<1>9. CASE UNCHANGED vars
  BY <1>9 DEF vars
<1> QED BY <1>1, <1>2, <1>3, <1>4, <1>5, <1>6, <1>7, <1>8, <1>9
         DEF Next, ControllerStep, Finished

(* Between bursts of an obedient client a stopped receiver is marked as    *)
(* suspended, so the reader parks instead of reading a dead stream.        *)
THEOREM StoppedRxIsSuspendedCorrect == Spec => []StoppedRxIsSuspended
<1>1. Init => TypeInv /\ QueueInv /\ LockInv /\ HandshakeInv /\ SuspendInv
  <2>1. Init => HandshakeInv /\ SuspendInv
    BY DEF Init, HandshakeInv, SuspendInv, Serving, Resuming
  <2> QED BY <2>1, TypeInit, QueueInit, LockInit
<1>2. SuspendInv => StoppedRxIsSuspended
  BY DEF SuspendInv, StoppedRxIsSuspended
<1> QED BY <1>1, <1>2, QueueStep, LockStep, HandshakeStep, SuspendStep, PTL DEF Spec

=============================================================================
