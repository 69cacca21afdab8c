------------------------- MODULE RxPipeline_proofs -------------------------
(* The receive pipeline for any number of chunks, any queue, any gate and  *)
(* any deferral: what the decoder is fed is what the recorder wrote,       *)
(* without a gap, and no burst is lost between two windows, however the    *)
(* reader thread, the event loop, the consumer, the decode task and a stop *)
(* interleave.                                                             *)
EXTENDS RxPipeline, SequenceTheorems, FiniteSetTheorems, DataLemmas, TLAPS

USE DEF readerVars, engineVars, decoderVars, emitVars, envVars

(* The head of a queue and what follows it, item by item.                  *)
LEMMA HeadTail ==
    ASSUME NEW S, NEW q \in Seq(S), q # <<>>
    PROVE  /\ Len(q) \in Nat \ {0} /\ Head(q) = q[1] /\ Head(q) \in S
           /\ Tail(q) \in Seq(S) /\ Len(Tail(q)) = Len(q) - 1
           /\ \A k \in 1 .. Len(q) - 1 : Tail(q)[k] = q[k + 1]
BY HeadTailProperties, EmptySeq

(* An item comes behind the others.                                        *)
LEMMA Join ==
    ASSUME NEW S, NEW q \in Seq(S), NEW e \in S
    PROVE  /\ Append(q, e) \in Seq(S) /\ Len(q) \in Nat /\ Len(Append(q, e)) = Len(q) + 1
           /\ \A k \in 1 .. Len(q) : Append(q, e)[k] = q[k]
           /\ Append(q, e)[Len(q) + 1] = e
BY AppendProperties, LenProperties

(* The chunks of a queue q are those of a recording r that come after the  *)
(* first n of it; the end marker stands for none.                          *)
Follows(q, n, r) ==
    \A k \in 1 .. Len(q) : q[k] # EndOfStream => n + k <= Len(r) /\ q[k] = r[n + k]

(* A queue that follows n chunks follows n + 1 once its head is taken.     *)
LEMMA FollowsTail ==
    ASSUME NEW q \in Seq(Item), q # <<>>, NEW n \in Nat, NEW r \in Seq(Chunk), Follows(q, n, r)
    PROVE  Follows(Tail(q), n + 1, r)
<1> SUFFICES ASSUME NEW k \in 1 .. Len(Tail(q)), Tail(q)[k] # EndOfStream
    PROVE n + 1 + k <= Len(r) /\ Tail(q)[k] = r[n + 1 + k]
  BY DEF Follows
<1>1. k + 1 \in 1 .. Len(q) /\ Tail(q)[k] = q[k + 1] /\ k \in Nat
  BY HeadTail
<1>2. n + (k + 1) <= Len(r) /\ q[k + 1] = r[n + (k + 1)]
  BY <1>1 DEF Follows
<1>3. n + (k + 1) = n + 1 + k
  BY <1>1
<1> QED BY <1>1, <1>2, <1>3

(* The next recorded chunk, or the end marker, may join a queue.           *)
LEMMA FollowsAppend ==
    ASSUME NEW q \in Seq(Item), NEW n \in Nat, NEW r \in Seq(Chunk), NEW e \in Item,
           Follows(q, n, r),
           e # EndOfStream => n + Len(q) + 1 <= Len(r) /\ e = r[n + Len(q) + 1]
    PROVE  Follows(Append(q, e), n, r)
<1> SUFFICES ASSUME NEW k \in 1 .. Len(Append(q, e)), Append(q, e)[k] # EndOfStream
    PROVE n + k <= Len(r) /\ Append(q, e)[k] = r[n + k]
  BY DEF Follows
<1>1. CASE k \in 1 .. Len(q)
  <2>1. Append(q, e)[k] = q[k]
    BY <1>1, Join
  <2> QED BY <1>1, <2>1 DEF Follows
<1>2. CASE k = Len(q) + 1
  <2>1. Append(q, e)[k] = e /\ Len(q) \in Nat
    BY <1>2, Join
  <2>2. n + k = n + Len(q) + 1
    BY <1>2, <2>1
  <2> QED BY <2>1, <2>2
<1>3. k \in 1 .. Len(q) \/ k = Len(q) + 1
  BY Join
<1> QED BY <1>1, <1>2, <1>3

(* Recording one more chunk changes nothing about those before it.         *)
LEMMA FollowsGrow ==
    ASSUME NEW q \in Seq(Item), NEW n \in Nat, NEW r \in Seq(Chunk), NEW c \in Chunk,
           Follows(q, n, r)
    PROVE  Follows(q, n, Append(r, c))
<1> SUFFICES ASSUME NEW k \in 1 .. Len(q), q[k] # EndOfStream
    PROVE n + k <= Len(Append(r, c)) /\ q[k] = Append(r, c)[n + k]
  BY DEF Follows
<1>1. n + k <= Len(r) /\ q[k] = r[n + k] /\ Len(r) \in Nat /\ k \in Nat \ {0}
  BY DEF Follows
<1>2. n + k \in 1 .. Len(r)
  BY <1>1
<1> QED BY <1>1, <1>2, Join

-----------------------------------------------------------------------------
(* The part of the type invariant that the account of the chunks needs.    *)
FeedType ==
    /\ reader \in {"asking", "holding", "passed", "putting", "ending", "lastPut", "done"}
    /\ asked \in 0 .. NChunks /\ (reader \in {"holding", "passed"} => asked \in Chunk)
    /\ recorded \in Seq(Chunk) /\ pushed \in Seq(Chunk)
    /\ submitted \in Seq(Item) /\ queue \in Seq(Item)

(* The chunks are numbers and the end marker is none of them.              *)
LEMMA Chunks ==
    /\ EndOfStream \notin Chunk /\ EndOfStream \in Item /\ Chunk \subseteq Item
    /\ \A q \in Seq(Chunk) : q \in Seq(Item)
<1>1. EndOfStream \notin Chunk /\ EndOfStream \in Item /\ Chunk \subseteq Item
  BY RxAssumption DEF EndOfStream, Chunk, Item
<1>2. ASSUME NEW q \in Seq(Chunk) PROVE q \in Seq(Item)
  <2>1. Len(q) \in Nat /\ q \in [1 .. Len(q) -> Chunk]
    BY LenProperties
  <2>2. q \in [1 .. Len(q) -> Item]
    BY <1>1, <2>1
  <2> QED BY <2>1, <2>2, SeqDef
<1> QED BY <1>1, <1>2

(* The flag that makes a blocked put give up is never taken back.          *)
LEMMA QuitsStays == Quits /\ [Next]_vars => Quits'
<1> SUFFICES ASSUME Quits, [Next]_vars PROVE Quits'
  OBVIOUS
<1>1. CASE UNCHANGED <<app, stop, teardown>>
  BY <1>1, Zenon DEF Quits
<1>2. CASE StopRequested
  BY <1>2, Zenon DEF StopRequested, Quits
<1>3. CASE ArmTimesOut
  BY <1>3, Zenon DEF ArmTimesOut, EngineFrame, Quits
<1>4. CASE ConsumerLeaves
  BY <1>4, Zenon DEF ConsumerLeaves, TearDown, EngineFrame, Quits
<1>5. CASE Reader
  BY <1>1, <1>5, Zenon
     DEF Reader, ReaderStops, ReaderPasses, Puts, ReaderEnds, PutReturns, Bail, ReaderFrame
<1>6. CASE SourceYields \/ SourceReturns \/ (\E dies \in BOOLEAN : SourceEnds(dies)) \/ ReaderSkips
  BY <1>1, <1>6, Zenon DEF SourceYields, SourceReturns, SourceEnds, ReaderSkips, ReaderFrame
<1>7. CASE Loop \/ PeerGoes
  BY <1>1, <1>7, Zenon DEF Loop, Enqueue, Cancel, PeerGoes
<1>8. CASE Arm \/ Push \/ Joined
  BY <1>1, <1>8, Zenon DEF Arm, Push, Joined, EngineFrame
<1>9. CASE Flush \/ EmitLeftover \/ Verdict
  BY <1>1, <1>9, Zenon DEF Flush, EmitLeftover, Verdict, EngineFrame
<1>10. CASE DecodeTask
  BY <1>1, <1>10, Zenon DEF DecodeTask, DecodeWakes, DecodeTaskEnds, Decoded, DecodeRaises,
                            DecodeEmits, DecodeSleeps
<1>11. CASE UNCHANGED vars
  BY <1>1, <1>11, Zenon DEF vars
<1> QED BY <1>2, <1>3, <1>4, <1>5, <1>6, <1>7, <1>8, <1>9, <1>10, <1>11, Zenon
         DEF Next, Consumer, Finished

-----------------------------------------------------------------------------
(* While the engine still feeds the decoder, the recording is what was     *)
(* pushed, then what is queued, then what is being put, then the chunk the *)
(* reader has recorded and not put yet.  Only a put that was given up is   *)
(* missing from it, and after that one nothing is recorded any more.       *)
Live == main \in {"arming", "consuming"}

PutInv ==
    /\ reader \in {"asking", "holding", "ending", "putting"} => Len(submitted) <= 1
    /\ Len(submitted) <= 2 /\ (Len(submitted) = 2 => submitted[2] = EndOfStream)
    /\ reader \in {"asking", "holding"} /\ ~Quits => submitted = <<>>
    /\ reader = "passed" => submitted = <<>>

Fed == Len(pushed) + Len(queue)

FeedInv ==
    /\ Follows(pushed, 0, recorded)
    /\ Live => /\ Follows(queue, Len(pushed), recorded)
               /\ Follows(submitted, Fed, recorded)
               /\ reader \in {"asking", "holding"} /\ ~Quits => Fed = Len(recorded)
               /\ reader = "passed" => /\ Fed + 1 = Len(recorded)
                                       /\ recorded[Len(recorded)] = asked
               /\ reader = "putting" => Fed + Len(submitted) = Len(recorded)

RxInv == FeedType /\ PutInv /\ FeedInv

(* Nothing was recorded and nothing fed.                                   *)
LEMMA RxInit == Init => RxInv
BY RxAssumption DEF Init, RxInv, FeedType, PutInv, FeedInv, Follows, Fed

(* The steps of the reader thread, while it asks the source and tests the  *)
(* flags, and the chunk it records when they are clear.                    *)
LEMMA ReaderStep ==
    ASSUME RxInv, [Next]_vars, SourceYields \/ ReaderSkips \/ ReaderStops \/ ReaderPasses
                               \/ \E dies \in BOOLEAN : SourceEnds(dies)
    PROVE  RxInv'
<1> USE DEF RxInv, FeedType, PutInv, FeedInv, Fed, Live
<1>1. UNCHANGED <<queue, submitted, pushed, main>> /\ (Quits => Quits')
  BY QuitsStays DEF SourceYields, ReaderSkips, ReaderStops, ReaderPasses, SourceEnds, ReaderFrame
<1>2. CASE SourceYields
  <2>1. /\ reader = "asking" /\ reader' = "holding" /\ recorded' = recorded
        /\ asked' = asked + 1 /\ asked < NChunks
    BY <1>2 DEF SourceYields
  <2>2. asked' \in Chunk /\ asked' \in 0 .. NChunks
    BY <2>1, RxAssumption DEF Chunk
  <2> QED BY <1>1, <2>1, <2>2
<1>3. CASE ReaderSkips \/ ReaderStops \/ \E dies \in BOOLEAN : SourceEnds(dies)
  <2>1. /\ UNCHANGED <<asked, recorded>>
        /\ \/ reader = "holding" /\ reader' \in {"asking", "ending"}
           \/ reader = "asking" /\ reader' = "ending"
    BY <1>3 DEF ReaderSkips, ReaderStops, SourceEnds
  <2> QED BY <1>1, <2>1
<1>4. CASE ReaderPasses
  <2>1. /\ reader = "holding" /\ reader' = "passed" /\ ~Quits
        /\ recorded' = Append(recorded, asked) /\ asked' = asked
    BY <1>4 DEF ReaderPasses
  <2>2. submitted = <<>> /\ asked \in Chunk
    BY <2>1
  <2>3. /\ recorded' \in Seq(Chunk) /\ Len(recorded') = Len(recorded) + 1
        /\ recorded'[Len(recorded')] = asked
    BY <2>1, <2>2, Join
  <2>4. /\ Len(pushed) \in Nat /\ Len(queue) \in Nat /\ pushed \in Seq(Item)
    BY Chunks
  <2>5. Follows(pushed, 0, recorded')
    BY <2>1, <2>2, <2>4, FollowsGrow
  <2>6. Live => Follows(queue, Len(pushed), recorded')
    BY <2>1, <2>2, <2>4, FollowsGrow
  <2>7. Follows(submitted', Fed, recorded')
    BY <1>1, <2>2 DEF Follows
  <2> QED BY <1>1, <2>1, <2>2, <2>3, <2>5, <2>6, <2>7
<1> QED BY <1>2, <1>3, <1>4

(* The puts: the recorded chunk and the end marker are submitted, the      *)
(* reader goes on when the put returns, or gives up after a stop.          *)
LEMMA PutStep ==
    ASSUME RxInv, [Next]_vars, Puts \/ ReaderEnds \/ PutReturns \/ Bail
    PROVE  RxInv'
<1> USE DEF RxInv, FeedType, PutInv, FeedInv, Fed, Live
<1>1. UNCHANGED <<queue, pushed, main, recorded, asked>> /\ (Quits => Quits')
  BY QuitsStays DEF Puts, ReaderEnds, PutReturns, Bail, ReaderFrame
<1>2. Len(pushed) \in Nat /\ Len(queue) \in Nat /\ Len(recorded) \in Nat /\ Len(submitted) \in Nat
  BY LenProperties
<1>3. CASE Puts
  <2>1. reader = "passed" /\ reader' = "putting" /\ submitted' = Append(submitted, asked)
    BY <1>3 DEF Puts
  <2>2. submitted = <<>> /\ asked \in Chunk /\ asked \in Item
    BY <2>1, Chunks
  <2>3. submitted' \in Seq(Item) /\ Len(submitted') = 1
    BY <2>1, <2>2, Join
  <2>4. Live => Follows(submitted', Fed, recorded)
    <3>1. Live => Fed + Len(submitted) + 1 <= Len(recorded)
                  /\ asked = recorded[Fed + Len(submitted) + 1]
      BY <1>2, <2>1, <2>2
    <3>2. Fed \in Nat
      BY <1>2
    <3> QED BY <2>1, <2>2, <3>1, <3>2, FollowsAppend
  <2> QED BY <1>1, <1>2, <2>1, <2>2, <2>3, <2>4
<1>4. CASE ReaderEnds
  <2>1. /\ reader = "ending" /\ reader' = "lastPut"
        /\ submitted' = Append(submitted, EndOfStream)
    BY <1>4 DEF ReaderEnds
  <2>2. /\ submitted' \in Seq(Item) /\ Len(submitted') = Len(submitted) + 1
        /\ submitted'[Len(submitted) + 1] = EndOfStream
    BY <2>1, Chunks, Join
  <2>3. Live => Follows(submitted', Fed, recorded)
    <3>1. Fed \in Nat
      BY <1>2
    <3> QED BY <2>1, <3>1, Chunks, FollowsAppend
  <2> QED BY <1>1, <1>2, <2>1, <2>2, <2>3
<1>5. CASE PutReturns \/ Bail
  <2>1. /\ submitted' = submitted /\ (submitted = <<>> \/ Quits)
        /\ \/ reader = "putting" /\ reader' = "asking"
           \/ reader = "lastPut" /\ reader' = "done"
    BY <1>5 DEF PutReturns, Bail, AfterPut
  <2>2. submitted = <<>> => Fed + Len(submitted) = Fed
    BY <1>2
  <2>3. PutInv'
    BY <1>1, <2>1
  <2>4. FeedInv'
    BY <1>1, <2>1, <2>2
  <2> QED BY <1>1, <2>1, <2>3, <2>4
<1> QED BY <1>3, <1>4, <1>5

(* The event loop moves the next item onto the queue, or drops one whose   *)
(* put was given up.                                                       *)
LEMMA LoopStep == ASSUME RxInv, [Next]_vars, Loop PROVE RxInv'
<1> USE DEF RxInv, FeedType, PutInv, FeedInv, Fed, Live
<1>1. UNCHANGED <<pushed, main, recorded, asked, reader>> /\ (Quits => Quits')
  BY QuitsStays DEF Loop, Enqueue, Cancel
<1>2. Len(pushed) \in Nat /\ Len(queue) \in Nat /\ Len(recorded) \in Nat /\ Len(submitted) \in Nat
  BY LenProperties
<1>3. submitted # <<>> =>
        /\ Head(submitted) = submitted[1] /\ Head(submitted) \in Item
        /\ Tail(submitted) \in Seq(Item) /\ Len(Tail(submitted)) = Len(submitted) - 1
        /\ Len(submitted) \in Nat \ {0}
        /\ \A k \in 1 .. Len(submitted) - 1 : Tail(submitted)[k] = submitted[k + 1]
  BY HeadTail
<1>4. CASE Enqueue
  <2>1. /\ submitted # <<>> /\ submitted' = Tail(submitted)
        /\ queue' = Append(queue, Head(submitted))
    BY <1>4 DEF Enqueue
  <2>2. queue' \in Seq(Item) /\ Len(queue') = Len(queue) + 1
    BY <1>3, <2>1, Join
  <2>3. Live => Follows(queue', Len(pushed), recorded)
    <3>1. Live /\ submitted[1] # EndOfStream =>
             Fed + 1 <= Len(recorded) /\ submitted[1] = recorded[Fed + 1]
      BY <1>3, <2>1 DEF Follows
    <3> QED BY <1>2, <1>3, <2>1, <3>1, FollowsAppend
  <2>4. Live => Follows(submitted', Fed', recorded)
    <3>1. Fed' = Fed + 1 /\ Fed \in Nat
      BY <1>1, <1>2, <2>2
    <3> QED BY <2>1, <3>1, FollowsTail
  <2>5. Fed' + Len(submitted') = Fed + Len(submitted)
    BY <1>1, <1>2, <1>3, <2>1, <2>2
  <2>6. PutInv'
    <3>1. reader # "passed" /\ (reader \in {"asking", "holding"} => Quits')
      BY <1>1, <2>1
    <3>2. Len(submitted') <= 1 /\ Len(submitted') \in Nat /\ submitted' \in Seq(Item)
      BY <1>2, <1>3, <2>1
    <3> QED BY <1>1, <3>1, <3>2
  <2>7. submitted = <<>> \/ reader \in {"putting", "lastPut", "done", "ending"} \/ Quits
    BY <2>1
  <2> QED BY <1>1, <1>2, <1>3, <2>1, <2>2, <2>3, <2>4, <2>5, <2>6, <2>7
<1>5. CASE Cancel
  <2>1. submitted' = Tail(submitted) /\ queue' = queue
        /\ Len(submitted) - (IF reader \in {"putting", "lastPut"} THEN 1 ELSE 0) > 0
    BY <1>5 DEF Cancel, Cancelled, AfterPut
  <2>2. submitted # <<>> /\ reader # "putting" /\ reader # "passed"
    BY <1>2, <2>1
  <2>3. Len(submitted') \in 0 .. 1 /\ (Len(submitted') = 1 => submitted'[1] = EndOfStream)
    <3>1. Len(submitted) \in {1, 2} /\ (Len(submitted) = 2 => submitted[2] = EndOfStream)
      <4>1. Len(submitted) <= 2 /\ (Len(submitted) = 2 => submitted[2] = EndOfStream)
        BY Zenon
      <4>2. Len(submitted) \in Nat \ {0}
        BY <1>3, <2>2
      <4>3. \A n \in Nat \ {0} : n <= 2 => n \in {1, 2}
        OBVIOUS
      <4> QED BY <4>1, <4>2, <4>3, Zenon
    <3>2. Len(submitted') = Len(submitted) - 1
      BY <1>3, <2>1, <2>2
    <3>3. Len(submitted) = 2 => submitted'[1] = submitted[2]
      <4>1. Len(submitted) = 2 => 1 \in 1 .. Len(submitted) - 1 /\ 1 + 1 = 2
        OBVIOUS
      <4> QED BY <1>3, <2>1, <2>2, <4>1
    <3> HIDE DEF RxInv
    <3> QED BY <3>1, <3>2, <3>3
  <2>4. Follows(submitted', Fed', recorded)
    <3> SUFFICES ASSUME NEW k \in 1 .. Len(submitted'), submitted'[k] # EndOfStream PROVE FALSE
      BY DEF Follows
    <3>1. k = 1 /\ Len(submitted') = 1
      <4>1. submitted' \in Seq(Item)
        BY <1>3, <2>1, <2>2
      <4> HIDE DEF RxInv
      <4> QED BY <2>3, <4>1
    <3> HIDE DEF RxInv
    <3> QED BY <2>3, <3>1
  <2>5. PutInv'
    <3>1. reader \in {"asking", "holding"} => Quits'
      BY <1>1, <2>2
    <3>2. submitted' \in Seq(Item)
      BY <1>3, <2>1, <2>2
    <3>3. Len(submitted') <= 1 /\ Len(submitted') # 2
      <4>1. \A n \in 0 .. 1 : n <= 1 /\ n # 2
        OBVIOUS
      <4> HIDE DEF RxInv
      <4> QED BY <2>3, <4>1, Zenon
    <3>4. reader' = reader /\ reader # "passed"
      BY <1>1, <2>2
    <3> HIDE DEF RxInv
    <3> QED BY <3>1, <3>2, <3>3, <3>4
  <2> QED BY <1>1, <1>3, <2>1, <2>2, <2>4, <2>5
<1> QED BY <1>4, <1>5 DEF Loop

(* The consumer takes the head of the queue and pushes it; once it has     *)
(* left its loop it pushes nothing any more.                               *)
LEMMA ConsumerStep == ASSUME RxInv, [Next]_vars, Consumer PROVE RxInv'
<1> USE DEF RxInv, FeedType, PutInv, FeedInv, Fed, Live
<1>1. UNCHANGED <<recorded, asked, reader, submitted>> /\ (Quits => Quits')
  BY QuitsStays DEF Consumer, Arm, ArmTimesOut, Push, ConsumerLeaves, TearDown, Joined, Flush,
                    EmitLeftover, Verdict, EngineFrame
<1>2. Len(pushed) \in Nat /\ Len(queue) \in Nat /\ Len(recorded) \in Nat /\ Len(submitted) \in Nat
  BY LenProperties
<1>3. queue # <<>> =>
        /\ Head(queue) = queue[1] /\ Head(queue) \in Item
        /\ Tail(queue) \in Seq(Item) /\ Len(Tail(queue)) = Len(queue) - 1
        /\ Len(queue) \in Nat \ {0}
  BY HeadTail
<1>4. ASSUME /\ Live /\ queue # <<>> /\ Head(queue) # EndOfStream /\ main' = "consuming"
             /\ queue' = Tail(queue) /\ pushed' = Append(pushed, Head(queue))
      PROVE  RxInv'
  <2>1. Head(queue) \in Chunk
    BY <1>3, <1>4 DEF Item, EndOfStream
  <2>2. pushed' \in Seq(Chunk) /\ Len(pushed') = Len(pushed) + 1
    BY <1>4, <2>1, Join
  <2>3. Len(pushed) + 1 <= Len(recorded) /\ Head(queue) = recorded[Len(pushed) + 1]
    BY <1>3, <1>4 DEF Follows
  <2>4. Follows(pushed', 0, recorded)
    <3>1. pushed \in Seq(Item) /\ Head(queue) \in Item /\ 0 + Len(pushed) + 1 = Len(pushed) + 1
      BY <1>2, <1>3, <1>4, Chunks
    <3> QED BY <1>4, <2>3, <3>1, FollowsAppend
  <2>5. Follows(queue', Len(pushed'), recorded)
    BY <1>2, <1>4, <2>2, FollowsTail
  <2>6. Fed' = Fed
    BY <1>2, <1>3, <1>4, <2>2
  <2>7. PutInv'
    BY <1>1
  <2> QED BY <1>1, <1>3, <1>4, <2>2, <2>4, <2>5, <2>6, <2>7
<1>5. ASSUME main' \notin {"arming", "consuming"}, pushed' = pushed,
             queue' = queue \/ (queue # <<>> /\ queue' = Tail(queue))
      PROVE  RxInv'
  BY <1>1, <1>3, <1>5
<1>6. CASE Arm
  BY <1>4, <1>5, <1>6 DEF Arm
<1>7. CASE Push
  BY <1>4, <1>7 DEF Push
<1>8. CASE ArmTimesOut \/ ConsumerLeaves \/ Joined \/ Flush \/ EmitLeftover \/ Verdict
  BY <1>5, <1>8 DEF ArmTimesOut, ConsumerLeaves, TearDown, Joined, Flush, EmitLeftover, Verdict
<1> QED BY <1>6, <1>7, <1>8 DEF Consumer

(* Every step keeps the account of the chunks.                             *)
LEMMA RxStep == RxInv /\ [Next]_vars => RxInv'
<1> SUFFICES ASSUME RxInv, [Next]_vars PROVE RxInv'
  OBVIOUS
<1>1. CASE UNCHANGED <<reader, asked, recorded, submitted, queue, main, pushed>>
  BY <1>1, QuitsStays DEF RxInv, FeedType, PutInv, FeedInv, Fed, Live
<1>2. CASE DecodeTask
  BY <1>1, <1>2 DEF DecodeTask, DecodeWakes, DecodeTaskEnds, Decoded, DecodeRaises, DecodeEmits,
                    DecodeSleeps
<1>3. CASE StopRequested \/ PeerGoes \/ UNCHANGED vars
  BY <1>1, <1>3 DEF StopRequested, PeerGoes, vars
<1>4. CASE SourceReturns
  BY <1>4, ReaderStep DEF SourceReturns
<1> QED BY <1>2, <1>3, <1>4, ReaderStep, PutStep, LoopStep, ConsumerStep
         DEF Next, Reader, Finished

(* Backpressure never loses a chunk in the middle of a pass: what was fed  *)
(* to the decoder is a prefix of what the recorder wrote (_put of          *)
(* make_backpressure_put against the finally of the two engines).          *)
THEOREM FedAsRecordedCorrect == Spec => []FedAsRecorded
<1>1. RxInv => FedAsRecorded
  <2> SUFFICES ASSUME RxInv PROVE FedAsRecorded
    OBVIOUS
  <2>1. /\ pushed \in Seq(Chunk) /\ recorded \in Seq(Chunk)
        /\ Len(pushed) \in Nat /\ Len(recorded) \in Nat
    BY DEF RxInv, FeedType
  <2>2. \A k \in 1 .. Len(pushed) : k <= Len(recorded) /\ pushed[k] = recorded[k]
    <3> TAKE k \in 1 .. Len(pushed)
    <3>1. pushed[k] # EndOfStream
      BY <2>1, ElementOfSeq, Chunks
    <3>2. 0 + k <= Len(recorded) /\ pushed[k] = recorded[0 + k] /\ 0 + k = k
      BY <2>1, <3>1 DEF RxInv, FeedInv, Follows
    <3> QED BY <3>2
  <2>3. Len(pushed) <= Len(recorded)
    BY <2>1, <2>2
  <2>4. SubSeq(pushed, 1, Len(pushed)) = SubSeq(recorded, 1, Len(pushed))
    BY <2>1, <2>2, <2>3
  <2> QED BY <2>3, <2>4 DEF FedAsRecorded, IsPrefix
<1> QED BY <1>1, RxInit, RxStep, PTL DEF Spec

-----------------------------------------------------------------------------
(* A window shows every burst it holds from its first chunk.               *)
LEMMA Frames ==
    ASSUME NEW w \in Seq(Chunk)
    PROVE  /\ FramesIn(w) \in Seq(Chunk)
           /\ \A i \in 1 .. Len(w) : w[i] \notin On /\ BurstOf(w[i]) \subseteq ToSet(w)
                 => w[i] \in ToSet(FramesIn(w))
<1> DEFINE K == {i \in 1 .. Len(w) : w[i] \notin On /\ BurstOf(w[i]) \subseteq ToSet(w)}
<1>0. Len(w) \in Nat
  BY LenProperties
<1>1. \E h : KeptOf(w, K, Len(w), h)
  BY <1>0, KeptExists
<1>2. PICK h : KeptOf(w, K, Len(w), h) /\ FramesIn(w) = h[Len(w)]
  <2>1. \A h : KeptOf(w, K, Len(w), h) <=>
            h = [i \in 0 .. Len(w) |->
                    IF i = 0 THEN <<>>
                    ELSE IF w[i] \notin On /\ BurstOf(w[i]) \subseteq ToSet(w)
                         THEN Append(h[i - 1], w[i]) ELSE h[i - 1]]
    <3> TAKE h
    <3>1. \A i \in 0 .. Len(w) : i # 0 =>
            (i \in K <=> w[i] \notin On /\ BurstOf(w[i]) \subseteq ToSet(w))
      BY <1>0
    <3>2. [i \in 0 .. Len(w) |-> IF i = 0 THEN <<>>
                          ELSE IF i \in K THEN Append(h[i - 1], w[i]) ELSE h[i - 1]]
          = [i \in 0 .. Len(w) |->
                    IF i = 0 THEN <<>>
                    ELSE IF w[i] \notin On /\ BurstOf(w[i]) \subseteq ToSet(w)
                         THEN Append(h[i - 1], w[i]) ELSE h[i - 1]]
      <4> HIDE DEF K
      <4> QED BY <3>1, Zenon
    <3> HIDE DEF K
    <3> QED BY <3>2, Zenon DEF KeptOf
  <2> HIDE DEF K
  <2> QED BY <1>1, <2>1, Zenon DEF FramesIn
<1>3. \A j \in 1 .. Len(w) : j \in K => \E k \in 1 .. Len(h[Len(w)]) : h[Len(w)][k] = w[j]
  <2> HIDE DEF K
  <2> QED BY <1>2, KeptItems
<1>4. FramesIn(w) \in Seq(Chunk)
  <2> HIDE DEF K
  <2> QED BY <1>2, KeptItems
<1>5. ASSUME NEW i \in 1 .. Len(w), w[i] \notin On /\ BurstOf(w[i]) \subseteq ToSet(w)
      PROVE  w[i] \in ToSet(FramesIn(w))
  <2>1. PICK k \in 1 .. Len(FramesIn(w)) : FramesIn(w)[k] = w[i]
    BY <1>2, <1>3, <1>5
  <2>2. k \in DOMAIN FramesIn(w)
    BY <1>4, <2>1
  <2> QED BY <2>1, <2>2 DEF ToSet
<1> QED BY <1>4, <1>5

-----------------------------------------------------------------------------
(* The bursts a decoder was fed, in a sequence p of chunk numbers.         *)
Run(p, i) == {j \in 1 .. i - 1 : \A k \in j .. i - 1 : p[k] \in On}

Whole(p, i) == /\ p[i] \notin On /\ BurstOf(p[i]) \subseteq ToSet(p)
               /\ Cardinality(Run(p, i)) <= MaxDefer

Growing(p) == \A i, j \in 1 .. Len(p) : i < j => p[i] < p[j]

(* Every whole burst among the first n chunks is in S.                     *)
Shown(p, n, S) == \A i \in 1 .. n : Whole(p, i) => p[i] \in S

(* No burst short enough to be kept reaches from behind n into the first n. *)
Clear(p, n) ==
    \A i \in n + 1 .. Len(p) + 1 :
        Cardinality(Run(p, i)) <= MaxDefer => Run(p, i) \cap (1 .. n) = {}

(* A run is finite, and none of its parts is larger.                       *)
LEMMA RunSize ==
    ASSUME NEW p, NEW i \in Nat
    PROVE  IsFiniteSet(Run(p, i)) /\ Cardinality(Run(p, i)) \in Nat
           /\ \A T \in SUBSET Run(p, i) : Cardinality(T) <= Cardinality(Run(p, i)) /\ IsFiniteSet(T)
<1>1. IsFiniteSet(1 .. i - 1)
  BY FS_Interval
<1>2. Run(p, i) \in SUBSET (1 .. i - 1)
  BY DEF Run
<1>3. IsFiniteSet(Run(p, i))
  BY <1>1, <1>2, FS_Subset
<1>4. Cardinality(Run(p, i)) \in Nat
  BY <1>3, FS_CardinalityType
<1> QED BY <1>3, <1>4, FS_Subset

(* A chunk more changes no run before it.                                  *)
LEMMA RunKept ==
    ASSUME NEW p \in Seq(Chunk), NEW c \in Chunk, NEW i \in 1 .. Len(p) + 1
    PROVE  Run(Append(p, c), i) = Run(p, i)
<1>1. \A k \in 1 .. Len(p) : Append(p, c)[k] = p[k]
  BY AppendProperties
<1>2. Len(p) \in Nat
  BY LenProperties
<1>3. \A j \in 1 .. i - 1 : \A k \in j .. i - 1 : k \in 1 .. Len(p)
  BY <1>2
<1> QED BY <1>1, <1>3 DEF Run

(* A chunk more completes no burst that ended before it.                   *)
LEMMA ShownGrow ==
    ASSUME NEW p \in Seq(Chunk), NEW c \in Chunk, NEW n \in 0 .. Len(p), NEW S,
           Growing(Append(p, c)), Shown(p, n, S)
    PROVE  Shown(Append(p, c), n, S)
<1>1. /\ Len(p) \in Nat /\ Append(p, c) \in Seq(Chunk) /\ Len(Append(p, c)) = Len(p) + 1
      /\ Append(p, c)[Len(p) + 1] = c /\ \A k \in 1 .. Len(p) : Append(p, c)[k] = p[k]
  BY AppendProperties, LenProperties
<1> SUFFICES ASSUME NEW i \in 1 .. n, Whole(Append(p, c), i) PROVE Append(p, c)[i] \in S
  BY DEF Shown
<1>2. i \in 1 .. Len(p) /\ i \in 1 .. Len(p) + 1 /\ Append(p, c)[i] = p[i]
  BY <1>1
<1>3. p[i] < c /\ p[i] \in Nat /\ c \in Nat
  <2>1. Len(p) + 1 \in 1 .. Len(Append(p, c)) /\ i < Len(p) + 1 /\ i \in 1 .. Len(Append(p, c))
    BY <1>1, <1>2
  <2>2. Append(p, c)[i] < Append(p, c)[Len(p) + 1]
    BY <2>1 DEF Growing
  <2>3. p[i] \in Chunk
    BY <1>2, ElementOfSeq
  <2> QED BY <1>1, <1>2, <2>2, <2>3 DEF Chunk
<1>4. BurstOf(p[i]) \subseteq ToSet(p)
  <2> SUFFICES ASSUME NEW b \in BurstOf(p[i]) PROVE b \in ToSet(p)
    OBVIOUS
  <2>1. b < c /\ b \in ToSet(Append(p, c))
    BY <1>2, <1>3 DEF BurstOf, Whole
  <2>2. PICK k \in 1 .. Len(p) + 1 : Append(p, c)[k] = b
    BY <1>1, <2>1 DEF ToSet
  <2>3. k # Len(p) + 1
    BY <1>1, <1>3, <2>1, <2>2
  <2>4. k \in 1 .. Len(p) /\ p[k] = b
    BY <1>1, <2>2, <2>3
  <2> QED BY <2>4 DEF ToSet
<1>5. Whole(p, i)
  BY <1>2, <1>4, RunKept DEF Whole
<1> QED BY <1>2, <1>5 DEF Shown

(* Nor does it make a short burst reach further back.                      *)
LEMMA ClearGrow ==
    ASSUME NEW p \in Seq(Chunk), NEW c \in Chunk, NEW n \in 0 .. Len(p), Clear(p, n)
    PROVE  Clear(Append(p, c), n)
<1>1. /\ Len(p) \in Nat /\ Len(Append(p, c)) = Len(p) + 1
      /\ Append(p, c)[Len(p) + 1] = c /\ \A k \in 1 .. Len(p) : Append(p, c)[k] = p[k]
  BY AppendProperties, LenProperties
<1> SUFFICES ASSUME NEW i \in n + 1 .. Len(p) + 2, Cardinality(Run(Append(p, c), i)) <= MaxDefer,
                    NEW j \in Run(Append(p, c), i), j \in 1 .. n
             PROVE  FALSE
  BY <1>1 DEF Clear
<1>2. CASE i # Len(p) + 2
  <2>1. i \in 1 .. Len(p) + 1 /\ i \in n + 1 .. Len(p) + 1
    BY <1>1, <1>2
  <2>2. Run(Append(p, c), i) = Run(p, i)
    BY <2>1, RunKept
  <2> QED BY <2>1, <2>2 DEF Clear
<1>3. CASE i = Len(p) + 2
  <2>1. Run(p, Len(p) + 1) \subseteq Run(Append(p, c), i)
    <3> SUFFICES ASSUME NEW m \in Run(p, Len(p) + 1) PROVE m \in Run(Append(p, c), i)
      OBVIOUS
    <3>1. m \in 1 .. Len(p) /\ \A k \in m .. Len(p) : p[k] \in On
      BY <1>1 DEF Run
    <3>2. c \in On
      <4>1. Len(p) + 1 \in j .. i - 1
        BY <1>1, <1>3
      <4>2. Append(p, c)[Len(p) + 1] \in On
        BY <4>1 DEF Run
      <4> QED BY <1>1, <4>2
    <3>3. ASSUME NEW k \in m .. i - 1 PROVE Append(p, c)[k] \in On
      <4>1. k \in m .. Len(p) \/ k = Len(p) + 1
        BY <1>1, <1>3, <3>1
      <4>2. k \in m .. Len(p) => k \in 1 .. Len(p)
        BY <3>1
      <4> QED BY <1>1, <3>1, <3>2, <4>1, <4>2
    <3> QED BY <1>1, <1>3, <3>1, <3>3 DEF Run
  <2>2. j \in Run(p, Len(p) + 1)
    <3>1. j \in 1 .. Len(p)
      BY <1>1
    <3>2. ASSUME NEW k \in j .. Len(p) PROVE p[k] \in On
      <4>1. k \in j .. i - 1 /\ k \in 1 .. Len(p)
        BY <1>1, <1>3, <3>1
      <4>2. Append(p, c)[k] \in On
        BY <4>1 DEF Run
      <4> QED BY <1>1, <4>1, <4>2
    <3> QED BY <1>1, <3>1, <3>2 DEF Run
  <2>3. /\ Cardinality(Run(p, Len(p) + 1)) <= Cardinality(Run(Append(p, c), i))
        /\ Cardinality(Run(Append(p, c), i)) \in Nat /\ Cardinality(Run(p, Len(p) + 1)) \in Nat
    <3>1. i \in Nat /\ Len(p) + 1 \in Nat
      BY <1>1, <1>3
    <3> QED BY <2>1, <3>1, RunSize
  <2>4. Cardinality(Run(p, Len(p) + 1)) <= MaxDefer
    BY <2>3, RxAssumption
  <2>5. Run(p, Len(p) + 1) \cap (1 .. n) = {}
    <3>1. Len(p) + 1 \in n + 1 .. Len(p) + 1
      BY <1>1
    <3> QED BY <2>4, <3>1 DEF Clear
  <2> QED BY <2>2, <2>5
<1> QED BY <1>2, <1>3

(* A window of chunks lies in the sequence it follows.                     *)
LEMMA Lies ==
    ASSUME NEW w \in Seq(Chunk), NEW n \in Nat, NEW p \in Seq(Chunk), Follows(w, n, p)
    PROVE  /\ Len(w) \in Nat /\ Len(p) \in Nat
           /\ \A k \in 1 .. Len(w) : n + k <= Len(p) /\ w[k] = p[n + k]
<1>1. Len(w) \in Nat /\ Len(p) \in Nat
  BY LenProperties
<1>2. ASSUME NEW k \in 1 .. Len(w) PROVE n + k <= Len(p) /\ w[k] = p[n + k]
  <2>1. w[k] \in Chunk
    BY ElementOfSeq
  <2>2. w[k] # EndOfStream
    BY <2>1 DEF Chunk, EndOfStream
  <2> QED BY <2>2 DEF Follows
<1> QED BY <1>1, <1>2

(* The chunks above the gate at the end of a window, and what comes before *)
(* them.                                                                   *)
LEMMA TailOf ==
    ASSUME NEW w \in Seq(Chunk)
    PROVE  \E t \in 1 .. Len(w) + 1 :
              /\ \A k \in t .. Len(w) : w[k] \in On
              /\ t = 1 \/ w[t - 1] \notin On
              /\ Unfinished(w) = IF Len(w) - t + 1 > MaxDefer THEN <<>> ELSE SubSeq(w, t, Len(w))
              /\ SubSeq(w, t, Len(w)) \in Seq(Chunk)
              /\ Len(SubSeq(w, t, Len(w))) = Len(w) - t + 1
              /\ \A k \in 1 .. Len(w) - t + 1 : SubSeq(w, t, Len(w))[k] = w[t + k - 1]
<1> DEFINE tails == {i \in 1 .. Len(w) + 1 : \A j \in i .. Len(w) : w[j] \in On}
<1>1. Len(w) \in Nat
  BY LenProperties
<1>2. tails \in SUBSET Nat /\ tails # {}
  <2>1. Len(w) + 1 \in tails
    BY <1>1
  <2> QED BY <2>1
<1>3. PICK t : t = CHOOSE i \in tails : \A j \in tails : i <= j
  OBVIOUS
<1>4. t \in tails /\ \A j \in tails : t <= j
  <2>1. \E i \in tails : \A j \in tails : i <= j
    <3> HIDE DEF tails
    <3> QED BY <1>2, LeastNatural
  <2> HIDE DEF tails
  <2> QED BY <1>3, <2>1, Zenon
<1>5. t \in 1 .. Len(w) + 1 /\ \A k \in t .. Len(w) : w[k] \in On
  BY <1>4
<1>6. t = 1 \/ w[t - 1] \notin On
  <2> SUFFICES ASSUME t # 1, w[t - 1] \in On PROVE FALSE
    OBVIOUS
  <2>1. t - 1 \in 1 .. Len(w) + 1 /\ ~(t <= t - 1)
    BY <1>1, <1>5
  <2>2. \A k \in t - 1 .. Len(w) : k = t - 1 \/ k \in t .. Len(w)
    BY <1>1, <1>5
  <2>3. \A k \in t - 1 .. Len(w) : w[k] \in On
    BY <1>5, <2>2
  <2>4. t - 1 \in tails
    BY <2>1, <2>3
  <2> QED BY <1>4, <2>1, <2>4
<1>7. /\ SubSeq(w, t, Len(w)) \in Seq(Chunk)
      /\ Len(SubSeq(w, t, Len(w))) = Len(w) - t + 1
      /\ \A k \in 1 .. Len(w) - t + 1 : SubSeq(w, t, Len(w))[k] = w[t + k - 1]
  <2>1. \A i \in t .. Len(w) : w[i] \in Chunk
    BY <1>1, <1>5, ElementOfSeq
  <2>2. /\ SubSeq(w, t, Len(w)) \in Seq(Chunk)
        /\ Len(SubSeq(w, t, Len(w))) = IF t <= Len(w) THEN Len(w) - t + 1 ELSE 0
        /\ \A k \in 1 .. Len(w) - t + 1 : SubSeq(w, t, Len(w))[k] = w[t + k - 1]
    BY <1>1, <1>5, <2>1, SubSeqProperties
  <2>3. (IF t <= Len(w) THEN Len(w) - t + 1 ELSE 0) = Len(w) - t + 1
    BY <1>1, <1>5
  <2> QED BY <2>2, <2>3, Zenon
<1>8. Unfinished(w) = IF Len(w) - t + 1 > MaxDefer THEN <<>> ELSE SubSeq(w, t, Len(w))
  <2>1. Unfinished(w) = IF Len(SubSeq(w, t, Len(w))) > MaxDefer THEN <<>> ELSE SubSeq(w, t, Len(w))
    <3>1. t = CHOOSE k \in {i \in 1 .. Len(w) + 1 : \A j \in i .. Len(w) : w[j] \in On} :
                 \A m \in {i \in 1 .. Len(w) + 1 : \A j \in i .. Len(w) : w[j] \in On} : k <= m
      BY <1>3
    <3> HIDE DEF tails
    <3> QED BY <3>1 DEF Unfinished
  <2> QED BY <1>7, <2>1, Zenon
<1> QED BY <1>5, <1>6, <1>7, <1>8, Zenon

(* A window that begins at n shows every whole burst that ends in it.      *)
LEMMA ShownDecode ==
    ASSUME NEW p \in Seq(Chunk), NEW n \in Nat, NEW w \in Seq(Chunk), NEW S, NEW m \in Nat,
           Growing(p), Follows(w, n, p), n + Len(w) <= Len(p), m <= n + Len(w),
           Shown(p, n, S), Clear(p, n)
    PROVE  Shown(p, m, S \cup ToSet(FramesIn(w)))
<1>1. /\ Len(w) \in Nat /\ Len(p) \in Nat
      /\ \A k \in 1 .. Len(w) : n + k <= Len(p) /\ w[k] = p[n + k]
  BY Lies
<1> SUFFICES ASSUME NEW i \in 1 .. m, Whole(p, i) PROVE p[i] \in S \cup ToSet(FramesIn(w))
  BY DEF Shown
<1>2. CASE i <= n
  BY <1>2 DEF Shown
<1>3. CASE i > n
  <2>1. PICK x \in 1 .. Len(w) : i = n + x
    <3>1. i - n \in 1 .. Len(w) /\ i = n + (i - n)
      BY <1>1, <1>3
    <3> QED BY <3>1
  <2>2. w[x] = p[i] /\ i \in 1 .. Len(p) /\ i \in n + 1 .. Len(p) + 1
    BY <1>1, <1>3, <2>1
  <2>3. Run(p, i) \cap (1 .. n) = {}
    BY <2>2 DEF Clear, Whole
  <2>4. ASSUME NEW b \in BurstOf(p[i]) PROVE b \in ToSet(w)
    <3>1. p[i] \in Chunk
      BY <2>2, ElementOfSeq
    <3>2. b \in ToSet(p) /\ b \in 1 .. p[i] /\ b .. p[i] - 1 \subseteq On
      BY DEF Whole, BurstOf
    <3>3. PICK j \in 1 .. Len(p) : p[j] = b
      <4>1. DOMAIN p = 1 .. Len(p)
        OBVIOUS
      <4> QED BY <3>2, <4>1, Zenon DEF ToSet
    <3>4. p[i] \in Int /\ b \in Int /\ i \in Int /\ j \in Int
      BY <3>1, <3>2, <2>2, <3>3 DEF Chunk
    <3>5. j <= i
      <4> SUFFICES ASSUME i < j PROVE FALSE
        BY <3>4
      <4>1. p[i] < p[j]
        BY <2>2, <3>3 DEF Growing
      <4> QED BY <3>2, <3>3, <3>4, <4>1
    <3>6. j > n
      <4>1. CASE j = i
        BY <1>3, <4>1
      <4>2. CASE j < i
        <5>1. ASSUME NEW k \in j .. i - 1 PROVE p[k] \in On
          <6>1. k \in 1 .. Len(p) /\ k < i /\ (j = k \/ j < k)
            BY <1>1, <2>2, <3>3, <3>4, SMTT(30)
          <6>2. p[k] < p[i] /\ (p[j] = p[k] \/ p[j] < p[k])
            BY <2>2, <3>3, <6>1 DEF Growing
          <6>3. p[k] \in Chunk
            BY <6>1, ElementOfSeq
          <6>4. p[k] \in b .. p[i] - 1
            BY <3>3, <3>4, <6>2, <6>3, SMTT(30) DEF Chunk
          <6> QED BY <3>2, <6>4
        <5>2. j \in Run(p, i)
          BY <2>2, <3>3, <4>2, <5>1 DEF Run
        <5> QED BY <2>3, <3>3, <5>2
      <4> QED BY <3>4, <3>5, <4>1, <4>2
    <3>7. j - n \in 1 .. Len(w) /\ n + (j - n) = j
      BY <1>1, <2>1, <3>4, <3>5, <3>6
    <3>8. w[j - n] = b
      BY <1>1, <3>3, <3>7
    <3> QED BY <3>7, <3>8 DEF ToSet
  <2>5. w[x] \notin On /\ BurstOf(w[x]) \subseteq ToSet(w)
    BY <2>2, <2>4 DEF Whole
  <2> QED BY <2>2, <2>5, Frames
<1> QED BY <1>2, <1>3

(* What is kept of a window leaves the first chunks clear again: a burst   *)
(* that still reaches into them is too long to be one.                     *)
LEMMA ClearDecode ==
    ASSUME NEW p \in Seq(Chunk), NEW n \in Nat, NEW w \in Seq(Chunk),
           Follows(w, n, p), n + Len(w) <= Len(p), Clear(p, n)
    PROVE  Clear(p, n + Len(w) - Len(Unfinished(w)))
<1>1. /\ Len(w) \in Nat /\ Len(p) \in Nat
      /\ \A k \in 1 .. Len(w) : n + k <= Len(p) /\ w[k] = p[n + k]
  BY Lies
<1>2. PICK t \in 1 .. Len(w) + 1 :
              /\ \A k \in t .. Len(w) : w[k] \in On
              /\ t = 1 \/ w[t - 1] \notin On
              /\ Unfinished(w) = IF Len(w) - t + 1 > MaxDefer THEN <<>> ELSE SubSeq(w, t, Len(w))
              /\ Len(SubSeq(w, t, Len(w))) = Len(w) - t + 1
  BY TailOf
<1>3. PICK d : d = n + Len(w) - Len(Unfinished(w))
  OBVIOUS
<1>4. \/ Len(w) - t + 1 > MaxDefer /\ d = n + Len(w)
      \/ d = n + t - 1
  <2>1. CASE Len(w) - t + 1 > MaxDefer
    <3>1. Len(Unfinished(w)) = 0
      BY <1>2, <2>1
    <3> QED BY <1>1, <1>3, <2>1, <3>1
  <2>2. CASE ~(Len(w) - t + 1 > MaxDefer)
    <3>1. Len(Unfinished(w)) = Len(w) - t + 1
      BY <1>2, <2>2, Zenon
    <3> QED BY <1>1, <1>3, <3>1
  <2> QED BY <2>1, <2>2
<1>5. d \in Nat /\ n <= d /\ d <= Len(p)
  BY <1>1, <1>4
<1> SUFFICES ASSUME NEW i \in d + 1 .. Len(p) + 1, Cardinality(Run(p, i)) <= MaxDefer,
                    NEW j \in Run(p, i), j \in 1 .. d
             PROVE  FALSE
  BY <1>3 DEF Clear
<1>6. i \in Nat /\ i > d /\ i \in n + 1 .. Len(p) + 1 /\ j \in Nat /\ j <= d
  BY <1>1, <1>5
<1>7. j > n
  <2>1. j \notin 1 .. n
    BY <1>6 DEF Clear
  <2> QED BY <1>6, <2>1
<1>8. \A k \in j .. i - 1 : p[k] \in On
  BY DEF Run
<1>9. CASE d = n + t - 1
  <2>1. t # 1 /\ t - 1 \in 1 .. Len(w) /\ n + (t - 1) = d
    BY <1>1, <1>6, <1>7, <1>9
  <2>2. p[d] \notin On
    BY <1>1, <1>2, <2>1
  <2>3. d \in j .. i - 1
    BY <1>5, <1>6
  <2> QED BY <1>8, <2>2, <2>3
<1>10. CASE Len(w) - t + 1 > MaxDefer /\ d = n + Len(w)
  <2>1. ASSUME NEW x \in n + t .. d PROVE x \in Run(p, i)
    <3>1. x \in 1 .. i - 1
      BY <1>1, <1>6, <1>10
    <3>2. ASSUME NEW k \in x .. i - 1 PROVE p[k] \in On
      <4>1. CASE k <= d
        <5>1. k - n \in t .. Len(w) /\ k - n \in 1 .. Len(w) /\ n + (k - n) = k
          BY <1>1, <1>10, <4>1
        <5>2. w[k - n] = p[k] /\ w[k - n] \in On
          BY <1>1, <1>2, <5>1
        <5> QED BY <5>2
      <4>2. CASE k > d
        <5>1. k \in j .. i - 1
          BY <1>5, <1>6, <3>1, <4>2
        <5> QED BY <1>8, <5>1
      <4> QED BY <1>5, <4>1, <4>2
    <3> QED BY <3>1, <3>2 DEF Run
  <2>2. n + t .. d \in SUBSET Run(p, i)
    BY <2>1
  <2>3. Cardinality(n + t .. d) = Len(w) - t + 1
    <3>1. n + t \in Int /\ d \in Int /\ ~(n + t > d) /\ d - (n + t) + 1 = Len(w) - t + 1
      BY <1>1, <1>5, <1>10, RxAssumption, SMTT(30)
    <3> QED BY <3>1, FS_Interval
  <2>4. Len(w) - t + 1 <= Cardinality(Run(p, i)) /\ Cardinality(Run(p, i)) \in Nat
    BY <1>6, <2>2, <2>3, RunSize
  <2> QED BY <1>1, <1>10, <2>4, RxAssumption
<1> QED BY <1>4, <1>9, <1>10

(* One window behind another is a window.                                  *)
LEMMA FollowsJoin ==
    ASSUME NEW q \in Seq(Chunk), NEW s \in Seq(Chunk), NEW n \in Nat, NEW r \in Seq(Chunk),
           Follows(q, n, r), Follows(s, n + Len(q), r)
    PROVE  /\ q \o s \in Seq(Chunk) /\ Len(q \o s) = Len(q) + Len(s)
           /\ Follows(q \o s, n, r)
<1>1. /\ Len(q) \in Nat /\ Len(s) \in Nat /\ n + Len(q) \in Nat
      /\ q \o s \in Seq(Chunk) /\ Len(q \o s) = Len(q) + Len(s)
      /\ \A k \in 1 .. Len(q) + Len(s) : (q \o s)[k] = IF k <= Len(q) THEN q[k] ELSE s[k - Len(q)]
  BY ConcatProperties, LenProperties
<1>2. /\ \A k \in 1 .. Len(q) : n + k <= Len(r) /\ q[k] = r[n + k]
      /\ \A k \in 1 .. Len(s) : n + Len(q) + k <= Len(r) /\ s[k] = r[n + Len(q) + k]
  BY <1>1, Lies, SMTT(30)
<1>3. ASSUME NEW k \in 1 .. Len(q \o s) PROVE n + k <= Len(r) /\ (q \o s)[k] = r[n + k]
  <2>1. CASE k <= Len(q)
    BY <1>1, <1>2, <2>1
  <2>2. CASE ~(k <= Len(q))
    <3>1. k - Len(q) \in 1 .. Len(s) /\ n + Len(q) + (k - Len(q)) = n + k
      BY <1>1, <2>2
    <3>2. (q \o s)[k] = s[k - Len(q)]
      BY <1>1, <2>2
    <3> QED BY <1>2, <3>1, <3>2
  <2> QED BY <2>1, <2>2
<1> QED BY <1>1, <1>3 DEF Follows

(* What is kept of a window is its end.                                    *)
LEMMA FollowsKept ==
    ASSUME NEW w \in Seq(Chunk), NEW n \in Nat, NEW r \in Seq(Chunk), Follows(w, n, r)
    PROVE  /\ Unfinished(w) \in Seq(Chunk) /\ Len(Unfinished(w)) \in 0 .. Len(w)
           /\ Follows(Unfinished(w), n + Len(w) - Len(Unfinished(w)), r)
<1>1. /\ Len(w) \in Nat /\ \A k \in 1 .. Len(w) : n + k <= Len(r) /\ w[k] = r[n + k]
  BY Lies
<1>2. PICK t \in 1 .. Len(w) + 1 :
              /\ Unfinished(w) = IF Len(w) - t + 1 > MaxDefer THEN <<>> ELSE SubSeq(w, t, Len(w))
              /\ SubSeq(w, t, Len(w)) \in Seq(Chunk)
              /\ Len(SubSeq(w, t, Len(w))) = Len(w) - t + 1
              /\ \A k \in 1 .. Len(w) - t + 1 : SubSeq(w, t, Len(w))[k] = w[t + k - 1]
  BY TailOf
<1>3. CASE Unfinished(w) = <<>>
  <2>1. Unfinished(w) \in Seq(Chunk) /\ Len(Unfinished(w)) = 0
    BY <1>3, EmptySeq
  <2> QED BY <1>1, <2>1 DEF Follows
<1>4. CASE Unfinished(w) = SubSeq(w, t, Len(w))
  <2>1. PICK u : u = SubSeq(w, t, Len(w))
    OBVIOUS
  <2>2. /\ u \in Seq(Chunk) /\ Len(u) = Len(w) - t + 1 /\ Len(u) \in 0 .. Len(w)
        /\ \A k \in 1 .. Len(u) : u[k] = w[t + k - 1]
    BY <1>1, <1>2, <2>1
  <2>3. ASSUME NEW k \in 1 .. Len(u)
        PROVE  n + Len(w) - Len(u) + k <= Len(r) /\ u[k] = r[n + Len(w) - Len(u) + k]
    <3>1. t + k - 1 \in 1 .. Len(w) /\ n + Len(w) - Len(u) + k = n + (t + k - 1)
      BY <1>1, <2>2
    <3> QED BY <1>1, <2>2, <3>1
  <2> QED BY <1>4, <2>1, <2>2, <2>3 DEF Follows
<1> QED BY <1>2, <1>3, <1>4

-----------------------------------------------------------------------------
(* The chunks are recorded in the order the source yields them.            *)
RecInv ==
    /\ Growing(recorded)
    /\ \A i \in 1 .. Len(recorded) :
          recorded[i] <= asked /\ (reader = "holding" => recorded[i] < asked)

(* The source numbers its chunks upwards, and they are recorded in turn.   *)
LEMMA RecStep == ASSUME RxInv, RecInv, [Next]_vars PROVE RecInv'
<1>1. /\ recorded \in Seq(Chunk) /\ Len(recorded) \in Nat /\ asked \in Nat
      /\ \A i \in 1 .. Len(recorded) : recorded[i] \in Nat
      /\ reader = "holding" => asked \in Chunk
  BY ElementOfSeq, LenProperties, RxAssumption DEF RxInv, FeedType, Chunk
<1>2. CASE UNCHANGED <<recorded, asked>> /\ (reader' = "holding" => reader = "holding")
  BY <1>2 DEF RecInv, Growing
<1>3. CASE SourceYields
  <2>1. recorded' = recorded /\ asked' = asked + 1
    BY <1>3 DEF SourceYields
  <2>2. Growing(recorded')
    BY <2>1 DEF RecInv
  <2>3. \A i \in 1 .. Len(recorded') : recorded'[i] < asked'
    BY <1>1, <2>1 DEF RecInv
  <2>4. \A i \in 1 .. Len(recorded') : recorded'[i] <= asked'
    BY <1>1, <2>1 DEF RecInv
  <2> QED BY <2>2, <2>3, <2>4 DEF RecInv
<1>4. CASE ReaderPasses
  <2>1. reader = "holding" /\ reader' = "passed" /\ recorded' = Append(recorded, asked) /\ asked' = asked
    BY <1>4 DEF ReaderPasses
  <2>2. /\ Len(recorded') = Len(recorded) + 1 /\ recorded'[Len(recorded) + 1] = asked
        /\ \A i \in 1 .. Len(recorded) : recorded'[i] = recorded[i] /\ recorded'[i] < asked
    BY <1>1, <2>1, Join DEF RecInv
  <2>3. \A i \in 1 .. Len(recorded') : i = Len(recorded) + 1 \/ i \in 1 .. Len(recorded)
    BY <1>1, <2>2
  <2>4. \A i \in 1 .. Len(recorded') : recorded'[i] <= asked'
    BY <1>1, <2>1, <2>2, <2>3
  <2>5. ASSUME NEW i \in 1 .. Len(recorded'), NEW j \in 1 .. Len(recorded'), i < j
        PROVE  recorded'[i] < recorded'[j]
    <3>1. i \in 1 .. Len(recorded)
      BY <1>1, <2>2, <2>5
    <3>2. CASE j = Len(recorded) + 1
      BY <2>2, <3>1, <3>2
    <3>3. CASE j \in 1 .. Len(recorded)
      BY <2>2, <2>5, <3>1, <3>3 DEF RecInv, Growing
    <3> QED BY <2>3, <3>2, <3>3
  <2> QED BY <2>1, <2>4, <2>5 DEF RecInv, Growing
<1>5. CASE ReaderSkips \/ ReaderStops \/ Puts \/ ReaderEnds \/ PutReturns \/ Bail
           \/ \E dies \in BOOLEAN : SourceEnds(dies)
  BY <1>2, <1>5 DEF ReaderSkips, ReaderStops, Puts, ReaderEnds, PutReturns, Bail, AfterPut, SourceEnds
<1>6. CASE SourceReturns
  BY <1>2, <1>6 DEF SourceReturns, SourceEnds
<1>7. CASE Loop
  BY <1>2, <1>7 DEF Loop, Enqueue, Cancel
<1>8. CASE Consumer
  BY <1>2, <1>8 DEF Consumer, Arm, ArmTimesOut, Push, ConsumerLeaves, TearDown, Joined, Flush,
                    EmitLeftover, Verdict, EngineFrame
<1>9. CASE DecodeTask
  BY <1>2, <1>9 DEF DecodeTask, DecodeWakes, DecodeTaskEnds, Decoded, DecodeRaises, DecodeEmits,
                    DecodeSleeps
<1>10. CASE StopRequested \/ PeerGoes \/ UNCHANGED vars
  BY <1>2, <1>10 DEF StopRequested, PeerGoes, vars
<1> QED BY <1>3, <1>4, <1>5, <1>6, <1>7, <1>8, <1>9, <1>10 DEF Next, Reader, Finished

(* So are they fed, being a part of the recording.                         *)
LEMMA FedInOrder ==
    ASSUME NEW p \in Seq(Chunk), NEW r \in Seq(Chunk), Follows(p, 0, r), Growing(r)
    PROVE  Growing(p)
<1>1. \A k \in 1 .. Len(p) : k <= Len(r) /\ p[k] = r[k]
  <2>1. Len(p) \in Nat /\ \A k \in 1 .. Len(p) : 0 + k <= Len(r) /\ p[k] = r[0 + k]
    BY Lies
  <2> QED BY <2>1
<1>2. \A k \in 1 .. Len(p) : k \in 1 .. Len(r)
  BY <1>1, LenProperties
<1> QED BY <1>1, <1>2 DEF Growing

-----------------------------------------------------------------------------
(* What was fed and no window will hold again, then the window that is     *)
(* being decoded, what was kept for the next one, and what came since.     *)
Scanned == Len(pushed) - Len(window) - Len(pending) - Len(chunks)

StreamType ==
    /\ chunks \in Seq(Chunk) /\ pending \in Seq(Chunk) /\ window \in Seq(Chunk)
    /\ bodies \in Seq(Chunk) /\ emitted \in Seq(Chunk)
    /\ task \in {"none", "sleeping", "decoding", "emitting", "ended", "dead"}

StreamInv ==
    /\ Scanned >= 0
    /\ Follows(window, Scanned, pushed)
    /\ Follows(pending, Scanned + Len(window), pushed)
    /\ Follows(chunks, Scanned + Len(window) + Len(pending), pushed)
    /\ task = "decoding" => pending = <<>>
    /\ task # "decoding" => window = <<>>

(* The flush waits for the decode task, and leaves nothing unscanned.      *)
ControlInv ==
    /\ task # "emitting" /\ main # "leftovers" /\ ~lost => bodies = <<>>
    /\ task = "dead" => lost
    /\ main \in {"flushing", "leftovers"} => task \in {"ended", "dead"}
    /\ main = "arming" => task = "none"
    /\ Over => task \in {"none", "ended", "dead"}
    /\ main = "leftovers" \/ (Over /\ task # "none" /\ ~lost) => pending = <<>> /\ chunks = <<>>

(* Every whole burst that was scanned is emitted or about to be, and none  *)
(* reaches from what is still to be scanned into what was.                 *)
BurstInv ==
    ~lost =>
        /\ Shown(pushed, Scanned, ToSet(emitted) \cup ToSet(bodies))
        /\ ~Over /\ main # "leftovers" => Clear(pushed, Scanned)

DecodeInv == RecInv /\ StreamType /\ StreamInv /\ ControlInv /\ BurstInv

(* Nothing was fed, scanned or decoded.                                    *)
LEMMA DecodeInit == Init => DecodeInv
<1> SUFFICES ASSUME Init PROVE DecodeInv
  OBVIOUS
<1>1. /\ pushed = <<>> /\ recorded = <<>> /\ chunks = <<>> /\ pending = <<>> /\ window = <<>>
      /\ bodies = <<>> /\ emitted = <<>> /\ asked = 0 /\ task \in {"none", "sleeping"}
      /\ main \in {"arming", "consuming"} /\ (main = "arming" => task = "none")
  BY DEF Init
<1>2. <<>> \in Seq(Chunk) /\ Len(<<>>) = 0
  BY EmptySeq
<1>3. RecInv
  BY <1>1, <1>2 DEF RecInv, Growing
<1>4. Scanned = 0
  <2>1. Scanned = 0 - 0 - 0 - 0
    BY <1>1, <1>2, Zenon DEF Scanned
  <2> QED BY <2>1
<1>5. StreamType /\ StreamInv
  <2>1. StreamType
    BY <1>1, <1>2, Zenon DEF StreamType
  <2>2. \A n \in Int : Follows(<<>>, n, pushed)
    BY <1>2 DEF Follows
  <2>3. Len(<<>>) \in Int /\ 0 + Len(<<>>) = 0 /\ 0 \in Int
    BY <1>2
  <2> QED BY <1>1, <1>2, <1>4, <2>1, <2>2, <2>3 DEF StreamInv
<1>6. ControlInv
  BY <1>1 DEF ControlInv, Over
<1>7. BurstInv
  <2>1. Shown(pushed, 0, ToSet(emitted) \cup ToSet(bodies)) /\ Clear(pushed, 0)
    BY DEF Shown, Clear
  <2> QED BY <1>4, <2>1 DEF BurstInv
<1> QED BY <1>3, <1>5, <1>6, <1>7 DEF DecodeInv

(* The lengths of the parts of the stream.                                 *)
LEMMA Parts ==
    ASSUME RxInv, StreamType, StreamInv
    PROVE  /\ Len(pushed) \in Nat /\ Len(window) \in Nat /\ Len(pending) \in Nat
           /\ Len(chunks) \in Nat /\ Scanned \in Nat
           /\ Scanned + Len(window) + Len(pending) + Len(chunks) = Len(pushed)
           /\ pushed \in Seq(Chunk)
BY LenProperties DEF RxInv, FeedType, StreamType, StreamInv, Scanned

(* Every step keeps the control flow of the engine and its decode task.    *)
LEMMA ControlStep == ASSUME ControlInv, StreamType, StreamInv, [Next]_vars PROVE ControlInv'
<1>1. CASE UNCHANGED <<main, task, bodies, lost, pending, chunks>>
  BY <1>1 DEF ControlInv, Over
<1>2. CASE SourceYields \/ ReaderSkips \/ ReaderStops \/ ReaderPasses \/ Puts \/ ReaderEnds
           \/ PutReturns \/ Bail \/ (\E dies \in BOOLEAN : SourceEnds(dies)) \/ SourceReturns
  BY <1>1, <1>2, Zenon DEF SourceYields, ReaderSkips, ReaderStops, ReaderPasses, Puts, ReaderEnds,
                    PutReturns, Bail, SourceEnds, SourceReturns, ReaderFrame
<1>3. CASE Loop \/ StopRequested \/ PeerGoes \/ UNCHANGED vars
  BY <1>1, <1>3, Zenon DEF Loop, Enqueue, Cancel, StopRequested, PeerGoes, vars
<1>4. CASE Arm \/ Push
  BY <1>4 DEF Arm, Push, ControlInv, Over
<1>5. CASE ArmTimesOut \/ ConsumerLeaves
  BY <1>5 DEF ArmTimesOut, ConsumerLeaves, TearDown, ControlInv, Over
<1>6. CASE Joined \/ Verdict
  BY <1>6 DEF Joined, Verdict, ControlInv, Over
<1>7. CASE Flush
  BY <1>7 DEF Flush, ControlInv, Over
<1>8. CASE EmitLeftover
  <2>1. /\ main = "leftovers" /\ main' \in {"leftovers", "failed"} /\ (main' = "failed" => ~peer)
        /\ UNCHANGED <<task, pending, chunks>>
    BY <1>8 DEF EmitLeftover
  <2>2. (lost => lost') /\ (~peer => lost')
    BY <1>8, Zenon DEF EmitLeftover, Emit
  <2> QED BY <2>1, <2>2 DEF ControlInv, Over
<1>9. CASE DecodeWakes \/ DecodeTaskEnds
  BY <1>9 DEF DecodeWakes, DecodeTaskEnds, TakeWindow, ControlInv, Over
<1>10. CASE Decoded \/ DecodeRaises
  BY <1>10 DEF Decoded, DecodeRaises, ControlInv, Over
<1>11. CASE DecodeEmits
  <2>1. /\ task = "emitting" /\ task' \in {"emitting", "dead"} /\ (task' = "dead" => ~peer)
        /\ UNCHANGED <<main, pending, chunks>>
    BY <1>11 DEF DecodeEmits
  <2>2. (lost => lost') /\ (~peer => lost')
    BY <1>11, Zenon DEF DecodeEmits, Emit
  <2> QED BY <2>1, <2>2 DEF ControlInv, Over
<1>12. CASE DecodeSleeps
  BY <1>12 DEF DecodeSleeps, ControlInv, Over
<1> QED BY <1>2, <1>3, <1>4, <1>5, <1>6, <1>7, <1>8, <1>9, <1>10, <1>11, <1>12
         DEF Next, Reader, Consumer, DecodeTask, Finished

(* A chunk pushed comes behind the others, and what was scanned stays so.  *)
LEMMA StreamFed ==
    ASSUME RxInv, StreamType, StreamInv, NEW c \in Chunk,
           pushed' = Append(pushed, c), chunks' = Append(chunks, c), UNCHANGED <<pending, window>>,
           task' # task => task = "none" /\ task' = "sleeping"
    PROVE  StreamInv' /\ Scanned' = Scanned /\ chunks' \in Seq(Chunk)
<1>1. /\ pushed' \in Seq(Chunk) /\ Len(pushed') = Len(pushed) + 1 /\ pushed'[Len(pushed) + 1] = c
      /\ chunks' \in Seq(Chunk) /\ Len(chunks') = Len(chunks) + 1 /\ pushed \in Seq(Chunk)
  BY Join DEF StreamType, RxInv, FeedType
<1>2. Scanned' = Scanned
  BY <1>1, Parts DEF Scanned
<1>3. /\ window \in Seq(Item) /\ pending \in Seq(Item) /\ chunks \in Seq(Item) /\ c \in Item
  BY Chunks DEF StreamType
<1>4. PICK n1 \in Nat, n2 \in Nat, n3 \in Nat :
         n1 = Scanned /\ n2 = Scanned + Len(window) /\ n3 = Scanned + Len(window) + Len(pending)
  BY Parts
<1>5. Follows(window, n1, pushed) /\ Follows(pending, n2, pushed) /\ Follows(chunks, n3, pushed)
  BY <1>4, Zenon DEF StreamInv
<1>6. Follows(window, n1, pushed') /\ Follows(pending, n2, pushed') /\ Follows(chunks, n3, pushed')
  BY <1>1, <1>3, <1>5, FollowsGrow
<1>7. Follows(chunks', n3, pushed')
  <2>1. n3 + Len(chunks) + 1 = Len(pushed) + 1
    BY <1>4, Parts
  <2>2. n3 + Len(chunks) + 1 <= Len(pushed') /\ c = pushed'[n3 + Len(chunks) + 1]
    BY <1>1, <2>1, Parts
  <2> QED BY <1>1, <1>3, <1>6, <2>2, FollowsAppend
<1>8. /\ task' = "decoding" => pending' = <<>>
      /\ task' # "decoding" => window' = <<>>
  BY DEF StreamInv
<1>9. Scanned' >= 0
  BY <1>2 DEF StreamInv
<1>10. Follows(window', Scanned', pushed') /\ Follows(pending', Scanned' + Len(window'), pushed')
       /\ Follows(chunks', Scanned' + Len(window') + Len(pending'), pushed')
  BY <1>2, <1>4, <1>6, <1>7, Zenon
<1> QED BY <1>1, <1>2, <1>8, <1>9, <1>10, Zenon DEF StreamInv

(* The hand-off: what was kept and what came since make the window.        *)
LEMMA StreamTaken ==
    ASSUME RxInv, StreamType, StreamInv, window = <<>>, TakeWindow, pushed' = pushed,
           task' = "decoding"
    PROVE  StreamInv' /\ Scanned' = Scanned
           /\ window' \in Seq(Chunk) /\ pending' \in Seq(Chunk) /\ chunks' \in Seq(Chunk)
<1>1. /\ window' = pending \o chunks /\ pending' = <<>> /\ chunks' = <<>>
  BY DEF TakeWindow
<1>2. /\ Len(window) = 0 /\ <<>> \in Seq(Chunk) /\ Len(<<>>) = 0
  BY EmptySeq
<1>3. PICK n \in Nat : n = Scanned
  BY Parts
<1>4. Follows(pending, n, pushed) /\ Follows(chunks, n + Len(pending), pushed)
  <2>1. n + 0 = n
    OBVIOUS
  <2>2. Follows(pending, n + 0, pushed) /\ Follows(chunks, n + 0 + Len(pending), pushed)
    BY <1>2, <1>3, Zenon DEF StreamInv
  <2> QED BY <2>1, <2>2, Zenon
<1>5. /\ window' \in Seq(Chunk) /\ Len(window') = Len(pending) + Len(chunks)
      /\ Follows(window', n, pushed)
  BY <1>1, <1>3, <1>4, FollowsJoin, Parts DEF StreamType
<1>6. Scanned' = n
  <2>1. Scanned' = Len(pushed) - (Len(pending) + Len(chunks)) - 0 - 0
    BY <1>1, <1>2, <1>5, Zenon DEF Scanned
  <2>2. n + 0 + Len(pending) + Len(chunks) = Len(pushed)
    BY <1>2, <1>3, Parts, Zenon
  <2> QED BY <1>3, <2>1, <2>2, Parts
<1>7. \A m \in Int : Follows(<<>>, m, pushed)
  BY <1>2 DEF Follows
<1>8. Follows(pending', Scanned' + Len(window'), pushed')
      /\ Follows(chunks', Scanned' + Len(window') + Len(pending'), pushed')
  <2>1. Scanned' + Len(window') \in Int /\ Scanned' + Len(window') + Len(pending') \in Int
    BY <1>1, <1>2, <1>5, <1>6, Parts
  <2> QED BY <1>1, <1>7, <2>1, Zenon
<1>9. Scanned' >= 0
  BY <1>6
<1> QED BY <1>1, <1>2, <1>3, <1>5, <1>6, <1>8, <1>9, Zenon DEF StreamInv

(* A window is scanned, and its unfinished burst kept; or it is lost.      *)
LEMMA StreamScanned ==
    ASSUME RxInv, StreamType, StreamInv, task = "decoding", pending = <<>>,
           pending' \in {Unfinished(window), <<>>},
           window' = <<>>, UNCHANGED <<pushed, chunks>>, task' # "decoding"
    PROVE  StreamInv' /\ Scanned' = Scanned + Len(window) - Len(pending')
           /\ window' \in Seq(Chunk) /\ pending' \in Seq(Chunk)
<1>1. /\ Len(pending) = 0 /\ <<>> \in Seq(Chunk) /\ Len(<<>>) = 0
  BY EmptySeq
<1>2. PICK n \in Nat : n = Scanned
  BY Parts
<1>3. Follows(window, n, pushed) /\ Follows(chunks, n + Len(window), pushed)
  <2>1. n + Len(window) + 0 = n + Len(window)
    BY Parts
  <2>2. Follows(window, n, pushed) /\ Follows(chunks, n + Len(window) + 0, pushed)
    BY <1>1, <1>2, Zenon DEF StreamInv
  <2> QED BY <2>1, <2>2, Zenon
<1>4. PICK d : d = n + Len(window) - Len(pending')
  OBVIOUS
<1>5. /\ pending' \in Seq(Chunk) /\ Len(pending') \in 0 .. Len(window)
      /\ Follows(pending', d, pushed)
  <2>1. CASE pending' = Unfinished(window)
    BY <1>2, <1>3, <1>4, <2>1, FollowsKept, Parts DEF StreamType
  <2>2. CASE pending' = <<>>
    <3>1. pending' \in Seq(Chunk) /\ Len(pending') = 0
      BY <1>1, <2>2, Zenon
    <3> QED BY <3>1, Parts DEF Follows
  <2> QED BY <2>1, <2>2
<1>6. Scanned' = d /\ d \in Nat
  <2>1. Scanned' = Len(pushed) - 0 - Len(pending') - Len(chunks)
    BY <1>1, Zenon DEF Scanned
  <2>2. n + Len(window) + 0 + Len(chunks) = Len(pushed)
    BY <1>1, <1>2, Parts, Zenon
  <2> QED BY <1>2, <1>4, <1>5, <2>1, <2>2, Parts
<1>7. Follows(chunks', Scanned' + Len(window') + Len(pending'), pushed')
  <2>1. d + 0 + Len(pending') = n + Len(window)
    BY <1>4, <1>5, Parts
  <2> QED BY <1>1, <1>3, <1>6, <2>1, Zenon
<1>8. Follows(window', Scanned', pushed') /\ Follows(pending', Scanned' + Len(window'), pushed')
  <2>1. d + 0 = d
    BY <1>6
  <2>2. Follows(<<>>, d, pushed)
    BY <1>1 DEF Follows
  <2> QED BY <1>1, <1>5, <1>6, <2>1, <2>2, Zenon
<1>9. Scanned' >= 0
  BY <1>6
<1> QED BY <1>1, <1>2, <1>4, <1>5, <1>6, <1>7, <1>8, <1>9, Zenon DEF StreamInv

(* The flush scans what is left.                                           *)
LEMMA StreamFlushed ==
    ASSUME RxInv, StreamType, StreamInv, window = <<>>,
           pending' = <<>>, chunks' = <<>>, UNCHANGED <<pushed, window, task>>
    PROVE  /\ StreamInv' /\ Scanned' = Len(pushed)
           /\ pending' \in Seq(Chunk) /\ chunks' \in Seq(Chunk)
           /\ pending \o chunks \in Seq(Chunk) /\ Follows(pending \o chunks, Scanned, pushed)
           /\ Scanned + Len(pending \o chunks) = Len(pushed)
<1>1. /\ Len(window) = 0 /\ <<>> \in Seq(Chunk) /\ Len(<<>>) = 0
  BY EmptySeq
<1>2. PICK n \in Nat : n = Scanned
  BY Parts
<1>3. Follows(pending, n, pushed) /\ Follows(chunks, n + Len(pending), pushed)
  <2>1. n + 0 = n
    OBVIOUS
  <2>2. Follows(pending, n + 0, pushed) /\ Follows(chunks, n + 0 + Len(pending), pushed)
    BY <1>1, <1>2, Zenon DEF StreamInv
  <2> QED BY <2>1, <2>2, Zenon
<1>4. /\ pending \o chunks \in Seq(Chunk) /\ Len(pending \o chunks) = Len(pending) + Len(chunks)
      /\ Follows(pending \o chunks, n, pushed)
  BY <1>3, FollowsJoin, Parts DEF StreamType
<1>5. n + (Len(pending) + Len(chunks)) = Len(pushed)
  <2>1. n + 0 + Len(pending) + Len(chunks) = Len(pushed)
    BY <1>1, <1>2, Parts, Zenon
  <2> QED BY <2>1, Parts
<1>6. Scanned' = Len(pushed)
  <2>1. Scanned' = Len(pushed) - 0 - 0 - 0
    BY <1>1, Zenon DEF Scanned
  <2> QED BY <2>1, Parts
<1>7. \A m \in Int : Follows(<<>>, m, pushed)
  BY <1>1 DEF Follows
<1>8. /\ Follows(window', Scanned', pushed') /\ Follows(pending', Scanned' + Len(window'), pushed')
      /\ Follows(chunks', Scanned' + Len(window') + Len(pending'), pushed')
  <2>1. Len(pushed) \in Int /\ Len(pushed) + 0 \in Int /\ Len(pushed) + 0 + 0 \in Int
    BY Parts
  <2> QED BY <1>1, <1>6, <1>7, <2>1, Zenon
<1>9. StreamInv'
  <2>1. Scanned' >= 0
    BY <1>6, Parts
  <2> QED BY <1>8, <2>1, Zenon DEF StreamInv
<1> QED BY <1>1, <1>2, <1>4, <1>5, <1>6, <1>9, Zenon

(* Emitting a frame moves it from the decoded ones to the emitted ones.    *)
LEMMA EmittedKept ==
    ASSUME StreamType, Emit
    PROVE  /\ bodies' \in Seq(Chunk) /\ emitted' \in Seq(Chunk)
           /\ peer => ToSet(emitted) \cup ToSet(bodies) \subseteq ToSet(emitted') \cup ToSet(bodies')
<1>1. /\ bodies \in Seq(Chunk) /\ emitted \in Seq(Chunk) /\ bodies # <<>> /\ bodies' = Tail(bodies)
      /\ emitted' = IF peer THEN Append(emitted, Head(bodies)) ELSE emitted
  BY DEF StreamType, Emit
<1>2. /\ Len(bodies) \in Nat \ {0} /\ Head(bodies) = bodies[1] /\ Head(bodies) \in Chunk
      /\ Tail(bodies) \in Seq(Chunk) /\ Len(Tail(bodies)) = Len(bodies) - 1
      /\ \A k \in 1 .. Len(bodies) - 1 : Tail(bodies)[k] = bodies[k + 1]
  BY <1>1, HeadTail
<1>3. /\ Append(emitted, Head(bodies)) \in Seq(Chunk)
      /\ Len(Append(emitted, Head(bodies))) = Len(emitted) + 1 /\ Len(emitted) \in Nat
      /\ Append(emitted, Head(bodies))[Len(emitted) + 1] = Head(bodies)
      /\ \A k \in 1 .. Len(emitted) : Append(emitted, Head(bodies))[k] = emitted[k]
  BY <1>1, <1>2, Join
<1>4. ASSUME peer PROVE ToSet(emitted) \cup ToSet(bodies) \subseteq ToSet(emitted') \cup ToSet(bodies')
  <2>1. emitted' = Append(emitted, Head(bodies))
    BY <1>1, <1>4
  <2>2. ASSUME NEW k \in 1 .. Len(emitted) PROVE emitted[k] \in ToSet(emitted')
    <3>1. k \in DOMAIN emitted' /\ emitted'[k] = emitted[k]
      BY <1>3, <2>1
    <3> QED BY <3>1, Zenon DEF ToSet
  <2>3. ASSUME NEW k \in 1 .. Len(bodies) PROVE bodies[k] \in ToSet(emitted') \cup ToSet(bodies')
    <3>1. CASE k = 1
      <4>1. Len(emitted) + 1 \in DOMAIN emitted' /\ emitted'[Len(emitted) + 1] = bodies[k]
        BY <1>2, <1>3, <2>1, <3>1
      <4> QED BY <4>1, Zenon DEF ToSet
    <3>2. CASE k # 1
      <4>1. k - 1 \in 1 .. Len(bodies) - 1 /\ (k - 1) + 1 = k
        BY <1>2, <3>2
      <4>2. k - 1 \in DOMAIN bodies' /\ bodies'[k - 1] = bodies[k]
        BY <1>1, <1>2, <4>1
      <4> QED BY <4>2, Zenon DEF ToSet
    <3> QED BY <3>1, <3>2
  <2>4. DOMAIN emitted = 1 .. Len(emitted) /\ DOMAIN bodies = 1 .. Len(bodies)
    BY <1>1
  <2> QED BY <2>2, <2>3, <2>4, Zenon DEF ToSet
<1> QED BY <1>1, <1>2, <1>3, <1>4

(* Where no window and no frame changes hands, nothing is lost.            *)
LEMMA BurstIdle ==
    ASSUME StreamType, StreamInv, BurstInv,
           UNCHANGED <<decoderVars, pushed, bodies, emitted, lost>>, task' # "decoding" \/ task' = task,
           task' \in {"none", "sleeping", "decoding", "emitting", "ended", "dead"},
           task = "decoding" => task' = task,
           main \in {"leftovers", "ok", "failed"} => main' \in {"leftovers", "ok", "failed"}
    PROVE  StreamType' /\ StreamInv' /\ BurstInv'
<1>1. Scanned' = Scanned
  BY DEF Scanned
<1>2. StreamType'
  BY DEF StreamType
<1>3. StreamInv'
  BY <1>1 DEF StreamInv
<1>4. BurstInv'
  BY <1>1 DEF BurstInv, Over
<1> QED BY <1>2, <1>3, <1>4

(* The consumer pushes a chunk.                                            *)
LEMMA BurstFed ==
    ASSUME RxInv, RecInv, RxInv', RecInv', StreamType, StreamInv, ControlInv, BurstInv, Arm \/ Push
    PROVE  StreamType' /\ StreamInv' /\ BurstInv'
<1>1. CASE Arm /\ UNCHANGED <<task, chunks, pushed>>
  <2>1. /\ UNCHANGED <<pending, window, bodies, emitted, lost>> /\ main = "arming"
    BY <1>1 DEF Arm
  <2> QED BY <1>1, <2>1, BurstIdle DEF StreamType
<1>2. ASSUME NEW c, c = Head(queue), c # EndOfStream, queue # <<>>, main \in {"arming", "consuming"},
             pushed' = Append(pushed, c), chunks' = Append(chunks, c),
             UNCHANGED <<pending, window, bodies, emitted, lost>>,
             task' # task => task = "none" /\ task' = "sleeping"
      PROVE  StreamType' /\ StreamInv' /\ BurstInv'
  <2>1. c \in Chunk
    BY <1>2, HeadTail DEF RxInv, FeedType, Item, EndOfStream
  <2>2. StreamInv' /\ Scanned' = Scanned /\ chunks' \in Seq(Chunk)
    BY <1>2, <2>1, StreamFed
  <2>3. StreamType'
    BY <1>2, <2>2 DEF StreamType
  <2>4. /\ pushed \in Seq(Chunk) /\ Scanned \in 0 .. Len(pushed) /\ Growing(Append(pushed, c))
    <3>1. Growing(pushed')
      BY FedInOrder DEF RxInv, FeedType, FeedInv, RecInv
    <3> QED BY <1>2, <3>1, Parts
  <2>5. ASSUME ~lost PROVE /\ Shown(pushed', Scanned, ToSet(emitted) \cup ToSet(bodies))
                           /\ Clear(pushed', Scanned)
    <3>1. Shown(pushed, Scanned, ToSet(emitted) \cup ToSet(bodies)) /\ Clear(pushed, Scanned)
      BY <1>2, <2>5 DEF BurstInv, Over
    <3> QED BY <1>2, <2>1, <2>4, <3>1, ShownGrow, ClearGrow
  <2>6. BurstInv'
    BY <1>2, <2>2, <2>5, Zenon DEF BurstInv
  <2> QED BY <2>2, <2>3, <2>6
<1>3. CASE Push
  BY <1>2, <1>3, Zenon DEF Push
<1>4. CASE Arm /\ ~UNCHANGED <<task, chunks, pushed>>
  <2>1. /\ main = "arming" /\ queue # <<>> /\ Head(queue) # EndOfStream /\ task' = "sleeping"
        /\ chunks' = Append(chunks, Head(queue)) /\ pushed' = Append(pushed, Head(queue))
        /\ UNCHANGED <<pending, window, bodies, emitted, lost>>
    BY <1>4, Zenon DEF Arm
  <2>2. task = "none"
    BY <2>1 DEF ControlInv
  <2> QED BY <1>2, <2>1, <2>2, Zenon
<1> QED BY <1>1, <1>3, <1>4, Zenon

(* The worker thread decodes its window, or raises.                        *)
LEMMA BurstScanned ==
    ASSUME RxInv, RecInv, StreamType, StreamInv, ControlInv, BurstInv, Decoded \/ DecodeRaises
    PROVE  StreamType' /\ StreamInv' /\ BurstInv'
<1>1. /\ task = "decoding" /\ task' \in {"emitting", "sleeping"} /\ window' = <<>>
      /\ UNCHANGED <<chunks, emitted, pushed, main>>
  BY DEF Decoded, DecodeRaises
<1>2. pending = <<>>
  BY <1>1 DEF StreamInv
<1>3. /\ main \notin {"leftovers", "ok", "failed"} /\ (~lost => bodies = <<>>)
  BY <1>1 DEF ControlInv, Over
<1>4. CASE DecodeRaises
  <2>1. pending' = <<>> /\ bodies' = bodies /\ lost'
    BY <1>2, <1>4, Zenon DEF DecodeRaises
  <2>2. StreamInv' /\ window' \in Seq(Chunk) /\ pending' \in Seq(Chunk)
    BY <1>1, <1>2, <2>1, StreamScanned
  <2> QED BY <1>1, <2>1, <2>2 DEF StreamType, BurstInv
<1>5. CASE Decoded
  <2>1. pending' = Unfinished(window) /\ bodies' = FramesIn(window) /\ lost' = lost
    BY <1>5, Zenon DEF Decoded
  <2>2. /\ StreamInv' /\ Scanned' = Scanned + Len(window) - Len(pending')
        /\ window' \in Seq(Chunk) /\ pending' \in Seq(Chunk)
    BY <1>1, <1>2, <2>1, StreamScanned
  <2>3. StreamType'
    <3>1. bodies' \in Seq(Chunk)
      BY <2>1, Frames DEF StreamType
    <3> QED BY <1>1, <2>2, <3>1 DEF StreamType
  <2>4. /\ pushed \in Seq(Chunk) /\ Scanned \in Nat /\ window \in Seq(Chunk) /\ Growing(pushed)
        /\ Follows(window, Scanned, pushed) /\ Scanned + Len(window) <= Len(pushed)
        /\ Scanned' \in Nat /\ Scanned' <= Scanned + Len(window)
    <3>1. Growing(pushed)
      BY FedInOrder DEF RxInv, FeedType, FeedInv, RecInv
    <3>2. Scanned' \in Nat /\ Len(pending') \in Nat
      <4>1. Len(pending') \in 0 .. Len(window)
        BY <2>1, <2>2, FollowsKept, Parts DEF StreamType, StreamInv
      <4> QED BY <2>2, <4>1, Parts
    <3>3. /\ pushed \in Seq(Chunk) /\ Scanned \in Nat /\ Scanned + Len(window) <= Len(pushed)
          /\ Len(window) \in Nat
      <4>1. /\ Len(pending) = 0 /\ Len(chunks) \in Nat
            /\ Scanned + Len(window) + Len(pending) + Len(chunks) = Len(pushed)
        BY <1>2, Parts, EmptySeq
      <4> QED BY <4>1, Parts
    <3>4. Scanned' <= Scanned + Len(window)
      BY <2>2, <3>2, <3>3
    <3> QED BY <3>1, <3>2, <3>3, <3>4, Zenon DEF StreamType, StreamInv
  <2>5. ASSUME ~lost
        PROVE  /\ Shown(pushed, Scanned', ToSet(emitted') \cup ToSet(bodies'))
               /\ Clear(pushed, Scanned')
    <3>1. /\ Shown(pushed, Scanned, ToSet(emitted) \cup ToSet(bodies)) /\ Clear(pushed, Scanned)
      BY <1>3, <2>5 DEF BurstInv, Over
    <3>2. ToSet(bodies) = {}
      BY <1>3, <2>5 DEF ToSet
    <3>3. Shown(pushed, Scanned, ToSet(emitted))
      BY <3>1, <3>2 DEF Shown
    <3>4. Shown(pushed, Scanned', ToSet(emitted) \cup ToSet(FramesIn(window)))
      BY <2>4, <3>1, <3>3, ShownDecode
    <3>5. Clear(pushed, Scanned + Len(window) - Len(Unfinished(window)))
      BY <2>4, <3>1, ClearDecode
    <3> QED BY <1>1, <2>1, <2>2, <3>4, <3>5, Zenon
  <2>6. BurstInv'
    BY <1>1, <2>1, <2>5, Zenon DEF BurstInv
  <2> QED BY <2>2, <2>3, <2>6
<1> QED BY <1>4, <1>5

(* The final flush decodes what no window has taken.                       *)
LEMMA BurstFlushed ==
    ASSUME RxInv, RecInv, StreamType, StreamInv, ControlInv, BurstInv, Flush
    PROVE  StreamType' /\ StreamInv' /\ BurstInv'
<1>1. /\ main = "flushing" /\ main' = "leftovers" /\ pending' = <<>> /\ chunks' = <<>>
      /\ UNCHANGED <<pushed, window, task, emitted>>
  BY DEF Flush
<1>2. \/ bodies' = FramesIn(pending \o chunks) /\ (lost' => lost) /\ (lost => lost')
      \/ bodies' = <<>> /\ lost'
  BY Zenon DEF Flush
<1>3. window = <<>> /\ (~lost => bodies = <<>>)
  BY <1>1 DEF StreamInv, ControlInv
<1>4. /\ StreamInv' /\ Scanned' = Len(pushed) /\ pending' \in Seq(Chunk) /\ chunks' \in Seq(Chunk)
      /\ pending \o chunks \in Seq(Chunk) /\ Follows(pending \o chunks, Scanned, pushed)
      /\ Scanned + Len(pending \o chunks) = Len(pushed)
  BY <1>1, <1>3, StreamFlushed
<1>5. bodies' \in Seq(Chunk)
  BY <1>2, <1>4, Frames, EmptySeq
<1>6. StreamType'
  BY <1>1, <1>4, <1>5 DEF StreamType
<1>7. ASSUME ~lost' PROVE Shown(pushed, Scanned', ToSet(emitted) \cup ToSet(bodies'))
  <2>1. ~lost /\ bodies' = FramesIn(pending \o chunks)
    BY <1>2, <1>7, Zenon
  <2>2. /\ Shown(pushed, Scanned, ToSet(emitted) \cup ToSet(bodies)) /\ Clear(pushed, Scanned)
    BY <1>1, <2>1 DEF BurstInv, Over
  <2>3. ToSet(bodies) = {}
    BY <1>3, <2>1 DEF ToSet
  <2>4. Shown(pushed, Scanned, ToSet(emitted))
    BY <2>2, <2>3 DEF Shown
  <2>5. pushed \in Seq(Chunk) /\ Scanned \in Nat /\ Len(pushed) \in Nat /\ Growing(pushed)
    BY Parts, FedInOrder DEF RxInv, FeedType, FeedInv, RecInv
  <2>6. Shown(pushed, Len(pushed), ToSet(emitted) \cup ToSet(FramesIn(pending \o chunks)))
    <3>1. Len(pushed) <= Scanned + Len(pending \o chunks) /\ Scanned + Len(pending \o chunks) <= Len(pushed)
      BY <1>4, <2>5
    <3> QED BY <1>4, <2>2, <2>4, <2>5, <3>1, ShownDecode
  <2> QED BY <1>4, <2>1, <2>6
<1>8. BurstInv'
  BY <1>1, <1>7 DEF BurstInv
<1> QED BY <1>4, <1>6, <1>8

(* Every step keeps the account of the bursts.                             *)
LEMMA DecodeStep == ASSUME RxInv, RxInv', DecodeInv, [Next]_vars PROVE DecodeInv'
<1> USE DEF DecodeInv
<1>1. RecInv' /\ ControlInv'
  BY RecStep, ControlStep
<1> SUFFICES StreamType' /\ StreamInv' /\ BurstInv'
  BY <1>1
<1>2. task \in {"none", "sleeping", "decoding", "emitting", "ended", "dead"}
  BY DEF StreamType
<1>3. CASE UNCHANGED <<main, task, decoderVars, pushed, bodies, emitted, lost>>
  BY <1>2, <1>3, BurstIdle
<1>4. CASE SourceYields \/ ReaderSkips \/ ReaderStops \/ ReaderPasses \/ Puts \/ ReaderEnds
           \/ PutReturns \/ Bail \/ (\E dies \in BOOLEAN : SourceEnds(dies)) \/ SourceReturns
  BY <1>3, <1>4, Zenon DEF SourceYields, ReaderSkips, ReaderStops, ReaderPasses, Puts, ReaderEnds,
                    PutReturns, Bail, SourceEnds, SourceReturns, ReaderFrame
<1>5. CASE Loop \/ StopRequested \/ PeerGoes \/ UNCHANGED vars
  BY <1>3, <1>5, Zenon DEF Loop, Enqueue, Cancel, StopRequested, PeerGoes, vars
<1>6. CASE Arm \/ Push
  BY <1>1, <1>6, BurstFed
<1>7. CASE ArmTimesOut \/ ConsumerLeaves \/ Joined \/ Verdict
  <2>1. /\ UNCHANGED <<task, decoderVars, pushed, bodies, emitted, lost>>
        /\ main \in {"leftovers", "ok", "failed"} => main' \in {"leftovers", "ok", "failed"}
    BY <1>7 DEF ArmTimesOut, ConsumerLeaves, TearDown, Joined, Verdict
  <2> QED BY <1>2, <2>1, BurstIdle
<1>8. CASE DecodeTaskEnds \/ DecodeSleeps
  <2>1. /\ UNCHANGED <<main, decoderVars, pushed, bodies, emitted, lost>>
        /\ task' \in {"ended", "sleeping"} /\ task # "decoding"
    BY <1>8 DEF DecodeTaskEnds, DecodeSleeps
  <2> QED BY <2>1, BurstIdle
<1>9. CASE DecodeWakes
  <2>1. /\ task = "sleeping" /\ task' = "decoding" /\ TakeWindow
        /\ UNCHANGED <<main, pushed, bodies, emitted, lost>>
    BY <1>9 DEF DecodeWakes
  <2>2. window = <<>>
    BY <2>1 DEF StreamInv
  <2>3. /\ StreamInv' /\ Scanned' = Scanned
        /\ window' \in Seq(Chunk) /\ pending' \in Seq(Chunk) /\ chunks' \in Seq(Chunk)
    BY <2>1, <2>2, StreamTaken
  <2>4. StreamType'
    BY <2>1, <2>3 DEF StreamType
  <2>5. BurstInv'
    BY <2>1, <2>3 DEF BurstInv, Over
  <2> QED BY <2>3, <2>4, <2>5
<1>10. CASE Decoded \/ DecodeRaises
  BY <1>10, BurstScanned
<1>11. CASE Flush
  BY <1>11, BurstFlushed
<1>12. CASE DecodeEmits \/ EmitLeftover
  <2>1. /\ Emit /\ UNCHANGED <<decoderVars, pushed>>
        /\ task' \in {"none", "sleeping", "decoding", "emitting", "ended", "dead"}
        /\ task # "decoding" /\ task' # "decoding"
        /\ main \in {"leftovers", "ok", "failed"} => main' \in {"leftovers", "ok", "failed"}
    BY <1>2, <1>12 DEF DecodeEmits, EmitLeftover, ControlInv
  <2>2. bodies' \in Seq(Chunk) /\ emitted' \in Seq(Chunk)
        /\ (peer => ToSet(emitted) \cup ToSet(bodies) \subseteq ToSet(emitted') \cup ToSet(bodies'))
    BY <2>1, EmittedKept
  <2>3. ~lost' => ~lost /\ peer
    BY <2>1, Zenon DEF Emit
  <2>4. Scanned' = Scanned
    BY <2>1 DEF Scanned
  <2>5. StreamType'
    BY <2>1, <2>2 DEF StreamType
  <2>6. StreamInv'
    BY <2>1, <2>4 DEF StreamInv
  <2>7. BurstInv'
    <3> SUFFICES ASSUME ~lost'
        PROVE  /\ Shown(pushed', Scanned', ToSet(emitted') \cup ToSet(bodies'))
               /\ ~Over' /\ main' # "leftovers" => Clear(pushed', Scanned')
      BY DEF BurstInv
    <3>1. /\ Shown(pushed, Scanned, ToSet(emitted) \cup ToSet(bodies))
          /\ ~Over /\ main # "leftovers" => Clear(pushed, Scanned)
      BY <2>3, Zenon DEF BurstInv
    <3>2. Shown(pushed, Scanned, ToSet(emitted') \cup ToSet(bodies'))
      BY <2>2, <2>3, <3>1 DEF Shown
    <3>3. ~Over' /\ main' # "leftovers" => ~Over /\ main # "leftovers"
      BY <2>1 DEF Over
    <3> QED BY <2>1, <2>4, <3>1, <3>2, <3>3, Zenon
  <2> QED BY <2>5, <2>6, <2>7
<1> QED BY <1>4, <1>5, <1>6, <1>7, <1>8, <1>9, <1>10, <1>11, <1>12
         DEF Next, Reader, Consumer, DecodeTask, Finished

(* A burst that may span windows is not lost between them: once the engine *)
(* is over and no decode raised and no frame met a dead peer, every burst  *)
(* that was fed whole and is no longer than the deferral was emitted       *)
(* (_take_window and _decode of StreamDecoder, _decode_loop and the finally *)
(* of run_rx), for any number of chunks, any gate and any deferral.        *)
THEOREM EveryBurstEmittedCorrect == Spec => []EveryBurstEmitted
<1>1. RxInv /\ DecodeInv => EveryBurstEmitted
  <2> SUFFICES ASSUME RxInv, DecodeInv, Over, task # "none", ~lost, NEW i \in DOMAIN pushed,
                      pushed[i] \in Frame, BurstOf(pushed[i]) \subseteq ToSet(pushed),
                      Cardinality(RunUpTo(i)) <= MaxDefer
               PROVE  pushed[i] \in ToSet(emitted)
    BY DEF EveryBurstEmitted
  <2> USE DEF DecodeInv
  <2>1. /\ task \in {"ended", "dead"} /\ pending = <<>> /\ chunks = <<>> /\ window = <<>>
        /\ bodies = <<>>
    BY DEF ControlInv, StreamInv, Over
  <2>2. /\ pushed \in Seq(Chunk) /\ i \in 1 .. Len(pushed)
        /\ Scanned + Len(<<>>) + Len(<<>>) + Len(<<>>) = Len(pushed) /\ Scanned \in Nat
    <3>1. pushed \in Seq(Chunk) /\ Scanned \in Nat
          /\ Scanned + Len(window) + Len(pending) + Len(chunks) = Len(pushed)
      BY Parts
    <3> QED BY <2>1, <3>1
  <2>3. i \in 1 .. Scanned
    <3>1. Len(<<>>) = 0
      BY EmptySeq
    <3>2. Scanned + 0 + 0 + 0 = Len(pushed)
      BY <2>2, <3>1, Zenon
    <3> QED BY <2>2, <3>2
  <2>4. Run(pushed, i) = RunUpTo(i)
    BY DEF Run, RunUpTo
  <2>5. Whole(pushed, i)
    BY <2>4 DEF Whole, Frame
  <2>6. pushed[i] \in ToSet(emitted) \cup ToSet(bodies)
    BY <2>3, <2>5 DEF BurstInv, Shown
  <2>7. ToSet(bodies) = {}
    BY <2>1 DEF ToSet
  <2> QED BY <2>6, <2>7
<1>2. RxInv /\ DecodeInv /\ [Next]_vars => (RxInv /\ DecodeInv)'
  BY RxStep, DecodeStep
<1> QED BY <1>1, <1>2, RxInit, DecodeInit, PTL DEF Spec
=============================================================================
