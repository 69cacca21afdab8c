------------------------- MODULE PassServices_proofs -------------------------
(* The services of a receive app for any bounds: two engines are paired    *)
(* without a loss, the capture file has no hole, the Doppler poll neither  *)
(* holds a silent source nor takes a late reply for an answer, and the     *)
(* data socket carries the audio in order and to the end.  Each service    *)
(* has an inductive invariant of its own, kept by the steps of the others  *)
(* because they leave its variables alone.  The live handoff queue comes   *)
(* last.                                                                   *)
EXTENDS PassServices, DataLemmas, SequenceTheorems, TLAPS

(* The head of a queue and what follows it, item by item.                  *)
LEMMA HeadTail ==
    ASSUME NEW S, NEW q \in Seq(S), q # <<>>
    PROVE  /\ Len(q) \in Nat \ {0} /\ Head(q) = q[1] /\ Head(q) \in S
           /\ Tail(q) \in Seq(S) /\ Len(Tail(q)) = Len(q) - 1
           /\ \A k \in 1 .. Len(q) - 1 : Tail(q)[k] = q[k + 1]
BY HeadTailProperties, EmptySeq

(* An item comes behind the others.                                        *)
LEMMA Join ==
    ASSUME NEW S, NEW q \in Seq(S), NEW e \in S
    PROVE  /\ Append(q, e) \in Seq(S) /\ Len(q) \in Nat /\ Len(Append(q, e)) = Len(q) + 1
           /\ \A k \in 1 .. Len(q) : Append(q, e)[k] = q[k]
           /\ Append(q, e)[Len(q) + 1] = e
BY AppendProperties, LenProperties

-----------------------------------------------------------------------------
(* The disk and the counters are numbers; what is in the file is numbered  *)
(* without a hole, and while the handle is open it is all there is.        *)
CaptureInv ==
    /\ captured \in Nat /\ decoded = captured /\ room \in Nat /\ handle \in {"open", "closed"}
    /\ file \in Seq(Nat) /\ Len(file) <= captured
    /\ \A k \in 1 .. Len(file) : file[k] = k
    /\ handle = "open" => Len(file) = captured

(* A run of m samples, numbered from the one behind c.                     *)
Run(s, c, m) ==
    /\ c \in Nat /\ m \in Nat /\ s \in Seq(Nat) /\ Len(s) = m
    /\ \A k \in 1 .. m : s[k] = c + k

(* A run continues the one that ends where it starts.                      *)
LEMMA Continued ==
    ASSUME NEW s, NEW t, NEW c, NEW m, Run(s, 0, c), Run(t, c, m)
    PROVE  Run(s \o t, 0, c + m)
<1> USE DEF Run
<1>1. /\ s \o t \in Seq(Nat) /\ Len(s \o t) = c + m
      /\ \A k \in 1 .. c + m : (s \o t)[k] = IF k <= c THEN s[k] ELSE t[k - c]
  BY ConcatProperties, ZenonT(60)
<1>2. ASSUME NEW k \in 1 .. c + m PROVE (s \o t)[k] = 0 + k
  <2>1. CASE k <= c
    BY <1>1, <2>1
  <2>2. CASE k > c
    <3>1. k - c \in 1 .. m
      BY <2>2
    <3> QED BY <1>1, <2>2, <3>1
  <2> QED BY <2>1, <2>2
<1> QED BY <1>1, <1>2

(* The chunk the device delivers next, and what fits of it.                *)
LEMMA ChunkRun ==
    ASSUME NEW n \in Nat, NEW m \in 0 .. n, captured \in Nat
    PROVE  /\ Run(Recorder!Chunk(n), captured, n)
           /\ Run(SubSeq(Recorder!Chunk(n), 1, m), captured, m)
<1> DEFINE c == Recorder!Chunk(n)
<1>1. c = [k \in 1 .. n |-> captured + k]
  BY DEF Recorder!Chunk
<1>2. c \in [1 .. n -> Nat]
  BY <1>1
<1>3. c \in Seq(Nat) /\ Len(c) = n
  BY <1>2, SeqDef, LenProperties
<1>4. \A k \in 1 .. n : c[k] = captured + k
  BY <1>1
<1> HIDE DEF c
<1>5. /\ SubSeq(c, 1, m) \in Seq(Nat) /\ Len(SubSeq(c, 1, m)) = m
      /\ \A k \in 1 .. m : SubSeq(c, 1, m)[k] = c[k]
  <2>1. m \in Nat /\ m <= n /\ \A k \in 1 .. m : k \in 1 .. n
    OBVIOUS
  <2>2. \A k \in 1 .. m : c[k] \in Nat
    BY <1>3, <2>1, ElementOfSeq
  <2>3. SubSeq(c, 1, m) = [k \in 1 .. m |-> c[k]]
    BY <1>3, <2>1
  <2> QED BY <1>3, <2>1, <2>2, <2>3
<1> QED BY <1>3, <1>4, <1>5 DEF c, Run

(* A chunk is written, in part or not at all; a disk that frees space or a *)
(* close change nothing in the file.                                       *)
LEMMA CaptureStep == CaptureInv /\ [Recorder!RecorderNext]_recorder => CaptureInv'
<1> SUFFICES ASSUME CaptureInv, [Recorder!RecorderNext]_recorder PROVE CaptureInv'
  OBVIOUS
<1> USE DEF CaptureInv
<1>1. ASSUME NEW n \in 1 .. MaxChunk, Recorder!WriteChunk(n) PROVE CaptureInv'
  <2>1. n \in Nat /\ captured' = captured + n /\ decoded' = captured'
    BY <1>1, ServicesAssumption, SMTT(30) DEF Recorder!WriteChunk
  <2>0. handle = "open" => Run(file, 0, captured)
    BY DEF Run
  <2>2. CASE handle = "closed"
    <3>1. file' = file /\ room' = room /\ handle' = handle
      BY <1>1, <2>2 DEF Recorder!WriteChunk
    <3> QED BY <2>1, <2>2, <3>1
  <2>3. CASE handle = "open" /\ n <= room
    <3>1. handle # "closed" /\ ~(n > room)
      BY <2>1, <2>3
    <3>2. file' = file \o Recorder!Chunk(n) /\ room' = room - n /\ handle' = handle
      BY <1>1, <2>3, <3>1, Zenon DEF Recorder!WriteChunk
    <3>3. Run(Recorder!Chunk(n), captured, n)
      BY <2>1, ChunkRun
    <3>4. Run(file', 0, captured + n)
      BY <2>0, <2>3, <3>2, <3>3, Continued, Zenon
    <3> QED BY <2>1, <2>3, <3>2, <3>4 DEF Run
  <2>4. CASE handle = "open" /\ n > room
    <3>1. /\ file' = file \o SubSeq(Recorder!Chunk(n), 1, room)
          /\ room' = 0 /\ handle' = "closed"
      BY <1>1, <2>4 DEF Recorder!WriteChunk
    <3>2. room \in 0 .. n
      BY <2>1, <2>4
    <3>3. Run(SubSeq(Recorder!Chunk(n), 1, room), captured, room)
      BY <2>1, <3>2, ChunkRun
    <3>4. Run(file', 0, captured + room)
      BY <2>0, <2>4, <3>1, <3>3, Continued, Zenon
    <3> QED BY <2>1, <2>4, <3>1, <3>4 DEF Run
  <2> QED BY <2>1, <2>2, <2>3, <2>4
<1>2. CASE Recorder!DiskFrees
  BY <1>2, ServicesAssumption DEF Recorder!DiskFrees
<1>3. CASE Recorder!CloseRecorder
  BY <1>3 DEF Recorder!CloseRecorder
<1>4. CASE UNCHANGED recorder
  BY <1>4 DEF recorder
<1> QED
  <2> HIDE DEF CaptureInv
  <2> QED BY <1>1, <1>2, <1>3, <1>4 DEF Recorder!RecorderNext

(* The file is empty when it is opened.                                    *)
LEMMA CaptureInit == ServicesInit => CaptureInv
<1> SUFFICES ASSUME ServicesInit PROVE CaptureInv
  OBVIOUS
<1>1. captured = 0 /\ room \in 0 .. MaxSamples \cup {0} /\ handle = "open" /\ file = <<>> /\ decoded = 0
  <2>1. CASE part = "recorder"
    BY <2>1 DEF ServicesInit, Recorder!RecorderInit
  <2>2. CASE part # "recorder"
    BY <2>2 DEF ServicesInit
  <2> QED BY <2>1, <2>2
<1> QED BY <1>1, ServicesAssumption DEF CaptureInv

-----------------------------------------------------------------------------
(* The poll: the clocks are numbers, and a wait has at most its timeout to *)
(* go.                                                                     *)
WaitInv ==
    /\ phase \in Doppler!Waiting \cup {"top", "done"} /\ left \in Nat
    /\ phase \in {"top", "done"} => left = 0
    /\ phase \in {"drain", "await"} => left <= Rpc
    /\ sinceOk \in Nat /\ onFallback \in BOOLEAN

(* One request is outstanding while the loop reads, its reply is on the    *)
(* wire or still owed, and none is outside: what a request that timed out  *)
(* left behind is gone with its connection.                                *)
WireInv ==
    /\ asked \in Nat /\ wire \in Seq(Int) /\ heard \in Int
    /\ IF phase \in {"drain", "await"} THEN asked + Len(wire) = 1 ELSE asked = 0 /\ wire = <<>>
    /\ wire # <<>> => wire[1] + left <= (IF phase = "drain" THEN Rpc ELSE Rpc + Rpc)
    /\ heard <= Rpc + Rpc

(* The ticks from the last judgement to the end of the current wait.       *)
Budget ==
    CASE phase = "connect" -> Period + Connect
      [] phase = "drain"   -> Period + Connect + Rpc
      [] phase = "await"   -> Period + Connect + Rpc + Rpc
      [] phase = "reset"   -> Period + Connect + Rpc + Rpc + Reset
      [] OTHER             -> Period

(* Before the source is given up, the age of its last reading cannot be    *)
(* past the grace by more than the waits of one period.                    *)
GraceInv == phase # "done" /\ ~onFallback => sinceOk + left <= Grace + Budget

(* The loop's judgement of a reading, by what it does to the clocks.       *)
LEMMA Judged ==
    ASSUME WaitInv, NEW r \in Int, Doppler!Judge(r)
    PROVE  WaitInv' /\ GraceInv' /\ phase' = "sleep"
           /\ (r >= 0 => heard' = r) /\ (~(r >= 0) => heard' = heard)
<1>0. phase' = "sleep" /\ left' = Period
  BY DEF Doppler!Judge, Doppler!Await
<1>1. (r >= 0 => heard' = r) /\ (~(r >= 0) => heard' = heard)
  BY DEF Doppler!Judge
<1>2. CASE r # Doppler!None
  <2>1. sinceOk' = 0 /\ onFallback' = FALSE
    BY <1>2 DEF Doppler!Judge
  <2>2. Budget' = Period
    BY <1>0 DEF Budget
  <2>3. GraceInv'
    BY <1>0, <2>1, <2>2, ServicesAssumption DEF GraceInv
  <2> QED BY <1>0, <1>1, <2>1, <2>3, ServicesAssumption DEF WaitInv, Doppler!Waiting
<1>3. CASE r = Doppler!None
  <2>1. sinceOk' = sinceOk /\ onFallback' \in BOOLEAN
    BY <1>3 DEF Doppler!Judge, WaitInv
  <2>2. CASE sinceOk >= Grace
    <3>1. onFallback'
      BY <1>3, <2>2, Zenon DEF Doppler!Judge
    <3> QED BY <1>0, <1>1, <2>1, <3>1, ServicesAssumption DEF WaitInv, GraceInv, Doppler!Waiting
  <2>3. CASE ~(sinceOk >= Grace)
    <3>1. sinceOk' + left' <= Grace + Period
      BY <1>0, <2>1, <2>3, ServicesAssumption DEF WaitInv
    <3>2. GraceInv'
      BY <1>0, <3>1 DEF GraceInv, Budget
    <3> QED BY <1>0, <1>1, <2>1, <3>2, ServicesAssumption DEF WaitInv, Doppler!Waiting
  <2> QED BY <2>2, <2>3
<1> QED BY <1>2, <1>3

(* A tick ages by at most one.                                             *)
LEMMA Ages ==
    \A a \in Int : Doppler!Older(a) \in Int /\ Doppler!Older(a) <= a + 1
                   /\ (a >= 0 => Doppler!Older(a) >= 0)
BY ServicesAssumption DEF Doppler!Older

DopplerInv == WaitInv /\ WireInv /\ GraceInv

(* A step of time moves every clock and the current wait against each      *)
(* other.                                                                  *)
LEMMA TickStep == DopplerInv /\ Doppler!Tick => DopplerInv'
<1> SUFFICES ASSUME DopplerInv, Doppler!Tick PROVE DopplerInv'
  OBVIOUS
<1> USE DEF DopplerInv
<1>1. /\ phase \in Doppler!Waiting /\ left > 0 /\ left' = left - 1
      /\ sinceOk' = Doppler!Older(sinceOk)
      /\ wire' = [k \in DOMAIN wire |-> Doppler!Older(wire[k])]
      /\ phase' = phase /\ asked' = asked /\ heard' = heard /\ onFallback' = onFallback
  BY DEF Doppler!Tick
<1>2. sinceOk' \in Nat /\ sinceOk' <= sinceOk + 1 /\ left' \in Nat
  BY <1>1, Ages DEF WaitInv
<1>3. WaitInv'
  BY <1>1, <1>2, ServicesAssumption DEF WaitInv, Doppler!Waiting
<1>4. GraceInv'
  <2>1. Budget' = Budget
    BY <1>1 DEF Budget
  <2>2. Budget \in Int
    BY ServicesAssumption DEF Budget
  <2> QED BY <1>1, <1>2, <2>1, <2>2, ServicesAssumption DEF GraceInv, WaitInv
<1>5. WireInv'
  <2>1. wire \in Seq(Int) /\ DOMAIN wire = 1 .. Len(wire) /\ Len(wire) \in Nat
    BY LenProperties DEF WireInv
  <2>2. \A k \in 1 .. Len(wire) : wire'[k] = Doppler!Older(wire[k]) /\ wire'[k] \in Int
    BY <1>1, <2>1, Ages, ElementOfSeq
  <2>3. wire' \in [1 .. Len(wire) -> Int]
    BY <1>1, <2>1, <2>2
  <2>4. wire' \in Seq(Int) /\ Len(wire') = Len(wire)
    BY <2>1, <2>3, SeqDef, LenProperties
  <2>5. (wire = <<>> <=> Len(wire) = 0) /\ (wire' = <<>> <=> Len(wire') = 0)
    BY <2>1, <2>4, EmptySeq
  <2>6. wire' # <<>> => wire'[1] + left' <= wire[1] + left
    <3> SUFFICES ASSUME wire' # <<>> PROVE wire'[1] + left' <= wire[1] + left
      OBVIOUS
    <3>1. 1 \in 1 .. Len(wire)
      BY <2>1, <2>4, <2>5
    <3>2. wire[1] \in Int /\ wire'[1] = Doppler!Older(wire[1])
      BY <2>1, <2>2, <3>1, ElementOfSeq
    <3>3. wire'[1] \in Int /\ wire'[1] <= wire[1] + 1
      BY <3>2, Ages
    <3>4. left \in Nat
      BY DEF WaitInv
    <3> QED BY <1>1, <3>2, <3>3, <3>4
  <2>7. wire' # <<>> => wire'[1] \in Int /\ wire[1] \in Int
    BY <2>1, <2>2, <2>4, <2>5, ElementOfSeq
  <2>8. (IF phase = "drain" THEN Rpc ELSE Rpc + Rpc) \in Int /\ left \in Int /\ left' \in Int
    BY <1>2, ServicesAssumption DEF WaitInv
  <2> QED BY <1>1, <2>4, <2>5, <2>6, <2>7, <2>8 DEF WireInv
<1> QED BY <1>3, <1>4, <1>5

(* Replies arrive only for requests, and are as old as the wait is long.   *)
LEMMA EnvStep == DopplerInv /\ Doppler!PollEnv => DopplerInv'
<1> SUFFICES ASSUME DopplerInv, Doppler!PollEnv PROVE DopplerInv'
  OBVIOUS
<1> USE DEF DopplerInv
<1>1. ASSUME NEW r \in {0, Doppler!None, Doppler!NaN},
          Doppler!DaemonAnswers(r) PROVE DopplerInv'
  <2>1. /\ asked > 0 /\ asked' = asked - 1 /\ wire' = Append(wire, r)
        /\ UNCHANGED <<phase, left, sinceOk, heard, onFallback>>
    BY <1>1 DEF Doppler!DaemonAnswers, Doppler!clocks, Doppler!rotator
  <2>2. r \in Int /\ r <= 0
    BY DEF Doppler!None, Doppler!NaN
  <2>3. phase \in {"drain", "await"} /\ asked = 1 /\ Len(wire) = 0
    BY <2>1, LenProperties DEF WireInv
  <2>4. /\ wire' \in Seq(Int) /\ Len(wire') = 1 /\ wire'[1] = r
    BY <2>1, <2>2, <2>3, Join DEF WireInv
  <2>5. wire'[1] + left' <= (IF phase = "drain" THEN Rpc ELSE Rpc + Rpc)
    BY <2>1, <2>2, <2>3, <2>4, ServicesAssumption DEF WaitInv
  <2>6. WireInv'
    BY <2>1, <2>3, <2>4, <2>5 DEF WireInv
  <2>7. WaitInv' /\ GraceInv'
    BY <2>1 DEF WaitInv, GraceInv, Budget
  <2> QED BY <2>6, <2>7
<1>2. CASE Doppler!OnSetDoppler \/ Doppler!Stop
  BY <1>2 DEF Doppler!OnSetDoppler, Doppler!Stop, Doppler!line, Doppler!clocks, Doppler!rotator,
              WaitInv, WireInv, GraceInv, Budget
<1> QED BY <1>1, <1>2 DEF Doppler!PollEnv

(* Every wait of one read, and what it ends with.                          *)
LEMMA LoopStep == DopplerInv /\ Doppler!PollLoop => DopplerInv'
<1> SUFFICES ASSUME DopplerInv, Doppler!PollLoop PROVE DopplerInv'
  OBVIOUS
<1> USE ServicesAssumption DEF DopplerInv, Doppler!line, Doppler!clocks, Doppler!rotator
<1>1. CASE Doppler!Top
  <2>1. CASE conn = "open"
    BY <1>1, <2>1, SMTT(30) DEF Doppler!Top, Doppler!Ask, Doppler!Await, WaitInv, WireInv, GraceInv,
        Budget,
                      Doppler!Waiting
  <2>2. CASE conn # "open"
    BY <1>1, <2>2, SMTT(30) DEF Doppler!Top, Doppler!Await, WaitInv, WireInv, GraceInv, Budget,
                      Doppler!Waiting
  <2> QED BY <2>1, <2>2
<1>2. CASE Doppler!Connected
  <2>1. /\ phase = "connect" /\ phase' = "drain" /\ left' = Rpc
        /\ asked' = asked + 1 /\ wire' = wire
        /\ UNCHANGED <<sinceOk, onFallback, heard>>
    BY <1>2 DEF Doppler!Connected, Doppler!Ask, Doppler!Await
  <2>2. WaitInv'
    BY <2>1 DEF WaitInv, Doppler!Waiting
  <2>3. WireInv'
    BY <2>1 DEF WaitInv, WireInv
  <2>4. GraceInv'
    BY <2>1 DEF WaitInv, GraceInv, Budget
  <2> QED BY <2>2, <2>3, <2>4
<1>3. CASE Doppler!Drained
  <2>1. /\ phase = "drain" /\ phase' = "await" /\ left' = Rpc
        /\ asked' = asked /\ wire' = wire
        /\ UNCHANGED <<sinceOk, onFallback, heard>>
    BY <1>3 DEF Doppler!Drained, Doppler!Await
  <2>2. WaitInv'
    BY <2>1 DEF WaitInv, Doppler!Waiting
  <2>3. WireInv'
    BY <2>1 DEF WaitInv, WireInv
  <2>4. GraceInv'
    BY <2>1 DEF WaitInv, GraceInv, Budget
  <2> QED BY <2>2, <2>3, <2>4
<1>4. CASE Doppler!ConnectFails \/ Doppler!WasReset
  <2>1. Doppler!Judge(Doppler!None) /\ asked' = asked /\ wire' = wire
        /\ phase \notin {"drain", "await"}
    BY <1>4 DEF Doppler!ConnectFails, Doppler!WasReset
  <2>2. Doppler!None \in Int /\ ~(Doppler!None >= 0)
    BY DEF Doppler!None
  <2>3. WaitInv' /\ GraceInv' /\ phase' = "sleep" /\ heard' = heard
    BY <2>1, <2>2, Judged
  <2>4. WireInv'
    BY <2>1, <2>3 DEF WireInv
  <2> QED BY <2>3, <2>4
<1>5. CASE Doppler!ReadReply
  <2>1. Doppler!Judge(Head(wire)) /\ phase = "await" /\ wire # <<>> /\ wire' = Tail(wire)
        /\ asked' = asked
    BY <1>5 DEF Doppler!ReadReply
  <2>2. wire \in Seq(Int) /\ Len(wire) = 1 /\ asked = 0 /\ Head(wire) = wire[1] /\ wire[1] \in Int
    <3>1. wire \in Seq(Int) /\ asked + Len(wire) = 1 /\ asked \in Nat
      BY <2>1 DEF WireInv
    <3>2. Len(wire) \in Nat \ {0} /\ Head(wire) = wire[1] /\ Head(wire) \in Int
      BY <2>1, <3>1, HeadTail, Zenon
    <3>3. \A a \in Nat, n \in Nat \ {0} : a + n = 1 => n = 1 /\ a = 0
      OBVIOUS
    <3>4. Len(wire) = 1 /\ asked = 0
      BY <3>1, <3>2, <3>3, Zenon
    <3>5. wire[1] \in Int
      BY <3>2, Zenon
    <3> QED BY <3>1, <3>2, <3>4, <3>5, Zenon
  <2>3. wire' = <<>>
    <3>1. Tail(wire) \in Seq(Int) /\ Len(Tail(wire)) = 0
      BY <2>1, <2>2, HeadTail
    <3> QED BY <2>1, <3>1, EmptySeq
  <2>4. /\ WaitInv' /\ GraceInv' /\ phase' = "sleep"
        /\ (wire[1] >= 0 => heard' = wire[1]) /\ (~(wire[1] >= 0) => heard' = heard)
    BY <2>1, <2>2, Judged
  <2>5. wire[1] <= Rpc + Rpc
    BY <2>1, <2>2 DEF WireInv, WaitInv
  <2>6. WireInv'
    BY <2>1, <2>2, <2>3, <2>4, <2>5 DEF WireInv
  <2> QED BY <2>4, <2>6
<1>6. CASE Doppler!LineFails
  <2>1. /\ phase \in {"drain", "await"} /\ phase' = "reset" /\ left' = Reset
        /\ asked' = 0 /\ wire' = <<>>
        /\ UNCHANGED <<sinceOk, onFallback, heard>>
    BY <1>6 DEF Doppler!LineFails, Doppler!Await
  <2>2. WaitInv'
    BY <2>1 DEF WaitInv, Doppler!Waiting
  <2>3. WireInv'
    BY <2>1 DEF WaitInv, WireInv
  <2>4. GraceInv'
    <3>1. Budget' = Period + Connect + Rpc + Rpc + Reset
      BY <2>1 DEF Budget
    <3>2. Budget \in Nat /\ Budget <= Period + Connect + Rpc + Rpc
      BY <2>1, SMTT(30) DEF Budget
    <3>3. sinceOk \in Nat /\ left \in Nat
      BY DEF WaitInv
    <3>4. ~onFallback => sinceOk + left <= Grace + Budget
      BY <2>1 DEF GraceInv
    <3>5. ~onFallback => sinceOk + Reset <= Grace + (Period + Connect + Rpc + Rpc + Reset)
      BY <3>2, <3>3, <3>4
    <3> QED BY <2>1, <3>1, <3>5 DEF GraceInv
  <2> QED BY <2>2, <2>3, <2>4
<1>7. CASE Doppler!Wakes
  BY <1>7, SMTT(30) DEF Doppler!Wakes, Doppler!Await, WaitInv, WireInv, GraceInv, Budget, Doppler!Waiting
<1>8. CASE Doppler!Leaves
  BY <1>8 DEF Doppler!Leaves, WaitInv, WireInv, GraceInv, Budget, Doppler!Waiting
<1> QED BY <1>1, <1>2, <1>3, <1>4, <1>5, <1>6, <1>7, <1>8 DEF Doppler!PollLoop

LEMMA DopplerStep == DopplerInv /\ [Doppler!PollNext]_doppler => DopplerInv'
<1>1. DopplerInv /\ UNCHANGED doppler => DopplerInv'
  BY DEF DopplerInv, doppler, WaitInv, WireInv, GraceInv, Budget
<1>2. Doppler!Polled => UNCHANGED doppler
  BY DEF Doppler!Polled, Doppler!pollVars, Doppler!line, Doppler!clocks, Doppler!rotator,
      doppler
<1> QED BY <1>1, <1>2, TickStep, EnvStep, LoopStep DEF Doppler!PollNext

(* The loop starts with no request and a clock at zero.                    *)
LEMMA DopplerInit == ServicesInit => DopplerInv
<1> SUFFICES ASSUME ServicesInit PROVE DopplerInv
  OBVIOUS
<1>1. /\ phase = "top" /\ left = 0 /\ asked = 0 /\ wire = <<>>
      /\ sinceOk = 0 /\ heard = 0 /\ onFallback = FALSE
  BY DEF ServicesInit, Doppler!PollInit
<1>2. WaitInv
  BY <1>1 DEF WaitInv
<1>3. WireInv
  BY <1>1, ServicesAssumption DEF WireInv
<1>4. GraceInv
  <2>1. Budget = Period
    BY <1>1 DEF Budget
  <2> QED BY <1>1, <2>1, ServicesAssumption DEF GraceInv
<1> QED BY <1>2, <1>3, <1>4 DEF DopplerInv

(* What the waits of one period add up to.                                 *)
LEMMA DopplerSays == DopplerInv => DopplerIsFresh
<1> SUFFICES ASSUME DopplerInv PROVE DopplerIsFresh
  OBVIOUS
<1>1. Doppler!ReadingIsFresh
  BY DEF DopplerInv, WireInv, Doppler!ReadingIsFresh
<1>2. Budget \in Int /\ Budget <= Period + Doppler!MaxRead
  BY ServicesAssumption DEF Budget, Doppler!MaxRead
<1>3. Doppler!HandOver
  BY <1>2, ServicesAssumption
     DEF DopplerInv, WaitInv, GraceInv, Doppler!HandOver, Doppler!MaxRead
<1> QED BY <1>1, <1>3 DEF DopplerIsFresh

-----------------------------------------------------------------------------
(* The audio path: a block is on its way while the executor thread or the  *)
(* pump has it in hand.                                                    *)
InHand == getter = "got" \/ pump = "writing"

PathInv ==
    /\ queue \in Seq(Audio!Item) /\ written \in Seq(Audio!Block) /\ hand \in Audio!Item
    /\ produced \in 0 .. NBlocks /\ dropped \in Nat /\ pushedOut \in Nat
    /\ getter \in {"idle", "getting", "got"}
    /\ pump \in {"calling", "waiting", "writing", "done", "cancelled"}
    /\ pump \in {"calling", "writing", "done"} => getter = "idle"
    /\ pump = "writing" => hand # Audio!None

(* The blocks are in order: written, then in hand, then queued.            *)
OrderInv ==
    /\ \A i \in 1 .. Len(written) : written[i] <= produced
    /\ \A i, j \in 1 .. Len(written) : i < j => written[i] < written[j]
    /\ \A k \in 1 .. Len(queue) : queue[k] \in Audio!Block =>
          /\ queue[k] <= produced
          /\ \A i \in 1 .. Len(written) : written[i] < queue[k]
          /\ \A j \in 1 .. Len(queue) : j < k /\ queue[j] \in Audio!Block => queue[j] < queue[k]
          /\ InHand /\ hand \in Audio!Block => hand < queue[k]
    /\ InHand /\ hand \in Audio!Block =>
          /\ hand <= produced
          /\ \A i \in 1 .. Len(written) : written[i] < hand

(* The sentinel was delivered, or the pump is over or will be cancelled.   *)
Signalled == main \in {"joining", "returned", "exited"}

(* The graph runs until the app stops it, or tries to.                     *)
GraphInv ==
    /\ graph = "on" => main \in {"proving", "serving", "reporting", "stopping"}
    /\ graph = "stuck" => main \in {"signalling", "making-room"} \/ Signalled

(* A pass whose peer stays, whose graph stops and whose pump ends by the   *)
(* sentinel: nothing but the blocks of the pass is on the path, and at     *)
(* most one sentinel, behind them all.                                     *)
Undisturbed == peer = "reading" /\ graph # "stuck" /\ pump # "cancelled"

SentinelInv ==
    Undisturbed =>
        /\ \A k \in 1 .. Len(queue) : queue[k] # Audio!Later
        /\ InHand => hand # Audio!Later
        /\ ~Signalled =>
              /\ pump # "done"
              /\ \A k \in 1 .. Len(queue) : queue[k] # Audio!None
              /\ InHand => hand # Audio!None
        /\ Signalled /\ pump = "done" => queue = <<>>
        /\ Signalled /\ pump # "done" =>
              IF queue = <<>> THEN InHand /\ hand = Audio!None
              ELSE /\ queue[Len(queue)] = Audio!None
                   /\ \A k \in 1 .. Len(queue) - 1 : queue[k] # Audio!None
                   /\ InHand => hand # Audio!None

(* Every block made is written, counted as lost, or on the path, where the *)
(* sentinel takes a place of its own.                                      *)
OnPath == Len(queue) + (IF InHand THEN 1 ELSE 0)
              - (IF Signalled /\ pump # "done" THEN 1 ELSE 0)
CountInv == Undisturbed => Len(written) + dropped + pushedOut + OnPath >= produced

AudioInv == PathInv /\ OrderInv /\ GraphInv /\ SentinelInv /\ CountInv

(* The blocks are numbers, and the two marks are none of them.             *)
LEMMA Items ==
    /\ Audio!Block \subseteq Audio!Item /\ Audio!Item \subseteq Nat
    /\ Audio!None \in Audio!Item /\ Audio!Later \in Audio!Item /\ Audio!None # Audio!Later
    /\ Audio!None \notin Audio!Block /\ Audio!Later \notin Audio!Block
    /\ \A b \in Audio!Item : b # Audio!None /\ b # Audio!Later => b \in Audio!Block
    /\ \A b \in Nat : b \in Audio!Block <=> 1 <= b /\ b <= NBlocks
BY ServicesAssumption DEF Audio!Block, Audio!Item, Audio!None, Audio!Later

(* A queue is empty if it has no item.                                     *)
LEMMA Emptiness ==
    ASSUME NEW q \in Seq(Audio!Item) PROVE Len(q) \in Nat /\ (q = <<>> <=> Len(q) = 0)
BY EmptySeq, LenProperties

(* What is on the path is a number.                                        *)
LEMMA Numbers ==
    PathInv => /\ \A i \in 1 .. Len(written) : written[i] \in Int
               /\ \A k \in 1 .. Len(queue) : queue[k] \in Int
               /\ hand \in Int
<1> SUFFICES ASSUME PathInv
    PROVE /\ \A i \in 1 .. Len(written) : written[i] \in Int
          /\ \A k \in 1 .. Len(queue) : queue[k] \in Int
          /\ hand \in Int
  OBVIOUS
<1>1. written \in Seq(Audio!Block) /\ queue \in Seq(Audio!Item) /\ hand \in Audio!Item
  BY DEF PathInv
<1>2. Audio!Block \subseteq Int /\ Audio!Item \subseteq Int
  BY Items
<1>3. ASSUME NEW i \in 1 .. Len(written) PROVE written[i] \in Audio!Block
  BY <1>1, <1>3, ElementOfSeq, Zenon
<1>4. ASSUME NEW k \in 1 .. Len(queue) PROVE queue[k] \in Audio!Item
  BY <1>1, <1>4, ElementOfSeq, Zenon
<1> QED BY <1>1, <1>2, <1>3, <1>4, Zenon

(* A block joins the queue behind all others, or is counted as lost.       *)
LEMMA ProduceStep == AudioInv /\ Audio!Produce => AudioInv'
<1> SUFFICES ASSUME AudioInv, Audio!Produce PROVE AudioInv'
  OBVIOUS
<1> USE DEF AudioInv
<1> DEFINE new == produced + 1
<1>1. /\ graph = "on" /\ produced < NBlocks /\ produced' = new
      /\ UNCHANGED <<graph, getter, hand, pump, peer, main, pushedOut, written>>
  BY DEF Audio!Produce, Audio!appVars
<1>2. InHand' = InHand /\ Signalled' = Signalled /\ Undisturbed' = Undisturbed /\ ~Signalled
  BY <1>1 DEF InHand, Signalled, Undisturbed, GraphInv
<1>3. new \in Nat /\ new \in Audio!Block /\ new # Audio!None /\ new # Audio!Later
      /\ new \in Audio!Item
  BY <1>1, Items, ServicesAssumption DEF PathInv
<1>4. GraphInv'
  BY <1>1 DEF GraphInv
<1>5. queue \in Seq(Audio!Item) /\ Len(queue) \in Nat /\ produced \in Nat
  BY LenProperties DEF PathInv
<1>6. CASE Audio!Fits
  <2>1. queue' = Append(queue, new) /\ dropped' = dropped
    BY <1>1, <1>6 DEF Audio!Produce
  <2>2. /\ queue' \in Seq(Audio!Item) /\ Len(queue') = Len(queue) + 1
        /\ \A k \in 1 .. Len(queue) : queue'[k] = queue[k]
        /\ queue'[Len(queue) + 1] = new
    BY <1>3, <1>5, <2>1, Join
  <2>3. PathInv'
    BY <1>1, <1>3, <2>1, <2>2, Items DEF PathInv
  <2> HIDE DEF new
  <2>4. OrderInv'
    <3>1. \A b \in Int : b <= produced => b < new /\ b <= produced'
      BY <1>1, <1>5 DEF new
    <3>2. /\ \A i \in 1 .. Len(written) : written[i] \in Int /\ written[i] <= produced
          /\ \A k \in 1 .. Len(queue) : queue[k] \in Int
          /\ hand \in Int
      BY Numbers, Zenon DEF OrderInv
    <3>3. \A i \in 1 .. Len(written) : written[i] <= produced' /\ written[i] < new
      BY <3>1, <3>2
    <3>4. \A k \in 1 .. Len(queue) : queue[k] \in Audio!Block => queue[k] <= produced' /\ queue[k] < new
      BY <3>1, <3>2 DEF OrderInv
    <3>5. InHand /\ hand \in Audio!Block => hand <= produced' /\ hand < new
      BY <3>1, <3>2 DEF OrderInv
    <3>6. ASSUME NEW k \in 1 .. Len(queue'), queue'[k] \in Audio!Block
          PROVE  /\ queue'[k] <= produced'
                 /\ \A i \in 1 .. Len(written) : written[i] < queue'[k]
                 /\ InHand /\ hand \in Audio!Block => hand < queue'[k]
                 /\ \A j \in 1 .. Len(queue') :
                       j < k /\ queue'[j] \in Audio!Block => queue'[j] < queue'[k]
      <4>1. CASE k \in 1 .. Len(queue)
        <5>1. queue'[k] = queue[k] /\ \A j \in 1 .. Len(queue') : j < k => j \in 1 .. Len(queue)
          BY <1>5, <2>2, <4>1
        <5> QED BY <2>2, <3>4, <3>6, <4>1, <5>1 DEF OrderInv
      <4>2. CASE k = Len(queue) + 1
        <5>1. queue'[k] = new /\ \A j \in 1 .. Len(queue') : j < k => j \in 1 .. Len(queue)
          BY <1>5, <2>2, <4>2
        <5>2. new <= produced'
          BY <1>1, <1>3
        <5> QED BY <2>2, <3>3, <3>4, <3>5, <5>1, <5>2
      <4> QED BY <1>5, <2>2, <4>1, <4>2
    <3>7. InHand' <=> InHand
      BY <1>2
    <3>8. \A i, j \in 1 .. Len(written) : i < j => written[i] < written[j]
      BY DEF OrderInv
    <3>9. InHand /\ hand \in Audio!Block => \A i \in 1 .. Len(written) : written[i] < hand
      BY DEF OrderInv
    <3> QED BY <1>1, <3>3, <3>5, <3>6, <3>7, <3>8, <3>9, Zenon DEF OrderInv
  <2>5. SentinelInv'
    BY <1>1, <1>2, <1>3, <1>5, <2>2 DEF SentinelInv
  <2>6. CountInv'
    <3>1. OnPath' = OnPath + 1
      BY <1>1, <1>5, <2>2 DEF OnPath, InHand, Signalled
    <3>2. OnPath \in Int
      BY <1>5 DEF OnPath
    <3>3. Len(written) \in Nat /\ dropped \in Nat /\ pushedOut \in Nat
      BY LenProperties DEF PathInv
    <3> QED BY <1>1, <1>2, <1>5, <2>1, <3>1, <3>2, <3>3 DEF CountInv, new
  <2> QED BY <1>4, <2>3, <2>4, <2>5, <2>6
<1>7. CASE ~Audio!Fits
  <2>1. queue' = queue /\ dropped' = dropped + 1
    BY <1>1, <1>7 DEF Audio!Produce
  <2>2. PathInv'
    BY <1>1, <1>3, <2>1, Items DEF PathInv
  <2>3. OrderInv'
    <3>1. \A b \in Int : b <= produced => b <= produced'
      BY <1>1, <1>5
    <3>2. /\ \A i \in 1 .. Len(written) : written[i] \in Int
          /\ \A k \in 1 .. Len(queue) : queue[k] \in Int
          /\ hand \in Int
      BY Numbers, Zenon
    <3>3. InHand' <=> InHand
      BY <1>2
    <3> QED BY <1>1, <2>1, <3>1, <3>2, <3>3, Zenon DEF OrderInv
  <2>4. SentinelInv'
    BY <1>1, <1>2, <2>1 DEF SentinelInv
  <2>5. CountInv'
    <3>1. OnPath' = OnPath
      BY <1>1, <2>1 DEF OnPath, InHand, Signalled
    <3>2. OnPath \in Int
      BY <1>5 DEF OnPath
    <3>3. Len(written) \in Nat /\ dropped \in Nat /\ pushedOut \in Nat
      BY LenProperties DEF PathInv
    <3> QED BY <1>1, <1>2, <1>5, <2>1, <3>1, <3>2, <3>3 DEF CountInv
  <2> QED BY <1>4, <2>2, <2>3, <2>4, <2>5
<1> QED BY <1>6, <1>7

(* What a graph that would not stop makes is no block of the pass.         *)
LEMMA ProduceOnStep == AudioInv /\ Audio!ProduceOn => AudioInv'
<1> SUFFICES ASSUME AudioInv, Audio!ProduceOn PROVE AudioInv'
  OBVIOUS
<1> USE DEF AudioInv
<1>1. /\ graph = "stuck" /\ queue' = Append(queue, Audio!Later)
      /\ UNCHANGED <<graph, getter, hand, pump, peer, main, pushedOut, written, produced,
             dropped>>
  BY DEF Audio!ProduceOn, Audio!appVars
<1>2. InHand' = InHand /\ ~Undisturbed'
  BY <1>1 DEF InHand, Undisturbed
<1>3. queue \in Seq(Audio!Item) /\ Len(queue) \in Nat
  BY LenProperties DEF PathInv
<1>4. /\ queue' \in Seq(Audio!Item) /\ Len(queue') = Len(queue) + 1
      /\ \A k \in 1 .. Len(queue) : queue'[k] = queue[k]
      /\ queue'[Len(queue) + 1] = Audio!Later
  BY <1>1, <1>3, Items, Join
<1>5. PathInv'
  BY <1>1, <1>4, Items DEF PathInv
<1>6. OrderInv'
  BY <1>1, <1>2, <1>3, <1>4, Items DEF PathInv, OrderInv
<1>7. GraphInv' /\ SentinelInv' /\ CountInv'
  BY <1>1, <1>2 DEF GraphInv, Signalled, SentinelInv, CountInv
<1> QED BY <1>5, <1>6, <1>7

(* The executor thread takes the head of the queue in hand.                *)
LEMMA GetStep == AudioInv /\ Audio!GetReturns => AudioInv'
<1> SUFFICES ASSUME AudioInv, Audio!GetReturns PROVE AudioInv'
  OBVIOUS
<1> USE DEF AudioInv
<1>1. /\ getter = "getting" /\ queue # <<>> /\ getter' = "got" /\ hand' = Head(queue)
      /\ queue' = Tail(queue)
      /\ UNCHANGED <<graph, pump, peer, main, pushedOut, written, produced, dropped>>
  BY DEF Audio!GetReturns, Audio!appVars
<1>2. ~InHand /\ InHand' /\ Signalled' = Signalled /\ Undisturbed' = Undisturbed /\ pump # "done"
  BY <1>1 DEF InHand, Signalled, Undisturbed, PathInv
<1>3. /\ queue \in Seq(Audio!Item) /\ Len(queue) \in Nat \ {0} /\ hand' = queue[1]
      /\ hand' \in Audio!Item
      /\ queue' \in Seq(Audio!Item) /\ Len(queue') = Len(queue) - 1
      /\ \A k \in 1 .. Len(queue) - 1 : queue'[k] = queue[k + 1]
  BY <1>1, HeadTail DEF PathInv
<1>4. PathInv'
  BY <1>1, <1>3 DEF PathInv
<1>5. OrderInv'
  <2>1. \A k \in 1 .. Len(queue') : k + 1 \in 1 .. Len(queue) /\ queue'[k] = queue[k + 1]
    BY <1>3
  <2>2. 1 \in 1 .. Len(queue)
    BY <1>3
  <2>3. \A k \in 1 .. Len(queue') : queue'[k] \in Audio!Block =>
           /\ queue'[k] <= produced
           /\ \A i \in 1 .. Len(written) : written[i] < queue'[k]
           /\ hand' \in Audio!Block => hand' < queue'[k]
    BY <1>3, <2>1, <2>2 DEF OrderInv
  <2>4. \A k \in 1 .. Len(queue') : queue'[k] \in Audio!Block =>
           \A j \in 1 .. Len(queue') :
              j < k /\ queue'[j] \in Audio!Block => queue'[j] < queue'[k]
    BY <1>3, <2>1, SMTT(30) DEF OrderInv
  <2>5. hand' \in Audio!Block =>
           hand' <= produced /\ \A i \in 1 .. Len(written) : written[i] < hand'
    BY <1>3, <2>2 DEF OrderInv
  <2> QED BY <1>1, <2>3, <2>4, <2>5 DEF OrderInv
<1>6. SentinelInv'
  <2> SUFFICES ASSUME Undisturbed PROVE SentinelInv'
    BY <1>2 DEF SentinelInv
  <2>1. /\ \A k \in 1 .. Len(queue') : queue'[k] # Audio!Later
        /\ hand' # Audio!Later
    BY <1>3 DEF SentinelInv
  <2>2. ~Signalled => hand' # Audio!None /\ \A k \in 1 .. Len(queue') : queue'[k] # Audio!None
    BY <1>3 DEF SentinelInv
  <2>3. ASSUME Signalled
        PROVE IF queue' = <<>> THEN hand' = Audio!None
              ELSE /\ queue'[Len(queue')] = Audio!None
                   /\ \A k \in 1 .. Len(queue') - 1 : queue'[k] # Audio!None
                   /\ hand' # Audio!None
    <3>1. /\ queue[Len(queue)] = Audio!None
          /\ \A k \in 1 .. Len(queue) - 1 : queue[k] # Audio!None
      BY <1>1, <1>2, <2>3 DEF SentinelInv
    <3>2. queue' = <<>> <=> Len(queue') = 0
      BY <1>3, Emptiness
    <3>3. CASE Len(queue') = 0
      <4>1. Len(queue) = 1
        BY <1>3, <3>3
      <4>2. hand' = Audio!None
        BY <1>3, <3>1, <4>1, Zenon
      <4> QED BY <3>2, <3>3, <4>2
    <3>4. CASE Len(queue') # 0
      BY <1>3, <3>1, <3>2, <3>4, SMTT(30)
    <3> QED BY <3>3, <3>4
  <2> QED BY <1>1, <1>2, <2>1, <2>2, <2>3 DEF SentinelInv
<1>7. CountInv'
  BY <1>1, <1>2, <1>3 DEF PathInv, CountInv, OnPath
<1>8. GraphInv'
  BY <1>1 DEF GraphInv, Signalled
<1> QED BY <1>4, <1>5, <1>6, <1>7, <1>8

(* A step of the app that leaves the path alone: it may stop the graph,    *)
(* cancel the pump, or go on behind a pump that is over.                   *)
LEMMA QuietStep ==
    ASSUME AudioInv,
           UNCHANGED <<queue, getter, hand, written, produced, dropped, pushedOut, peer>>,
           pump' \in {pump, "cancelled"}, GraphInv',
           graph' # "stuck" => graph # "stuck",
           Signalled' /\ ~Signalled => pump' \in {"done", "cancelled"},
           Signalled => Signalled'
    PROVE  AudioInv'
<1> USE DEF AudioInv
<1>1. CASE pump' = pump
  <2>1. (InHand' <=> InHand) /\ (Undisturbed' => Undisturbed)
    BY <1>1 DEF InHand, Undisturbed
  <2>2. Undisturbed' => (Signalled' <=> Signalled)
    BY <1>1, <2>1 DEF SentinelInv, Undisturbed
  <2>3. PathInv'
    BY <1>1 DEF PathInv
  <2>4. OrderInv'
    BY <1>1, <2>1, Zenon DEF OrderInv
  <2>5. SentinelInv'
    BY <1>1, <2>1, <2>2 DEF SentinelInv
  <2>6. CountInv'
    <3> SUFFICES ASSUME Undisturbed' PROVE CountInv'
      BY DEF CountInv
    <3>1. OnPath' = OnPath
      BY <1>1, <2>1, <2>2 DEF OnPath
    <3> QED BY <2>1, <3>1 DEF CountInv
  <2> QED BY <2>3, <2>4, <2>5, <2>6
<1>2. CASE pump' = "cancelled"
  <2>1. (InHand' => InHand) /\ ~Undisturbed'
    BY <1>2 DEF InHand, Undisturbed
  <2>2. PathInv'
    BY <1>2 DEF PathInv
  <2>3. OrderInv'
    BY <2>1, Zenon DEF OrderInv
  <2>4. SentinelInv' /\ CountInv'
    BY <2>1 DEF SentinelInv, CountInv
  <2> QED BY <2>2, <2>3, <2>4
<1> QED BY <1>1, <1>2

(* The pump asks the executor thread for an item.                          *)
LEMMA CallStep == AudioInv /\ Audio!CallsGet => AudioInv'
<1> SUFFICES ASSUME AudioInv, Audio!CallsGet PROVE AudioInv'
  OBVIOUS
<1> USE DEF AudioInv
<1>1. /\ pump = "calling" /\ pump' = "waiting" /\ getter' = "getting" /\ getter = "idle"
      /\ UNCHANGED <<graph, queue, hand, peer, main, pushedOut, written, produced, dropped>>
  BY DEF Audio!CallsGet, Audio!appVars, PathInv
<1>2. ~InHand /\ ~InHand' /\ (Undisturbed' <=> Undisturbed) /\ (Signalled' <=> Signalled)
  BY <1>1 DEF InHand, Undisturbed, Signalled
<1>3. PathInv' /\ GraphInv'
  BY <1>1, <1>2 DEF PathInv, GraphInv
<1>4. OrderInv'
  BY <1>1, <1>2, Zenon DEF OrderInv
<1>5. SentinelInv'
  BY <1>1, <1>2 DEF SentinelInv
<1>6. CountInv'
  <2>1. OnPath' = OnPath
    BY <1>1, <1>2 DEF OnPath
  <2> QED BY <1>1, <1>2, <2>1 DEF CountInv
<1> QED BY <1>3, <1>4, <1>5, <1>6

(* The pump gets what the thread has in hand; the sentinel ends it.        *)
LEMMA TakeStep == AudioInv /\ Audio!PumpTakes => AudioInv'
<1> SUFFICES ASSUME AudioInv, Audio!PumpTakes PROVE AudioInv'
  OBVIOUS
<1> USE DEF AudioInv
<1>1. /\ pump = "waiting" /\ getter = "got" /\ getter' = "idle"
      /\ pump' = IF hand = Audio!None THEN "done" ELSE "writing"
      /\ UNCHANGED <<graph, queue, hand, peer, main, pushedOut, written, produced, dropped>>
  BY DEF Audio!PumpTakes, Audio!appVars
<1>2. InHand /\ (Undisturbed' <=> Undisturbed) /\ (Signalled' <=> Signalled)
  BY <1>1 DEF InHand, Undisturbed, Signalled
<1>3. InHand' <=> hand # Audio!None
  BY <1>1 DEF InHand
<1>4. PathInv' /\ GraphInv'
  BY <1>1, <1>2 DEF PathInv, GraphInv
<1>5. OrderInv'
  BY <1>1, <1>2, <1>3, Zenon DEF OrderInv
<1>6. SentinelInv'
  BY <1>1, <1>2, <1>3 DEF SentinelInv
<1>7. CountInv'
  <2> SUFFICES ASSUME Undisturbed PROVE CountInv'
    BY <1>2 DEF CountInv
  <2>1. OnPath' = OnPath
    <3>1. CASE hand = Audio!None
      <4>1. Signalled /\ pump # "done" /\ pump' = "done" /\ ~InHand'
        BY <1>1, <1>2, <1>3, <3>1 DEF SentinelInv
      <4>2. Len(queue) \in Nat
        BY LenProperties DEF PathInv
      <4> QED BY <1>1, <1>2, <4>1, <4>2 DEF OnPath
    <3>2. CASE hand # Audio!None
      BY <1>1, <1>2, <1>3, <3>2 DEF OnPath
    <3> QED BY <3>1, <3>2
  <2> QED BY <1>1, <1>2, <2>1 DEF CountInv
<1> QED BY <1>4, <1>5, <1>6, <1>7

(* A peer that closes makes the rest of the pass one that is disturbed.    *)
LEMMA PeerStep == AudioInv /\ Audio!PeerCloses => AudioInv'
<1> SUFFICES ASSUME AudioInv, Audio!PeerCloses PROVE AudioInv'
  OBVIOUS
<1> USE DEF AudioInv
<1>1. /\ peer' = "closed"
      /\ UNCHANGED <<graph, queue, getter, hand, pump, main, pushedOut, written, produced,
             dropped>>
  BY DEF Audio!PeerCloses, Audio!appVars
<1>2. ~Undisturbed' /\ (InHand' <=> InHand)
  BY <1>1 DEF Undisturbed, InHand
<1>3. PathInv' /\ GraphInv'
  BY <1>1 DEF PathInv, GraphInv, Signalled
<1>4. OrderInv'
  BY <1>1, <1>2, Zenon DEF OrderInv
<1>5. SentinelInv' /\ CountInv'
  BY <1>2 DEF SentinelInv, CountInv
<1> QED BY <1>3, <1>4, <1>5

(* What the pump has in hand goes to a peer that is there.                 *)
LEMMA WriteStep == AudioInv /\ Audio!PumpWrites => AudioInv'
<1> SUFFICES ASSUME AudioInv, Audio!PumpWrites PROVE AudioInv'
  OBVIOUS
<1> USE DEF AudioInv
<1>1. /\ pump = "writing" /\ getter = "idle" /\ hand # Audio!None
      /\ UNCHANGED <<graph, queue, getter, hand, peer, main, pushedOut, produced, dropped>>
  BY DEF Audio!PumpWrites, Audio!appVars, PathInv
<1>2. /\ pump' \in {"calling", "done"} /\ (peer = "reading" => pump' = "calling")
      /\ written' \in {written, Append(written, hand)}
  BY DEF Audio!PumpWrites
<1>3. InHand /\ ~InHand' /\ (Signalled' <=> Signalled) /\ (Undisturbed' <=> Undisturbed)
  BY <1>1, <1>2 DEF InHand, Signalled, Undisturbed
<1>4. hand # Audio!Later => hand \in Audio!Block
  BY <1>1, Items DEF PathInv
<1>5. GraphInv'
  BY <1>1, <1>3 DEF GraphInv
<1>6. SentinelInv'
  BY <1>1, <1>2, <1>3 DEF SentinelInv, Undisturbed
<1>7. CASE written' = written
  <2>1. PathInv'
    BY <1>1, <1>2, <1>7 DEF PathInv
  <2>2. OrderInv'
    BY <1>1, <1>3, <1>7, Zenon DEF OrderInv
  <2>3. CountInv'
    <3> SUFFICES ASSUME Undisturbed PROVE FALSE
      BY <1>3 DEF CountInv
    <3>1. hand # Audio!Later /\ peer = "reading"
      BY <1>3 DEF SentinelInv, Undisturbed
    <3>2. written' = Append(written, hand)
      BY <3>1 DEF Audio!PumpWrites
    <3>3. written \in Seq(Audio!Block) /\ hand \in Audio!Block
      BY <1>4, <3>1 DEF PathInv
    <3>4. Len(written') = Len(written) + 1 /\ Len(written) \in Nat
      BY <3>2, <3>3, Join, Zenon
    <3> QED BY <1>7, <3>4
  <2> QED BY <1>5, <1>6, <2>1, <2>2, <2>3
<1>8. CASE written' # written
  <2>1. written' = Append(written, hand) /\ hand \in Audio!Block /\ peer = "reading"
    BY <1>2, <1>4, <1>8 DEF Audio!PumpWrites
  <2>2. /\ written' \in Seq(Audio!Block) /\ Len(written) \in Nat
        /\ Len(written') = Len(written) + 1
        /\ \A i \in 1 .. Len(written) : written'[i] = written[i]
        /\ written'[Len(written) + 1] = hand
    BY <2>1, Join DEF PathInv
  <2>3. PathInv'
    BY <1>1, <1>2, <2>2 DEF PathInv
  <2>4. OrderInv'
    <3>1. \A i \in 1 .. Len(written') : i \in 1 .. Len(written) \/ i = Len(written) + 1
      BY <2>2
    <3>2. \A i \in 1 .. Len(written') : written'[i] <= produced
      BY <1>3, <2>1, <2>2, <3>1, Zenon DEF OrderInv
    <3>3. \A i, j \in 1 .. Len(written') : i < j => written'[i] < written'[j]
      <4>1. \A i, j \in 1 .. Len(written') : i < j => i \in 1 .. Len(written)
        BY <2>2
      <4> QED BY <1>3, <2>1, <2>2, <3>1, <4>1, ZenonT(60) DEF OrderInv
    <3>4. \A k \in 1 .. Len(queue) : queue[k] \in Audio!Block =>
             \A i \in 1 .. Len(written') : written'[i] < queue[k]
      BY <1>3, <2>1, <2>2, <3>1, Zenon DEF OrderInv
    <3> QED BY <1>1, <1>3, <3>2, <3>3, <3>4, Zenon DEF OrderInv
  <2>5. CountInv'
    <3>1. OnPath' = OnPath - 1 /\ OnPath \in Int
      <4>1. Len(queue) \in Nat
        BY LenProperties DEF PathInv
      <4>2. pump # "done" /\ pump' # "done"
        BY <1>1, <1>2, <2>1
      <4> QED BY <1>1, <1>3, <4>1, <4>2 DEF OnPath
    <3>2. dropped \in Nat /\ pushedOut \in Nat /\ produced \in Nat
      BY DEF PathInv
    <3> QED BY <1>1, <1>3, <2>2, <3>1, <3>2 DEF CountInv
  <2> QED BY <1>5, <1>6, <2>3, <2>4, <2>5
<1> QED BY <1>7, <1>8

(* The sentinel joins the queue, behind every block.                       *)
LEMMA SentinelStep == AudioInv /\ Audio!SentinelFits => AudioInv'
<1> SUFFICES ASSUME AudioInv, Audio!SentinelFits PROVE AudioInv'
  OBVIOUS
<1> USE DEF AudioInv
<1>1. /\ main = "signalling" /\ main' = "joining" /\ queue' = Append(queue, Audio!None)
      /\ UNCHANGED <<graph, getter, hand, pump, peer, pushedOut, written, produced, dropped>>
  BY DEF Audio!SentinelFits, Audio!PathFrame
<1>2. /\ (InHand' <=> InHand) /\ (Undisturbed' <=> Undisturbed) /\ Signalled' /\ ~Signalled
      /\ Undisturbed => pump # "done"
  BY <1>1 DEF InHand, Signalled, Undisturbed, SentinelInv
<1>3. /\ queue \in Seq(Audio!Item) /\ Len(queue) \in Nat
      /\ queue' \in Seq(Audio!Item) /\ Len(queue') = Len(queue) + 1
      /\ \A k \in 1 .. Len(queue) : queue'[k] = queue[k]
      /\ queue'[Len(queue) + 1] = Audio!None /\ Audio!None \notin Audio!Block
  BY <1>1, Items, Join DEF PathInv
<1>4. \A k \in 1 .. Len(queue') : k \in 1 .. Len(queue) \/ k = Len(queue) + 1
  BY <1>3
<1>5. PathInv' /\ GraphInv'
  BY <1>1, <1>2, <1>3 DEF PathInv, GraphInv
<1>6. OrderInv'
  BY <1>1, <1>2, <1>3, <1>4, Zenon DEF OrderInv
<1>7. SentinelInv'
  <2> SUFFICES ASSUME Undisturbed PROVE SentinelInv'
    BY <1>2 DEF SentinelInv
  <2>1. queue' # <<>>
    BY <1>3, Emptiness
  <2>2. \A k \in 1 .. Len(queue') - 1 : k \in 1 .. Len(queue)
    BY <1>3
  <2>3. Audio!None # Audio!Later
    BY Items
  <2>4. \A k \in 1 .. Len(queue') : queue'[k] # Audio!Later
    BY <1>2, <1>3, <1>4, <2>3, Zenon DEF SentinelInv
  <2>5. \A k \in 1 .. Len(queue') - 1 : queue'[k] # Audio!None
    BY <1>2, <1>3, <2>2, Zenon DEF SentinelInv
  <2>6. queue'[Len(queue')] = Audio!None
    BY <1>3
  <2>7. (InHand => hand # Audio!Later) /\ (InHand => hand # Audio!None)
    BY <1>2, Zenon DEF SentinelInv
  <2> QED BY <1>1, <1>2, <2>1, <2>4, <2>5, <2>6, <2>7, Zenon DEF SentinelInv
<1>8. CountInv'
  <2> SUFFICES ASSUME Undisturbed PROVE CountInv'
    BY <1>2 DEF CountInv
  <2>1. OnPath' = OnPath
    BY <1>1, <1>2, <1>3 DEF OnPath
  <2> QED BY <1>1, <1>2, <2>1 DEF CountInv
<1> QED BY <1>5, <1>6, <1>7, <1>8

(* The oldest item makes room for the sentinel, and is counted.            *)
LEMMA RoomStep == AudioInv /\ Audio!MakeRoom => AudioInv'
<1> SUFFICES ASSUME AudioInv, Audio!MakeRoom PROVE AudioInv'
  OBVIOUS
<1> USE DEF AudioInv
<1>1. /\ main = "making-room" /\ main' = "signalling"
      /\ UNCHANGED <<graph, getter, hand, pump, peer, written, produced, dropped>>
  BY DEF Audio!MakeRoom, Audio!PathFrame
<1>2. /\ (InHand' <=> InHand) /\ (Undisturbed' <=> Undisturbed) /\ ~Signalled' /\ ~Signalled
  BY <1>1 DEF InHand, Signalled, Undisturbed
<1>3. CASE queue = <<>>
  <2>1. queue' = queue /\ pushedOut' = pushedOut
    BY <1>3 DEF Audio!MakeRoom
  <2>2. GraphInv'
    BY <1>1 DEF GraphInv
  <2> QED BY <1>1, <1>2, <2>1, <2>2, QuietStep
<1>4. CASE queue # <<>>
  <2>1. queue' = Tail(queue) /\ pushedOut' = pushedOut + 1
    BY <1>4 DEF Audio!MakeRoom
  <2>2. /\ queue \in Seq(Audio!Item) /\ Len(queue) \in Nat \ {0}
        /\ queue' \in Seq(Audio!Item) /\ Len(queue') = Len(queue) - 1
        /\ \A k \in 1 .. Len(queue) - 1 : queue'[k] = queue[k + 1]
    BY <1>4, <2>1, HeadTail DEF PathInv
  <2>3. \A k \in 1 .. Len(queue') : k + 1 \in 1 .. Len(queue) /\ queue'[k] = queue[k + 1]
    BY <2>2
  <2>4. PathInv' /\ GraphInv'
    BY <1>1, <2>1, <2>2 DEF PathInv, GraphInv
  <2>5. OrderInv'
    <3>1. \A k \in 1 .. Len(queue') : queue'[k] \in Audio!Block =>
             /\ queue'[k] <= produced
             /\ \A i \in 1 .. Len(written) : written[i] < queue'[k]
             /\ InHand /\ hand \in Audio!Block => hand < queue'[k]
      BY <2>3, Zenon DEF OrderInv
    <3>2. \A k \in 1 .. Len(queue'), j \in 1 .. Len(queue') : j < k => j + 1 < k + 1
      OBVIOUS
    <3>3. \A k \in 1 .. Len(queue') : queue'[k] \in Audio!Block =>
             \A j \in 1 .. Len(queue') :
                j < k /\ queue'[j] \in Audio!Block => queue'[j] < queue'[k]
      BY <2>3, <3>2, Zenon DEF OrderInv
    <3> QED BY <1>1, <1>2, <3>1, <3>3, Zenon DEF OrderInv
  <2>6. SentinelInv'
    BY <1>1, <1>2, <2>3, Zenon DEF SentinelInv
  <2>7. CountInv'
    <3> SUFFICES ASSUME Undisturbed PROVE CountInv'
      BY <1>2 DEF CountInv
    <3>1. OnPath' = OnPath - 1 /\ OnPath \in Int
      BY <1>1, <1>2, <2>2 DEF OnPath
    <3>2. dropped \in Nat /\ pushedOut \in Nat /\ produced \in Nat /\ Len(written) \in Nat
      BY LenProperties DEF PathInv
    <3> QED BY <1>1, <1>2, <2>1, <3>1, <3>2 DEF CountInv
  <2> QED BY <2>4, <2>5, <2>6, <2>7
<1> QED BY <1>3, <1>4

(* The other steps of the app leave the path alone.                        *)
LEMMA AppStep ==
    AudioInv /\ (\/ Audio!Start \/ Audio!Prove \/ Audio!CommandLoopEnds \/ Audio!Report
                 \/ Audio!StopGraph \/ Audio!PumpIsOver \/ Audio!SentinelRefused \/ Audio!GiveUp
                 \/ Audio!Joined \/ Audio!Exit)
    => AudioInv'
<1> DEFINE Frame == UNCHANGED <<queue, getter, hand, written, produced, dropped, pushedOut,
        peer>>
<1> SUFFICES ASSUME AudioInv,
                    \/ Audio!Start \/ Audio!Prove \/ Audio!CommandLoopEnds \/ Audio!Report
                    \/ Audio!StopGraph \/ Audio!PumpIsOver \/ Audio!SentinelRefused
                    \/ Audio!GiveUp \/ Audio!Joined \/ Audio!Exit
    PROVE /\ Frame /\ pump' \in {pump, "cancelled"} /\ GraphInv'
          /\ graph' # "stuck" => graph # "stuck"
          /\ Signalled' /\ ~Signalled => pump' \in {"done", "cancelled"}
          /\ Signalled => Signalled'
  BY QuietStep
<1> USE DEF Audio!PathFrame, AudioInv, GraphInv, Signalled
<1>1. CASE Audio!Start
  BY <1>1 DEF Audio!Start
<1>2. CASE Audio!Prove
  BY <1>2 DEF Audio!Prove
<1>3. CASE Audio!CommandLoopEnds
  BY <1>3 DEF Audio!CommandLoopEnds
<1>4. CASE Audio!Report
  BY <1>4 DEF Audio!Report
<1>5. CASE Audio!StopGraph
  BY <1>5 DEF Audio!StopGraph
<1>6. CASE Audio!PumpIsOver
  BY <1>6 DEF Audio!PumpIsOver
<1>7. CASE Audio!SentinelRefused
  BY <1>7 DEF Audio!SentinelRefused
<1>8. CASE Audio!GiveUp
  BY <1>8 DEF Audio!GiveUp
<1>9. CASE Audio!Joined
  BY <1>9 DEF Audio!Joined
<1>10. CASE Audio!Exit
  BY <1>10 DEF Audio!Exit
<1> QED BY <1>1, <1>2, <1>3, <1>4, <1>5, <1>6, <1>7, <1>8, <1>9, <1>10

(* Every step of the three threads keeps the blocks in order and counted.  *)
LEMMA AudioStep == AudioInv /\ [Audio!Next]_audio => AudioInv'
<1>1. AudioInv /\ UNCHANGED audio => AudioInv'
  BY ZenonT(60) DEF audio, AudioInv, PathInv, OrderInv, GraphInv, SentinelInv, CountInv, InHand, Signalled,
         Undisturbed, OnPath
<1>2. Audio!Ended => UNCHANGED audio
  BY DEF Audio!Ended, Audio!vars, audio
<1> QED BY <1>1, <1>2, ProduceStep, ProduceOnStep, GetStep, CallStep, TakeStep, WriteStep,
        PeerStep,
           SentinelStep, RoomStep, AppStep
        DEF Audio!Next, Audio!Pump, Audio!Main

(* Nothing was made and nothing is on the path.                            *)
LEMMA AudioInit == ServicesInit => AudioInv
<1> SUFFICES ASSUME ServicesInit PROVE AudioInv
  OBVIOUS
<1>1. /\ graph = "off" /\ produced = 0 /\ dropped = 0 /\ queue = <<>> /\ getter = "idle"
      /\ hand = Audio!None /\ pump = "calling" /\ main = "starting"
      /\ written = <<>> /\ pushedOut = 0
  BY DEF ServicesInit, Audio!Init
<1>2. ~InHand /\ ~Signalled
  BY <1>1 DEF InHand, Signalled
<1>3. PathInv
  BY <1>1, Items, ServicesAssumption DEF PathInv
<1>4. OrderInv /\ GraphInv
  BY <1>1, <1>2 DEF OrderInv, GraphInv
<1>5. SentinelInv /\ CountInv
  BY <1>1, <1>2 DEF SentinelInv, CountInv, OnPath
<1> QED BY <1>3, <1>4, <1>5 DEF AudioInv

(* A pump that is over after the sentinel has an empty queue behind it.    *)
LEMMA AudioSays == AudioInv => AudioComplete
<1> SUFFICES ASSUME AudioInv PROVE Audio!AudioComplete
  BY DEF AudioComplete
<1> USE DEF AudioInv
<1>1. DOMAIN written = 1 .. Len(written)
  BY LenProperties DEF PathInv
<1>2. ASSUME main = "returned", pump = "done", peer = "reading", graph = "stopped"
      PROVE  Len(written) + dropped + pushedOut >= produced
  <2>1. Undisturbed /\ Signalled /\ ~InHand
    BY <1>2 DEF Undisturbed, Signalled, InHand, PathInv
  <2>2. queue = <<>>
    BY <1>2, <2>1 DEF SentinelInv
  <2>3. OnPath = 0
    BY <1>2, <2>1, <2>2 DEF OnPath
  <2>4. dropped \in Nat /\ pushedOut \in Nat /\ produced \in Nat /\ Len(written) \in Nat
    BY LenProperties DEF PathInv
  <2> QED BY <2>1, <2>3, <2>4 DEF CountInv
<1> QED BY <1>1, <1>2 DEF OrderInv, Audio!AudioComplete

-----------------------------------------------------------------------------
(* The pairing of two engines.  What waits is in order and finite; nothing *)
(* waits for a partner that is there, or is too old to be matched.         *)
PendingInv ==
    /\ pending \in Seq(Observation(Payloads)) /\ Len(pending) <= MaxPending
    /\ generation \in Nat /\ matched \in Nat /\ emitted \in Nat
    /\ only \in [Source -> Nat]
    /\ seen \in [Source -> [Payloads -> Nat]] /\ returned \in [Payloads -> Nat]
    /\ state \in {"open", "finalized", "raised"}
    /\ state = "finalized" => pending = <<>>
    /\ Lone(Payloads, pending) /\ Dated(generation - MaxLag, generation, pending)

(* A frame was returned for each observation of either engine, except for  *)
(* those that waited for it: the frames the other engine has alone so far. *)
RepeatsInv ==
    state # "raised" =>
        \A s \in Source, p \in Payloads :
            returned[p] >= seen[s][p] + NumOf(pending, Waiting(Payloads, Opposite[s], p))

(* The counters of the summary.                                            *)
SumsInv ==
    /\ emitted = matched + only["primary"] + only["reference"] + Len(pending)
    /\ state # "raised" =>
         \A h : SumsTo(seen, Source \X Payloads, h) => h[Source \X Payloads] = emitted + matched

ShadowInv == PendingInv /\ RepeatsInv /\ SumsInv

(* The reconciler's own names for the computation.                         *)
LEMMA ShadowNames ==
    /\ Shadow!Source = Source /\ Shadow!Opposite = Opposite
    /\ \A list, minimum : Shadow!Retained(list, minimum) = Retained(list, minimum)
    /\ \A list, minimum, s : Shadow!Expired(list, minimum, s) = Expired(list, minimum, s)
    /\ \A batch, key : Shadow!Tally(batch, key) = Tally(batch, key)
    /\ \A list, s, key : Shadow!Partners(list, s, key) = Partners(list, s, key)
<1>1. Shadow!Source = Source /\ Shadow!Opposite = Opposite
  BY Zenon DEF Shadow!Source, Source, Shadow!Opposite, Opposite
<1>2. \A list, minimum : Shadow!Retained(list, minimum) = Retained(list, minimum)
  BY Zenon DEF Shadow!Retained, Retained
<1>3. \A list, minimum, s : Shadow!Expired(list, minimum, s) = Expired(list, minimum, s)
  BY Zenon DEF Shadow!Expired, Expired, Shadow!Cardinality, Cardinality
<1>4. \A batch, key : Shadow!Tally(batch, key) = Tally(batch, key)
  BY Zenon DEF Shadow!Tally, Tally, Shadow!Cardinality, Cardinality
<1>5. \A list, s, key : Shadow!Partners(list, s, key) = Partners(list, s, key)
  BY Zenon DEF Shadow!Partners, Partners, Shadow!Opposite, Opposite
<1> QED BY <1>1, <1>2, <1>3, <1>4, <1>5, Zenon

LEMMA ShadowSide ==
    \A source, now, limit, start, batch :
        Shadow!Side(source, now, limit, start, batch) = Side(source, now, limit, start, batch)
BY ZenonT(60) DEF Shadow!Side, Side, Shadow!Observe, Observe, Shadow!RemoveAt, RemoveAt,
             Shadow!Partners, Partners, Shadow!Opposite, Opposite

LEMMA ShadowPoll ==
    \A a, b : Shadow!Poll(a, b) = PollState(pending, matched, generation + 1, MaxPending,
                                            generation + 1 - MaxLag, a, b)
<1>1. Shadow!Retained(pending, Shadow!Horizon) = Retained(pending, generation + 1 - MaxLag)
  BY ShadowNames, Zenon DEF Shadow!Horizon
<1> QED BY <1>1, ShadowSide, Zenon DEF Shadow!Poll, PollState

LEMMA ShadowBatch == \A a \in Shadow!Batch : a \in Seq(Payloads)
<1> SUFFICES ASSUME NEW a \in Shadow!Batch PROVE a \in Seq(Payloads)
  OBVIOUS
<1>1. PICK n \in 0 .. MaxBatch : a \in [1 .. n -> Payloads]
  BY DEF Shadow!Batch
<1> QED BY <1>1, SeqDef

(* The sum the summary is checked against is the sum of SumsTo.            *)
LEMMA ShadowSum ==
    \E h : /\ SumsTo(seen, Source \X Payloads, h)
           /\ Shadow!MapThenSumSet(LAMBDA sp : seen[sp[1]][sp[2]], Shadow!Source \X Payloads)
              = h[Source \X Payloads]
<1>1. PICK C : C = Source \X Payloads
  OBVIOUS
<1>2. IsFiniteSet(C)
  BY <1>1, CellsAreFinite, ServicesAssumption, Zenon
<1>3. \E h : SumsTo(seen, C, h)
  BY <1>2, SumExists
<1>4. PICK h : h = CHOOSE k : SumsTo(seen, C, k)
  OBVIOUS
<1>5. SumsTo(seen, C, h)
  BY <1>3, <1>4, Zenon
<1>6. Shadow!MapThenSumSet(LAMBDA sp : seen[sp[1]][sp[2]], C) = h[C]
  BY <1>4, Zenon DEF SumsTo, Shadow!MapThenSumSet, Shadow!MapThenFoldSet
<1> QED BY <1>1, <1>5, <1>6, ShadowNames, Zenon

(* What a poll leaves is in order.                                         *)
LEMMA PollIs ==
    ASSUME PendingInv, NEW a \in Seq(Payloads), NEW b \in Seq(Payloads),
           NEW t, t = Shadow!Poll(a, b)
    PROVE  /\ t \in BatchState(Payloads) /\ Lone(Payloads, t.pending)
           /\ Dated(generation + 1 - MaxLag, generation + 1, t.pending)
           /\ Len(t.pending) <= MaxPending
           /\ Len(t.out) + Len(Retained(pending, generation + 1 - MaxLag)) + matched
              = Len(t.pending) + t.matched
           /\ ~t.raised => Len(t.out) + t.matched = matched + Len(a) + Len(b)
           /\ ~t.raised => \A p \in Payloads : \E first, above, below \in Nat :
                 Paired(Payloads, Retained(pending, generation + 1 - MaxLag), generation + 1,
                        a, b, t, p, first, above, below)
<1>1. PICK list \in Seq(Observation(Payloads)), m \in Nat, now \in Nat, limit \in Nat,
           minimum \in Int, lowest \in Int :
             /\ list = pending /\ m = matched /\ now = generation + 1 /\ limit = MaxPending
             /\ minimum = generation + 1 - MaxLag /\ lowest = generation - MaxLag
             /\ minimum <= now /\ now - 1 = generation
  BY ServicesAssumption DEF PendingInv
<1>2. t = PollState(list, m, now, limit, minimum, a, b)
  BY <1>1, ShadowPoll, Zenon
<1>3. PollMay(Payloads, list, now, limit, minimum, lowest)
  <2>1. Lone(Payloads, list) /\ Dated(lowest, now - 1, list) /\ Len(list) <= limit
    BY <1>1, Zenon DEF PendingInv
  <2> QED BY <1>1, <2>1, Zenon DEF PollMay
<1>4. /\ t \in BatchState(Payloads) /\ Lone(Payloads, t.pending) /\ Dated(minimum, now, t.pending)
      /\ Len(t.pending) <= limit
      /\ Len(t.out) + Len(Retained(list, minimum)) + m = Len(t.pending) + t.matched
      /\ ~t.raised => Len(t.out) + t.matched = m + Len(a) + Len(b)
      /\ ~t.raised => \A p \in Payloads : \E first, above, below \in Nat :
            Paired(Payloads, Retained(list, minimum), now, a, b, t, p, first, above, below)
  <2>1. PollRule(Payloads, list, m, now, limit, minimum, a, b, t)
    BY <1>2, <1>3, PollOutcome
  <2> QED BY <2>1, Zenon DEF PollRule
<1> QED BY <1>1, <1>4, Zenon

(* The numbers of a poll: what is given up, and who waits for whom.        *)
LEMMA PendingCounts ==
    ASSUME PendingInv, NEW minimum \in Int
    PROVE  /\ Retained(pending, minimum) \in Seq(Observation(Payloads))
           /\ Len(Retained(pending, minimum)) \in Nat /\ Len(pending) \in Nat
           /\ \A s \in Source : Expired(pending, minimum, s) \in Nat
           /\ Len(Retained(pending, minimum)) + Expired(pending, minimum, "primary")
                  + Expired(pending, minimum, "reference") = Len(pending)
           /\ \A X : /\ NumOf(Retained(pending, minimum), X) \in Nat /\ NumOf(pending, X) \in Nat
                     /\ NumOf(Retained(pending, minimum), X) <= NumOf(pending, X)
<1>1. PICK list \in Seq(Observation(Payloads)) : list = pending
  BY DEF PendingInv
<1>2. /\ \A X : NumOf(Retained(list, minimum), X) <= NumOf(list, X)
      /\ \A s \in Source : Expired(list, minimum, s) \in Nat
      /\ Len(Retained(list, minimum)) + Expired(list, minimum, "primary")
             + Expired(list, minimum, "reference") = Len(list)
  BY RetainedCounts
<1>3. PICK kept \in Seq(Observation(Payloads)) : kept = Retained(list, minimum)
  BY RetainedItems
<1>4. Len(kept) \in Nat /\ Len(list) \in Nat
  BY LenProperties
<1>5. \A X : NumOf(kept, X) \in Nat /\ NumOf(list, X) \in Nat
  BY NumBounds, Zenon
<1> QED BY <1>1, <1>2, <1>3, <1>4, <1>5, Zenon

LEMMA ShadowInit == ServicesInit => ShadowInv
<1> SUFFICES ASSUME ServicesInit PROVE ShadowInv
  OBVIOUS
<1>1. /\ pending = <<>> /\ generation = 0 /\ matched = 0
      /\ only = [s \in Source |-> 0] /\ emitted = 0 /\ state = "open"
      /\ seen = [s \in Source |-> [p \in Payloads |-> 0]]
      /\ returned = [p \in Payloads |-> 0]
  BY ShadowNames, Zenon DEF ServicesInit, Shadow!Init
<1>2. pending \in Seq(Observation(Payloads)) /\ Len(pending) = 0
  BY <1>1, EmptySeq
<1>3. \A X : NumOf(pending, X) = 0
  BY <1>1, NumEmpty, Zenon
<1>4. PendingInv
  <2>1. Lone(Payloads, pending)
    BY <1>3, Zenon DEF Lone
  <2>2. Dated(generation - MaxLag, generation, pending)
    BY <1>2 DEF Dated
  <2>3. only \in [Source -> Nat] /\ seen \in [Source -> [Payloads -> Nat]]
        /\ returned \in [Payloads -> Nat] /\ Len(pending) <= MaxPending
    BY <1>1, <1>2, ServicesAssumption
  <2> QED BY <1>1, <1>2, <2>1, <2>2, <2>3 DEF PendingInv
<1>5. RepeatsInv
  <2>1. ASSUME NEW s \in Source, NEW p \in Payloads
        PROVE  returned[p] >= seen[s][p] + NumOf(pending, Waiting(Payloads, Opposite[s], p))
    <3>1. returned[p] = 0 /\ seen[s][p] = 0
      BY <1>1
    <3>2. NumOf(pending, Waiting(Payloads, Opposite[s], p)) = 0
      BY <1>3, Zenon
    <3> QED BY <3>1, <3>2
  <2> QED BY <2>1 DEF RepeatsInv
<1>6. SumsInv
  <2>1. ASSUME NEW h, SumsTo(seen, Source \X Payloads, h)
        PROVE  h[Source \X Payloads] = emitted + matched
    <3>1. PICK f : f = seen
      OBVIOUS
    <3>2. \A s \in Source, p \in Payloads : f[s][p] = 0
      BY <1>1, <3>1
    <3>3. h[Source \X Payloads] = 0
      BY <2>1, <3>1, <3>2, ServicesAssumption, SumOfNothing
    <3> QED BY <1>1, <3>3
  <2>2. only["primary"] = 0 /\ only["reference"] = 0
    BY <1>1 DEF Source
  <2>3. emitted = matched + only["primary"] + only["reference"] + Len(pending)
    BY <1>1, <1>2, <2>2
  <2> QED BY <2>1, <2>3, Zenon DEF SumsInv
<1> QED BY <1>4, <1>5, <1>6 DEF ShadowInv

(* A poll: what is returned covers what both engines found now.            *)
LEMMA ReconcileStep ==
    ASSUME ShadowInv, NEW a \in Shadow!Batch, NEW b \in Shadow!Batch, Shadow!Reconcile(a, b)
    PROVE  ShadowInv'
<1>1. a \in Seq(Payloads) /\ b \in Seq(Payloads)
  BY ShadowBatch
<1>2. PICK t : t = Shadow!Poll(a, b)
  OBVIOUS
<1>3. PICK now, minimum : now = generation + 1 /\ minimum = generation + 1 - MaxLag
  OBVIOUS
<1>4. /\ now \in Nat /\ minimum \in Int
      /\ now - MaxLag = minimum
  BY <1>3, ServicesAssumption DEF ShadowInv, PendingInv
<1>5. /\ state = "open" /\ generation' = now
      /\ only' = [s \in Source |-> only[s] + Expired(pending, minimum, s)]
      /\ pending' = t.pending /\ matched' = t.matched /\ emitted' = emitted + Len(t.out)
      /\ state' = IF t.raised THEN "raised" ELSE "open"
      /\ seen' = [s \in Source |-> [p \in Payloads |->
                     seen[s][p] + Tally(IF s = "primary" THEN a ELSE b, p)]]
      /\ returned' = IF t.raised THEN returned
                     ELSE [p \in Payloads |-> returned[p] + Tally(t.out, p)]
  BY <1>2, <1>3, ShadowNames, Zenon DEF Shadow!Reconcile, Shadow!GivenUp, Shadow!Horizon
<1>6. PICK kept : kept = Retained(pending, minimum)
  OBVIOUS
<1>7. /\ t \in BatchState(Payloads) /\ Lone(Payloads, t.pending)
      /\ Dated(minimum, now, t.pending) /\ Len(t.pending) <= MaxPending
      /\ Len(t.out) + Len(kept) + matched = Len(t.pending) + t.matched
      /\ ~t.raised => Len(t.out) + t.matched = matched + Len(a) + Len(b)
      /\ ~t.raised => \A p \in Payloads : \E first, above, below \in Nat :
            Paired(Payloads, kept, now, a, b, t, p, first, above, below)
  BY <1>1, <1>2, <1>3, <1>6, PollIs, Zenon DEF ShadowInv
<1>8. /\ Len(kept) \in Nat /\ Len(pending) \in Nat
      /\ \A s \in Source : Expired(pending, minimum, s) \in Nat
      /\ Len(kept) + Expired(pending, minimum, "primary")
             + Expired(pending, minimum, "reference") = Len(pending)
      /\ \A X : /\ NumOf(kept, X) \in Nat /\ NumOf(pending, X) \in Nat
                /\ NumOf(kept, X) <= NumOf(pending, X)
  <2>1. PendingInv
    BY DEF ShadowInv
  <2> QED BY <1>4, <1>6, <2>1, PendingCounts, Zenon
<1>9. "primary" \in Source /\ "reference" \in Source /\ "primary" # "reference"
      /\ Opposite["primary"] = "reference" /\ Opposite["reference"] = "primary"
  BY DEF Source, Opposite
<1>10. /\ t.pending \in Seq(Observation(Payloads)) /\ t.matched \in Nat /\ t.out \in Seq(Payloads)
       /\ t.raised \in BOOLEAN /\ Len(t.out) \in Nat /\ Len(t.pending) \in Nat
       /\ \A p : NumOf(t.out, {p}) \in Nat
       /\ \A X : NumOf(t.pending, X) \in Nat
  <2>1. t.pending \in Seq(Observation(Payloads)) /\ t.out \in Seq(Payloads)
    BY <1>7 DEF BatchState
  <2> QED BY <1>7, <2>1, CountsAreNumbers, Zenon
<1>11. \A x : Tally(a, x) = NumOf(a, {x}) /\ Tally(b, x) = NumOf(b, {x})
              /\ Tally(t.out, x) = NumOf(t.out, {x})
              /\ NumOf(a, {x}) \in Nat /\ NumOf(b, {x}) \in Nat
  <2>1. \A x : NumOf(a, {x}) \in Nat /\ NumOf(b, {x}) \in Nat
    BY <1>1, NumBounds, Zenon
  <2> QED BY <2>1, CountIsNum, Zenon
<1>12. \A p \in Payloads : /\ seen'["primary"][p] = seen["primary"][p] + NumOf(a, {p})
                           /\ seen'["reference"][p] = seen["reference"][p] + NumOf(b, {p})
  <2> TAKE p \in Payloads
  <2>1. /\ seen'["primary"][p] = seen["primary"][p] + Tally(a, p)
        /\ seen'["reference"][p] = seen["reference"][p] + Tally(b, p)
    BY <1>5, <1>9, Zenon
  <2> QED BY <1>11, <2>1, Zenon
<1>13. PendingInv'
  <2>1. generation' \in Nat /\ matched' \in Nat
    BY <1>4, <1>5, <1>10
  <2>2. emitted' \in Nat
    BY <1>5, <1>10 DEF ShadowInv, PendingInv
  <2>3. only' \in [Source -> Nat]
    <3>1. \A s \in Source : only[s] + Expired(pending, minimum, s) \in Nat
      BY <1>8 DEF ShadowInv, PendingInv
    <3> QED BY <1>5, <3>1
  <2>4. seen' \in [Source -> [Payloads -> Nat]]
    <3>1. ASSUME NEW s \in Source, NEW p \in Payloads
          PROVE  seen[s][p] + Tally(IF s = "primary" THEN a ELSE b, p) \in Nat
      <4>1. Tally(IF s = "primary" THEN a ELSE b, p) \in Nat
        BY <1>11, Zenon
      <4>2. seen[s][p] \in Nat
        BY DEF ShadowInv, PendingInv
      <4> QED BY <4>1, <4>2
    <3> QED BY <1>5, <3>1
  <2>5. returned' \in [Payloads -> Nat]
    <3>1. \A p \in Payloads : returned[p] + Tally(t.out, p) \in Nat
      <4>1. \A p \in Payloads : returned[p] \in Nat
        BY DEF ShadowInv, PendingInv
      <4>2. \A p : Tally(t.out, p) \in Nat
        BY <1>10, <1>11, ZenonT(60)
      <4> QED BY <4>1, <4>2
    <3>2. returned \in [Payloads -> Nat]
      BY DEF ShadowInv, PendingInv
    <3> QED BY <1>5, <3>1, <3>2
  <2>6. state' \in {"open", "finalized", "raised"} /\ state' # "finalized"
    BY <1>5
  <2>7. Lone(Payloads, pending') /\ Dated(generation' - MaxLag, generation', pending')
    BY <1>4, <1>5, <1>7, Zenon
  <2>8. pending' \in Seq(Observation(Payloads)) /\ Len(pending') <= MaxPending
    BY <1>5, <1>7, <1>10, Zenon
  <2> QED BY <2>1, <2>2, <2>3, <2>4, <2>5, <2>6, <2>7, <2>8, Zenon DEF PendingInv
<1>14. RepeatsInv'
  <2> SUFFICES ASSUME state' # "raised", NEW s \in Source, NEW p \in Payloads
               PROVE  returned'[p] >= seen'[s][p]
                                      + NumOf(pending', Waiting(Payloads, Opposite[s], p))
    BY DEF RepeatsInv
  <2>1. ~t.raised
    BY <1>5
  <2>2. PICK first \in Nat, above \in Nat, below \in Nat :
           Paired(Payloads, kept, now, a, b, t, p, first, above, below)
    BY <1>7, <2>1, Zenon
  <2>3. PICK W, V : W = Waiting(Payloads, "primary", p) /\ V = Waiting(Payloads, "reference", p)
    OBVIOUS
  <2>4. PICK kw \in Nat, kv \in Nat, lw \in Nat, lv \in Nat :
           /\ kw = NumOf(kept, W) /\ kv = NumOf(kept, V)
           /\ lw = NumOf(pending, W) /\ lv = NumOf(pending, V) /\ kw <= lw /\ kv <= lv
    BY <1>8, Zenon
  <2>5. PICK tw \in Nat, tv \in Nat, out \in Nat :
           tw = NumOf(t.pending, W) /\ tv = NumOf(t.pending, V) /\ out = NumOf(t.out, {p})
    BY <1>10, Zenon
  <2>6. PICK i \in Nat, j \in Nat : i = NumOf(a, {p}) /\ j = NumOf(b, {p})
    BY <1>11, Zenon
  <2>7. /\ first + kw = above /\ first + kv = i + below
        /\ out + above = first + j + tw /\ out + below = first + tv
    BY <2>2, <2>3, <2>4, <2>5, <2>6, Zenon DEF Paired
  <2>8. out + kv = i + tv /\ out + kw = j + tw
    BY <2>7
  <2>9. PICK ret \in Nat, sp \in Nat, sr \in Nat :
           ret = returned[p] /\ sp = seen["primary"][p] /\ sr = seen["reference"][p]
    BY <1>9 DEF ShadowInv, PendingInv
  <2>10. ret >= sp + lv /\ ret >= sr + lw
    BY <1>5, <1>9, <2>3, <2>4, <2>9 DEF ShadowInv, RepeatsInv
  <2>11. returned'[p] = ret + out
    <3>1. returned'[p] = returned[p] + Tally(t.out, p)
      BY <1>5, <2>1, Zenon
    <3> QED BY <1>11, <2>5, <2>9, <3>1, Zenon
  <2>12. seen'["primary"][p] = sp + i /\ seen'["reference"][p] = sr + j
    BY <1>12, <2>6, <2>9, Zenon
  <2>13. ret + out >= (sp + i) + tv /\ ret + out >= (sr + j) + tw
    BY <2>4, <2>8, <2>10
  <2>14. CASE s = "primary"
    BY <1>5, <1>9, <2>3, <2>5, <2>11, <2>12, <2>13, <2>14, Zenon
  <2>15. CASE s = "reference"
    BY <1>5, <1>9, <2>3, <2>5, <2>11, <2>12, <2>13, <2>15, Zenon
  <2> QED BY <2>14, <2>15 DEF Source
<1>15. SumsInv'
  <2>1. PICK m \in Nat, e \in Nat, op \in Nat, or \in Nat, ep \in Nat, er \in Nat :
           /\ m = matched /\ e = emitted /\ op = only["primary"] /\ or = only["reference"]
           /\ ep = Expired(pending, minimum, "primary")
           /\ er = Expired(pending, minimum, "reference")
    BY <1>8, <1>9 DEF ShadowInv, PendingInv
  <2>2. PICK n \in Nat, l \in Nat, to \in Nat, tp \in Nat, tm \in Nat :
           /\ n = Len(kept) /\ l = Len(pending) /\ to = Len(t.out) /\ tp = Len(t.pending)
           /\ tm = t.matched
    BY <1>8, <1>10
  <2>3. e = m + op + or + l
    BY <2>1, <2>2, Zenon DEF ShadowInv, SumsInv
  <2>4. n + ep + er = l /\ to + n + m = tp + tm
    BY <1>7, <1>8, <2>1, <2>2, Zenon
  <2>5. only'["primary"] = op + ep /\ only'["reference"] = or + er
    BY <1>5, <1>9, <2>1
  <2>6. e + to = tm + (op + ep) + (or + er) + tp
    BY <2>3, <2>4
  <2>7. emitted' = matched' + only'["primary"] + only'["reference"] + Len(pending')
    BY <1>5, <2>1, <2>2, <2>5, <2>6, Zenon
  <2>8. ASSUME state' # "raised", NEW k, SumsTo(seen', Source \X Payloads, k)
        PROVE  k[Source \X Payloads] = emitted' + matched'
    <3>0. PICK g : g = seen'
      OBVIOUS
    <3>1. PICK f \in [Source -> [Payloads -> Nat]] : f = seen
      BY DEF ShadowInv, PendingInv
    <3>2. PICK h : SumsTo(f, Source \X Payloads, h)
      <4>1. IsFiniteSet(Source \X Payloads)
        BY CellsAreFinite, ServicesAssumption, Zenon
      <4> QED BY <4>1, SumExists
    <3>3. h[Source \X Payloads] = e + m
      BY <1>5, <2>1, <3>1, <3>2, Zenon DEF ShadowInv, SumsInv
    <3>4. k[Source \X Payloads] = h[Source \X Payloads] + Len(a) + Len(b)
      <4>1. \A p \in Payloads : /\ g["primary"][p] = f["primary"][p] + NumOf(a, {p})
                                /\ g["reference"][p] = f["reference"][p] + NumOf(b, {p})
        BY <1>12, <3>0, <3>1, Zenon
      <4>2. SumsTo(g, Source \X Payloads, k)
        BY <2>8, <3>0, Zenon
      <4>3. IsFiniteSet(Payloads)
        BY ServicesAssumption
      <4>4. SumMay(Payloads, f, g, a, b, h, k)
        <5>1. f \in [Source -> [Payloads -> Nat]]
          OBVIOUS
        <5> QED BY <1>1, <3>2, <4>1, <4>2, <4>3, <5>1, Zenon DEF SumMay
      <4> QED BY <4>4, SumGrows
    <3>5. PICK i \in Nat, j \in Nat : i = Len(a) /\ j = Len(b)
      BY <1>1, LenProperties
    <3>6. ~t.raised
      BY <1>5, <2>8
    <3>7. to + tm = m + i + j
      BY <1>7, <2>1, <2>2, <3>5, <3>6, Zenon
    <3>8. (e + m) + i + j = (e + to) + tm
      BY <3>7
    <3> QED BY <1>5, <2>1, <2>2, <3>3, <3>4, <3>5, <3>8, Zenon
  <2> QED BY <2>7, <2>8, Zenon DEF SumsInv
<1> QED BY <1>13, <1>14, <1>15, Zenon DEF ShadowInv

(* The final summary gives up what waits, which is older than its horizon. *)
LEMMA FinalizeStep == ASSUME ShadowInv, Shadow!Finalize PROVE ShadowInv'
<1>1. PICK minimum : minimum = generation + MaxLag + 1
  OBVIOUS
<1>2. minimum \in Int /\ minimum > generation
  BY <1>1, ServicesAssumption DEF ShadowInv, PendingInv
<1>3. /\ state = "open" /\ state' = "finalized"
      /\ pending' = Retained(pending, minimum)
      /\ only' = [s \in Source |-> only[s] + Expired(pending, minimum, s)]
      /\ generation' = generation /\ matched' = matched /\ emitted' = emitted
      /\ seen' = seen /\ returned' = returned
  BY <1>1, ShadowNames, Zenon DEF Shadow!Finalize, Shadow!GivenUp
<1>4. /\ Len(pending') \in Nat /\ Len(pending) \in Nat
      /\ \A s \in Source : Expired(pending, minimum, s) \in Nat
      /\ Len(pending') + Expired(pending, minimum, "primary")
             + Expired(pending, minimum, "reference") = Len(pending)
  <2>1. PendingInv
    BY DEF ShadowInv
  <2> QED BY <1>2, <1>3, <2>1, PendingCounts, Zenon
<1>5. pending' = <<>> /\ pending' \in Seq(Observation(Payloads)) /\ Len(pending') = 0
  <2>1. PICK list \in Seq(Observation(Payloads)) : list = pending
    BY DEF ShadowInv, PendingInv
  <2>2. PICK kept : kept = Retained(list, minimum)
    OBVIOUS
  <2>3. /\ kept \in Seq(Observation(Payloads))
        /\ \A k \in 1 .. Len(kept) : /\ kept[k].generation >= minimum
                                     /\ \E j \in 1 .. Len(list) : kept[k] = list[j]
    BY <1>2, <2>2, RetainedItems
  <2>4. \A j \in 1 .. Len(list) : list[j].generation <= generation
    BY <2>1 DEF ShadowInv, PendingInv, Dated
  <2>5. ASSUME NEW k \in 1 .. Len(kept) PROVE FALSE
    <3>1. PICK j \in 1 .. Len(list) : kept[k] = list[j]
      BY <2>3
    <3>2. kept[k].generation <= generation /\ kept[k].generation >= minimum
      BY <2>3, <2>4, <3>1
    <3>3. kept[k].generation \in Nat /\ generation \in Nat
      <4>1. kept[k] \in Observation(Payloads)
        BY <2>3, ElementOfSeq
      <4> QED BY <4>1 DEF Observation, ShadowInv, PendingInv
    <3> QED BY <1>2, <3>2, <3>3
  <2>6. Len(kept) = 0
    <3>1. Len(kept) \in Nat
      BY <2>3, LenProperties
    <3>2. PICK n \in Nat : n = Len(kept)
      BY <3>1
    <3>3. n > 0 => 1 \in 1 .. Len(kept)
      BY <3>2
    <3> QED BY <2>5, <3>2, <3>3
  <2>7. kept = <<>>
    BY <2>3, <2>6, EmptySeq
  <2> QED BY <1>3, <2>1, <2>2, <2>3, <2>6, <2>7, Zenon
<1>6. \A X : NumOf(pending', X) = 0
  BY <1>5, NumEmpty, Zenon
<1>7. PendingInv'
  <2>1. Lone(Payloads, pending')
    BY <1>6, Zenon DEF Lone
  <2>2. Dated(generation' - MaxLag, generation', pending')
    BY <1>5 DEF Dated
  <2>3. only' \in [Source -> Nat]
    <3>1. \A s \in Source : only[s] + Expired(pending, minimum, s) \in Nat
      BY <1>4 DEF ShadowInv, PendingInv
    <3> QED BY <1>3, <3>1
  <2>4. Len(pending') <= MaxPending
    BY <1>5, ServicesAssumption
  <2> QED BY <1>3, <1>5, <2>1, <2>2, <2>3, <2>4, Zenon DEF ShadowInv, PendingInv
<1>8. RepeatsInv'
  <2> SUFFICES ASSUME NEW s \in Source, NEW p \in Payloads
               PROVE  returned'[p] >= seen'[s][p]
                                      + NumOf(pending', Waiting(Payloads, Opposite[s], p))
    BY DEF RepeatsInv
  <2>1. PICK X : X = Waiting(Payloads, Opposite[s], p)
    OBVIOUS
  <2>2. PICK ret \in Nat, was \in Nat, n \in Nat :
           ret = returned[p] /\ was = seen[s][p] /\ n = NumOf(pending, X)
    <3>1. NumOf(pending, X) \in Nat
      <4>1. PendingInv
        BY DEF ShadowInv
      <4> QED BY <1>2, <4>1, PendingCounts, Zenon
    <3> QED BY <3>1 DEF ShadowInv, PendingInv
  <2>3. ret >= was + n
    BY <1>3, <2>1, <2>2 DEF ShadowInv, RepeatsInv
  <2>4. ret >= was + 0
    BY <2>3
  <2>5. NumOf(pending', X) = 0
    BY <1>6, Zenon
  <2> QED BY <1>3, <2>1, <2>2, <2>4, <2>5, Zenon
<1>9. SumsInv'
  <2>1. PICK m \in Nat, e \in Nat, op \in Nat, or \in Nat, ep \in Nat, er \in Nat, l \in Nat :
           /\ m = matched /\ e = emitted /\ op = only["primary"] /\ or = only["reference"]
           /\ ep = Expired(pending, minimum, "primary")
           /\ er = Expired(pending, minimum, "reference") /\ l = Len(pending)
    <3>1. "primary" \in Source /\ "reference" \in Source
      BY DEF Source
    <3> QED BY <1>4, <3>1 DEF ShadowInv, PendingInv
  <2>2. e = m + op + or + l /\ 0 + ep + er = l
    BY <1>4, <1>5, <2>1, Zenon DEF ShadowInv, SumsInv
  <2>3. e = m + (op + ep) + (or + er) + 0
    BY <2>2
  <2>4. only'["primary"] = op + ep /\ only'["reference"] = or + er
    BY <1>3, <2>1 DEF Source
  <2>5. \A h : SumsTo(seen', Source \X Payloads, h) => h[Source \X Payloads] = emitted' + matched'
    <3>1. state # "raised"
      BY <1>3
    <3> QED BY <1>3, <3>1, Zenon DEF ShadowInv, SumsInv
  <2>6. emitted' = matched' + only'["primary"] + only'["reference"] + Len(pending')
    BY <1>3, <1>5, <2>1, <2>3, <2>4, Zenon
  <2> QED BY <2>5, <2>6, Zenon DEF SumsInv
<1> QED BY <1>7, <1>8, <1>9, Zenon DEF ShadowInv

LEMMA ShadowStep == ShadowInv /\ [Shadow!Next]_shadow => ShadowInv'
<1> SUFFICES ASSUME ShadowInv, [Shadow!Next]_shadow PROVE ShadowInv'
  OBVIOUS
<1>1. ASSUME NEW a \in Shadow!Batch, NEW b \in Shadow!Batch, Shadow!Reconcile(a, b)
      PROVE  ShadowInv'
  BY <1>1, ReconcileStep
<1>2. CASE Shadow!Finalize
  BY <1>2, FinalizeStep
<1>3. CASE UNCHANGED shadow
  BY <1>3, Zenon DEF shadow, ShadowInv, PendingInv, RepeatsInv, SumsInv
<1>4. CASE Shadow!Closed
  <2>1. UNCHANGED shadow
    BY <1>4, Zenon DEF Shadow!Closed, Shadow!vars, shadow
  <2> QED BY <1>3, <2>1
<1> QED BY <1>1, <1>2, <1>3, <1>4, Zenon DEF Shadow!Next

(* The three promises of the reconciler.                                   *)
LEMMA ShadowSays == ShadowInv => PairedWithoutLoss
<1> SUFFICES ASSUME ShadowInv PROVE PairedWithoutLoss
  OBVIOUS
<1>1. Shadow!RepeatsPreserved
  <2> SUFFICES ASSUME state # "raised", NEW s \in Source, NEW p \in Payloads
               PROVE  returned[p] >= seen[s][p]
    BY ShadowNames DEF Shadow!RepeatsPreserved
  <2>1. PICK n \in Nat : n = NumOf(pending, Waiting(Payloads, Opposite[s], p))
    <3>1. \A X : NumOf(pending, X) \in Nat
      <4>1. pending \in Seq(Observation(Payloads))
        BY DEF ShadowInv, PendingInv
      <4> QED BY <4>1, NumBounds, Zenon
    <3> QED BY <3>1
  <2>2. returned[p] >= seen[s][p] + n
    BY <2>1 DEF ShadowInv, RepeatsInv
  <2>3. returned[p] \in Nat /\ seen[s][p] \in Nat
    BY DEF ShadowInv, PendingInv
  <2> QED BY <2>2, <2>3
<1>2. Shadow!Settled
  <2>1. PICK list \in Seq(Observation(Payloads)) : list = pending
    BY DEF ShadowInv, PendingInv
  <2>2. DOMAIN list = 1 .. Len(list)
    BY LenProperties
  <2>3. ASSUME NEW i \in 1 .. Len(list)
        PROVE  /\ generation - list[i].generation <= MaxLag
               /\ Partners(list, list[i].source, list[i].key) = {}
    <3>1. list[i] \in Observation(Payloads)
      BY ElementOfSeq
    <3>2. generation - list[i].generation <= MaxLag
      <4>1. generation - MaxLag <= list[i].generation
        BY <2>1 DEF ShadowInv, PendingInv, Dated
      <4>2. list[i].generation \in Nat /\ generation \in Nat
        BY <3>1 DEF Observation, ShadowInv, PendingInv
      <4> QED BY <4>1, <4>2, ServicesAssumption
    <3>3. PICK s \in Source, p \in Payloads : s = list[i].source /\ p = list[i].key
      BY <3>1 DEF Observation
    <3>4. NumOf(list, Waiting(Payloads, s, p)) # 0
      <4>1. list[i] \in Waiting(Payloads, s, p)
        BY <3>1, <3>3 DEF Waiting
      <4>2. PICK X : X = Waiting(Payloads, s, p)
        OBVIOUS
      <4>3. NumOf(list, X) # 0
        BY <4>1, <4>2, NumNone
      <4> QED BY <4>2, <4>3
    <3>5. NumOf(list, Waiting(Payloads, Opposite[s], p)) = 0
      <4>1. \/ NumOf(list, Waiting(Payloads, "primary", p)) = 0
            \/ NumOf(list, Waiting(Payloads, "reference", p)) = 0
        BY <2>1, Zenon DEF ShadowInv, PendingInv, Lone
      <4>2. Opposite["primary"] = "reference" /\ Opposite["reference"] = "primary"
            /\ (s = "primary" \/ s = "reference")
        BY DEF Source, Opposite
      <4> QED BY <3>4, <4>1, <4>2, Zenon
    <3>6. ASSUME NEW j \in 1 .. Len(list), list[j].source = Opposite[s], list[j].key = p PROVE FALSE
      <4>1. list[j] \in Observation(Payloads)
        BY ElementOfSeq
      <4>2. list[j] \in Waiting(Payloads, Opposite[s], p)
        BY <3>6, <4>1 DEF Waiting
      <4>3. PICK X : X = Waiting(Payloads, Opposite[s], p)
        OBVIOUS
      <4>4. list[j] \notin X
        BY <3>5, <4>3, NumNone
      <4> QED BY <4>2, <4>3, <4>4
    <3>7. Partners(list, s, p) = {}
      BY <2>2, <3>6 DEF Partners
    <3> QED BY <3>2, <3>3, <3>7
  <2>4. \A i \in DOMAIN pending :
           /\ generation - pending[i].generation <= MaxLag
           /\ Shadow!Partners(pending, pending[i].source, pending[i].key) = {}
    BY <2>1, <2>2, <2>3, ShadowNames, Zenon
  <2>5. state = "finalized" => pending = <<>>
    BY DEF ShadowInv, PendingInv
  <2> QED BY <2>4, <2>5, Zenon DEF Shadow!Settled
<1>3. Shadow!Accounting
  <2>1. emitted = matched + only["primary"] + only["reference"] + Len(pending)
    BY DEF ShadowInv, SumsInv
  <2>2. ASSUME state # "raised"
        PROVE  Shadow!MapThenSumSet(LAMBDA sp : seen[sp[1]][sp[2]], Shadow!Source \X Payloads)
               = emitted + matched
    BY <2>2, ShadowSum, Zenon DEF ShadowInv, SumsInv
  <2> QED BY <2>1, <2>2, Zenon DEF Shadow!Accounting
<1> QED BY <1>1, <1>2, <1>3, Zenon DEF PairedWithoutLoss

-----------------------------------------------------------------------------
(* A step of the services is a step of one of them and no step of the      *)
(* others.                                                                 *)
LEMMA OneService ==
    [ServicesNext]_allVars =>
        /\ [Audio!Next]_audio /\ [Shadow!Next]_shadow
        /\ [Doppler!PollNext]_doppler /\ [Recorder!RecorderNext]_recorder
BY DEF ServicesNext, allVars

(* _recorder.StreamRecorder: whatever the disk has room for and whenever   *)
(* it is closed, the capture is a prefix of what the device delivered, and *)
(* the decoder missed nothing.                                             *)
THEOREM CaptureIsPrefixCorrect == ServicesSpec => []CaptureIsPrefix
<1>1. CaptureInv /\ [ServicesNext]_allVars => CaptureInv'
  BY OneService, CaptureStep, SMTT(30)
<1>2. CaptureInv => CaptureIsPrefix
  <2> SUFFICES ASSUME CaptureInv PROVE Recorder!CaptureIsPrefix
    BY DEF CaptureIsPrefix
  <2>1. DOMAIN file = 1 .. Len(file)
    BY LenProperties DEF CaptureInv
  <2> QED BY <2>1 DEF CaptureInv, Recorder!CaptureIsPrefix
<1> QED BY CaptureInit, <1>1, <1>2, PTL DEF ServicesSpec

(* run_doppler_poll: a source that gives no reading is given up for the    *)
(* pushed offset within one period of its grace, and what is read is the   *)
(* answer to the request just made, for any timeouts and any daemon.       *)
THEOREM DopplerIsFreshCorrect == ServicesSpec => []DopplerIsFresh
<1>1. DopplerInv /\ [ServicesNext]_allVars => DopplerInv'
  BY OneService, DopplerStep
<1> QED BY DopplerInit, DopplerSays, <1>1, PTL DEF ServicesSpec

(* The audio path of amateur_fm_narrowband_rx: the data socket carries the *)
(* blocks in order, and an undisturbed pass returns with every block       *)
(* written or counted, for any queue and any number of blocks.             *)
THEOREM AudioCompleteCorrect == ServicesSpec => []AudioComplete
<1>1. AudioInv /\ [ServicesNext]_allVars => AudioInv'
  BY OneService, AudioStep
<1> QED BY AudioInit, AudioSays, <1>1, PTL DEF ServicesSpec

(* native_framing.shadow_runtime: with two engines on one stream, the app  *)
(* gets every payload at least as often as either of them found it, pairs  *)
(* are never left waiting for each other nor past the lag, and the         *)
(* summary adds up, for any batches, any lag and any capacity.             *)
THEOREM PairedWithoutLossCorrect == ServicesSpec => []PairedWithoutLoss
<1>1. ShadowInv /\ [ServicesNext]_allVars => ShadowInv'
  BY OneService, ShadowStep
<1> QED BY ShadowInit, ShadowSays, <1>1, PTL DEF ServicesSpec

-----------------------------------------------------------------------------
(* The live handoff queue by itself (BoundedQueue), for any capacities,    *)
(* item sizes and number of offers: it stays within its two capacities,    *)
(* its statistics add up, it hands over the accepted items in order, and   *)
(* it never hands anything over after it gave the decoder data from behind *)
(* a loss.                                                                 *)
USE DEF counters, drops

(* Appending to a concatenation appends to its second part.                *)
LEMMA AppendToConcat ==
    ASSUME NEW s \in Seq(Nat), NEW t \in Seq(Nat), NEW e \in Nat
    PROVE  Append(s \o t, e) = s \o Append(t, e)
<1>1. Append(s \o t, e) \in Seq(Nat) /\ s \o Append(t, e) \in Seq(Nat)
  OBVIOUS
<1>2. Len(Append(s \o t, e)) = Len(s \o Append(t, e))
  OBVIOUS
<1>3. \A i \in 1 .. Len(Append(s \o t, e)) : Append(s \o t, e)[i] = (s \o Append(t, e))[i]
  OBVIOUS
<1> QED BY <1>1, <1>2, <1>3, SeqEqual

(* The ids of queue entries are a sequence of numbers, one for each entry. *)
LEMMA IdsSeq ==
    ASSUME NEW entries \in Seq(Entry)
    PROVE  /\ Ids(entries) \in Seq(Nat)
           /\ Len(Ids(entries)) = Len(entries)
           /\ \A i \in 1 .. Len(entries) : Ids(entries)[i] = entries[i].id
<1>1. Len(entries) \in Nat
  OBVIOUS
<1>2. \A i \in 1 .. Len(entries) : entries[i] \in Entry
  BY ElementOfSeq
<1>3. [i \in 1 .. Len(entries) |-> entries[i].id] \in [1 .. Len(entries) -> Nat]
  BY <1>2 DEF Entry
<1>4. Ids(entries) \in [1 .. Len(entries) -> Nat]
  BY <1>3 DEF Ids
<1>5. Ids(entries) \in Seq(Nat)
  BY <1>1, <1>4, SeqDef, SMT
<1>6. Len(Ids(entries)) = Len(entries)
  BY <1>1, <1>4, <1>5, LenProperties
<1> QED BY <1>5, <1>6 DEF Ids

(* One more entry at the end of the queue is one more id at the end.       *)
LEMMA IdsAppend ==
    ASSUME NEW entries \in Seq(Entry), NEW e \in Entry
    PROVE  Ids(Append(entries, e)) = Append(Ids(entries), e.id)
<1> DEFINE longer == Append(entries, e)
<1>1. longer \in Seq(Entry) /\ Len(longer) = Len(entries) + 1
  OBVIOUS
<1>2. \A i \in 1 .. Len(entries) + 1 :
         longer[i] = IF i <= Len(entries) THEN entries[i] ELSE e
  OBVIOUS
<1>3. e.id \in Nat
  BY DEF Entry
<1> HIDE DEF longer
<1>4. /\ Ids(longer) \in Seq(Nat) /\ Len(Ids(longer)) = Len(entries) + 1
      /\ \A i \in 1 .. Len(entries) + 1 : Ids(longer)[i] = longer[i].id
  BY <1>1, IdsSeq
<1>5. /\ Append(Ids(entries), e.id) \in Seq(Nat)
      /\ Len(Append(Ids(entries), e.id)) = Len(entries) + 1
      /\ \A i \in 1 .. Len(entries) + 1 :
            Append(Ids(entries), e.id)[i] = IF i <= Len(entries) THEN entries[i].id ELSE e.id
  BY <1>3, IdsSeq
<1>6. \A i \in 1 .. Len(entries) + 1 : Ids(longer)[i] = Append(Ids(entries), e.id)[i]
  BY <1>2, <1>4, <1>5
<1>7. Ids(longer) = Append(Ids(entries), e.id)
  BY <1>4, <1>5, <1>6, SeqEqual
<1> QED BY <1>7 DEF longer

(* An empty queue is well typed and within its capacities.                 *)
LEMMA QueueTypeInit == Init => TypeOK
BY QueueAssumption DEF Init, TypeOK

(* An offer, a check of the statistics and a drain keep every counter a    *)
(* natural number and the queue within its capacities.                     *)
LEMMA QueueTypeStep == TypeOK /\ [Next]_vars => TypeOK'
<1> SUFFICES ASSUME TypeOK, [Next]_vars PROVE TypeOK'
  OBVIOUS
<1> USE DEF TypeOK
<1>1. ASSUME NEW units \in Sizes, Offer(units) PROVE TypeOK'
  <2> DEFINE e == [id |-> offered', units |-> units]
  <2>1. e \in Entry
    BY <1>1, QueueAssumption DEF Offer, Entry
  <2>2. CASE Fits(units)
    <3>1. items' = Append(items, e) /\ accepted' = Append(accepted,
              offered') /\ offered' \in Nat
      BY <1>1, <2>2 DEF Offer
    <3> HIDE DEF e
    <3>2. items' \in Seq(Entry) /\ accepted' \in Seq(Nat) /\ Len(items') = Len(items) + 1
      BY <2>1, <3>1
    <3>3. units \in Nat
      BY QueueAssumption
    <3>4. queuedUnits' \in Nat /\ acceptedItems' \in Nat /\ acceptedUnits' \in Nat
      BY <1>1, <2>2, <3>3 DEF Offer
    <3> QED BY <1>1, <2>2, <3>2, <3>3, <3>4, QueueAssumption DEF Offer, Fits
  <2>3. CASE ~Fits(units)
    BY <1>1, <2>3, QueueAssumption DEF Offer
  <2> QED BY <2>2, <2>3
<1>2. CASE Check
  BY <1>2 DEF Check
<1>3. CASE Drain
  <2>1. handed' \in Seq(Nat)
    BY <1>3, IdsSeq DEF Drain
  <2> QED BY <1>3, <2>1, QueueAssumption DEF Drain
<1>4. CASE UNCHANGED vars
  BY <1>4 DEF vars
<1> QED BY <1>1, <1>2, <1>3, <1>4 DEF Next, Failed

(* The queue of a live handoff never holds more items or units than it was *)
(* built for, whatever the scheduler thread offers (BoundedQueue.offer).   *)
THEOREM QueueTypeCorrect == Spec => []TypeOK
BY QueueTypeInit, QueueTypeStep, PTL DEF Spec

(* The statistics of an empty queue add up.                                *)
LEMMA AccountingInit == Init => Accounting
BY DEF Init, Accounting, Ids

(* The statistics go on adding up: what is taken off the queue is added to *)
(* what was drained, and each offer is counted on one side.                *)
LEMMA AccountingStep == TypeOK /\ Accounting /\ [Next]_vars => Accounting'
<1> SUFFICES ASSUME TypeOK, Accounting, [Next]_vars PROVE Accounting'
  OBVIOUS
<1> USE DEF TypeOK, Accounting
<1>1. ASSUME NEW units \in Sizes, Offer(units) PROVE Accounting'
  <2>1. CASE Fits(units)
    <3> DEFINE e == [id |-> offered', units |-> units]
    <3>1. e \in Entry
      BY <1>1, QueueAssumption DEF Offer, Entry
    <3>2. items' = Append(items, e) /\ accepted' = Append(accepted,
              offered') /\ handed' = handed
      BY <1>1, <2>1, Zenon DEF Offer
    <3>3. Ids(items') = Append(Ids(items), offered') /\ Ids(items) \in Seq(Nat)
      BY <3>1, <3>2, IdsAppend, IdsSeq
    <3>4. offered' \in Nat
      BY <1>1 DEF Offer
    <3> HIDE DEF e
    <3>5. accepted' = handed' \o Ids(items')
      <4>1. handed \in Seq(Nat) /\ Ids(items) \in Seq(Nat)
        BY <3>3
      <4>2. Append(handed \o Ids(items), offered') = handed \o Append(Ids(items), offered')
        <5> HIDE DEF TypeOK, Accounting
        <5> QED BY <3>4, <4>1, AppendToConcat, Zenon
      <4> QED BY <3>2, <3>3, <4>2
    <3>6. Len(items') = Len(items) + 1
      BY <3>1, <3>2
    <3>7. /\ acceptedItems' = acceptedItems + 1 /\ acceptedUnits' = acceptedUnits + units
          /\ queuedUnits' = queuedUnits + units /\ offered' = offered + 1
          /\ UNCHANGED <<drainedItems, drainedUnits, droppedItems>>
      BY <1>1, <2>1 DEF Offer
    <3>8. units \in Nat /\ Len(items) \in Nat
      BY QueueAssumption
    <3> QED BY <3>5, <3>6, <3>7, <3>8
  <2>2. CASE ~Fits(units)
    <3>1. /\ items' = items /\ accepted' = accepted /\ handed' = handed
          /\ droppedItems' = droppedItems + 1 /\ offered' = offered + 1
          /\ UNCHANGED <<queuedUnits, counters>>
      BY <1>1, <2>2 DEF Offer
    <3> QED BY <3>1
  <2> QED BY <2>1, <2>2
<1>2. CASE Check
  BY <1>2 DEF Check
<1>3. CASE Drain
  <2>1. handed' = handed \o Ids(items) /\ items' = <<>> /\ accepted' = accepted
    BY <1>3 DEF Drain
  <2>2. Ids(items') = <<>>
    BY <2>1 DEF Ids
  <2>3. handed' \in Seq(Nat)
    BY <2>1, IdsSeq
  <2>4. accepted' = handed' \o Ids(items')
    BY <2>1, <2>2, <2>3, ConcatEmptySeq
  <2>5. Len(items') = 0 /\ Len(items) \in Nat
    BY <2>1, LenProperties
  <2>6. /\ acceptedItems' = drainedItems' + Len(items')
        /\ acceptedUnits' = drainedUnits' + queuedUnits'
        /\ offered' = acceptedItems' + droppedItems'
    BY <1>3, <2>5 DEF Drain
  <2> QED BY <2>4, <2>6
<1>4. CASE UNCHANGED vars
  BY <1>4 DEF vars
<1> QED
  <2> HIDE DEF TypeOK, Accounting
  <2> QED BY <1>1, <1>2, <1>3, <1>4 DEF Next, Failed

(* At every moment the counters the operator reads add up, and what was    *)
(* accepted is what was handed over followed by what is queued, in order.  *)
THEOREM AccountingCorrect == Spec => []Accounting
BY QueueTypeInit, QueueTypeStep, AccountingInit, AccountingStep, PTL DEF Spec

-----------------------------------------------------------------------------
(* What the check of the statistics buys: while nothing was refused the    *)
(* accepted items are exactly the ones offered, and a consumer that is     *)
(* about to drain has been handed nothing from behind a gap.               *)
GapInv ==
    /\ droppedItems = 0 => Len(accepted) = offered /\ Gapless(accepted)
    /\ consumer = "checked" => Gapless(handed)

(* A prefix of a gapless sequence of ids is gapless.                       *)
LEMMA GaplessPrefix ==
    ASSUME NEW s \in Seq(Nat), NEW t \in Seq(Nat), Gapless(s \o t) PROVE Gapless(s)
<1>1. /\ Len(s) \in Nat /\ Len(t) \in Nat
      /\ DOMAIN s = 1 .. Len(s) /\ DOMAIN (s \o t) = 1 .. Len(s) + Len(t)
      /\ \A i \in 1 .. Len(s) : (s \o t)[i] = s[i]
  BY LenProperties, ConcatProperties
<1>2. \A i \in 1 .. Len(s) + Len(t) : (s \o t)[i] = i
  BY <1>1, Zenon DEF Gapless
<1>3. \A i \in 1 .. Len(s) : i \in 1 .. Len(s) + Len(t)
  BY <1>1
<1> QED BY <1>1, <1>2, <1>3, Zenon DEF Gapless

(* Nothing was offered and nothing was handed over.                        *)
LEMMA GapInit == Init => GapInv
BY DEF Init, GapInv, Gapless

(* Each offer appends the next id or counts a loss; the check looks at the *)
(* losses before it lets the consumer drain.                               *)
LEMMA GapStep == TypeOK /\ Accounting /\ GapInv /\ [Next]_vars => GapInv'
<1> SUFFICES ASSUME TypeOK, Accounting, GapInv, [Next]_vars PROVE GapInv'
  OBVIOUS
<1> USE DEF TypeOK, GapInv
<1>1. ASSUME NEW units \in Sizes, Offer(units) PROVE GapInv'
  <2>1. consumer' = consumer /\ handed' = handed
    BY <1>1 DEF Offer
  <2>2. CASE Fits(units)
    <3>1. accepted' = Append(accepted, offered') /\ offered' = offered + 1
          /\ droppedItems' = droppedItems
      BY <1>1, <2>2 DEF Offer
    <3> QED BY <2>1, <3>1, SMTT(30) DEF Gapless
  <2>3. CASE ~Fits(units)
    <3>1. droppedItems' # 0
      BY <1>1, <2>3 DEF Offer
    <3> QED BY <2>1, <3>1 DEF Gapless
  <2> QED BY <2>2, <2>3
<1>2. CASE Check
  <2>1. Ids(items) \in Seq(Nat)
    BY IdsSeq
  <2>2. droppedItems = 0 => Gapless(handed)
    BY <2>1, GaplessPrefix DEF Accounting
  <2>3. consumer' = "checked" => droppedItems = 0
    BY <1>2 DEF Check, RequireLossless
  <2> QED BY <1>2, <2>2, <2>3 DEF Check, Gapless
<1>3. CASE Drain
  BY <1>3 DEF Drain, Gapless
<1>4. CASE UNCHANGED vars
  BY <1>4 DEF vars, Gapless
<1> QED BY <1>1, <1>2, <1>3, <1>4 DEF Next, Failed

(* Only a drain hands anything over, and only after a check that found no  *)
(* loss.                                                                   *)
LEMMA HandedStep == TypeOK /\ GapInv /\ [Next]_vars => (handed' # handed => Gapless(handed))
<1> SUFFICES ASSUME TypeOK, GapInv, [Next]_vars, handed' # handed PROVE Gapless(handed)
  OBVIOUS
<1>1. ASSUME NEW units \in Sizes, Offer(units) PROVE FALSE
  BY <1>1 DEF Offer
<1>2. CASE Check
  BY <1>2 DEF Check
<1>3. CASE Drain
  BY <1>3 DEF Drain, GapInv
<1>4. CASE UNCHANGED vars
  BY <1>4 DEF vars
<1> QED BY <1>1, <1>2, <1>3, <1>4 DEF Next, Failed

(* Fail closed (require_lossless before drain): a decoder that was given   *)
(* data from behind a loss is never given anything again.                  *)
THEOREM NothingAfterGapCorrect == Spec => NothingAfterGap
<1>1. Init => TypeOK /\ Accounting /\ GapInv
  BY QueueTypeInit, AccountingInit, GapInit
<1>2. TypeOK /\ Accounting /\ GapInv /\ [Next]_vars => (TypeOK /\ Accounting /\ GapInv)'
  BY QueueTypeStep, AccountingStep, GapStep
<1>3. TypeOK /\ GapInv /\ [Next]_vars => [handed' # handed => Gapless(handed)]_vars
  BY HandedStep
<1> QED BY <1>1, <1>2, <1>3, PTL DEF Spec, NothingAfterGap
=============================================================================
