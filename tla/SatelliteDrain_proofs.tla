------------------------ MODULE SatelliteDrain_proofs ------------------------
(* The two chains of a satellite pass, for any number of transmissions and *)
(* any queues: no loss goes unseen, and a frame found is emitted, once if  *)
(* nothing holds it back.                                                  *)
EXTENDS SatelliteDrain, DataLemmas, SequenceTheorems, TLAPS

USE DEF graphVars, loopVars, appVars

(* Once the finally has stopped the graph nothing comes in any more, so a  *)
(* loop that is past the last drain of a chain without an exception found  *)
(* that chain without a loss, and it stays so.                             *)
LossInv ==
    /\ dropped \in [Engine -> BOOLEAN]
    /\ last => ~running
    /\ loop \in {"flush", "done"} => last
    /\ last /\ ~error /\ loop \in {"grsat", "emitting", "flush", "done"} => ~dropped["ours"]
    /\ last /\ ~error /\ loop \in {"emitting", "flush", "done"} => ~dropped["grsat"]

LEMMA LossInit == Init => LossInv
BY DEF Init, LossInv, Engine

LEMMA LossStep == LossInv /\ [Next]_vars => LossInv'
<1> SUFFICES ASSUME LossInv, [Next]_vars PROVE LossInv'
  OBVIOUS
<1> USE DEF LossInv
<1>1. ASSUME NEW by \in SUBSET Engine, Receive(by) PROVE LossInv'
  <2>1. running /\ UNCHANGED <<running, loop, last, error>>
    BY <1>1 DEF Receive
  <2>2. dropped' \in [Engine -> BOOLEAN]
    <3>1. PICK lost : dropped' = [e \in Engine |-> dropped[e] \/ e \in lost]
      BY <1>1, Zenon DEF Receive
    <3> QED BY <3>1
  <2> QED BY <2>1, <2>2
<1>2. ASSUME NEW keep, DrainOurs(keep) PROVE LossInv'
  <2>1. /\ loop = "ours" /\ loop' = "grsat" /\ ~dropped["ours"]
        /\ UNCHANGED <<running, dropped, last, error>>
    BY <1>2 DEF DrainOurs, LoopFrame
  <2> QED BY <2>1
<1>3. CASE DrainGrsat
  <2>1. /\ loop = "grsat" /\ loop' = "emitting" /\ ~dropped["grsat"]
        /\ UNCHANGED <<running, dropped, last, error>>
    BY <1>3 DEF DrainGrsat, LoopFrame
  <2> QED BY <2>1
<1>4. CASE Overflow \/ EmitFails \/ ReportFails
  <2>1. /\ error' /\ loop' = IF last THEN "done" ELSE "graph"
        /\ UNCHANGED <<running, dropped, last>>
    BY <1>4 DEF Overflow, EmitFails, ReportFails, Raise, LoopFrame
  <2> QED BY <2>1
<1>5. CASE Emit \/ EmitFlushed
  <2>1. UNCHANGED <<running, dropped, loop, last, error>>
    BY <1>5 DEF Emit, EmitFlushed, LoopFrame
  <2> QED BY <2>1
<1>6. CASE Wake \/ Polled
  <2>1. /\ loop' \in {"ours", "graph", "sleeping"}
        /\ UNCHANGED <<running, dropped, last, error>>
    BY <1>6 DEF Wake, Polled, LoopFrame
  <2> QED BY <2>1
<1>7. CASE StopGraph
  <2>1. /\ loop' = "ours" /\ ~running' /\ UNCHANGED <<dropped, error>>
    BY <1>7 DEF StopGraph, LoopFrame
  <2> QED BY <2>1
<1>8. CASE Flush
  <2>1. /\ loop = "emitting" /\ last /\ loop' = "flush"
        /\ UNCHANGED <<running, dropped, last, error>>
    BY <1>8 DEF Flush, LoopFrame
  <2> QED BY <2>1
<1>9. CASE Report
  <2>1. /\ loop = "flush" /\ loop' = "done" /\ UNCHANGED <<running, dropped, last, error>>
    BY <1>9 DEF Report, LoopFrame
  <2> QED BY <2>1
<1>10. CASE OnStop \/ Watch \/ Exit \/ PeerGoes \/ Finished \/ UNCHANGED vars
  <2>1. UNCHANGED <<running, dropped, loop, last, error>>
    BY <1>10 DEF OnStop, Watch, Exit, PeerGoes, Finished, AppFrame, vars
  <2> QED BY <2>1
<1> QED BY <1>1, <1>2, <1>3, <1>4, <1>5, <1>6, <1>7, <1>8, <1>9, <1>10 DEF Next, Loop

(* "Fail closed when a scheduler handoff reports any cumulative loss": a   *)
(* loss a chain counts at any time, also between the last look at its      *)
(* queue and the stop, is seen by a drain, so a loop that ends without an  *)
(* exception has lost nothing; for any traffic, queues and bounds.         *)
THEOREM LossIsNoticedCorrect == Spec => []LossIsNoticed
<1>1. Spec => []LossInv
  BY LossInit, LossStep, PTL DEF Spec
<1>2. LossInv => LossIsNoticed
  BY DEF LossInv, LossIsNoticed
<1> QED BY <1>1, <1>2, PTL
-----------------------------------------------------------------------------
(* Transmissions as sets: what is in a queue, and how many of a set carry  *)
(* a payload.                                                              *)
ItemsOf(s)  == {s[k] : k \in 1 .. Len(s)}
Distinct(s) == \A j, k \in 1 .. Len(s) : s[j] = s[k] => j = k
Carriers(p) == {t \in Transmission : PayloadOf(t) = p}
Carry(S, p) == Cardinality({t \in S : PayloadOf(t) = p})

LEMMA CarryRules ==
    ASSUME NEW S, IsFiniteSet(S), NEW T, IsFiniteSet(T), NEW p
    PROVE  /\ Carry(S, p) \in Nat
           /\ S \subseteq T => Carry(S, p) <= Carry(T, p)
           /\ IsFiniteSet(S \cup T)
           /\ S \cap T = {} => Carry(S \cup T, p) = Carry(S, p) + Carry(T, p)
<1>1. PICK A, B : A = {t \in S : PayloadOf(t) = p} /\ B = {t \in T : PayloadOf(t) = p}
  OBVIOUS
<1>2. IsFiniteSet(A) /\ IsFiniteSet(B) /\ Cardinality(A) \in Nat /\ Cardinality(B) \in Nat
  <2>1. A \in SUBSET S /\ B \in SUBSET T
    BY <1>1
  <2> QED BY <2>1, FS_Subset, FS_CardinalityType
<1>3. ASSUME S \subseteq T PROVE Cardinality(A) <= Cardinality(B)
  <2>1. A \in SUBSET B
    BY <1>1, <1>3
  <2> QED BY <1>2, <2>1, FS_Subset
<1>4. IsFiniteSet(S \cup T)
  BY FS_Union
<1>5. ASSUME S \cap T = {} PROVE Cardinality(A \cup B) = Cardinality(A) + Cardinality(B)
  <2>1. A \cap B = {}
    BY <1>1, <1>5
  <2>2. Cardinality(A \cup B) = Cardinality(A) + Cardinality(B) - Cardinality(A \cap B)
    BY <1>2, FS_Union
  <2>3. Cardinality(A \cap B) = 0
    BY <2>1, FS_EmptySet
  <2> QED BY <1>2, <2>2, <2>3
<1>6. {t \in S \cup T : PayloadOf(t) = p} = A \cup B
  BY <1>1
<1> QED BY <1>1, <1>2, <1>3, <1>4, <1>5, <1>6, Zenon DEF Carry

(* Without repetitions, counting places is counting items.                 *)
LEMMA DistinctCount ==
    ASSUME NEW D, NEW s \in Seq(D), Distinct(s), NEW X
    PROVE  NumOf(s, X) = Cardinality({t \in ItemsOf(s) : t \in X})
<1>1. PICK A, B : A = PlacesOf(s, X) /\ B = {t \in ItemsOf(s) : t \in X}
  OBVIOUS
<1>2. A = {k \in 1 .. Len(s) : s[k] \in X} /\ IsFiniteSet(A)
  BY <1>1, NumBounds
<1>3. PICK f : f = [k \in A |-> s[k]]
  OBVIOUS
<1>4. f \in [A -> B]
  BY <1>1, <1>2, <1>3 DEF ItemsOf
<1>5. \A j, k \in A : f[j] = f[k] => j = k
  BY <1>2, <1>3 DEF Distinct
<1>6. \A t \in B : \E k \in A : f[k] = t
  BY <1>1, <1>2, <1>3 DEF ItemsOf
<1>7. f \in Bijection(A, B)
  <2>1. DOMAIN f = A
    BY <1>3
  <2>2. f \in Injection(A, B)
    BY <1>4, <1>5, <2>1 DEF Injection, IsInjective
  <2>3. f \in Surjection(A, B)
    BY <1>4, <1>6 DEF Surjection
  <2> QED BY <2>2, <2>3 DEF Bijection
<1>8. ExistsBijection(A, B)
  BY <1>7 DEF ExistsBijection
<1>9. Cardinality(B) = Cardinality(A)
  BY <1>2, <1>8, FS_Bijection
<1> QED BY <1>1, <1>9, Zenon DEF NumOf

(* Queues of transmissions, and the payloads they carry.                   *)
LEMMA QueueItems ==
    ASSUME NEW s \in Seq(Transmission)
    PROVE  /\ ItemsOf(s) \subseteq Transmission
           /\ PayloadsOf(s) \in Seq(Payload) /\ Len(PayloadsOf(s)) = Len(s)
           /\ \A p : NumOf(PayloadsOf(s), {p}) = NumOf(s, Carriers(p))
           /\ Distinct(s) => \A p : NumOf(s, Carriers(p)) = Carry(ItemsOf(s), p)
<1>1. Len(s) \in Nat /\ DOMAIN s = 1 .. Len(s) /\ \A k \in 1 .. Len(s) : s[k] \in Transmission
  BY LenProperties, ElementOfSeq
<1>2. ItemsOf(s) \subseteq Transmission
  BY <1>1 DEF ItemsOf
<1>3. \A t \in Transmission : PayloadOf(t) \in Payload
  BY DrainAssumption DEF Transmission, PayloadOf, Payload
<1>4. PICK q : q = PayloadsOf(s)
  OBVIOUS
<1>5. q = [k \in 1 .. Len(s) |-> PayloadOf(s[k])]
  BY <1>4 DEF PayloadsOf
<1>6. q \in Seq(Payload) /\ Len(q) = Len(s) /\ \A k \in 1 .. Len(s) : q[k] = PayloadOf(s[k])
  <2>1. q \in [1 .. Len(s) -> Payload]
    BY <1>1, <1>3, <1>5
  <2>2. q \in Seq(Payload) /\ Len(q) = Len(s)
    BY <1>1, <2>1, SeqDef, LenProperties
  <2> QED BY <1>5, <2>2
<1>7. ASSUME NEW p PROVE NumOf(q, {p}) = NumOf(s, Carriers(p))
  <2>1. PlacesOf(q, {p}) = {k \in 1 .. Len(q) : q[k] \in {p}}
    BY <1>6, NumBounds
  <2>2. PlacesOf(s, Carriers(p)) = {k \in 1 .. Len(s) : s[k] \in Carriers(p)}
    BY NumBounds
  <2>3. \A k \in 1 .. Len(s) : q[k] \in {p} <=> s[k] \in Carriers(p)
    BY <1>1, <1>6 DEF Carriers
  <2>4. PlacesOf(q, {p}) = PlacesOf(s, Carriers(p))
    BY <1>6, <2>1, <2>2, <2>3
  <2> QED BY <2>4, Zenon DEF NumOf
<1>8. ASSUME Distinct(s), NEW p PROVE NumOf(s, Carriers(p)) = Carry(ItemsOf(s), p)
  <2>1. NumOf(s, Carriers(p)) = Cardinality({t \in ItemsOf(s) : t \in Carriers(p)})
    BY <1>8, DistinctCount
  <2>2. {t \in ItemsOf(s) : t \in Carriers(p)} = {t \in ItemsOf(s) : PayloadOf(t) = p}
    BY <1>2 DEF Carriers
  <2> QED BY <2>1, <2>2, Zenon DEF Carry
<1> QED BY <1>2, <1>4, <1>6, <1>7, <1>8, Zenon

(* A new transmission joins a queue.                                       *)
LEMMA Joined ==
    ASSUME NEW s \in Seq(Transmission), NEW t \in Transmission
    PROVE  /\ Append(s, t) \in Seq(Transmission) /\ Len(Append(s, t)) = Len(s) + 1
           /\ ItemsOf(Append(s, t)) = ItemsOf(s) \cup {t}
           /\ Distinct(s) /\ t \notin ItemsOf(s) => Distinct(Append(s, t))
           /\ \A X : NumOf(Append(s, t), X) = NumOf(s, X) + (IF t \in X THEN 1 ELSE 0)
<1>1. PICK q : q = Append(s, t)
  OBVIOUS
<1>2. /\ q \in Seq(Transmission) /\ Len(s) \in Nat /\ Len(q) = Len(s) + 1
      /\ \A k \in 1 .. Len(s) : q[k] = s[k]
      /\ q[Len(s) + 1] = t
  BY <1>1, AppendProperties, LenProperties
<1>3. PICK n \in Nat : n = Len(s)
  BY <1>2
<1>4. ItemsOf(q) = ItemsOf(s) \cup {t}
  <2>1. \A x \in ItemsOf(q) : x \in ItemsOf(s) \/ x = t
    BY <1>2, <1>3 DEF ItemsOf
  <2>2. \A x \in ItemsOf(s) : x \in ItemsOf(q)
    BY <1>2, <1>3 DEF ItemsOf
  <2>3. t \in ItemsOf(q)
    BY <1>2, <1>3 DEF ItemsOf
  <2> QED BY <2>1, <2>2, <2>3
<1>5. ASSUME Distinct(s), t \notin ItemsOf(s) PROVE Distinct(q)
  <2>1. \A k \in 1 .. n : q[k] # t
    BY <1>2, <1>3, <1>5 DEF ItemsOf
  <2>2. \A j, k \in 1 .. n : q[j] = q[k] => j = k
    BY <1>2, <1>3, <1>5 DEF Distinct
  <2>3. \A j \in 1 .. n + 1 : j \in 1 .. n \/ j = n + 1
    OBVIOUS
  <2> QED BY <1>2, <1>3, <2>1, <2>2, <2>3 DEF Distinct
<1>6. \A X : NumOf(q, X) = NumOf(s, X) + (IF t \in X THEN 1 ELSE 0)
  BY <1>1, NumAppend
<1> QED BY <1>1, <1>2, <1>4, <1>5, <1>6, Zenon

(* Two batches are merged into what was read before: f and g come new to   *)
(* what our chain (ro) and gr-satellites' chain (rg) gave, c still waits   *)
(* to be read from ours.                                                   *)
Parted(M, ro, rg, f, g, c) ==
    /\ IsFiniteSet(M) /\ ro \in SUBSET M /\ rg \in SUBSET M /\ f \in SUBSET M /\ g \in SUBSET M
    /\ c \in SUBSET M
    /\ f \cap ro = {} /\ g \cap ro = {} /\ g \cap rg = {} /\ c \cap f = {} /\ c \cap rg = {}

Merged(ro, rg, f, g, c, p, u, k, a, d, n, l) ==
    /\ u = Carry(ro \cup rg, p) /\ k = Carry(rg \cap (c \cup f), p)
    /\ Carry(f, p) = k + a /\ Carry(g, p) = d + n /\ d <= a
    /\ Carry((ro \cup f) \cup (rg \cup g), p) = u + a + n
    /\ l = Carry((rg \cup g) \cap c, p) /\ l <= n

LEMMA Merge ==
    ASSUME NEW M, NEW ro, NEW rg, NEW f, NEW g, NEW c, Parted(M, ro, rg, f, g, c), NEW p
    PROVE  \E u, k, a, d, n, l \in Nat : Merged(ro, rg, f, g, c, p, u, k, a, d, n, l)
<1> USE DEF Parted
<1>1. \A S \in SUBSET M : IsFiniteSet(S)
  BY FS_Subset
<1>2. \A S, T \in SUBSET M :
         /\ Carry(S, p) \in Nat
         /\ S \subseteq T => Carry(S, p) <= Carry(T, p)
         /\ S \cap T = {} => Carry(S \cup T, p) = Carry(S, p) + Carry(T, p)
  <2> TAKE S, T \in SUBSET M
  <2>1. IsFiniteSet(S) /\ IsFiniteSet(T)
    BY <1>1
  <2> QED BY <2>1, CarryRules
<1>3. PICK A, K, D, N, U, L, V :
         /\ A = f \ rg /\ K = rg \cap f /\ D = g \cap f /\ N = g \ f /\ U = ro \cup rg
         /\ L = g \cap c /\ V = U \cup A
  OBVIOUS
<1>4. /\ A \in SUBSET M /\ K \in SUBSET M /\ D \in SUBSET M /\ N \in SUBSET M /\ U \in SUBSET M
      /\ L \in SUBSET M /\ V \in SUBSET M
  BY <1>3
<1>5. PICK u \in Nat, k \in Nat, a \in Nat, d \in Nat, n \in Nat, l \in Nat :
         /\ u = Carry(U, p) /\ k = Carry(K, p) /\ a = Carry(A, p) /\ d = Carry(D, p)
         /\ n = Carry(N, p) /\ l = Carry(L, p)
  BY <1>2, <1>4
<1>6. rg \cap (c \cup f) = K /\ (rg \cup g) \cap c = L
  BY <1>3
<1>7. Carry(f, p) = k + a
  <2>1. f = K \cup A /\ K \cap A = {}
    BY <1>3
  <2> QED BY <1>2, <1>4, <1>5, <2>1, Zenon
<1>8. Carry(g, p) = d + n
  <2>1. g = D \cup N /\ D \cap N = {}
    BY <1>3
  <2> QED BY <1>2, <1>4, <1>5, <2>1, Zenon
<1>9. d <= a /\ l <= n
  <2>1. D \subseteq A /\ L \subseteq N
    BY <1>3
  <2>2. Carry(D, p) <= Carry(A, p) /\ Carry(L, p) <= Carry(N, p)
    BY <1>2, <1>4, <2>1, Zenon
  <2> QED BY <1>5, <2>2, Zenon
<1>10. Carry(V, p) = u + a
  <2>1. U \cap A = {}
    BY <1>3
  <2> QED BY <1>2, <1>3, <1>4, <1>5, <2>1, Zenon
<1>11. Carry((ro \cup f) \cup (rg \cup g), p) = u + a + n
  <2>1. (ro \cup f) \cup (rg \cup g) = V \cup N /\ V \cap N = {}
    BY <1>3
  <2>2. Carry(V \cup N, p) = Carry(V, p) + Carry(N, p)
    BY <1>2, <1>4, <2>1, Zenon
  <2> QED BY <1>5, <1>10, <2>1, <2>2, Zenon
<1> QED BY <1>3, <1>5, <1>6, <1>7, <1>8, <1>9, <1>11, ZenonT(60) DEF Merged

-----------------------------------------------------------------------------
(* The reconciler's own names for the computation.                         *)
LEMMA ShadowNames ==
    /\ Shadow!Source = Source /\ Shadow!Opposite = Opposite
    /\ \A list, minimum : Shadow!Retained(list, minimum) = Retained(list, minimum)
    /\ \A batch, key : Shadow!Tally(batch, key) = Tally(batch, key)
<1>1. Shadow!Source = Source /\ Shadow!Opposite = Opposite
  BY Zenon DEF Shadow!Source, Source, Shadow!Opposite, Opposite
<1>2. \A list, minimum : Shadow!Retained(list, minimum) = Retained(list, minimum)
  BY Zenon DEF Shadow!Retained, Retained
<1>3. \A batch, key : Shadow!Tally(batch, key) = Tally(batch, key)
  BY Zenon DEF Shadow!Tally, Tally, Shadow!Cardinality, Cardinality
<1> QED BY <1>1, <1>2, <1>3, Zenon

LEMMA ShadowSide ==
    \A source, now, limit, start, batch :
        Shadow!Side(source, now, limit, start, batch) = Side(source, now, limit, start, batch)
BY ZenonT(60) DEF Shadow!Side, Side, Shadow!Observe, Observe, Shadow!RemoveAt, RemoveAt,
             Shadow!Partners, Partners, Shadow!Opposite, Opposite

LEMMA ShadowPoll ==
    \A a, b : Shadow!Poll(a, b) = PollState(pending, matched, generation + 1,
                                            2 * NTransmissions + 1, generation + 1 - 1, a, b)
<1>1. Shadow!Retained(pending, Shadow!Horizon) = Retained(pending, generation + 1 - 1)
  BY ShadowNames, Zenon DEF Shadow!Horizon
<1> QED BY <1>1, ShadowSide, Zenon DEF Shadow!Poll, PollState

(* What waits for the other chain was seen in the last poll or this one,   *)
(* and not on both sides; a frame was returned for each observation of     *)
(* either chain but those that waited for it.                              *)
SpanInv ==
    /\ pending \in Seq(Observation(Payload)) /\ generation \in Nat /\ matched \in Nat
    /\ seen \in [Source -> [Payload -> Nat]] /\ returned \in [Payload -> Nat]
    /\ state \in {"open", "finalized"}
    /\ Lone(Payload, pending) /\ Dated(generation - 1, generation, pending)

RepeatsInv ==
    \A s \in Source, p \in Payload :
        returned[p] >= seen[s][p] + NumOf(pending, Waiting(Payload, Opposite[s], p))

(* A poll within the capacity, and what it does for each payload.          *)
Served(a, b, t, p) ==
    /\ returned'[p] = returned[p] + NumOf(t.out, {p})
    /\ seen'["primary"][p] = seen["primary"][p] + NumOf(a, {p})
    /\ seen'["reference"][p] = seen["reference"][p] + NumOf(b, {p})
    /\ \E first, late \in Nat : Yield(Payload, pending, generation', a, b, t, p, first, late)

LEMMA ReconcileGives ==
    ASSUME SpanInv, RepeatsInv, NEW a \in Seq(Payload), NEW b \in Seq(Payload),
           Len(pending) + Len(a) + Len(b) <= 2 * NTransmissions,
           Shadow!Reconcile(a, b), NEW t, t = Shadow!Poll(a, b)
    PROVE  /\ SpanInv' /\ RepeatsInv'
           /\ t.out \in Seq(Payload) /\ pending' = t.pending /\ generation' = generation + 1
           /\ Len(pending') <= Len(pending) + Len(a) + Len(b)
           /\ \A p \in Payload : Served(a, b, t, p)
<1>1. PICK list \in Seq(Observation(Payload)), m \in Nat, now \in Nat, limit \in Nat,
           minimum \in Int, lowest \in Int :
             /\ list = pending /\ m = matched /\ now = generation + 1
             /\ limit = 2 * NTransmissions + 1
             /\ minimum = generation + 1 - 1 /\ lowest = generation - 1
             /\ minimum <= now /\ now - 1 = generation /\ minimum = now - 1
  BY DrainAssumption DEF SpanInv
<1>2. t = PollState(list, m, now, limit, minimum, a, b)
  BY <1>1, ShadowPoll, Zenon
<1>3. PICK l \in Nat, i \in Nat, j \in Nat :
         l = Len(list) /\ i = Len(a) /\ j = Len(b) /\ l + i + j <= limit /\ l <= limit
  <2>1. Len(list) \in Nat /\ Len(a) \in Nat /\ Len(b) \in Nat
    BY LenProperties
  <2>2. PICK l \in Nat, i \in Nat, j \in Nat : l = Len(list) /\ i = Len(a) /\ j = Len(b)
    BY <2>1
  <2>3. l + i + j <= 2 * NTransmissions
    BY <1>1, <2>2
  <2>4. NTransmissions \in Nat /\ limit = 2 * NTransmissions + 1
    BY <1>1, DrainAssumption
  <2>5. l + i + j <= limit /\ l <= limit
    BY <2>3, <2>4
  <2> QED BY <2>2, <2>5
<1>4. PollRule(Payload, list, m, now, limit, minimum, a, b, t)
  <2>1. PollMay(Payload, list, now, limit, minimum, lowest)
    <3>1. Lone(Payload, list) /\ Dated(lowest, now - 1, list)
      BY <1>1, Zenon DEF SpanInv
    <3>2. minimum <= now /\ Len(list) <= limit
      BY <1>1, <1>3
    <3> QED BY <3>1, <3>2, Zenon DEF PollMay
  <2> QED BY <1>2, <2>1, PollOutcome
<1>5. /\ t \in BatchState(Payload) /\ Lone(Payload, t.pending) /\ Dated(minimum, now, t.pending)
      /\ Len(t.pending) <= Len(list) + Len(a) + Len(b)
      /\ t.raised => Len(list) + Len(a) + Len(b) > limit
  BY <1>4, Zenon DEF PollRule
<1>6. ~t.raised
  BY <1>3, <1>5
<1>7. /\ t.pending \in Seq(Observation(Payload)) /\ t.matched \in Nat /\ t.out \in Seq(Payload)
  BY <1>5 DEF BatchState
<1>8. /\ generation' = now /\ pending' = t.pending /\ matched' = t.matched
      /\ state' = "open"
      /\ seen' = [s \in Source |-> [p \in Payload |->
                     seen[s][p] + Tally(IF s = "primary" THEN a ELSE b, p)]]
      /\ returned' = [p \in Payload |-> returned[p] + Tally(t.out, p)]
  BY <1>1, <1>6, ShadowNames, Zenon DEF Shadow!Reconcile
<1>9. \A x : /\ Tally(a, x) = NumOf(a, {x}) /\ Tally(b, x) = NumOf(b, {x})
             /\ Tally(t.out, x) = NumOf(t.out, {x})
             /\ NumOf(a, {x}) \in Nat /\ NumOf(b, {x}) \in Nat /\ NumOf(t.out, {x}) \in Nat
  <2>1. \A x : NumOf(a, {x}) \in Nat /\ NumOf(b, {x}) \in Nat /\ NumOf(t.out, {x}) \in Nat
    BY <1>7, NumBounds, Zenon
  <2> QED BY <2>1, CountIsNum, Zenon
<1>10. "primary" \in Source /\ "reference" \in Source /\ "primary" # "reference"
       /\ Opposite["primary"] = "reference" /\ Opposite["reference"] = "primary"
  BY DEF Source, Opposite
<1>11. ASSUME NEW p \in Payload PROVE Served(a, b, t, p)
  <2>1. /\ returned'[p] = returned[p] + Tally(t.out, p)
        /\ seen'["primary"][p] = seen["primary"][p] + Tally(a, p)
        /\ seen'["reference"][p] = seen["reference"][p] + Tally(b, p)
    BY <1>8, <1>10, Zenon
  <2>2. PICK first \in Nat, late \in Nat : Yield(Payload, list, now, a, b, t, p, first, late)
    <3>1. minimum = now - 1
      BY <1>1
    <3> QED BY <1>4, <1>6, <3>1, PollYields
  <2> QED BY <1>1, <1>8, <1>9, <2>1, <2>2, Zenon DEF Served
<1>12. SpanInv'
  <2>1. generation' \in Nat /\ matched' \in Nat /\ state' \in {"open", "finalized"}
    BY <1>7, <1>8
  <2>2. seen' \in [Source -> [Payload -> Nat]]
    <3>1. ASSUME NEW s \in Source, NEW p \in Payload
          PROVE  seen[s][p] + Tally(IF s = "primary" THEN a ELSE b, p) \in Nat
      <4>1. Tally(IF s = "primary" THEN a ELSE b, p) \in Nat
        BY <1>9, ZenonT(60)
      <4>2. seen[s][p] \in Nat
        BY DEF SpanInv
      <4> QED BY <4>1, <4>2
    <3> QED BY <1>8, <3>1
  <2>3. returned' \in [Payload -> Nat]
    <3>1. \A p \in Payload : returned[p] + Tally(t.out, p) \in Nat
      <4>1. \A p \in Payload : returned[p] \in Nat
        BY DEF SpanInv
      <4>2. \A p : Tally(t.out, p) \in Nat
        BY <1>9, ZenonT(60)
      <4> QED BY <4>1, <4>2
    <3> QED BY <1>8, <3>1
  <2>4. Lone(Payload, pending') /\ Dated(generation' - 1, generation', pending')
    BY <1>1, <1>5, <1>8, Zenon
  <2>5. pending' \in Seq(Observation(Payload))
    BY <1>7, <1>8, Zenon
  <2> QED BY <2>1, <2>2, <2>3, <2>4, <2>5, Zenon DEF SpanInv
<1>13. RepeatsInv'
  <2> SUFFICES ASSUME NEW s \in Source, NEW p \in Payload
               PROVE  returned'[p] >= seen'[s][p]
                                      + NumOf(pending', Waiting(Payload, Opposite[s], p))
    BY DEF RepeatsInv
  <2>1. Served(a, b, t, p)
    BY <1>11
  <2>2. PICK first \in Nat, late \in Nat : Yield(Payload, pending, generation', a, b, t, p, first, late)
    BY <2>1, Zenon DEF Served
  <2>3. PICK W, V : W = Waiting(Payload, "primary", p) /\ V = Waiting(Payload, "reference", p)
    OBVIOUS
  <2>4. PICK lw \in Nat, lv \in Nat, tw \in Nat, tv \in Nat, out1 \in Nat :
           /\ lw = NumOf(pending, W) /\ lv = NumOf(pending, V)
           /\ tw = NumOf(t.pending, W) /\ tv = NumOf(t.pending, V) /\ out1 = NumOf(t.out, {p})
    <3>1. \A X : NumOf(list, X) \in Nat /\ NumOf(t.pending, X) \in Nat
      BY <1>7, NumBounds, Zenon
    <3> QED BY <1>1, <1>9, <3>1
  <2>5. PICK i1 \in Nat, j1 \in Nat : i1 = NumOf(a, {p}) /\ j1 = NumOf(b, {p})
    BY <1>9, Zenon
  <2>6. out1 + lv >= i1 + tv /\ out1 + lw >= j1 + tw
    BY <2>2, <2>3, <2>4, <2>5, Zenon DEF Yield
  <2>7. PICK ret \in Nat, sp \in Nat, sr \in Nat :
           ret = returned[p] /\ sp = seen["primary"][p] /\ sr = seen["reference"][p]
    BY <1>10 DEF SpanInv
  <2>8. ret >= sp + lv /\ ret >= sr + lw
    BY <1>10, <2>3, <2>4, <2>7, Zenon DEF RepeatsInv
  <2>9. returned'[p] = ret + out1 /\ seen'["primary"][p] = sp + i1 /\ seen'["reference"][p] = sr + j1
    BY <2>1, <2>4, <2>5, <2>7, Zenon DEF Served
  <2>10. ret + out1 >= (sp + i1) + tv /\ ret + out1 >= (sr + j1) + tw
    BY <2>6, <2>8
  <2>11. CASE s = "primary"
    BY <1>8, <1>10, <2>3, <2>4, <2>9, <2>10, <2>11, Zenon
  <2>12. CASE s = "reference"
    BY <1>8, <1>10, <2>3, <2>4, <2>9, <2>10, <2>12, Zenon
  <2> QED BY <2>11, <2>12 DEF Source
<1> QED BY <1>1, <1>5, <1>7, <1>8, <1>11, <1>12, <1>13, Zenon

-----------------------------------------------------------------------------
(* What every queue and batch holds.                                       *)
TypesInv ==
    /\ air \in 0 .. NTransmissions
    /\ queue \in [Engine -> Seq(Transmission)] /\ found \in [Engine -> Seq(Transmission)]
    /\ fresh \in Seq(Transmission) /\ held \in Seq(Transmission)
    /\ out \in Seq(Payload) /\ sent \in Seq(Payload)

(* Where the loop is, and what it has emptied on its way.                  *)
PathInv ==
    /\ loop # "grsat" => fresh = <<>>
    /\ loop \notin {"emitting", "flush"} => out = <<>>
    /\ last => ~running /\ loop \in {"ours", "grsat", "emitting", "flush", "done"}
    /\ loop \in {"flush", "done"} => last
    /\ last /\ loop \in {"grsat", "emitting", "flush"} => queue["ours"] = <<>>
    /\ last /\ loop \in {"emitting", "flush"} => queue["grsat"] = <<>>
    /\ loop = "flush" => held = <<>>
    /\ loop = "done" /\ ~error => queue["ours"] = <<>> /\ queue["grsat"] = <<>> /\ held = <<>>
    /\ app = "clean" => loop = "done"

(* No more waits than was heard, by either chain.                          *)
SizeInv == Len(pending) + Len(fresh) + Len(held) + Len(queue["ours"]) + Len(queue["grsat"])
           <= 2 * air

(* While nothing is raised, what a chain found is under way or was seen by *)
(* the reconciler, and what that returned is out or under way.             *)
Flows(p) ==
    /\ NumOf(found["ours"], Carriers(p))
       = seen["primary"][p] + NumOf(fresh, Carriers(p)) + NumOf(held, Carriers(p))
         + NumOf(queue["ours"], Carriers(p))
    /\ NumOf(found["grsat"], Carriers(p))
       = seen["reference"][p] + NumOf(queue["grsat"], Carriers(p))
    /\ NumOf(sent, {p}) + NumOf(out, {p}) = returned[p]
FlowInv == ~error => \A p \in Payload : Flows(p)
SentInv == \A p \in Payload : NumOf(sent, {p}) + NumOf(out, {p}) <= returned[p]

(* The transmissions the reconciler was given, from either chain (or that  *)
(* were lost on the way to it).                                            *)
ReadOurs  == ItemsOf(found["ours"]) \ (ItemsOf(queue["ours"]) \cup ItemsOf(fresh))
ReadGrsat == ItemsOf(found["grsat"]) \ ItemsOf(queue["grsat"])

(* Without a frame held back: a transmission is in one place of a chain,   *)
(* and what gr-satellites' chain has yet to give was not read from ours.   *)
BooksInv == ~holding =>
    /\ held = <<>> /\ Distinct(queue["ours"]) /\ Distinct(queue["grsat"]) /\ Distinct(fresh)
    /\ ItemsOf(queue["ours"]) \cap ItemsOf(fresh) = {}
    /\ ItemsOf(queue["ours"]) \subseteq ItemsOf(found["ours"])
    /\ ItemsOf(fresh) \subseteq ItemsOf(found["ours"])
    /\ ItemsOf(queue["grsat"]) \subseteq ItemsOf(found["grsat"])
    /\ ItemsOf(found["ours"]) \subseteq 1 .. air /\ ItemsOf(found["grsat"]) \subseteq 1 .. air
    /\ dropped["grsat"] \/ ReadOurs \cap ItemsOf(queue["grsat"]) = {}
    /\ loop = "grsat" => ReadGrsat \cap ItemsOf(queue["ours"]) = {}

(* Not more is returned than was read; and of what gr-satellites' chain    *)
(* had first, our chain's copy will find its partner waiting, unless       *)
(* another one is still to be returned for it.                             *)
Once(p) ==
    /\ returned[p] <= Carry(ReadOurs \cup ReadGrsat, p)
    /\ loop \notin {"flush", "done"} =>
         returned[p] + Carry(ReadGrsat \cap (ItemsOf(queue["ours"]) \cup ItemsOf(fresh)), p)
         <= Carry(ReadOurs \cup ReadGrsat, p)
            + NumOf(pending, Since(Payload, "reference", p, generation))
OnceInv == ~holding => \A p \in Payload : Once(p)

CountsInv == TypesInv /\ SpanInv /\ RepeatsInv /\ SizeInv /\ FlowInv /\ SentInv /\ BooksInv /\ OnceInv
PassInv   == PathInv /\ CountsInv

LEMMA Engines == "ours" \in Engine /\ "grsat" \in Engine /\ "ours" # "grsat"
BY DEF Engine

LEMMA PathStep == TypesInv /\ PathInv /\ [Next]_vars => PathInv'
<1> SUFFICES ASSUME TypesInv, PathInv, [Next]_vars PROVE PathInv'
  OBVIOUS
<1> USE DEF PathInv
<1>0. queue["ours"] \in Seq(Transmission) /\ DOMAIN queue = Engine
  BY Engines DEF TypesInv
<1>1. ASSUME NEW by \in SUBSET Engine, Receive(by) PROVE PathInv'
  <2>1. running /\ UNCHANGED <<running, fresh, out, loop, last, held, error, app>>
    BY <1>1 DEF Receive
  <2> QED BY <2>1
<1>2. ASSUME NEW keep, DrainOurs(keep) PROVE PathInv'
  <2>1. /\ loop = "ours" /\ loop' = "grsat" /\ queue'["ours"] = <<>>
        /\ UNCHANGED <<running, out, last, error, app>>
    BY <1>0, <1>2, Engines DEF DrainOurs, LoopFrame
  <2> QED BY <2>1
<1>3. CASE DrainGrsat
  <2>1. /\ loop = "grsat" /\ loop' = "emitting" /\ queue'["grsat"] = <<>>
        /\ queue'["ours"] = queue["ours"] /\ fresh' = <<>>
        /\ UNCHANGED <<running, last, error, held, app>>
    BY <1>0, <1>3, Engines DEF DrainGrsat, LoopFrame
  <2> QED BY <2>1
<1>4. CASE Overflow \/ EmitFails \/ ReportFails
  <2>1. /\ Raise /\ loop \in {"ours", "grsat", "emitting", "flush"}
    BY <1>4 DEF Overflow, EmitFails, ReportFails, Engine
  <2>2. /\ error' /\ out' = <<>> /\ fresh' = <<>> /\ loop' = IF last THEN "done" ELSE "graph"
        /\ UNCHANGED <<running, queue, last, held, app>>
    BY <2>1 DEF Raise, LoopFrame
  <2> QED BY <2>1, <2>2
<1>5. CASE Emit \/ EmitFlushed
  <2>1. /\ loop \in {"emitting", "flush"}
        /\ UNCHANGED <<running, queue, loop, last, error, fresh, held, app>>
    BY <1>5 DEF Emit, EmitFlushed, LoopFrame
  <2> QED BY <2>1
<1>6. CASE Polled
  <2>1. /\ loop = "emitting" /\ ~last /\ out = <<>> /\ loop' \in {"graph", "sleeping"}
        /\ UNCHANGED <<running, queue, last, error, fresh, held, out, app>>
    BY <1>6 DEF Polled, LoopFrame
  <2> QED BY <2>1
<1>7. CASE StopGraph
  <2>1. /\ loop = "graph" /\ loop' = "ours" /\ ~running' /\ last'
        /\ UNCHANGED <<queue, error, fresh, held, out, app>>
    BY <1>7 DEF StopGraph, LoopFrame
  <2> QED BY <2>1
<1>8. CASE Flush
  <2>1. /\ loop = "emitting" /\ last /\ held' = <<>> /\ loop' = "flush"
        /\ UNCHANGED <<running, queue, last, error, fresh, app>>
    BY <1>8 DEF Flush, LoopFrame
  <2> QED BY <2>1
<1>9. CASE Report
  <2>1. /\ loop = "flush" /\ out = <<>> /\ loop' = "done"
        /\ UNCHANGED <<running, queue, last, error, fresh, held, out, app>>
    BY <1>9 DEF Report, LoopFrame
  <2> QED BY <2>1
<1>10. CASE Wake
  <2>1. /\ loop = "sleeping" /\ loop' = "ours"
        /\ UNCHANGED <<running, queue, last, error, fresh, held, out, app>>
    BY <1>10 DEF Wake, LoopFrame
  <2> QED BY <2>1
<1>11. CASE OnStop \/ Watch \/ Exit \/ PeerGoes \/ Finished
  <2>1. /\ UNCHANGED <<running, queue, loop, last, error, fresh, held, out>>
        /\ app' = "clean" => app = "clean" \/ loop = "done"
    BY <1>11 DEF OnStop, Watch, Exit, PeerGoes, Finished, AppFrame, vars
  <2> QED BY <2>1
<1>12. CASE UNCHANGED vars
  BY <1>12 DEF vars
<1> QED BY <1>1, <1>2, <1>3, <1>4, <1>5, <1>6, <1>7, <1>8, <1>9, <1>10, <1>11, <1>12
        DEF Next, Loop

(* What is returned goes out: from the one sequence to the other.          *)
GoesOut ==
    /\ out' \in Seq(Payload) /\ sent' \in Seq(Payload)
    /\ \A p \in Payload : NumOf(sent', {p}) + NumOf(out', {p}) = NumOf(sent, {p}) + NumOf(out, {p})

(* A step that moves no transmission, and does not go back in the loop.    *)
LEMMA QuietStep ==
    ASSUME CountsInv, GoesOut,
           UNCHANGED <<holding, air, queue, found, dropped, fresh, held, error, shadowVars>>,
           loop' = "grsat" => loop = "grsat",
           loop' \notin {"flush", "done"} => loop \notin {"flush", "done"}
    PROVE  CountsInv'
<1>1. /\ holding' = holding /\ air' = air /\ queue' = queue /\ found' = found /\ dropped' = dropped
      /\ fresh' = fresh /\ held' = held /\ error' = error
      /\ pending' = pending /\ generation' = generation /\ matched' = matched /\ state' = state
      /\ seen' = seen /\ returned' = returned
  BY DEF shadowVars
<1>2. TypesInv' /\ SpanInv' /\ RepeatsInv' /\ SizeInv'
  <2>1. TypesInv'
    BY <1>1 DEF CountsInv, TypesInv, GoesOut
  <2>2. SpanInv' /\ RepeatsInv' /\ SizeInv'
    BY <1>1, Zenon DEF CountsInv, SpanInv, RepeatsInv, SizeInv
  <2> QED BY <2>1, <2>2
<1>3. FlowInv' /\ SentInv'
  <2>1. \A p \in Payload : NumOf(sent', {p}) + NumOf(out', {p}) = NumOf(sent, {p}) + NumOf(out, {p})
    BY DEF GoesOut
  <2>2. SentInv'
    BY <1>1, <2>1 DEF CountsInv, SentInv
  <2>3. ASSUME ~error', NEW p \in Payload PROVE Flows(p)'
    <3>1. Flows(p)
      BY <1>1, <2>3 DEF CountsInv, FlowInv
    <3> QED BY <1>1, <2>1, <3>1, Zenon DEF Flows
  <2> QED BY <2>2, <2>3, Zenon DEF FlowInv
<1>4. ReadOurs' = ReadOurs /\ ReadGrsat' = ReadGrsat
  BY <1>1, Zenon DEF ReadOurs, ReadGrsat
<1>5. BooksInv'
  BY <1>1, <1>4 DEF CountsInv, BooksInv
<1>6. OnceInv'
  <2> SUFFICES ASSUME ~holding', NEW p \in Payload PROVE Once(p)'
    BY Zenon DEF OnceInv
  <2>1. Once(p)
    BY <1>1 DEF CountsInv, OnceInv
  <2>2. PICK A, B : A = Carry(ReadOurs \cup ReadGrsat, p)
                    /\ B = Carry(ReadGrsat \cap (ItemsOf(queue["ours"]) \cup ItemsOf(fresh)), p)
    OBVIOUS
  <2>3. A = Carry(ReadOurs' \cup ReadGrsat', p)
        /\ B = Carry(ReadGrsat' \cap (ItemsOf(queue'["ours"]) \cup ItemsOf(fresh')), p)
    BY <1>1, <1>4, <2>2, Zenon
  <2> QED BY <1>1, <2>1, <2>2, <2>3 DEF Once
<1> QED BY <1>2, <1>3, <1>5, <1>6, Zenon DEF CountsInv

(* The transmissions of a chain, as a set.                                 *)
LEMMA Kinds ==
    ASSUME TypesInv, ~holding, BooksInv
    PROVE  /\ IsFiniteSet(1 .. air)
           /\ ReadOurs \in SUBSET (1 .. air) /\ ReadGrsat \in SUBSET (1 .. air)
           /\ ItemsOf(queue["ours"]) \in SUBSET (1 .. air)
           /\ ItemsOf(queue["grsat"]) \in SUBSET (1 .. air)
           /\ ItemsOf(fresh) \in SUBSET (1 .. air)
           /\ \A S \in SUBSET (1 .. air) : IsFiniteSet(S) /\ \A p : Carry(S, p) \in Nat
           /\ \A S, T \in SUBSET (1 .. air) : S \subseteq T => \A p : Carry(S, p) <= Carry(T, p)
<1>1. IsFiniteSet(1 .. air)
  <2>1. air \in Nat /\ 1 \in Int
    BY DEF TypesInv
  <2> QED BY <2>1, FS_Interval
<1>2. /\ ReadOurs \in SUBSET (1 .. air) /\ ReadGrsat \in SUBSET (1 .. air)
      /\ ItemsOf(queue["ours"]) \in SUBSET (1 .. air)
      /\ ItemsOf(queue["grsat"]) \in SUBSET (1 .. air)
      /\ ItemsOf(fresh) \in SUBSET (1 .. air)
  BY Zenon DEF BooksInv, ReadOurs, ReadGrsat
<1>3. \A S \in SUBSET (1 .. air) : IsFiniteSet(S)
  BY <1>1, FS_Subset
<1>4. ASSUME NEW S \in SUBSET (1 .. air), NEW T \in SUBSET (1 .. air), NEW p
      PROVE  Carry(S, p) \in Nat /\ (S \subseteq T => Carry(S, p) <= Carry(T, p))
  <2>1. IsFiniteSet(S) /\ IsFiniteSet(T)
    BY <1>3
  <2> QED BY <2>1, CarryRules
<1> QED BY <1>1, <1>2, <1>3, <1>4, Zenon

(* An exception loses the frames on the way, and moves no others.          *)
LEMMA RaiseCounts == PassInv /\ (Overflow \/ EmitFails \/ ReportFails) => CountsInv'
<1> SUFFICES ASSUME PassInv, Overflow \/ EmitFails \/ ReportFails PROVE CountsInv'
  OBVIOUS
<1>1. /\ Raise
      /\ loop \in {"ours", "grsat", "emitting", "flush"}
      /\ loop = "grsat" => dropped["grsat"]
  BY DEF Overflow, EmitFails, ReportFails, Engine
<1>2. /\ holding' = holding /\ air' = air /\ queue' = queue /\ found' = found /\ dropped' = dropped
      /\ fresh' = <<>> /\ held' = held /\ out' = <<>> /\ sent' = sent /\ error' = TRUE
      /\ pending' = pending /\ generation' = generation /\ matched' = matched /\ state' = state
      /\ seen' = seen /\ returned' = returned
      /\ loop' = IF last THEN "done" ELSE "graph"
  BY <1>1 DEF Raise, LoopFrame, shadowVars
<1>3. TypesInv
  BY DEF PassInv, CountsInv
<1>4. TypesInv' /\ SpanInv' /\ RepeatsInv'
  <2>1. <<>> \in Seq(Transmission) /\ <<>> \in Seq(Payload)
    BY EmptySeq
  <2>2. TypesInv'
    BY <1>2, <1>3, <2>1 DEF TypesInv
  <2>3. SpanInv' /\ RepeatsInv'
    BY <1>2, Zenon DEF PassInv, CountsInv, SpanInv, RepeatsInv
  <2> QED BY <2>2, <2>3
<1>5. SizeInv'
  <2>1. SizeInv /\ SpanInv
    BY DEF PassInv, CountsInv
  <2>2. PICK l, f, h, a, b \in Nat :
           /\ l = Len(pending) /\ f = Len(fresh) /\ h = Len(held)
           /\ a = Len(queue["ours"]) /\ b = Len(queue["grsat"])
    <3>1. queue["ours"] \in Seq(Transmission) /\ queue["grsat"] \in Seq(Transmission)
      BY <1>3, Engines DEF TypesInv
    <3>2. /\ Len(pending) \in Nat /\ Len(fresh) \in Nat /\ Len(held) \in Nat
          /\ Len(queue["ours"]) \in Nat /\ Len(queue["grsat"]) \in Nat
      BY <1>3, <2>1, <3>1, LenProperties DEF TypesInv, SpanInv
    <3> QED BY <3>2
  <2>3. PICK n \in Nat : n = air
    BY <1>3, DrainAssumption DEF TypesInv
  <2>4. l + f + h + a + b <= 2 * n
    BY <2>1, <2>2, <2>3, Zenon DEF SizeInv
  <2>5. l + 0 + h + a + b <= 2 * n
    BY <2>4
  <2>6. Len(fresh') = 0
    BY <1>2, EmptySeq
  <2> QED BY <1>2, <2>2, <2>3, <2>5, <2>6, Zenon DEF SizeInv
<1>6. FlowInv'
  BY <1>2 DEF FlowInv
<1>7. SentInv'
  <2> SUFFICES ASSUME NEW p \in Payload PROVE NumOf(sent', {p}) + NumOf(out', {p}) <= returned'[p]
    BY DEF SentInv
  <2>1. PICK s, o, r \in Nat : s = NumOf(sent, {p}) /\ o = NumOf(out, {p}) /\ r = returned[p]
    <3>1. NumOf(sent, {p}) \in Nat /\ NumOf(out, {p}) \in Nat
      BY <1>3, NumBounds DEF TypesInv
    <3>2. returned[p] \in Nat
      BY DEF PassInv, CountsInv, SpanInv
    <3> QED BY <3>1, <3>2
  <2>2. s + o <= r
    BY <2>1, Zenon DEF PassInv, CountsInv, SentInv
  <2>3. NumOf(out', {p}) = 0
    BY <1>2, NumEmpty
  <2>4. s + 0 <= r
    BY <2>2
  <2> QED BY <1>2, <2>1, <2>3, <2>4, Zenon
<1>8. ASSUME ~holding PROVE BooksInv'
  <2>1. BooksInv
    BY DEF PassInv, CountsInv
  <2>2. ItemsOf(fresh') = {} /\ Distinct(fresh')
    <3>1. Len(<<>>) = 0 /\ 1 .. 0 = {}
      OBVIOUS
    <3> QED BY <1>2, <3>1 DEF ItemsOf, Distinct
  <2>3. ReadGrsat' = ReadGrsat
    BY <1>2, Zenon DEF ReadGrsat
  <2>4. loop # "grsat" => ReadOurs' = ReadOurs
    BY <1>2 DEF ReadOurs, PassInv, PathInv
  <2>5. dropped["grsat"] \/ ReadOurs' \cap ItemsOf(queue'["grsat"]) = {}
    BY <1>1, <1>2, <1>8, <2>1, <2>4 DEF BooksInv
  <2>6. loop' # "grsat"
    BY <1>2
  <2> QED BY <1>2, <1>8, <2>1, <2>2, <2>5, <2>6 DEF BooksInv
<1>9. ASSUME ~holding, NEW p \in Payload PROVE Once(p)'
  <2>1. BooksInv /\ BooksInv'
    BY <1>8, <1>9 DEF PassInv, CountsInv
  <2>2. Once(p)
    BY <1>9 DEF PassInv, CountsInv, OnceInv
  <2>3. PICK A, B, C, D :
           /\ A = ReadOurs \cup ReadGrsat /\ B = ReadOurs' \cup ReadGrsat'
           /\ C = ReadGrsat \cap (ItemsOf(queue["ours"]) \cup ItemsOf(fresh))
           /\ D = ReadGrsat' \cap (ItemsOf(queue'["ours"]) \cup ItemsOf(fresh'))
    OBVIOUS
  <2>4. ItemsOf(fresh') = {}
    <3>1. Len(<<>>) = 0 /\ 1 .. 0 = {}
      OBVIOUS
    <3> QED BY <1>2, <3>1 DEF ItemsOf
  <2>5. A \subseteq B /\ D \subseteq C
    BY <1>2, <2>3, <2>4 DEF ReadOurs, ReadGrsat
  <2>6. A \in SUBSET (1 .. air) /\ C \in SUBSET (1 .. air) /\ D \in SUBSET (1 .. air)
    BY <1>3, <1>9, <2>1, <2>3, <2>5, Kinds
  <2>7. B \in SUBSET (1 .. air)
    BY <1>2, <1>9, <2>1, <2>3 DEF BooksInv, ReadOurs, ReadGrsat
  <2>8. PICK a, b, c, d, r, g \in Nat :
           /\ a = Carry(A, p) /\ b = Carry(B, p) /\ c = Carry(C, p) /\ d = Carry(D, p)
           /\ r = returned[p] /\ g = NumOf(pending, Since(Payload, "reference", p, generation))
    <3>1. /\ Carry(A, p) \in Nat /\ Carry(B, p) \in Nat
          /\ Carry(C, p) \in Nat /\ Carry(D, p) \in Nat
      BY <1>3, <1>9, <2>1, <2>6, <2>7, Kinds, Zenon
    <3>2. returned[p] \in Nat /\ pending \in Seq(Observation(Payload))
      BY DEF PassInv, CountsInv, SpanInv
    <3>3. NumOf(pending, Since(Payload, "reference", p, generation)) \in Nat
      BY <3>2, NumBounds
    <3> QED BY <3>1, <3>2, <3>3
  <2>9. a <= b /\ d <= c
    <3>1. Carry(A, p) <= Carry(B, p) /\ Carry(D, p) <= Carry(C, p)
      BY <1>3, <1>9, <2>1, <2>5, <2>6, <2>7, Kinds, Zenon
    <3> QED BY <2>8, <3>1, Zenon
  <2>10. r <= a /\ (loop \notin {"flush", "done"} => r + c <= a + g)
    BY <2>2, <2>3, <2>8, Zenon DEF Once
  <2>11. loop' \notin {"flush", "done"} => loop \notin {"flush", "done"}
    BY <1>2 DEF PassInv, PathInv
  <2>12. r <= b /\ (loop' \notin {"flush", "done"} => r + d <= b + g)
    BY <2>9, <2>10, <2>11
  <2> QED BY <1>2, <2>3, <2>8, <2>12, Zenon DEF Once
<1>10. BooksInv' /\ OnceInv'
  <2>1. ~holding' => ~holding
    BY <1>2
  <2>2. ~holding' => BooksInv'
    BY <1>8, <2>1
  <2>3. OnceInv'
    BY <1>9, <2>1 DEF OnceInv
  <2> QED BY <2>2, <2>3 DEF BooksInv
<1> QED BY <1>4, <1>5, <1>6, <1>7, <1>10, Zenon DEF CountsInv

(* What is emitted was waiting to go out.                                  *)
LEMMA EmitCounts == PassInv /\ (Emit \/ EmitFlushed) => CountsInv'
<1> SUFFICES ASSUME PassInv, Emit \/ EmitFlushed PROVE CountsInv'
  OBVIOUS
<1>1. /\ out # <<>> /\ out' = Tail(out) /\ sent' = Append(sent, Head(out)) /\ loop' = loop
      /\ UNCHANGED <<holding, air, queue, found, dropped, fresh, held, error, shadowVars>>
  BY DEF Emit, EmitFlushed, LoopFrame
<1>2. out \in Seq(Payload) /\ sent \in Seq(Payload)
  BY DEF PassInv, CountsInv, TypesInv
<1>3. PICK o \in Seq(Payload), s \in Seq(Payload), e \in Payload :
         o = Tail(out) /\ e = Head(out) /\ s = Append(sent, e)
  <2>1. Tail(out) \in Seq(Payload) /\ Head(out) \in Payload
    BY <1>1, <1>2, EmptySeq, HeadTailProperties
  <2> QED BY <1>2, <2>1, AppendProperties
<1>4. ASSUME NEW p \in Payload
      PROVE  NumOf(s, {p}) + NumOf(o, {p}) = NumOf(sent, {p}) + NumOf(out, {p})
  <2>1. NumOf(s, {p}) = NumOf(sent, {p}) + (IF e \in {p} THEN 1 ELSE 0)
    BY <1>2, <1>3, NumAppend
  <2>2. NumOf(out, {p}) = (IF e \in {p} THEN 1 ELSE 0) + NumOf(o, {p})
    BY <1>1, <1>2, <1>3, NumHeadTail
  <2>3. PICK x, y, k \in Nat : x = NumOf(sent, {p}) /\ y = NumOf(o, {p})
                               /\ k = IF e \in {p} THEN 1 ELSE 0
    <3>1. NumOf(sent, {p}) \in Nat /\ NumOf(o, {p}) \in Nat
      BY <1>2, <1>3, NumBounds
    <3> QED BY <3>1
  <2>4. (x + k) + y = x + (k + y)
    OBVIOUS
  <2> QED BY <2>1, <2>2, <2>3, <2>4, Zenon
<1>5. GoesOut
  BY <1>1, <1>3, <1>4, Zenon DEF GoesOut
<1> QED BY <1>1, <1>5, QuietStep, Zenon DEF PassInv

(* Steps that only change where the loop and the app are.                  *)
LEMMA RestCounts ==
    PassInv /\ (Wake \/ Polled \/ StopGraph \/ OnStop \/ Watch \/ Exit \/ PeerGoes \/ UNCHANGED vars)
        => CountsInv'
<1> SUFFICES ASSUME PassInv,
                    Wake \/ Polled \/ StopGraph \/ OnStop \/ Watch \/ Exit \/ PeerGoes \/ UNCHANGED vars
             PROVE  CountsInv'
  OBVIOUS
<1>1. /\ UNCHANGED <<holding, air, queue, found, dropped, fresh, held, error, shadowVars>>
      /\ UNCHANGED <<out, sent>>
      /\ loop' = loop \/ (loop' # "grsat" /\ loop \notin {"flush", "done"})
  BY DEF Wake, Polled, StopGraph, OnStop, Watch, Exit, PeerGoes, LoopFrame, AppFrame, vars
<1>2. GoesOut
  BY <1>1 DEF GoesOut, PassInv, CountsInv, TypesInv
<1>3. loop' = "grsat" => loop = "grsat"
  BY <1>1
<1>4. loop' \notin {"flush", "done"} => loop \notin {"flush", "done"}
  BY <1>1
<1> QED BY <1>1, <1>2, <1>3, <1>4, QuietStep, Zenon DEF PassInv

(* Our frames are taken from the queue, but for the one held back.         *)
LEMMA TakeOurs ==
    ASSUME TypesInv, BooksInv, NEW keep, DrainOurs(keep)
    PROVE  /\ fresh' \in Seq(Transmission) /\ held' \in Seq(Transmission)
           /\ Len(fresh') + Len(held') = Len(held) + Len(queue["ours"])
           /\ \A X : NumOf(fresh', X) + NumOf(held', X) = NumOf(held, X) + NumOf(queue["ours"], X)
           /\ ~holding => held' = <<>> /\ fresh' = queue["ours"]
<1>1. held \in Seq(Transmission) /\ queue["ours"] \in Seq(Transmission)
  BY Engines DEF TypesInv
<1>2. PICK h \in Seq(Transmission), q \in Seq(Transmission), all \in Seq(Transmission) :
         h = held /\ q = queue["ours"] /\ all = h \o q
  BY <1>1, ConcatProperties
<1>3. PICK n \in Nat, m \in Nat, k \in Nat : n = Len(h) /\ m = Len(q) /\ k = keep
  <2>1. Len(h) \in Nat /\ Len(q) \in Nat
    BY LenProperties
  <2>2. keep \in 0 .. (IF holding /\ all # <<>> THEN 1 ELSE 0)
    BY <1>2 DEF DrainOurs
  <2>3. keep \in Nat
    BY <2>2
  <2> QED BY <2>1, <2>3
<1>4. Len(all) = n + m /\ k <= n + m
  <2>1. Len(all) = n + m
    BY <1>2, <1>3, ConcatProperties
  <2>2. k \in 0 .. (IF holding /\ all # <<>> THEN 1 ELSE 0)
    BY <1>2, <1>3 DEF DrainOurs
  <2>3. all # <<>> => Len(all) # 0
    BY EmptySeq
  <2> QED BY <2>1, <2>2, <2>3
<1>5. fresh' = SubSeq(all, 1, (n + m) - k) /\ held' = SubSeq(all, (n + m) - k + 1, n + m)
  BY <1>2, <1>3, <1>4, Zenon DEF DrainOurs
<1>6. PICK j \in 0 .. n + m : j = (n + m) - k
  BY <1>4
<1>7. fresh' = SubSeq(all, 1, j) /\ held' = SubSeq(all, j + 1, n + m)
  BY <1>5, <1>6
<1>8. /\ fresh' \in Seq(Transmission) /\ held' \in Seq(Transmission)
      /\ Len(fresh') = j /\ Len(held') = (n + m) - j
      /\ all = fresh' \o held'
  <2>1. \A i \in 1 .. n + m : all[i] \in Transmission
    BY <1>4, ElementOfSeq
  <2>2. /\ fresh' \in Seq(Transmission) /\ held' \in Seq(Transmission)
        /\ Len(fresh') = j /\ Len(held') = (n + m) - j
    BY <1>4, <1>7, SubSeqProperties
  <2>3. all = fresh' \o held'
    <3>1. SubSeq(all, 1, j) \o SubSeq(all, j + 1, n + m) = SubSeq(all, 1, n + m)
      <4>1. 1 \in 1 .. Len(all) + 1 /\ j \in 1 - 1 .. Len(all) /\ n + m \in j .. Len(all)
        BY <1>4
      <4> QED BY <4>1, ConcatAdjacentSubSeq, Zenon
    <3>2. SubSeq(all, 1, n + m) = all
      BY <1>4, SubSeqFull
    <3> QED BY <1>7, <3>1, <3>2
  <2> QED BY <2>2, <2>3
<1>9. ASSUME NEW X
      PROVE  NumOf(fresh', X) + NumOf(held', X) = NumOf(held, X) + NumOf(queue["ours"], X)
  <2>1. NumOf(fresh' \o held', X) = NumOf(fresh', X) + NumOf(held', X)
    BY <1>8, NumConcat
  <2>2. NumOf(h \o q, X) = NumOf(h, X) + NumOf(q, X)
    BY NumConcat
  <2> QED BY <1>2, <1>8, <2>1, <2>2, Zenon
<1>10. ASSUME ~holding PROVE held' = <<>> /\ fresh' = queue["ours"]
  <2>1. held = <<>>
    BY <1>10 DEF BooksInv
  <2>2. k = 0
    BY <1>2, <1>3, <1>10 DEF DrainOurs
  <2>3. j = n + m
    BY <1>6, <2>2
  <2>4. held' = <<>>
    BY <1>8, <2>3, EmptySeq
  <2>5. all = q
    BY <1>2, <2>1, ConcatEmptySeq
  <2>6. fresh' \o <<>> = fresh'
    BY <1>8, ConcatEmptySeq
  <2> QED BY <1>2, <1>8, <2>4, <2>5, <2>6
<1>11. Len(fresh') + Len(held') = Len(held) + Len(queue["ours"])
  BY <1>2, <1>3, <1>8
<1> QED BY <1>8, <1>9, <1>10, <1>11, Zenon

LEMMA NoItems == ItemsOf(<<>>) = {} /\ Distinct(<<>>) /\ Len(<<>>) = 0
<1>1. Len(<<>>) = 0 /\ 1 .. 0 = {}
  OBVIOUS
<1> QED BY <1>1 DEF ItemsOf, Distinct

(* The lengths the size is made of.                                        *)
LEMMA Lengths ==
    ASSUME PassInv
    PROVE  \E n, l, f, h, a, b \in Nat :
              /\ n = air /\ l = Len(pending) /\ f = Len(fresh) /\ h = Len(held)
              /\ a = Len(queue["ours"]) /\ b = Len(queue["grsat"])
              /\ l + f + h + a + b <= 2 * n /\ n <= NTransmissions
<1>1. TypesInv /\ SpanInv /\ SizeInv
  BY DEF PassInv, CountsInv
<1>2. queue["ours"] \in Seq(Transmission) /\ queue["grsat"] \in Seq(Transmission)
  BY <1>1, Engines DEF TypesInv
<1>3. /\ Len(pending) \in Nat /\ Len(fresh) \in Nat /\ Len(held) \in Nat
      /\ Len(queue["ours"]) \in Nat /\ Len(queue["grsat"]) \in Nat
  BY <1>1, <1>2, LenProperties DEF TypesInv, SpanInv
<1>4. air \in Nat /\ air <= NTransmissions
  BY <1>1, DrainAssumption DEF TypesInv
<1>5. PICK n, l, f, h, a, b \in Nat :
         /\ n = air /\ l = Len(pending) /\ f = Len(fresh) /\ h = Len(held)
         /\ a = Len(queue["ours"]) /\ b = Len(queue["grsat"])
  BY <1>3, <1>4
<1>6. l + f + h + a + b <= 2 * n
  BY <1>1, <1>5, Zenon DEF SizeInv
<1> QED BY <1>4, <1>5, <1>6, Zenon

LEMMA OursCounts == ASSUME PassInv, NEW keep, DrainOurs(keep) PROVE CountsInv'
<1>1. TypesInv /\ BooksInv /\ PathInv
  BY DEF PassInv, CountsInv
<1>2. /\ loop = "ours" /\ loop' = "grsat" /\ fresh = <<>>
      /\ queue'["ours"] = <<>> /\ queue'["grsat"] = queue["grsat"]
      /\ queue' \in [Engine -> Seq(Transmission)]
  <2>1. <<>> \in Seq(Transmission)
    BY EmptySeq
  <2>2. loop = "ours" /\ loop' = "grsat" /\ queue' = [queue EXCEPT !["ours"] = <<>>]
    BY DEF DrainOurs
  <2> QED BY <1>1, <2>1, <2>2, Engines DEF TypesInv, PathInv
<1>3. /\ holding' = holding /\ air' = air /\ found' = found /\ dropped' = dropped
      /\ out' = out /\ sent' = sent /\ error' = error
      /\ pending' = pending /\ generation' = generation /\ matched' = matched /\ state' = state
      /\ seen' = seen /\ returned' = returned
  BY DEF DrainOurs, LoopFrame, shadowVars
<1>4. /\ fresh' \in Seq(Transmission) /\ held' \in Seq(Transmission)
      /\ Len(fresh') + Len(held') = Len(held) + Len(queue["ours"])
      /\ \A X : NumOf(fresh', X) + NumOf(held', X) = NumOf(held, X) + NumOf(queue["ours"], X)
      /\ ~holding => held' = <<>> /\ fresh' = queue["ours"]
  BY <1>1, TakeOurs
<1>5. TypesInv' /\ SpanInv' /\ RepeatsInv' /\ SentInv'
  <2>1. TypesInv'
    BY <1>1, <1>2, <1>3, <1>4 DEF TypesInv
  <2>2. SpanInv' /\ RepeatsInv' /\ SentInv'
    BY <1>3, Zenon DEF PassInv, CountsInv, SpanInv, RepeatsInv, SentInv
  <2> QED BY <2>1, <2>2
<1>6. SizeInv'
  <2>1. PICK n, l, f, h, a, b \in Nat :
           /\ n = air /\ l = Len(pending) /\ f = Len(fresh) /\ h = Len(held)
           /\ a = Len(queue["ours"]) /\ b = Len(queue["grsat"])
           /\ l + f + h + a + b <= 2 * n /\ n <= NTransmissions
    BY Lengths, Zenon
  <2>2. PICK x, y \in Nat : x = Len(fresh') /\ y = Len(held')
    BY <1>4, LenProperties
  <2>3. x + y = h + a
    BY <1>4, <2>1, <2>2, Zenon
  <2>4. l + x + y + 0 + b <= 2 * n
    <3>1. l + f + h + a + b <= 2 * n
      BY <2>1, Zenon
    <3>2. x + y + l + 0 + b <= 2 * n
      BY <2>3, <3>1
    <3> QED BY <3>2
  <2> QED BY <1>2, <1>3, <2>1, <2>2, <2>4, NoItems, Zenon DEF SizeInv
<1>7. ASSUME ~error', NEW p \in Payload PROVE Flows(p)'
  <2>1. Flows(p)
    BY <1>3, <1>7 DEF PassInv, CountsInv, FlowInv
  <2>2. PICK X : X = Carriers(p)
    OBVIOUS
  <2>3. PICK s, h, q, x, y \in Nat :
           /\ s = seen["primary"][p] /\ h = NumOf(held, X) /\ q = NumOf(queue["ours"], X)
           /\ x = NumOf(fresh', X) /\ y = NumOf(held', X)
    <3>1. queue["ours"] \in Seq(Transmission) /\ held \in Seq(Transmission)
      BY <1>1, Engines DEF TypesInv
    <3>2. /\ NumOf(held, X) \in Nat /\ NumOf(queue["ours"], X) \in Nat
          /\ NumOf(fresh', X) \in Nat /\ NumOf(held', X) \in Nat
      BY <1>4, <3>1, NumBounds
    <3>3. seen["primary"][p] \in Nat
      BY DEF PassInv, CountsInv, SpanInv, Source
    <3> QED BY <3>2, <3>3
  <2>4. NumOf(fresh, X) = 0 /\ NumOf(queue'["ours"], X) = 0
    BY <1>2, NumEmpty
  <2>5. x + y = h + q
    BY <1>4, <2>3, Zenon
  <2>6. ((s + 0) + h) + q = ((s + x) + y) + 0
    BY <2>5
  <2>7. NumOf(found["ours"], X) = ((s + 0) + h) + q
    BY <2>1, <2>2, <2>3, <2>4, Zenon DEF Flows
  <2>8. NumOf(found'["ours"], X)
        = ((seen'["primary"][p] + NumOf(fresh', X)) + NumOf(held', X)) + NumOf(queue'["ours"], X)
    BY <1>3, <2>3, <2>4, <2>6, <2>7, Zenon
  <2> QED BY <1>2, <1>3, <2>1, <2>2, <2>8, Zenon DEF Flows
<1>8. ItemsOf(fresh) = {} /\ ItemsOf(queue'["ours"]) = {} /\ Distinct(queue'["ours"])
  BY <1>2, NoItems
<1>9. ASSUME ~holding
      PROVE  /\ ItemsOf(fresh') = ItemsOf(queue["ours"]) /\ Distinct(fresh') /\ held' = <<>>
             /\ ReadOurs' = ReadOurs /\ ReadGrsat' = ReadGrsat
  <2>1. fresh' = queue["ours"] /\ held' = <<>>
    BY <1>4, <1>9
  <2>2. Distinct(queue["ours"])
    BY <1>1, <1>9 DEF BooksInv
  <2>3. ReadGrsat' = ReadGrsat
    BY <1>2, <1>3, Zenon DEF ReadGrsat
  <2>4. ReadOurs' = ReadOurs
    BY <1>3, <1>8, <2>1 DEF ReadOurs
  <2> QED BY <2>1, <2>2, <2>3, <2>4, Zenon
<1>10. ASSUME ~holding PROVE BooksInv'
  <2>1. BooksInv
    BY <1>1
  <2> QED BY <1>2, <1>3, <1>8, <1>9, <1>10, <2>1 DEF BooksInv
<1>11. ASSUME ~holding, NEW p \in Payload PROVE Once(p)'
  <2>1. Once(p)
    BY <1>11 DEF PassInv, CountsInv, OnceInv
  <2>2. ItemsOf(queue'["ours"]) \cup ItemsOf(fresh') = ItemsOf(queue["ours"]) \cup ItemsOf(fresh)
    BY <1>8, <1>9, <1>11
  <2>3. loop \notin {"flush", "done"}
    BY <1>2
  <2>4. PICK S, A, B : /\ S = ItemsOf(queue["ours"]) \cup ItemsOf(fresh)
                       /\ A = Carry(ReadOurs \cup ReadGrsat, p) /\ B = Carry(ReadGrsat \cap S, p)
    OBVIOUS
  <2>5. S = ItemsOf(queue'["ours"]) \cup ItemsOf(fresh')
    BY <2>2, <2>4, Zenon
  <2>6. A = Carry(ReadOurs' \cup ReadGrsat', p) /\ B = Carry(ReadGrsat' \cap S, p)
    BY <1>9, <1>11, <2>4, Zenon
  <2>7. /\ returned[p] <= A
        /\ returned[p] + B <= A + NumOf(pending, Since(Payload, "reference", p, generation))
    BY <2>1, <2>3, <2>4, Zenon DEF Once
  <2> QED BY <1>3, <2>5, <2>6, <2>7, Zenon DEF Once
<1>12. BooksInv' /\ OnceInv' /\ FlowInv'
  <2>1. ~holding' => ~holding
    BY <1>3
  <2>2. ~holding' => BooksInv'
    BY <1>10, <2>1
  <2>3. OnceInv'
    BY <1>11, <2>1 DEF OnceInv
  <2> QED BY <1>7, <2>2, <2>3 DEF BooksInv, FlowInv
<1> QED BY <1>5, <1>6, <1>12, Zenon DEF CountsInv

(* What the two batches carry, and what the reconciler makes of them, adds *)
(* up to no more than was read.                                            *)
LEMMA OnceAdds ==
    ASSUME NEW R \in Nat, NEW u \in Nat, NEW k \in Nat, NEW G \in Nat, NEW a \in Nat, NEW d \in Nat,
           NEW n \in Nat, NEW l \in Nat, NEW first \in Nat, NEW late \in Nat,
           R <= u, R + k <= u + G, d <= a, l <= n,
           first = 0 \/ first + G <= k + a, late = 0 \/ first + late <= d + n
    PROVE  /\ R + (first + late) <= u + a + n
           /\ R + (first + late) + l <= u + a + n + late
<1>1. CASE first = 0
  BY <1>1
<1>2. CASE first # 0
  <2>1. R + first <= u + a
    BY <1>2
  <2> QED BY <2>1, <1>2
<1> QED BY <1>1, <1>2

LEMMA GrsatCounts == ASSUME PassInv, DrainGrsat PROVE CountsInv'
<1>1. TypesInv /\ BooksInv /\ PathInv /\ SpanInv /\ RepeatsInv
  BY DEF PassInv, CountsInv
<1>2. PICK a, b, t : /\ a = PayloadsOf(fresh) /\ b = PayloadsOf(queue["grsat"])
                     /\ t = Shadow!Poll(a, b)
  OBVIOUS
<1>3. /\ loop = "grsat" /\ loop' = "emitting" /\ fresh' = <<>> /\ out' = t.out
      /\ queue'["grsat"] = <<>> /\ queue'["ours"] = queue["ours"]
      /\ queue' \in [Engine -> Seq(Transmission)]
      /\ ~dropped["grsat"] /\ Shadow!Reconcile(a, b)
  <2>1. <<>> \in Seq(Transmission)
    BY EmptySeq
  <2>2. /\ loop = "grsat" /\ loop' = "emitting" /\ fresh' = <<>> /\ out' = t.out
        /\ queue' = [queue EXCEPT !["grsat"] = <<>>]
        /\ ~dropped["grsat"] /\ Shadow!Reconcile(a, b)
    BY <1>2, Zenon DEF DrainGrsat
  <2>3. /\ queue'["grsat"] = <<>> /\ queue'["ours"] = queue["ours"]
        /\ queue' \in [Engine -> Seq(Transmission)]
    BY <1>1, <2>1, <2>2, Engines DEF TypesInv
  <2> QED BY <2>2, <2>3, Zenon
<1>4. /\ holding' = holding /\ air' = air /\ found' = found /\ dropped' = dropped
      /\ held' = held /\ sent' = sent /\ error' = error
  BY DEF DrainGrsat, LoopFrame
<1>5. out = <<>>
  BY <1>1, <1>3 DEF PathInv
<1>6. fresh \in Seq(Transmission) /\ queue["grsat"] \in Seq(Transmission)
      /\ queue["ours"] \in Seq(Transmission)
  BY <1>1, Engines DEF TypesInv
<1>7. /\ a \in Seq(Payload) /\ Len(a) = Len(fresh)
      /\ \A p : NumOf(a, {p}) = NumOf(fresh, Carriers(p))
      /\ b \in Seq(Payload) /\ Len(b) = Len(queue["grsat"])
      /\ \A p : NumOf(b, {p}) = NumOf(queue["grsat"], Carriers(p))
  BY <1>2, <1>6, QueueItems, Zenon
<1>8. PICK n, l, f, h, x, y \in Nat :
         /\ n = air /\ l = Len(pending) /\ f = Len(fresh) /\ h = Len(held)
         /\ x = Len(queue["ours"]) /\ y = Len(queue["grsat"])
         /\ l + f + h + x + y <= 2 * n /\ n <= NTransmissions
  BY Lengths, Zenon
<1>9. l + f + y <= 2 * NTransmissions
  <2>1. l + f + h + x + y <= 2 * n /\ n <= NTransmissions
    BY <1>8, Zenon
  <2>2. NTransmissions \in Nat
    BY DrainAssumption
  <2> QED BY <2>1, <2>2
<1>10. Len(pending) + Len(a) + Len(b) <= 2 * NTransmissions
  BY <1>7, <1>8, <1>9, Zenon
<1>11. /\ SpanInv' /\ RepeatsInv'
       /\ t.out \in Seq(Payload) /\ pending' = t.pending /\ generation' = generation + 1
       /\ Len(pending') <= Len(pending) + Len(a) + Len(b)
       /\ \A p \in Payload : Served(a, b, t, p)
  BY <1>1, <1>2, <1>3, <1>7, <1>10, ReconcileGives
<1>12. TypesInv'
  <2>1. <<>> \in Seq(Transmission)
    BY EmptySeq
  <2> QED BY <1>1, <1>3, <1>4, <1>11, <2>1 DEF TypesInv
<1>13. SizeInv'
  <2>1. PICK z \in Nat : z = Len(pending')
    BY <1>11, LenProperties DEF SpanInv
  <2>2. z <= l + f + y
    BY <1>7, <1>8, <1>11, <2>1, Zenon
  <2>3. l + f + h + x + y <= 2 * n
    BY <1>8, Zenon
  <2>4. z + 0 + h + x + 0 <= 2 * n
    BY <2>2, <2>3
  <2> QED BY <1>3, <1>4, <1>8, <2>1, <2>4, NoItems, Zenon DEF SizeInv
<1>14. ASSUME NEW p \in Payload
       PROVE  \E s, q, o, r \in Nat :
                 /\ s = NumOf(sent, {p}) /\ q = returned[p] /\ o = NumOf(out', {p})
                 /\ NumOf(out, {p}) = 0 /\ returned'[p] = q + o
  <2>1. NumOf(sent, {p}) \in Nat /\ NumOf(out', {p}) \in Nat
    BY <1>1, <1>3, <1>11, NumBounds DEF TypesInv
  <2>2. returned[p] \in Nat
    BY <1>1 DEF SpanInv
  <2>3. returned'[p] = returned[p] + NumOf(out', {p})
    BY <1>3, <1>11, <1>14, Zenon DEF Served
  <2>4. NumOf(out, {p}) = 0
    BY <1>5, NumEmpty
  <2> QED BY <2>1, <2>2, <2>3, <2>4
<1>15. SentInv'
  <2> SUFFICES ASSUME NEW p \in Payload PROVE NumOf(sent', {p}) + NumOf(out', {p}) <= returned'[p]
    BY DEF SentInv
  <2>1. PICK s, q, o \in Nat : /\ s = NumOf(sent, {p}) /\ q = returned[p] /\ o = NumOf(out', {p})
                               /\ NumOf(out, {p}) = 0 /\ returned'[p] = q + o
    BY <1>14, Zenon
  <2>2. s + 0 <= q
    BY <2>1, Zenon DEF PassInv, CountsInv, SentInv
  <2>3. s + o <= q + o
    BY <2>2
  <2> QED BY <1>4, <2>1, <2>3, Zenon
<1>16. ASSUME ~error', NEW p \in Payload PROVE Flows(p)'
  <2>1. Flows(p)
    BY <1>4, <1>16 DEF PassInv, CountsInv, FlowInv
  <2>2. PICK X : X = Carriers(p)
    OBVIOUS
  <2>3. PICK s1, s2, c, d, e, g \in Nat :
           /\ s1 = seen["primary"][p] /\ s2 = seen["reference"][p]
           /\ c = NumOf(fresh, X) /\ d = NumOf(queue["grsat"], X)
           /\ e = NumOf(held, X) /\ g = NumOf(queue["ours"], X)
    <3>1. held \in Seq(Transmission)
      BY <1>1 DEF TypesInv
    <3>2. /\ NumOf(fresh, X) \in Nat /\ NumOf(queue["grsat"], X) \in Nat
          /\ NumOf(held, X) \in Nat /\ NumOf(queue["ours"], X) \in Nat
      BY <1>6, <3>1, NumBounds
    <3>3. seen["primary"][p] \in Nat /\ seen["reference"][p] \in Nat
      BY <1>1 DEF SpanInv, Source
    <3> QED BY <3>2, <3>3
  <2>4. seen'["primary"][p] = s1 + c /\ seen'["reference"][p] = s2 + d
    BY <1>7, <1>11, <2>2, <2>3, Zenon DEF Served
  <2>5. NumOf(fresh', X) = 0 /\ NumOf(queue'["grsat"], X) = 0
    BY <1>3, NumEmpty
  <2>6. NumOf(found["ours"], X) = ((s1 + c) + e) + g /\ NumOf(found["grsat"], X) = s2 + d
    BY <2>1, <2>2, <2>3, Zenon DEF Flows
  <2>7. ((s1 + c) + e) + g = (((s1 + c) + 0) + e) + g /\ s2 + d = (s2 + d) + 0
    OBVIOUS
  <2>8. PICK s, q, o \in Nat : /\ s = NumOf(sent, {p}) /\ q = returned[p] /\ o = NumOf(out', {p})
                               /\ NumOf(out, {p}) = 0 /\ returned'[p] = q + o
    BY <1>14, Zenon
  <2>9. s + 0 = q
    BY <2>1, <2>8, Zenon DEF Flows
  <2>10. s + o = q + o
    BY <2>9
  <2>11. /\ NumOf(found'["ours"], X) = ((seen'["primary"][p] + NumOf(fresh', X)) + NumOf(held', X))
                                      + NumOf(queue'["ours"], X)
         /\ NumOf(found'["grsat"], X) = seen'["reference"][p] + NumOf(queue'["grsat"], X)
    BY <1>3, <1>4, <2>3, <2>4, <2>5, <2>6, <2>7, Zenon
  <2>12. NumOf(sent', {p}) + NumOf(out', {p}) = returned'[p]
    BY <1>4, <2>8, <2>10, Zenon
  <2> QED BY <2>2, <2>11, <2>12, Zenon DEF Flows
<1>17. ItemsOf(fresh') = {} /\ ItemsOf(queue'["grsat"]) = {} /\ Distinct(fresh')
       /\ Distinct(queue'["grsat"])
  BY <1>3, NoItems
<1>18. ASSUME ~holding
       PROVE  ReadOurs' = ReadOurs \cup ItemsOf(fresh)
              /\ ReadGrsat' = ReadGrsat \cup ItemsOf(queue["grsat"])
  <2>1. BooksInv
    BY <1>1
  <2>2. ReadOurs' = ReadOurs \cup ItemsOf(fresh)
    BY <1>3, <1>4, <1>17, <1>18, <2>1 DEF ReadOurs, BooksInv
  <2>3. ReadGrsat' = ReadGrsat \cup ItemsOf(queue["grsat"])
    BY <1>3, <1>4, <1>17, <1>18, <2>1 DEF ReadGrsat, BooksInv
  <2> QED BY <2>2, <2>3
<1>19. ASSUME ~holding PROVE BooksInv'
  <2>1. BooksInv
    BY <1>1
  <2> QED BY <1>3, <1>4, <1>17, <1>19, <2>1 DEF BooksInv
<1>20. ASSUME ~holding, NEW p \in Payload PROVE Once(p)'
  <2>1. BooksInv /\ Once(p)
    BY <1>1, <1>20 DEF PassInv, CountsInv, OnceInv
  <2>2. PICK M, ro, rg, f1, g1, c1 :
           /\ M = 1 .. air /\ ro = ReadOurs /\ rg = ReadGrsat /\ f1 = ItemsOf(fresh)
           /\ g1 = ItemsOf(queue["grsat"]) /\ c1 = ItemsOf(queue["ours"])
    OBVIOUS
  <2>3. /\ IsFiniteSet(M) /\ ro \in SUBSET M /\ rg \in SUBSET M /\ f1 \in SUBSET M
        /\ g1 \in SUBSET M /\ c1 \in SUBSET M
    BY <1>1, <1>20, <2>2, Kinds, Zenon
  <2>4. /\ f1 \cap ro = {} /\ g1 \cap ro = {} /\ g1 \cap rg = {} /\ c1 \cap f1 = {}
        /\ c1 \cap rg = {}
    <3>1. f1 \cap ro = {} /\ g1 \cap rg = {}
      BY <2>2 DEF ReadOurs, ReadGrsat
    <3>2. g1 \cap ro = {} /\ c1 \cap f1 = {} /\ c1 \cap rg = {}
      BY <1>3, <1>20, <2>1, <2>2 DEF BooksInv
    <3> QED BY <3>1, <3>2
  <2>5. PICK u, k, i, d, n1, l1 \in Nat :
           /\ u = Carry(ro \cup rg, p) /\ k = Carry(rg \cap (c1 \cup f1), p)
           /\ Carry(f1, p) = k + i /\ Carry(g1, p) = d + n1 /\ d <= i
           /\ Carry((ro \cup f1) \cup (rg \cup g1), p) = u + i + n1
           /\ l1 = Carry((rg \cup g1) \cap c1, p) /\ l1 <= n1
    <3>1. Parted(M, ro, rg, f1, g1, c1)
      BY <2>3, <2>4 DEF Parted
    <3>2. \E u, k, i, d, n1, l1 \in Nat : Merged(ro, rg, f1, g1, c1, p, u, k, i, d, n1, l1)
      BY <3>1, Merge, Zenon
    <3> QED BY <3>2, Zenon DEF Merged
  <2>6. NumOf(a, {p}) = k + i /\ NumOf(b, {p}) = d + n1
    <3>1. Distinct(fresh) /\ Distinct(queue["grsat"])
      BY <1>20, <2>1 DEF BooksInv
    <3>2. NumOf(fresh, Carriers(p)) = Carry(f1, p)
          /\ NumOf(queue["grsat"], Carriers(p)) = Carry(g1, p)
      BY <1>6, <2>2, <3>1, QueueItems, Zenon
    <3> QED BY <1>7, <2>5, <3>2, Zenon
  <2>7. PICK R, G \in Nat :
           R = returned[p] /\ G = NumOf(pending, Since(Payload, "reference", p, generation))
    <3>1. pending \in Seq(Observation(Payload)) /\ returned[p] \in Nat
      BY <1>1 DEF SpanInv
    <3>2. NumOf(pending, Since(Payload, "reference", p, generation)) \in Nat
      BY <3>1, NumBounds
    <3> QED BY <3>1, <3>2
  <2>8. R <= u /\ R + k <= u + G
    <3>1. loop \notin {"flush", "done"}
      BY <1>3
    <3>2. R <= u
      BY <2>1, <2>2, <2>5, <2>7, Zenon DEF Once
    <3>3. R + k <= u + G
      BY <2>1, <2>2, <2>5, <2>7, <3>1, Zenon DEF Once
    <3> QED BY <3>2, <3>3
  <2>9. Served(a, b, t, p)
    BY <1>11, <1>20, Zenon
  <2>10. PICK first, late \in Nat : Yield(Payload, pending, generation', a, b, t, p, first, late)
    BY <2>9, Zenon DEF Served
  <2>11. generation' - 1 = generation
    BY <1>1, <1>11 DEF SpanInv
  <2>12. PICK T : T = Since(Payload, "reference", p, generation)
    OBVIOUS
  <2>13. T = Since(Payload, "reference", p, generation' - 1)
    BY <2>11, <2>12, Zenon
  <2>14. /\ NumOf(t.out, {p}) = first + late
         /\ late = NumOf(t.pending, Since(Payload, "reference", p, generation'))
         /\ first = 0 \/ first + NumOf(pending, T) <= NumOf(a, {p})
         /\ late = 0 \/ NumOf(t.out, {p}) <= NumOf(b, {p})
    BY <2>10, <2>13, Zenon DEF Yield
  <2>15. (first = 0 \/ first + G <= k + i) /\ (late = 0 \/ first + late <= d + n1)
    BY <2>6, <2>7, <2>12, <2>14, Zenon
  <2>16. R + (first + late) <= u + i + n1 /\ R + (first + late) + l1 <= u + i + n1 + late
    <3>1. d <= i /\ l1 <= n1
      BY <2>5, Zenon
    <3> QED BY <2>8, <2>15, <3>1, OnceAdds
  <2>17. returned'[p] = R + (first + late)
    BY <2>7, <2>9, <2>14, Zenon DEF Served
  <2>18. pending' = t.pending
    BY <1>11, Zenon
  <2>19. Carry(ReadOurs' \cup ReadGrsat', p) = u + i + n1
    BY <1>18, <1>20, <2>2, <2>5, Zenon
  <2>20. Carry(ReadGrsat' \cap (ItemsOf(queue'["ours"]) \cup ItemsOf(fresh')), p) = l1
    <3>1. ReadGrsat' \cap (ItemsOf(queue'["ours"]) \cup ItemsOf(fresh')) = (rg \cup g1) \cap c1
      BY <1>3, <1>17, <1>18, <1>20, <2>2
    <3> QED BY <2>5, <3>1, Zenon
  <2> QED BY <2>14, <2>16, <2>17, <2>18, <2>19, <2>20, Zenon DEF Once
<1>21. BooksInv' /\ OnceInv' /\ FlowInv'
  <2>1. ~holding' => ~holding
    BY <1>4
  <2>2. ~holding' => BooksInv'
    BY <1>19, <2>1
  <2>3. OnceInv'
    BY <1>20, <2>1 DEF OnceInv
  <2> QED BY <1>16, <2>2, <2>3 DEF BooksInv, FlowInv
<1> QED BY <1>11, <1>12, <1>13, <1>15, <1>21, Zenon DEF CountsInv

(* The frames the decoders held go through the reconciler as the last      *)
(* batch.                                                                  *)
LEMMA FlushCounts == ASSUME PassInv, Flush PROVE CountsInv'
<1>1. TypesInv /\ BooksInv /\ PathInv /\ SpanInv /\ RepeatsInv
  BY DEF PassInv, CountsInv
<1>2. PICK a, b, t : a = PayloadsOf(held) /\ b = <<>> /\ t = Shadow!Poll(a, b)
  OBVIOUS
<1>3. /\ loop = "emitting" /\ loop' = "flush" /\ held' = <<>> /\ out' = t.out /\ out = <<>>
      /\ Shadow!Reconcile(a, b)
  BY <1>2, Zenon DEF Flush
<1>4. /\ holding' = holding /\ air' = air /\ queue' = queue /\ found' = found /\ dropped' = dropped
      /\ fresh' = fresh /\ sent' = sent /\ error' = error
  BY DEF Flush, LoopFrame
<1>5. held \in Seq(Transmission)
  BY <1>1 DEF TypesInv
<1>6. /\ a \in Seq(Payload) /\ Len(a) = Len(held)
      /\ \A p : NumOf(a, {p}) = NumOf(held, Carriers(p))
      /\ b \in Seq(Payload) /\ Len(b) = 0 /\ \A p : NumOf(b, {p}) = 0
  <2>1. /\ a \in Seq(Payload) /\ Len(a) = Len(held)
        /\ \A p : NumOf(a, {p}) = NumOf(held, Carriers(p))
    BY <1>2, <1>5, QueueItems, Zenon
  <2>2. b \in Seq(Payload)
    BY <1>2, EmptySeq
  <2>3. Len(b) = 0 /\ \A p : NumOf(b, {p}) = 0
    BY <1>2, NoItems, NumEmpty, Zenon
  <2> QED BY <2>1, <2>2, <2>3
<1>7. PICK n, l, f, h, x, y \in Nat :
         /\ n = air /\ l = Len(pending) /\ f = Len(fresh) /\ h = Len(held)
         /\ x = Len(queue["ours"]) /\ y = Len(queue["grsat"])
         /\ l + f + h + x + y <= 2 * n /\ n <= NTransmissions
  BY Lengths, Zenon
<1>8. l + h + 0 <= 2 * NTransmissions
  <2>1. l + f + h + x + y <= 2 * n /\ n <= NTransmissions
    BY <1>7, Zenon
  <2>2. NTransmissions \in Nat
    BY DrainAssumption
  <2> QED BY <2>1, <2>2
<1>9. Len(pending) + Len(a) + Len(b) <= 2 * NTransmissions
  BY <1>6, <1>7, <1>8, Zenon
<1>10. /\ SpanInv' /\ RepeatsInv'
       /\ t.out \in Seq(Payload)
       /\ Len(pending') <= Len(pending) + Len(a) + Len(b)
       /\ \A p \in Payload : Served(a, b, t, p)
  BY <1>1, <1>2, <1>3, <1>6, <1>9, ReconcileGives
<1>11. TypesInv'
  BY <1>1, <1>3, <1>4, <1>10, EmptySeq DEF TypesInv
<1>12. SizeInv'
  <2>1. PICK z \in Nat : z = Len(pending')
    BY <1>10, LenProperties DEF SpanInv
  <2>2. z <= l + h + 0
    BY <1>6, <1>7, <1>10, <2>1, Zenon
  <2>3. l + f + h + x + y <= 2 * n
    BY <1>7, Zenon
  <2>4. z + f + 0 + x + y <= 2 * n
    BY <2>2, <2>3
  <2> QED BY <1>3, <1>4, <1>7, <2>1, <2>4, NoItems, Zenon DEF SizeInv
<1>13. ASSUME NEW p \in Payload
       PROVE  \E s, q, o \in Nat :
                 /\ s = NumOf(sent, {p}) /\ q = returned[p] /\ o = NumOf(out', {p})
                 /\ NumOf(out, {p}) = 0 /\ returned'[p] = q + o
  <2>1. NumOf(sent, {p}) \in Nat /\ NumOf(out', {p}) \in Nat
    BY <1>1, <1>3, <1>10, NumBounds DEF TypesInv
  <2>2. returned[p] \in Nat
    BY <1>1 DEF SpanInv
  <2>3. returned'[p] = returned[p] + NumOf(out', {p})
    BY <1>3, <1>10, <1>13, Zenon DEF Served
  <2>4. NumOf(out, {p}) = 0
    BY <1>3, NumEmpty
  <2> QED BY <2>1, <2>2, <2>3, <2>4
<1>14. SentInv'
  <2> SUFFICES ASSUME NEW p \in Payload PROVE NumOf(sent', {p}) + NumOf(out', {p}) <= returned'[p]
    BY DEF SentInv
  <2>1. PICK s, q, o \in Nat : /\ s = NumOf(sent, {p}) /\ q = returned[p] /\ o = NumOf(out', {p})
                               /\ NumOf(out, {p}) = 0 /\ returned'[p] = q + o
    BY <1>13, Zenon
  <2>2. s + 0 <= q
    BY <2>1, Zenon DEF PassInv, CountsInv, SentInv
  <2>3. s + o <= q + o
    BY <2>2
  <2> QED BY <1>4, <2>1, <2>3, Zenon
<1>15. ASSUME ~error', NEW p \in Payload PROVE Flows(p)'
  <2>1. Flows(p)
    BY <1>4, <1>15 DEF PassInv, CountsInv, FlowInv
  <2>2. PICK X : X = Carriers(p)
    OBVIOUS
  <2>3. PICK s1, s2, c, d, e, g \in Nat :
           /\ s1 = seen["primary"][p] /\ s2 = seen["reference"][p]
           /\ c = NumOf(fresh, X) /\ d = NumOf(queue["grsat"], X)
           /\ e = NumOf(held, X) /\ g = NumOf(queue["ours"], X)
    <3>1. fresh \in Seq(Transmission) /\ queue["grsat"] \in Seq(Transmission)
          /\ queue["ours"] \in Seq(Transmission)
      BY <1>1, Engines DEF TypesInv
    <3>2. /\ NumOf(fresh, X) \in Nat /\ NumOf(queue["grsat"], X) \in Nat
          /\ NumOf(held, X) \in Nat /\ NumOf(queue["ours"], X) \in Nat
      BY <1>5, <3>1, NumBounds
    <3>3. seen["primary"][p] \in Nat /\ seen["reference"][p] \in Nat
      BY <1>1 DEF SpanInv, Source
    <3> QED BY <3>2, <3>3
  <2>4. seen'["primary"][p] = s1 + e /\ seen'["reference"][p] = s2 + 0
    BY <1>6, <1>10, <2>2, <2>3, Zenon DEF Served
  <2>5. NumOf(held', X) = 0
    BY <1>3, NumEmpty
  <2>6. NumOf(found["ours"], X) = ((s1 + c) + e) + g /\ NumOf(found["grsat"], X) = s2 + d
    BY <2>1, <2>2, <2>3, Zenon DEF Flows
  <2>7. ((s1 + c) + e) + g = (((s1 + e) + c) + 0) + g /\ s2 + d = (s2 + 0) + d
    OBVIOUS
  <2>8. PICK s, q, o \in Nat : /\ s = NumOf(sent, {p}) /\ q = returned[p] /\ o = NumOf(out', {p})
                               /\ NumOf(out, {p}) = 0 /\ returned'[p] = q + o
    BY <1>13, Zenon
  <2>9. s + 0 = q
    BY <2>1, <2>8, Zenon DEF Flows
  <2>10. s + o = q + o
    BY <2>9
  <2>11. /\ NumOf(found'["ours"], X) = ((seen'["primary"][p] + NumOf(fresh', X)) + NumOf(held', X))
                                      + NumOf(queue'["ours"], X)
         /\ NumOf(found'["grsat"], X) = seen'["reference"][p] + NumOf(queue'["grsat"], X)
    BY <1>4, <2>3, <2>4, <2>5, <2>6, <2>7, Zenon
  <2>12. NumOf(sent', {p}) + NumOf(out', {p}) = returned'[p]
    BY <1>4, <2>8, <2>10, Zenon
  <2> QED BY <2>2, <2>11, <2>12, Zenon DEF Flows
<1>16. ReadOurs' = ReadOurs /\ ReadGrsat' = ReadGrsat
  BY <1>4, Zenon DEF ReadOurs, ReadGrsat
<1>17. ASSUME ~holding PROVE BooksInv'
  <2>1. BooksInv
    BY <1>1
  <2> QED BY <1>3, <1>4, <1>16, <1>17, <2>1 DEF BooksInv
<1>18. ASSUME ~holding, NEW p \in Payload PROVE Once(p)'
  <2>1. Once(p) /\ held = <<>>
    BY <1>1, <1>18 DEF PassInv, CountsInv, OnceInv, BooksInv
  <2>2. NumOf(a, {p}) = 0 /\ NumOf(b, {p}) = 0
    BY <1>6, <2>1, NumEmpty, Zenon
  <2>3. Served(a, b, t, p)
    BY <1>10, <1>18, Zenon
  <2>4. PICK first, late \in Nat : Yield(Payload, pending, generation', a, b, t, p, first, late)
    BY <2>3, Zenon DEF Served
  <2>5. PICK R, G \in Nat :
           R = returned[p] /\ G = NumOf(pending, Since(Payload, "reference", p, generation' - 1))
    <3>1. pending \in Seq(Observation(Payload)) /\ returned[p] \in Nat
      BY <1>1 DEF SpanInv
    <3>2. NumOf(pending, Since(Payload, "reference", p, generation' - 1)) \in Nat
      BY <3>1, NumBounds
    <3> QED BY <3>1, <3>2
  <2>6. /\ NumOf(t.out, {p}) = first + late
        /\ first = 0 \/ first + G <= 0
        /\ late = 0 \/ first + late <= 0
    BY <2>2, <2>4, <2>5, Zenon DEF Yield
  <2>7. R + (first + late) = R
    BY <2>6
  <2>8. returned'[p] = returned[p]
    BY <2>3, <2>5, <2>6, <2>7, Zenon DEF Served
  <2>9. loop' = "flush"
    BY <1>3
  <2>10. loop' \in {"flush", "done"}
    BY <2>9
  <2> QED BY <1>16, <2>1, <2>8, <2>10, Zenon DEF Once
<1>19. BooksInv' /\ OnceInv' /\ FlowInv'
  <2>1. ~holding' => ~holding
    BY <1>4
  <2>2. ~holding' => BooksInv'
    BY <1>17, <2>1
  <2>3. OnceInv'
    BY <1>18, <2>1 DEF OnceInv
  <2> QED BY <1>15, <2>2, <2>3 DEF BooksInv, FlowInv
<1> QED BY <1>10, <1>11, <1>12, <1>14, <1>19, Zenon DEF CountsInv

(* The final summary gives up what still waits.                            *)
LEMMA ReportCounts == ASSUME PassInv, Report PROVE CountsInv'
<1>1. TypesInv /\ BooksInv /\ SpanInv /\ RepeatsInv
  BY DEF PassInv, CountsInv
<1>2. /\ loop = "flush" /\ loop' = "done" /\ Shadow!Finalize
      /\ holding' = holding /\ air' = air /\ queue' = queue /\ found' = found /\ dropped' = dropped
      /\ fresh' = fresh /\ held' = held /\ out' = out /\ sent' = sent /\ error' = error
  BY DEF Report, LoopFrame
<1>3. PICK minimum \in Int, list \in Seq(Observation(Payload)), g \in Nat :
         minimum = generation + 1 + 1 /\ list = pending /\ g = generation
  BY <1>1 DEF SpanInv
<1>4. /\ pending' = Retained(list, minimum) /\ state' = "finalized"
      /\ generation' = generation /\ matched' = matched /\ seen' = seen /\ returned' = returned
  BY <1>2, <1>3, ShadowNames, Zenon DEF Shadow!Finalize
<1>5. PICK kept \in Seq(Observation(Payload)) : kept = Retained(list, minimum)
  BY RetainedItems
<1>6. \A X : NumOf(kept, X) \in Nat /\ NumOf(list, X) \in Nat /\ NumOf(kept, X) <= NumOf(list, X)
  <2>1. \A X : NumOf(kept, X) \in Nat /\ NumOf(list, X) \in Nat
    BY NumBounds
  <2>2. \A X : NumOf(Retained(list, minimum), X) <= NumOf(list, X)
    BY RetainedCounts
  <2> QED BY <1>5, <2>1, <2>2
<1>7. \A k \in 1 .. Len(kept) : \E j \in 1 .. Len(list) : kept[k] = list[j]
  <2>1. \A k \in 1 .. Len(Retained(list, minimum)) :
           /\ Retained(list, minimum)[k].generation >= minimum
           /\ \E j \in 1 .. Len(list) : Retained(list, minimum)[k] = list[j]
    BY RetainedItems
  <2> QED BY <1>5, <2>1, Zenon
<1>8. SpanInv'
  <2>1. Lone(Payload, kept)
    <3> SUFFICES ASSUME NEW p \in Payload
                 PROVE  NumOf(kept, Waiting(Payload, "primary", p)) = 0
                        \/ NumOf(kept, Waiting(Payload, "reference", p)) = 0
      BY Zenon DEF Lone
    <3>1. PICK X, Y : X = Waiting(Payload, "primary", p) /\ Y = Waiting(Payload, "reference", p)
      OBVIOUS
    <3>2. NumOf(list, X) = 0 \/ NumOf(list, Y) = 0
      BY <1>1, <1>3, <3>1, Zenon DEF SpanInv, Lone
    <3>3. NumOf(kept, X) = 0 \/ NumOf(kept, Y) = 0
      BY <1>6, <3>2
    <3> QED BY <3>1, <3>3, Zenon
  <2>2. Dated(generation - 1, generation, kept)
    <3>1. Dated(generation - 1, generation, list)
      BY <1>1, <1>3, Zenon DEF SpanInv
    <3> QED BY <1>7, <3>1, Zenon DEF Dated
  <2>3. state' \in {"open", "finalized"}
    BY <1>4
  <2> QED BY <1>1, <1>4, <1>5, <2>1, <2>2, <2>3, Zenon DEF SpanInv
<1>9. RepeatsInv'
  <2> SUFFICES ASSUME NEW s \in Source, NEW p \in Payload
               PROVE  returned'[p] >= seen'[s][p]
                                      + NumOf(pending', Waiting(Payload, Opposite[s], p))
    BY DEF RepeatsInv
  <2>1. PICK X : X = Waiting(Payload, Opposite[s], p)
    OBVIOUS
  <2>2. PICK r, n, x, y \in Nat :
           r = returned[p] /\ n = seen[s][p] /\ x = NumOf(list, X) /\ y = NumOf(kept, X)
    <3>1. returned[p] \in Nat /\ seen[s][p] \in Nat
      BY <1>1 DEF SpanInv
    <3> QED BY <1>6, <3>1
  <2>3. r >= n + x
    BY <1>1, <1>3, <2>1, <2>2, Zenon DEF RepeatsInv
  <2>4. y <= x
    BY <1>6, <2>2, Zenon
  <2>5. r >= n + y
    BY <2>3, <2>4
  <2> QED BY <1>4, <1>5, <2>1, <2>2, <2>5, Zenon
<1>10. TypesInv' /\ SentInv'
  <2>1. TypesInv'
    BY <1>1, <1>2 DEF TypesInv
  <2>2. SentInv'
    BY <1>2, <1>4 DEF PassInv, CountsInv, SentInv
  <2> QED BY <2>1, <2>2
<1>11. SizeInv'
  <2>1. PICK n, l, f, h, x, y \in Nat :
           /\ n = air /\ l = Len(pending) /\ f = Len(fresh) /\ h = Len(held)
           /\ x = Len(queue["ours"]) /\ y = Len(queue["grsat"])
           /\ l + f + h + x + y <= 2 * n /\ n <= NTransmissions
    BY Lengths, Zenon
  <2>2. PICK z, i, j \in Nat : /\ z = Len(kept) /\ i = Expired(list, minimum, "primary")
                               /\ j = Expired(list, minimum, "reference")
    <3>1. "primary" \in Source /\ "reference" \in Source
      BY DEF Source
    <3>2. Len(kept) \in Nat
      BY LenProperties
    <3>3. \A s \in Source : Expired(list, minimum, s) \in Nat
      BY RetainedCounts
    <3> QED BY <3>1, <3>2, <3>3
  <2>3. z + i + j = l
    <3>1. Len(Retained(list, minimum)) + Expired(list, minimum, "primary")
                  + Expired(list, minimum, "reference") = Len(list)
      BY RetainedCounts
    <3> QED BY <1>3, <1>5, <2>1, <2>2, <3>1, Zenon
  <2>4. l + f + h + x + y <= 2 * n
    BY <2>1, Zenon
  <2>5. z + f + h + x + y <= 2 * n
    BY <2>3, <2>4
  <2> QED BY <1>2, <1>4, <1>5, <2>1, <2>2, <2>5, Zenon DEF SizeInv
<1>12. ASSUME ~error', NEW p \in Payload PROVE Flows(p)'
  <2>1. Flows(p)
    BY <1>2, <1>12 DEF PassInv, CountsInv, FlowInv
  <2> QED BY <1>2, <1>4, <2>1, Zenon DEF Flows
<1>13. ReadOurs' = ReadOurs /\ ReadGrsat' = ReadGrsat
  BY <1>2, Zenon DEF ReadOurs, ReadGrsat
<1>14. ASSUME ~holding PROVE BooksInv'
  <2>1. BooksInv
    BY <1>1
  <2> QED BY <1>2, <1>13, <1>14, <2>1 DEF BooksInv
<1>15. ASSUME ~holding, NEW p \in Payload PROVE Once(p)'
  <2>1. Once(p)
    BY <1>15 DEF PassInv, CountsInv, OnceInv
  <2>2. loop' \in {"flush", "done"}
    BY <1>2
  <2> QED BY <1>4, <1>13, <2>1, <2>2, Zenon DEF Once
<1>16. BooksInv' /\ OnceInv' /\ FlowInv'
  <2>1. ~holding' => ~holding
    BY <1>2
  <2>2. ~holding' => BooksInv'
    BY <1>14, <2>1
  <2>3. OnceInv'
    BY <1>15, <2>1 DEF OnceInv
  <2> QED BY <1>12, <2>2, <2>3 DEF BooksInv, FlowInv
<1> QED BY <1>8, <1>9, <1>10, <1>11, <1>16, Zenon DEF CountsInv

(* A transmission joins what a chain has queued and found, or neither.     *)
Joins(q, f, q1, f1, t) == \/ q1 = q /\ f1 = f
                          \/ q1 = Append(q, t) /\ f1 = Append(f, t)

LEMMA JoinRule ==
    ASSUME NEW q \in Seq(Transmission), NEW f \in Seq(Transmission), NEW t \in Transmission,
           NEW q1, NEW f1, Joins(q, f, q1, f1, t)
    PROVE  /\ q1 \in Seq(Transmission) /\ f1 \in Seq(Transmission) /\ Len(q1) <= Len(q) + 1
           /\ \A X : \E i \in Nat : NumOf(q1, X) = NumOf(q, X) + i /\ NumOf(f1, X) = NumOf(f, X) + i
           /\ \E S \in SUBSET {t} : /\ ItemsOf(q1) = ItemsOf(q) \cup S
                                    /\ ItemsOf(f1) = ItemsOf(f) \cup S
           /\ Distinct(q) /\ t \notin ItemsOf(q) => Distinct(q1)
<1>1. CASE q1 = q /\ f1 = f
  <2>1. Len(q) \in Nat
    BY LenProperties
  <2>2. \A X : NumOf(q, X) \in Nat /\ NumOf(f, X) \in Nat
    BY NumBounds
  <2>3. ASSUME NEW X
        PROVE  \E i \in Nat : NumOf(q, X) = NumOf(q, X) + i /\ NumOf(f, X) = NumOf(f, X) + i
    <3>1. NumOf(q, X) = NumOf(q, X) + 0 /\ NumOf(f, X) = NumOf(f, X) + 0 /\ 0 \in Nat
      BY <2>2
    <3> QED BY <3>1
  <2>4. {} \in SUBSET {t} /\ ItemsOf(q) = ItemsOf(q) \cup {} /\ ItemsOf(f) = ItemsOf(f) \cup {}
    OBVIOUS
  <2>5. Len(q) <= Len(q) + 1
    BY <2>1
  <2> QED BY <1>1, <2>3, <2>4, <2>5, Zenon
<1>2. CASE q1 = Append(q, t) /\ f1 = Append(f, t)
  <2>1. /\ q1 \in Seq(Transmission) /\ f1 \in Seq(Transmission) /\ Len(q1) = Len(q) + 1
        /\ ItemsOf(q1) = ItemsOf(q) \cup {t} /\ ItemsOf(f1) = ItemsOf(f) \cup {t}
        /\ Distinct(q) /\ t \notin ItemsOf(q) => Distinct(q1)
    BY <1>2, Joined
  <2>2. Len(q1) <= Len(q) + 1
    <3>1. Len(q) \in Nat
      BY LenProperties
    <3> QED BY <2>1, <3>1
  <2>3. ASSUME NEW X
        PROVE  \E i \in Nat : NumOf(q1, X) = NumOf(q, X) + i /\ NumOf(f1, X) = NumOf(f, X) + i
    <3>1. PICK i \in Nat : i = IF t \in X THEN 1 ELSE 0
      OBVIOUS
    <3>2. NumOf(q1, X) = NumOf(q, X) + i /\ NumOf(f1, X) = NumOf(f, X) + i
      BY <1>2, <3>1, Joined
    <3> QED BY <3>2
  <2>4. {t} \in SUBSET {t}
    OBVIOUS
  <2> QED BY <2>1, <2>2, <2>3, <2>4, Zenon
<1> QED BY <1>1, <1>2 DEF Joins

LEMMA ReceiveGives ==
    ASSUME TypesInv, NEW by \in SUBSET Engine, Receive(by)
    PROVE  /\ air' = air + 1 /\ air' \in Transmission /\ air' <= NTransmissions
           /\ \A e \in Engine : Joins(queue[e], found[e], queue'[e], found'[e], air')
           /\ DOMAIN queue' = Engine /\ queue' = [e \in Engine |-> queue'[e]]
           /\ DOMAIN found' = Engine /\ found' = [e \in Engine |-> found'[e]]
           /\ dropped["grsat"] => dropped'["grsat"]
<1>1. air' = air + 1 /\ air < NTransmissions
  BY DEF Receive
<1>2. air' \in Transmission /\ air' <= NTransmissions
  BY <1>1, DrainAssumption DEF TypesInv, Transmission
<1>3. PICK fits \in SUBSET Engine, t \in Transmission :
         /\ t = air'
         /\ queue' = [e \in Engine |-> IF e \in fits THEN Append(queue[e], t) ELSE queue[e]]
         /\ found' = [e \in Engine |-> IF e \in fits THEN Append(found[e], t) ELSE found[e]]
  <2>1. PICK fits : fits = {e \in by : Fits(e)}
    OBVIOUS
  <2>2. fits \in SUBSET Engine
    BY <2>1
  <2> QED BY <1>2, <2>1, <2>2, Zenon DEF Receive
<1>4. \A e \in Engine : Joins(queue[e], found[e], queue'[e], found'[e], t)
  BY <1>3 DEF Joins
<1>5. DOMAIN queue' = Engine /\ queue' = [e \in Engine |-> queue'[e]]
  BY <1>3
<1>6. DOMAIN found' = Engine /\ found' = [e \in Engine |-> found'[e]]
  BY <1>3
<1>7. dropped["grsat"] => dropped'["grsat"]
  <2>1. PICK lost : dropped' = [e \in Engine |-> dropped[e] \/ e \in lost]
    BY Zenon DEF Receive
  <2> QED BY <2>1, Engines
<1> QED BY <1>1, <1>2, <1>3, <1>4, <1>5, <1>6, <1>7, Zenon

(* A transmission comes in.                                                *)
LEMMA ReceiveCounts ==
    ASSUME PassInv, NEW by \in SUBSET Engine, Receive(by)
    PROVE  CountsInv'
<1>1. TypesInv /\ BooksInv /\ SpanInv /\ RepeatsInv
  BY DEF PassInv, CountsInv
<1>2. /\ holding' = holding /\ loop' = loop
      /\ fresh' = fresh /\ held' = held /\ out' = out /\ sent' = sent /\ error' = error
      /\ pending' = pending /\ generation' = generation /\ matched' = matched /\ state' = state
      /\ seen' = seen /\ returned' = returned
  BY DEF Receive, shadowVars
<1>3. /\ air' = air + 1 /\ air' \in Transmission /\ air' <= NTransmissions
      /\ \A e \in Engine : Joins(queue[e], found[e], queue'[e], found'[e], air')
      /\ DOMAIN queue' = Engine /\ queue' = [e \in Engine |-> queue'[e]]
      /\ DOMAIN found' = Engine /\ found' = [e \in Engine |-> found'[e]]
      /\ dropped["grsat"] => dropped'["grsat"]
  BY <1>1, ReceiveGives
<1>4. PICK t \in Transmission, qo \in Seq(Transmission), fo \in Seq(Transmission),
           qg \in Seq(Transmission), fg \in Seq(Transmission) :
         /\ t = air' /\ qo = queue["ours"] /\ fo = found["ours"]
         /\ qg = queue["grsat"] /\ fg = found["grsat"]
  BY <1>1, <1>3, Engines DEF TypesInv
<1>5. PICK Qo, Fo, Qg, Fg : /\ Qo = queue'["ours"] /\ Fo = found'["ours"]
                            /\ Qg = queue'["grsat"] /\ Fg = found'["grsat"]
  OBVIOUS
<1>6. Joins(qo, fo, Qo, Fo, t) /\ Joins(qg, fg, Qg, Fg, t)
  BY <1>3, <1>4, <1>5, Engines, Zenon
<1>7. /\ Qo \in Seq(Transmission) /\ Fo \in Seq(Transmission) /\ Len(Qo) <= Len(qo) + 1
      /\ \A X : \E i \in Nat : NumOf(Qo, X) = NumOf(qo, X) + i /\ NumOf(Fo, X) = NumOf(fo, X) + i
      /\ \E S \in SUBSET {t} : ItemsOf(Qo) = ItemsOf(qo) \cup S /\ ItemsOf(Fo) = ItemsOf(fo) \cup S
      /\ Distinct(qo) /\ t \notin ItemsOf(qo) => Distinct(Qo)
  BY <1>6, JoinRule
<1>8. /\ Qg \in Seq(Transmission) /\ Fg \in Seq(Transmission) /\ Len(Qg) <= Len(qg) + 1
      /\ \A X : \E i \in Nat : NumOf(Qg, X) = NumOf(qg, X) + i /\ NumOf(Fg, X) = NumOf(fg, X) + i
      /\ \E S \in SUBSET {t} : ItemsOf(Qg) = ItemsOf(qg) \cup S /\ ItemsOf(Fg) = ItemsOf(fg) \cup S
      /\ Distinct(qg) /\ t \notin ItemsOf(qg) => Distinct(Qg)
  BY <1>6, JoinRule
<1>9. TypesInv'
  <2>1. queue' \in [Engine -> Seq(Transmission)] /\ found' \in [Engine -> Seq(Transmission)]
    <3>1. \A e \in Engine : queue'[e] \in Seq(Transmission) /\ found'[e] \in Seq(Transmission)
      BY <1>5, <1>7, <1>8 DEF Engine
    <3> QED BY <1>3, <3>1
  <2>2. air' \in 0 .. NTransmissions
    BY <1>1, <1>3, DrainAssumption DEF TypesInv
  <2> QED BY <1>1, <1>2, <2>1, <2>2 DEF TypesInv
<1>10. SpanInv' /\ RepeatsInv' /\ SentInv'
  BY <1>1, <1>2, Zenon DEF PassInv, CountsInv, SpanInv, RepeatsInv, SentInv
<1>11. SizeInv'
  <2>1. PICK n, l, f, h, x, y \in Nat :
           /\ n = air /\ l = Len(pending) /\ f = Len(fresh) /\ h = Len(held)
           /\ x = Len(queue["ours"]) /\ y = Len(queue["grsat"])
           /\ l + f + h + x + y <= 2 * n /\ n <= NTransmissions
    BY Lengths, Zenon
  <2>2. PICK i, j \in Nat : i = Len(Qo) /\ j = Len(Qg)
    BY <1>7, <1>8, LenProperties
  <2>3. i <= x + 1 /\ j <= y + 1
    BY <1>4, <1>7, <1>8, <2>1, <2>2, Zenon
  <2>4. l + f + h + x + y <= 2 * n
    BY <2>1, Zenon
  <2>5. l + f + h + i + j <= 2 * (n + 1)
    BY <2>3, <2>4
  <2> QED BY <1>2, <1>3, <1>5, <2>1, <2>2, <2>5, Zenon DEF SizeInv
<1>12. ASSUME ~error', NEW p \in Payload PROVE Flows(p)'
  <2>1. Flows(p)
    BY <1>2, <1>12 DEF PassInv, CountsInv, FlowInv
  <2>2. PICK X : X = Carriers(p)
    OBVIOUS
  <2>3. PICK i \in Nat : NumOf(Qo, X) = NumOf(qo, X) + i /\ NumOf(Fo, X) = NumOf(fo, X) + i
    BY <1>7
  <2>4. PICK j \in Nat : NumOf(Qg, X) = NumOf(qg, X) + j /\ NumOf(Fg, X) = NumOf(fg, X) + j
    BY <1>8
  <2>5. PICK s1, s2, c, d, e, g \in Nat :
           /\ s1 = seen["primary"][p] /\ s2 = seen["reference"][p]
           /\ c = NumOf(fresh, X) /\ d = NumOf(qg, X)
           /\ e = NumOf(held, X) /\ g = NumOf(qo, X)
    <3>1. fresh \in Seq(Transmission) /\ held \in Seq(Transmission)
      BY <1>1 DEF TypesInv
    <3>2. /\ NumOf(fresh, X) \in Nat /\ NumOf(qg, X) \in Nat
          /\ NumOf(held, X) \in Nat /\ NumOf(qo, X) \in Nat
      BY <3>1, NumBounds
    <3>3. seen["primary"][p] \in Nat /\ seen["reference"][p] \in Nat
      BY <1>1 DEF SpanInv, Source
    <3> QED BY <3>2, <3>3
  <2>6. NumOf(fo, X) = ((s1 + c) + e) + g /\ NumOf(fg, X) = s2 + d
    BY <1>4, <2>1, <2>2, <2>5, Zenon DEF Flows
  <2>7. (((s1 + c) + e) + g) + i = ((s1 + c) + e) + (g + i) /\ (s2 + d) + j = s2 + (d + j)
    OBVIOUS
  <2>8. NumOf(Fo, X) = ((s1 + c) + e) + NumOf(Qo, X) /\ NumOf(Fg, X) = s2 + NumOf(Qg, X)
    BY <2>3, <2>4, <2>5, <2>6, <2>7, Zenon
  <2>9. /\ NumOf(found'["ours"], X) = ((seen'["primary"][p] + NumOf(fresh', X)) + NumOf(held', X))
                                     + NumOf(queue'["ours"], X)
        /\ NumOf(found'["grsat"], X) = seen'["reference"][p] + NumOf(queue'["grsat"], X)
    BY <1>2, <1>5, <2>5, <2>8, Zenon
  <2>10. NumOf(sent', {p}) + NumOf(out', {p}) = returned'[p]
    BY <1>2, <2>1, Zenon DEF Flows
  <2> QED BY <2>2, <2>9, <2>10, Zenon DEF Flows
<1>13. PICK So \in SUBSET {t}, Sg \in SUBSET {t} :
          /\ ItemsOf(Qo) = ItemsOf(qo) \cup So /\ ItemsOf(Fo) = ItemsOf(fo) \cup So
          /\ ItemsOf(Qg) = ItemsOf(qg) \cup Sg /\ ItemsOf(Fg) = ItemsOf(fg) \cup Sg
  BY <1>7, <1>8, Zenon
<1>14. ASSUME ~holding
       PROVE  /\ t \notin ItemsOf(fo) /\ t \notin ItemsOf(fg) /\ t \notin ItemsOf(qo)
              /\ t \notin ItemsOf(qg) /\ t \notin ItemsOf(fresh)
              /\ ReadOurs' = ReadOurs /\ ReadGrsat' = ReadGrsat
              /\ 1 .. air \subseteq 1 .. air' /\ t \in 1 .. air'
  <2>1. BooksInv
    BY <1>1
  <2>2. t \notin 1 .. air /\ 1 .. air \subseteq 1 .. air' /\ t \in 1 .. air'
    BY <1>1, <1>3, <1>4 DEF TypesInv
  <2>3. /\ t \notin ItemsOf(fo) /\ t \notin ItemsOf(fg) /\ t \notin ItemsOf(qo)
        /\ t \notin ItemsOf(qg) /\ t \notin ItemsOf(fresh)
    BY <1>4, <1>14, <2>1, <2>2 DEF BooksInv
  <2>4. ReadOurs' = (ItemsOf(fo) \cup So) \ ((ItemsOf(qo) \cup So) \cup ItemsOf(fresh))
        /\ ReadGrsat' = (ItemsOf(fg) \cup Sg) \ (ItemsOf(qg) \cup Sg)
    BY <1>2, <1>5, <1>13, Zenon DEF ReadOurs, ReadGrsat
  <2>5. ReadOurs = ItemsOf(fo) \ (ItemsOf(qo) \cup ItemsOf(fresh))
        /\ ReadGrsat = ItemsOf(fg) \ ItemsOf(qg)
    BY <1>4, Zenon DEF ReadOurs, ReadGrsat
  <2>6. ReadOurs' = ReadOurs /\ ReadGrsat' = ReadGrsat
    BY <2>3, <2>4, <2>5
  <2> QED BY <2>2, <2>3, <2>6, Zenon
<1>15. ASSUME ~holding PROVE BooksInv'
  <2>1. BooksInv
    BY <1>1
  <2>2. /\ held' = <<>> /\ Distinct(Qo) /\ Distinct(Qg) /\ Distinct(fresh')
    BY <1>2, <1>4, <1>7, <1>8, <1>14, <1>15, <2>1, Zenon DEF BooksInv
  <2>3. ItemsOf(Qo) \cap ItemsOf(fresh') = {}
    BY <1>2, <1>4, <1>13, <1>14, <1>15, <2>1 DEF BooksInv
  <2>4. ItemsOf(Qo) \subseteq ItemsOf(Fo) /\ ItemsOf(Qg) \subseteq ItemsOf(Fg)
        /\ ItemsOf(fresh') \subseteq ItemsOf(Fo)
    BY <1>2, <1>4, <1>13, <1>15, <2>1 DEF BooksInv
  <2>5. ItemsOf(Fo) \subseteq 1 .. air' /\ ItemsOf(Fg) \subseteq 1 .. air'
    BY <1>4, <1>13, <1>14, <1>15, <2>1 DEF BooksInv
  <2>6. t \notin ReadOurs /\ t \notin ReadGrsat
    BY <1>4, <1>14, <1>15 DEF ReadOurs, ReadGrsat
  <2>7. dropped'["grsat"] \/ ReadOurs' \cap ItemsOf(Qg) = {}
    BY <1>3, <1>4, <1>13, <1>14, <1>15, <2>1, <2>6 DEF BooksInv
  <2>8. loop' = "grsat" => ReadGrsat' \cap ItemsOf(Qo) = {}
    BY <1>2, <1>4, <1>13, <1>14, <1>15, <2>1, <2>6 DEF BooksInv
  <2> QED BY <1>5, <2>2, <2>3, <2>4, <2>5, <2>7, <2>8, Zenon DEF BooksInv
<1>16. ASSUME ~holding, NEW p \in Payload PROVE Once(p)'
  <2>1. Once(p)
    BY <1>16 DEF PassInv, CountsInv, OnceInv
  <2>2. t \notin ReadGrsat
    BY <1>4, <1>14, <1>16 DEF ReadGrsat
  <2>3. ReadGrsat' \cap (ItemsOf(Qo) \cup ItemsOf(fresh'))
        = ReadGrsat \cap (ItemsOf(qo) \cup ItemsOf(fresh))
    BY <1>2, <1>13, <1>14, <1>16, <2>2
  <2>4. PICK A, B, R : /\ A = Carry(ReadOurs \cup ReadGrsat, p)
                       /\ B = Carry(ReadGrsat \cap (ItemsOf(qo) \cup ItemsOf(fresh)), p)
                       /\ R = returned[p]
    OBVIOUS
  <2>5. A = Carry(ReadOurs' \cup ReadGrsat', p)
        /\ B = Carry(ReadGrsat' \cap (ItemsOf(queue'["ours"]) \cup ItemsOf(fresh')), p)
    BY <1>5, <1>14, <1>16, <2>3, <2>4, Zenon
  <2>6. /\ R <= A
        /\ loop \notin {"flush", "done"} =>
             R + B <= A + NumOf(pending, Since(Payload, "reference", p, generation))
    BY <1>4, <2>1, <2>4, Zenon DEF Once
  <2> QED BY <1>2, <2>4, <2>5, <2>6, Zenon DEF Once
<1>17. BooksInv' /\ OnceInv' /\ FlowInv'
  <2>1. ~holding' => ~holding
    BY <1>2
  <2>2. ~holding' => BooksInv'
    BY <1>15, <2>1
  <2>3. OnceInv'
    BY <1>16, <2>1 DEF OnceInv
  <2> QED BY <1>12, <2>2, <2>3 DEF BooksInv, FlowInv
<1> QED BY <1>9, <1>10, <1>11, <1>17, Zenon DEF CountsInv

LEMMA PassInit == Init => PassInv
<1> SUFFICES ASSUME Init PROVE PassInv
  OBVIOUS
<1>1. /\ air = 0 /\ loop = "sleeping" /\ last = FALSE /\ error = FALSE
      /\ fresh = <<>> /\ held = <<>> /\ out = <<>> /\ sent = <<>> /\ app = "serving"
      /\ queue = [e \in Engine |-> <<>>] /\ found = [e \in Engine |-> <<>>]
  BY DEF Init
<1>2. /\ pending = <<>> /\ generation = 0 /\ matched = 0 /\ state = "open"
      /\ seen = [s \in Source |-> [p \in Payload |-> 0]] /\ returned = [p \in Payload |-> 0]
  BY ShadowNames, Zenon DEF Init, Shadow!Init
<1>3. queue["ours"] = <<>> /\ queue["grsat"] = <<>> /\ found["ours"] = <<>> /\ found["grsat"] = <<>>
  BY <1>1, Engines
<1>4. \A p \in Payload : /\ returned[p] = 0 /\ seen["primary"][p] = 0 /\ seen["reference"][p] = 0
                         /\ \A s \in Source : seen[s][p] = 0
  BY <1>2 DEF Source
<1>5. \A X : NumOf(<<>>, X) = 0
  BY NumEmpty
<1>6. TypesInv /\ PathInv
  BY <1>1, <1>3, DrainAssumption, EmptySeq DEF TypesInv, PathInv
<1>7. SpanInv
  <2>1. Lone(Payload, pending)
    BY <1>2, <1>5, Zenon DEF Lone
  <2>2. Dated(generation - 1, generation, pending)
    <3>1. Len(<<>>) = 0 /\ 1 .. 0 = {}
      OBVIOUS
    <3> QED BY <1>2, <3>1 DEF Dated
  <2>3. pending \in Seq(Observation(Payload))
    BY <1>2, EmptySeq
  <2>4. seen \in [Source -> [Payload -> Nat]] /\ returned \in [Payload -> Nat]
    BY <1>2
  <2>5. generation \in Nat /\ matched \in Nat /\ state \in {"open", "finalized"}
    BY <1>2
  <2> QED BY <2>1, <2>2, <2>3, <2>4, <2>5 DEF SpanInv
<1>8. RepeatsInv
  <2> SUFFICES ASSUME NEW s \in Source, NEW p \in Payload
               PROVE  returned[p] >= seen[s][p] + NumOf(pending, Waiting(Payload, Opposite[s], p))
    BY DEF RepeatsInv
  <2>1. returned[p] = 0 /\ seen[s][p] = 0 /\ NumOf(pending, Waiting(Payload, Opposite[s], p)) = 0
    BY <1>2, <1>4, <1>5
  <2> QED BY <2>1
<1>9. SizeInv
  <2>1. /\ Len(pending) = 0 /\ Len(fresh) = 0 /\ Len(held) = 0
        /\ Len(queue["ours"]) = 0 /\ Len(queue["grsat"]) = 0
    BY <1>1, <1>2, <1>3, NoItems
  <2>2. 0 + 0 + 0 + 0 + 0 <= 2 * 0
    OBVIOUS
  <2> QED BY <1>1, <2>1, <2>2, Zenon DEF SizeInv
<1>10. ASSUME NEW p \in Payload
       PROVE  Flows(p) /\ NumOf(sent, {p}) + NumOf(out, {p}) <= returned[p]
  <2>1. /\ NumOf(found["ours"], Carriers(p)) = 0 /\ NumOf(found["grsat"], Carriers(p)) = 0
        /\ NumOf(fresh, Carriers(p)) = 0 /\ NumOf(held, Carriers(p)) = 0
        /\ NumOf(queue["ours"], Carriers(p)) = 0 /\ NumOf(queue["grsat"], Carriers(p)) = 0
        /\ NumOf(sent, {p}) = 0 /\ NumOf(out, {p}) = 0
    BY <1>1, <1>3, <1>5
  <2> QED BY <1>4, <2>1 DEF Flows
<1>11. ItemsOf(<<>>) = {} /\ Distinct(<<>>)
  BY NoItems
<1>12. ReadOurs = {} /\ ReadGrsat = {}
  BY <1>3, <1>11 DEF ReadOurs, ReadGrsat
<1>13. BooksInv
  BY <1>1, <1>3, <1>11, <1>12 DEF BooksInv
<1>14. OnceInv
  <2> SUFFICES ASSUME NEW p \in Payload PROVE Once(p)
    BY DEF OnceInv
  <2>1. ReadOurs \cup ReadGrsat = {}
        /\ ReadGrsat \cap (ItemsOf(queue["ours"]) \cup ItemsOf(fresh)) = {}
    BY <1>12
  <2>2. Carry({}, p) = 0
    <3>1. {t \in {} : PayloadOf(t) = p} = {}
      OBVIOUS
    <3> QED BY <3>1, FS_EmptySet, Zenon DEF Carry
  <2>3. NumOf(pending, Since(Payload, "reference", p, generation)) = 0
    BY <1>2, <1>5
  <2>4. 0 <= 0 /\ 0 + 0 <= 0 + 0
    OBVIOUS
  <2> QED BY <1>4, <2>1, <2>2, <2>3, <2>4, Zenon DEF Once
<1>15. FlowInv /\ SentInv
  BY <1>10 DEF FlowInv, SentInv
<1> QED BY <1>6, <1>7, <1>8, <1>9, <1>13, <1>14, <1>15, Zenon DEF PassInv, CountsInv

LEMMA PassStep == PassInv /\ [Next]_vars => PassInv'
<1> SUFFICES ASSUME PassInv, [Next]_vars PROVE PassInv'
  OBVIOUS
<1> SUFFICES CountsInv'
  BY PathStep, Zenon DEF PassInv, CountsInv
<1>2. ASSUME NEW by \in SUBSET Engine, Receive(by) PROVE CountsInv'
  BY <1>2, ReceiveCounts
<1>3. CASE DrainOurs(0) \/ DrainOurs(1)
  BY <1>3, OursCounts
<1>4. CASE DrainGrsat
  BY <1>4, GrsatCounts
<1>5. CASE Overflow \/ EmitFails \/ ReportFails
  BY <1>5, RaiseCounts
<1>6. CASE Emit \/ EmitFlushed
  BY <1>6, EmitCounts
<1>7. CASE Flush
  BY <1>7, FlushCounts
<1>8. CASE Report
  BY <1>8, ReportCounts
<1>9. CASE Wake \/ Polled \/ StopGraph \/ OnStop \/ Watch \/ Exit \/ PeerGoes \/ UNCHANGED vars
  BY <1>9, RestCounts
<1>10. Finished => UNCHANGED vars
  BY DEF Finished
<1> QED BY <1>2, <1>3, <1>4, <1>5, <1>6, <1>7, <1>8, <1>9, <1>10 DEF Next, Loop

LEMMA CopiesAreNum == \A s, p : Copies(s, p) = NumOf(s, {p})
<1> TAKE s, p
<1>1. {i \in DOMAIN s : s[i] = p} = {i \in DOMAIN s : s[i] \in {p}}
  OBVIOUS
<1> QED BY <1>1, Zenon DEF Copies, NumOf, PlacesOf

LEMMA PassEmits == PassInv => EmittedExactly
<1> SUFFICES ASSUME PassInv PROVE EmittedExactly
  OBVIOUS
<1>1. TypesInv /\ PathInv /\ SpanInv /\ RepeatsInv /\ SentInv /\ BooksInv /\ FlowInv
  BY DEF PassInv, CountsInv
<1>2. \A p : NumOf(sent, {p}) \in Nat /\ NumOf(out, {p}) \in Nat
  BY <1>1, NumBounds DEF TypesInv
<1>3. ASSUME app = "clean", ~error, NEW p \in Payload
      PROVE  /\ Copies(sent, p) >= Copies(PayloadsOf(found["ours"]), p)
             /\ Copies(sent, p) >= Copies(PayloadsOf(found["grsat"]), p)
  <2>1. /\ loop = "done" /\ fresh = <<>> /\ out = <<>> /\ held = <<>>
        /\ queue["ours"] = <<>> /\ queue["grsat"] = <<>>
    BY <1>1, <1>3 DEF PathInv
  <2>2. Flows(p)
    BY <1>1, <1>3 DEF FlowInv
  <2>3. PICK X : X = Carriers(p)
    OBVIOUS
  <2>4. PICK r, a, b, s \in Nat : /\ r = returned[p] /\ a = seen["primary"][p]
                                  /\ b = seen["reference"][p] /\ s = NumOf(sent, {p})
    <3>1. returned[p] \in Nat /\ seen["primary"][p] \in Nat /\ seen["reference"][p] \in Nat
      BY <1>1 DEF SpanInv, Source
    <3> QED BY <1>2, <3>1
  <2>5. /\ NumOf(fresh, X) = 0 /\ NumOf(held, X) = 0 /\ NumOf(queue["ours"], X) = 0
        /\ NumOf(queue["grsat"], X) = 0 /\ NumOf(out, {p}) = 0
    BY <2>1, NumEmpty
  <2>6. /\ NumOf(found["ours"], X) = ((a + 0) + 0) + 0 /\ NumOf(found["grsat"], X) = b + 0
        /\ s + 0 = r
    BY <2>2, <2>3, <2>4, <2>5, Zenon DEF Flows
  <2>7. r >= a /\ r >= b
    <3>1. PICK x, y \in Nat : /\ x = NumOf(pending, Waiting(Payload, "reference", p))
                              /\ y = NumOf(pending, Waiting(Payload, "primary", p))
      <4>1. pending \in Seq(Observation(Payload))
        BY <1>1 DEF SpanInv
      <4> QED BY <4>1, NumBounds
    <3>2. "primary" \in Source /\ "reference" \in Source
          /\ Opposite["primary"] = "reference" /\ Opposite["reference"] = "primary"
      BY DEF Source, Opposite
    <3>3. r >= a + x /\ r >= b + y
      BY <1>1, <2>4, <3>1, <3>2, Zenon DEF RepeatsInv
    <3> QED BY <3>3
  <2>8. NumOf(found["ours"], X) = a /\ NumOf(found["grsat"], X) = b /\ s = r
    BY <2>6
  <2>9. found["ours"] \in Seq(Transmission) /\ found["grsat"] \in Seq(Transmission)
    BY <1>1, Engines DEF TypesInv
  <2>10. /\ NumOf(PayloadsOf(found["ours"]), {p}) = NumOf(found["ours"], X)
         /\ NumOf(PayloadsOf(found["grsat"]), {p}) = NumOf(found["grsat"], X)
    BY <2>3, <2>9, QueueItems, Zenon
  <2> QED BY <2>4, <2>7, <2>8, <2>10, CopiesAreNum, Zenon
<1>4. AllFoundEmitted
  <2> SUFFICES ASSUME app = "clean", ~error, NEW e \in Engine, NEW p \in Payload
               PROVE  Copies(sent, p) >= Copies(PayloadsOf(found[e]), p)
    BY DEF AllFoundEmitted
  <2> QED BY <1>3 DEF Engine
<1>5. EmittedOnce
  <2> SUFFICES ASSUME ~holding, NEW p \in Payload
               PROVE  Copies(sent, p) <= Cardinality({t \in 1 .. air : PayloadOf(t) = p})
    BY DEF EmittedOnce
  <2>1. PICK A, B, s, o, r \in Nat :
           /\ A = Carry(ReadOurs \cup ReadGrsat, p) /\ B = Carry(1 .. air, p)
           /\ s = NumOf(sent, {p}) /\ o = NumOf(out, {p}) /\ r = returned[p] /\ A <= B
    <3>1. ReadOurs \cup ReadGrsat \in SUBSET (1 .. air) /\ 1 .. air \in SUBSET (1 .. air)
      BY <1>1, Kinds
    <3>2. /\ Carry(ReadOurs \cup ReadGrsat, p) \in Nat /\ Carry(1 .. air, p) \in Nat
          /\ Carry(ReadOurs \cup ReadGrsat, p) <= Carry(1 .. air, p)
      BY <1>1, <3>1, Kinds, Zenon
    <3>3. returned[p] \in Nat
      BY <1>1 DEF SpanInv
    <3> QED BY <1>2, <3>2, <3>3
  <2>2. r <= A
    BY <2>1, Zenon DEF PassInv, CountsInv, OnceInv, Once
  <2>3. s + o <= r
    BY <1>1, <2>1, Zenon DEF SentInv
  <2>4. s <= B
    BY <2>1, <2>2, <2>3
  <2> QED BY <2>1, <2>4, CopiesAreNum, Zenon DEF Carry
<1> QED BY <1>4, <1>5 DEF EmittedExactly

(* Every frame a chain found goes out, and only as often as it was sent:   *)
(* a pass of satellite_rx that ends clean and without an exception has     *)
(* emitted at least as many copies of a payload as either chain found, and *)
(* while our decoders hold nothing back no pass emits more copies than     *)
(* there were transmissions, in any order of transmissions, drains, polls  *)
(* and the stop.                                                           *)
THEOREM EmittedExactlyCorrect == Spec => []EmittedExactly
<1>1. Spec => []PassInv
  BY PassInit, PassStep, PTL DEF Spec
<1> QED BY <1>1, PassEmits, PTL
=============================================================================
