--------------------------- MODULE ShadowReconciler ---------------------------
(***************************************************************************)
(* native_framing.shadow_runtime: two decoders see the same radio stream   *)
(* and are polled together; a frame both of them found is emitted once,    *)
(* also when one of them finds it a poll later, and equal frames from ONE  *)
(* decoder are always different frames.                                    *)
(***************************************************************************)
EXTENDS FramePairing

CONSTANTS
    Payloads,     \* the comparison keys
    MaxLag,       \* max_lag_polls
    MaxPending,   \* max_pending_items
    MaxPolls,     \* bound: polls of a pass
    MaxBatch      \* bound: frames of one engine in one poll

Pending == [source : Source, key : Payloads, generation : Nat]
Batch   == UNION {[1 .. n -> Payloads] : n \in 0 .. MaxBatch}

VARIABLES
    pending,      \* observations not yet matched, oldest first
    generation,   \* polls so far
    matched,      \* matched_pairs, which is also duplicates_suppressed
    only,         \* primary_only and reference_only
    emitted,      \* emitted_frames
    state,        \* "open", "finalized", or "raised" (ShadowCapacityError)
    seen,         \* observations per source and payload (history)
    returned      \* frames returned to the app, per payload (history)

vars == <<pending, generation, matched, only, emitted, state, seen, returned>>

TypeOK ==
    /\ pending \in Seq(Pending) /\ Len(pending) <= MaxPending
    /\ generation \in 0 .. MaxPolls
    /\ matched \in Nat /\ only \in [Source -> Nat] /\ emitted \in Nat
    /\ state \in {"open", "finalized", "raised"}
    /\ seen \in [Source -> [Payloads -> Nat]] /\ returned \in [Payloads -> Nat]

Init ==
    /\ pending = <<>> /\ generation = 0 /\ matched = 0
    /\ only = [s \in Source |-> 0] /\ emitted = 0 /\ state = "open"
    /\ seen = [s \in Source |-> [p \in Payloads |-> 0]]
    /\ returned = [p \in Payloads |-> 0]
-----------------------------------------------------------------------------
Horizon == generation + 1 - MaxLag

\* One poll: what the new batches leave pending, matched and to be returned.
Poll(primary, reference) ==
    LET start == [pending |-> Retained(pending, Horizon), matched |-> matched, out |-> <<>>,
                  raised |-> FALSE]
    IN Side("reference", generation + 1, MaxPending,
            Side("primary", generation + 1, MaxPending, start, primary), reference)

GivenUp(minimum) == [s \in Source |-> only[s] + Expired(pending, minimum, s)]

\* If the capacity is exceeded the batch is not returned.
Reconcile(primary, reference) ==
    LET done == Poll(primary, reference)
    IN /\ state = "open" /\ generation < MaxPolls
       /\ generation' = generation + 1 /\ only' = GivenUp(Horizon)
       /\ pending' = done.pending /\ matched' = done.matched
       /\ emitted' = emitted + Len(done.out)
       /\ state' = IF done.raised THEN "raised" ELSE "open"
       /\ seen' = [s \in Source |->
                      [p \in Payloads |->
                          seen[s][p] + Tally(IF s = "primary" THEN primary ELSE reference, p)]]
       /\ returned' = IF done.raised THEN returned
                      ELSE [p \in Payloads |-> returned[p] + Tally(done.out, p)]

Finalize ==
    LET minimum == generation + MaxLag + 1
    IN /\ state = "open" /\ state' = "finalized"
       /\ pending' = Retained(pending, minimum) /\ only' = GivenUp(minimum)
       /\ UNCHANGED <<generation, matched, emitted, seen, returned>>

Closed == state # "open" /\ UNCHANGED vars

Next == (\E primary, reference \in Batch : Reconcile(primary, reference)) \/ Finalize \/ Closed

Spec == Init /\ [][Next]_vars
-----------------------------------------------------------------------------
\* The summary the app reports adds up: every frame emitted was matched,
\* given up or is pending, and every observation was emitted or suppressed.
Accounting ==
    /\ emitted = matched + only["primary"] + only["reference"] + Len(pending)
    /\ state # "raised" =>
         MapThenSumSet(LAMBDA sp : seen[sp[1]][sp[2]], Source \X Payloads) = emitted + matched

\* No frame is lost to the comparison: the app gets at least as many copies
\* of a payload as either engine found.
RepeatsPreserved ==
    state # "raised" => \A s \in Source, p \in Payloads : returned[p] >= seen[s][p]

\* Nothing waits for a partner that is already there, and nothing that is
\* too old to be matched waits; after the final summary nothing does.
Settled ==
    /\ state = "finalized" => pending = <<>>
    /\ \A i \in DOMAIN pending :
        /\ generation - pending[i].generation <= MaxLag
        /\ Partners(pending, pending[i].source, pending[i].key) = {}
=============================================================================
