----------------------------- MODULE FramePairing -----------------------------
(***************************************************************************)
(* The computation of native_framing.shadow_runtime on the observations    *)
(* that wait for a partner: which are too old, which one a new observation *)
(* is paired with, and what a batch of one engine does to them.            *)
(***************************************************************************)
EXTENDS Integers, Sequences, FiniteSets, SequencesExt

Source   == {"primary", "reference"}
Opposite == [primary |-> "reference", reference |-> "primary"]

\* Observations too old to be matched are one engine's own.
Retained(list, minimum) ==
    LET kept[i \in 0 .. Len(list)] ==
            IF i = 0 THEN <<>>
            ELSE IF list[i].generation >= minimum THEN Append(kept[i - 1], list[i])
            ELSE kept[i - 1]
    IN kept[Len(list)]

Expired(list, minimum, source) ==
    Cardinality({i \in DOMAIN list : list[i].generation < minimum /\ list[i].source = source})

Partners(list, source, key) ==
    {i \in DOMAIN list : list[i].source = Opposite[source] /\ list[i].key = key}

\* One observation of one source: it completes the oldest pair it can, or is
\* emitted and waits for its partner, if there is room.  `r' is the state of
\* the batch so far.
ObserveBug(source, now, limit, r, key) ==    \* the partner stays for the next one
    LET partners == Partners(r.pending, source, key)
    IN CASE r.raised -> r
         [] ~r.raised /\ partners # {} -> [r EXCEPT !.matched = @ + 1]
         [] ~r.raised /\ partners = {} /\ Len(r.pending) >= limit -> [r EXCEPT !.raised = TRUE]
         [] OTHER -> [r EXCEPT !.out = Append(@, key),
                               !.pending = Append(@, [source |-> source, key |-> key,
                                                      generation |-> now])]

Observe(source, now, limit, r, key) ==
    LET partners == Partners(r.pending, source, key)
        oldest   == CHOOSE i \in partners : \A j \in partners : i <= j
    IN CASE r.raised -> r
         [] ~r.raised /\ partners # {} ->
              [r EXCEPT !.pending = RemoveAt(@, oldest), !.matched = @ + 1]
         [] ~r.raised /\ partners = {} /\ Len(r.pending) >= limit -> [r EXCEPT !.raised = TRUE]
         [] OTHER -> [r EXCEPT !.out = Append(@, key),
                               !.pending = Append(@, [source |-> source, key |-> key,
                                                      generation |-> now])]

\* The batch of one source.  (The singleton makes TLC evaluate the state of
\* the batch once per observation.)
Side(source, now, limit, start, batch) ==
    LET after[i \in 0 .. Len(batch)] ==
            IF i = 0 THEN start
            ELSE CHOOSE t \in {Observe(source, now, limit, r, batch[i]) : r \in {after[i - 1]}} : TRUE
    IN after[Len(batch)]

Tally(batch, key) == Cardinality({i \in DOMAIN batch : batch[i] = key})
=============================================================================
