----------------------------- MODULE BoundedQueue -----------------------------
(***************************************************************************)
(* native_framing.runtime_queue: the FIFO between a GNU Radio scheduler    *)
(* thread, which may never block, and the decoding coroutine.  An item     *)
(* that does not fit is refused whole and counted.  The consumer polls:    *)
(* it reads the statistics, fails closed on any loss (require_lossless),   *)
(* and drains.  Statistics and drain take the lock one after the other, so *)
(* the producer may run between them.                                      *)
(*                                                                         *)
(* Items are numbered in the order they are offered.                       *)
(***************************************************************************)
EXTENDS Integers, Sequences

CONSTANTS
    CapItems,   \* capacity_items
    CapUnits,   \* capacity_units (symbols, or bytes)
    Sizes,      \* units an item may have
    MaxOffers   \* bound: items offered

ASSUME QueueAssumption ==
    /\ CapItems \in Nat \ {0} /\ CapUnits \in Nat \ {0}
    /\ Sizes \subseteq Nat /\ MaxOffers \in Nat

VARIABLES
    items,          \* the deque: ids with their units
    queuedUnits,
    acceptedItems, acceptedUnits,
    drainedItems, drainedUnits,
    droppedItems, droppedUnits,
    consumer,       \* "idle", "checked" (statistics read), "failed"
    offered,        \* items offered so far (history)
    accepted,       \* ids taken, in order (history)
    handed          \* ids given to the decoder, in order (history)

counters == <<acceptedItems, acceptedUnits, drainedItems, drainedUnits>>
drops    == <<droppedItems, droppedUnits>>
vars == <<items, queuedUnits, counters, drops, consumer, offered, accepted, handed>>

Entry == [id : Nat, units : Nat]
Ids(entries) == [i \in 1 .. Len(entries) |-> entries[i].id]

\* The queue never holds more than its two capacities.
TypeOK ==
    /\ items \in Seq(Entry) /\ Len(items) <= CapItems
    /\ queuedUnits \in Nat /\ queuedUnits <= CapUnits
    /\ acceptedItems \in Nat /\ acceptedUnits \in Nat
    /\ drainedItems \in Nat /\ drainedUnits \in Nat
    /\ droppedItems \in Nat /\ droppedUnits \in Nat
    /\ consumer \in {"idle", "checked", "failed"}
    /\ offered \in Nat /\ accepted \in Seq(Nat) /\ handed \in Seq(Nat)

Init ==
    /\ items = <<>> /\ queuedUnits = 0
    /\ acceptedItems = 0 /\ acceptedUnits = 0 /\ drainedItems = 0 /\ drainedUnits = 0
    /\ droppedItems = 0 /\ droppedUnits = 0
    /\ consumer = "idle" /\ offered = 0 /\ accepted = <<>> /\ handed = <<>>
-----------------------------------------------------------------------------
Fits(units) == Len(items) < CapItems /\ queuedUnits + units <= CapUnits

\* The producer's thread offers an item.
Offer(units) ==
    /\ offered < MaxOffers /\ offered' = offered + 1
    /\ IF Fits(units)
          THEN /\ items' = Append(items, [id |-> offered', units |-> units])
               /\ queuedUnits' = queuedUnits + units
               /\ acceptedItems' = acceptedItems + 1 /\ acceptedUnits' = acceptedUnits + units
               /\ accepted' = Append(accepted, offered')
               /\ UNCHANGED drops
          ELSE /\ droppedItems' = droppedItems + 1 /\ droppedUnits' = droppedUnits + units
               /\ UNCHANGED <<items, queuedUnits, acceptedItems, acceptedUnits, accepted>>
    /\ UNCHANGED <<drainedItems, drainedUnits, consumer, handed>>

RequireLosslessBug == droppedUnits = 0     \* a refused empty marker goes unnoticed

RequireLossless == droppedItems = 0

\* The consumer reads the statistics, and raises QueueOverflowError on a loss.
Check ==
    /\ consumer = "idle"
    /\ consumer' = IF RequireLossless THEN "checked" ELSE "failed"
    /\ UNCHANGED <<items, queuedUnits, counters, drops, offered, accepted, handed>>

\* Everything queued is handed over, in order.
Drain ==
    /\ consumer = "checked" /\ consumer' = "idle"
    /\ handed' = handed \o Ids(items)
    /\ items' = <<>> /\ queuedUnits' = 0
    /\ drainedItems' = drainedItems + Len(items) /\ drainedUnits' = drainedUnits + queuedUnits
    /\ UNCHANGED <<acceptedItems, acceptedUnits, drops, offered, accepted>>

Failed == consumer = "failed" /\ UNCHANGED vars

Next == (\E units \in Sizes : Offer(units)) \/ Check \/ Drain \/ Failed

Spec == Init /\ [][Next]_vars

\* The consumer polls for as long as the pass lasts.
FairSpec == Spec /\ WF_vars(Check) /\ WF_vars(Drain)
-----------------------------------------------------------------------------
\* The statistics add up at every moment: what was accepted was drained or is
\* queued, in the order of the offers, and every offer was accepted or dropped.
Accounting ==
    /\ accepted = handed \o Ids(items)
    /\ acceptedItems = drainedItems + Len(items)
    /\ acceptedUnits = drainedUnits + queuedUnits
    /\ offered = acceptedItems + droppedItems

\* The items handed over are the first ones offered, none missing.
Gapless(ids) == \A i \in DOMAIN ids : ids[i] = i

\* Fail closed: once the decoder was given data from behind a loss, it is
\* never given anything again.
NothingAfterGap == [][handed' # handed => Gapless(handed)]_vars

\* A loss makes the consumer fail.
LossFails == droppedItems > 0 ~> consumer = "failed"
=============================================================================
