----------------------------- MODULE BurstWriter -----------------------------
(***************************************************************************)
(* write_burst and poll_tx_status of _soapy_tx: one waveform of N samples  *)
(* is offered to the driver in chunks, bounded on every axis, and the      *)
(* driver's own status is drained before the burst is called complete.     *)
(* The driver, the clock and the caller's abort flag are the environment:  *)
(* a write may take any part of what it was offered, nothing, too much, or *)
(* fail.                                                                   *)
(***************************************************************************)
EXTENDS Integers, Sequences

CONSTANTS
    N,          \* samples in the burst
    Mtu,        \* what the driver says it takes in one write
    MaxChunk,   \* CHUNK_COMPLEX_SAMPLES
    MaxStalls,  \* empty writes in a row that are tolerated
    MaxPolls,   \* status reads after the burst
    HasStatus   \* the driver has a readStreamStatus

ASSUME BurstAssumption ==
    /\ N \in Nat /\ Mtu \in Int /\ MaxChunk \in Nat \ {0}
    /\ MaxStalls \in Nat /\ MaxPolls \in Nat /\ HasStatus \in BOOLEAN

chunk == IF Mtu < MaxChunk THEN Mtu ELSE MaxChunk

Outcomes == {"complete", "stalled", "error", "deadline", "cancelled", "discarded", "raised"}
Statuses == {"benign", "clean", "discard"}

VARIABLES
    pc,         \* "top", "write", "status" or "done"
    i,          \* samples accepted so far
    stalls,     \* empty writes in a row
    started,    \* times on_first_accept was called
    polls,      \* status reads so far
    aborted,    \* the caller's abort flag
    expired,    \* the burst deadline has passed
    outcome,
    air,        \* the samples the driver took, in order (history)
    empties,    \* empty writes since it last took any (history)
    heard       \* statuses the driver reported (history)

env  == <<aborted, expired>>
vars == <<pc, i, stalls, started, polls, env, outcome, air, empties, heard>>

TypeOK ==
    /\ pc \in {"top", "write", "status", "done"}
    /\ i \in 0 .. N /\ stalls \in 0 .. MaxStalls + 1
    /\ started \in 0 .. 1 /\ polls \in 0 .. MaxPolls
    /\ aborted \in BOOLEAN /\ expired \in BOOLEAN
    /\ outcome \in Outcomes \cup {"none"}
    /\ air \in Seq(Nat) /\ empties \in Nat
    /\ heard \in Seq(Statuses)

\* An empty buffer and a non-positive MTU are refused before any write.
Refused == N = 0 \/ chunk <= 0

Init ==
    /\ pc = IF Refused THEN "done" ELSE "top"
    /\ outcome = IF Refused THEN "error" ELSE "none"
    /\ i = 0 /\ stalls = 0 /\ started = 0 /\ polls = 0
    /\ aborted = FALSE /\ expired = FALSE
    /\ air = <<>> /\ empties = 0 /\ heard = <<>>

Finish(o) == pc' = "done" /\ outcome' = o
-----------------------------------------------------------------------------
Abort  == ~aborted /\ aborted' = TRUE
          /\ UNCHANGED <<pc, i, stalls, started, polls, expired, outcome, air, empties, heard>>
Expire == ~expired /\ expired' = TRUE
          /\ UNCHANGED <<pc, i, stalls, started, polls, aborted, outcome, air, empties, heard>>

\* The top of the loop, between writes: abort before deadline.  When all is
\* accepted the status is drained.
Top ==
    /\ pc = "top"
    /\ \/ i < N /\ aborted /\ Finish("cancelled")
       \/ i < N /\ ~aborted /\ expired /\ Finish("deadline")
       \/ i < N /\ ~aborted /\ ~expired /\ pc' = "write" /\ UNCHANGED outcome
       \/ i >= N /\ pc' = "status" /\ UNCHANGED outcome
    /\ UNCHANGED <<i, stalls, started, polls, env, air, empties, heard>>

num == IF chunk < N - i THEN chunk ELSE N - i

AcceptBug(ret) ==            \* a short write counts as a whole one
    /\ pc = "write" /\ ret \in 1 .. num
    /\ air' = air \o [k \in 1 .. ret |-> i + k - 1]
    /\ i' = i + num /\ stalls' = 0 /\ empties' = 0
    /\ started' = (IF started = 0 THEN 1 ELSE started)
    /\ pc' = "top"
    /\ UNCHANGED <<polls, env, outcome, heard>>

AcceptKeepsStallsBug(ret) == \* the stall counter is not reset by progress
    /\ pc = "write" /\ ret \in 1 .. num
    /\ air' = air \o [k \in 1 .. ret |-> i + k - 1]
    /\ i' = i + ret /\ empties' = 0
    /\ started' = (IF started = 0 THEN 1 ELSE started)
    /\ pc' = "top"
    /\ UNCHANGED <<stalls, polls, env, outcome, heard>>

\* The driver takes ret of the num samples it was offered from offset i on.
Accept(ret) ==
    /\ pc = "write" /\ ret \in 1 .. num
    /\ air' = air \o [k \in 1 .. ret |-> i + k - 1]
    /\ i' = i + ret /\ stalls' = 0 /\ empties' = 0
    /\ started' = (IF started = 0 THEN 1 ELSE started)
    /\ pc' = "top"
    /\ UNCHANGED <<polls, env, outcome, heard>>

TakeNothingBug ==            \* an empty write is progressless success
    /\ pc = "write" /\ pc' = "top"
    /\ UNCHANGED <<i, stalls, started, polls, env, outcome, air, empties, heard>>

TakeNothingEarlyBug ==       \* the last tolerated empty write ends the burst
    /\ pc = "write"
    /\ stalls' = stalls + 1 /\ empties' = empties + 1
    /\ IF stalls + 1 >= MaxStalls THEN Finish("stalled") ELSE pc' = "top" /\ UNCHANGED outcome
    /\ UNCHANGED <<i, started, polls, env, air, heard>>

TakeNothing ==
    /\ pc = "write"
    /\ stalls' = stalls + 1 /\ empties' = empties + 1
    /\ IF stalls + 1 > MaxStalls THEN Finish("stalled") ELSE pc' = "top" /\ UNCHANGED outcome
    /\ UNCHANGED <<i, started, polls, env, air, heard>>

\* A negative result, or one larger than was offered: nothing is advanced.  What
\* writeStream raises goes to the caller, who gets no result.
WriteFails ==
    /\ pc = "write" /\ \E o \in {"error", "raised"} : Finish(o)
    /\ UNCHANGED <<i, stalls, started, polls, env, air, empties, heard>>

PollStatusBug(s) ==          \* only the first status is looked at
    /\ pc = "status" /\ HasStatus /\ polls < MaxPolls
    /\ polls' = polls + 1 /\ heard' = Append(heard, s)
    /\ CASE s = "discard" /\ polls = 0 -> Finish("discarded")
         [] s = "benign" -> UNCHANGED <<pc, outcome>>
         [] OTHER -> Finish("complete")
    /\ UNCHANGED <<i, stalls, started, env, air, empties>>

\* One readStreamStatus: a discard (an underflow, a time error, an abrupt
\* end, any unexpected negative) is definitive; a timeout, an unsupported or
\* raising read is clean; a benign event is drained.
PollStatus(s) ==
    /\ pc = "status" /\ HasStatus /\ polls < MaxPolls
    /\ polls' = polls + 1 /\ heard' = Append(heard, s)
    /\ CASE s = "discard" -> Finish("discarded")
         [] s = "clean"   -> Finish("complete")
         [] s = "benign"  -> UNCHANGED <<pc, outcome>>
    /\ UNCHANGED <<i, stalls, started, env, air, empties>>

\* No status to read, or as many read as may be, or the poll deadline passed.
StatusEnds ==
    /\ pc = "status"
    /\ Finish("complete")
    /\ UNCHANGED <<i, stalls, started, polls, env, air, empties, heard>>
-----------------------------------------------------------------------------
Finished == pc = "done" /\ UNCHANGED vars

Write == (\E ret \in 1 .. N : Accept(ret)) \/ TakeNothing \/ WriteFails
Status == (\E s \in Statuses : PollStatus(s)) \/ StatusEnds

Next == Abort \/ Expire \/ Top \/ Write \/ Status \/ Finished

Spec == Init /\ [][Next]_vars

\* The thread runs, and a driver call returns (a hung native call is bounded
\* by the orchestrator only).
FairSpec == Spec /\ WF_vars(Top) /\ WF_vars(Write) /\ WF_vars(Status)
-----------------------------------------------------------------------------
\* Whatever the driver took of each chunk, the samples go out in order, none
\* twice and none skipped, the count the caller is told is what went out, and
\* transmit_started is said once, with the first sample and never without one.
FlownAsTold == /\ Len(air) = i
               /\ \A k \in DOMAIN air : air[k] = k - 1
               /\ started = IF air = <<>> THEN 0 ELSE 1

\* "complete" means the whole waveform was taken and no status that was read
\* reported a discard (R-16, finding 22).
CompleteIsWhole ==
    outcome = "complete" => /\ N > 0 /\ Len(air) = N
                            /\ \A k \in DOMAIN heard : heard[k] # "discard"

\* "stalled" takes MaxStalls + 1 empty writes in a row, and no more are made.
StallIsExact == /\ empties <= MaxStalls + 1
                /\ outcome = "stalled" <=> empties = MaxStalls + 1

\* The two outcomes that say something of the device are earned: a burst that
\* was discarded is not complete, and one that was still accepted is not stalled.
OutcomeIsTrue == CompleteIsWhole /\ StallIsExact

\* The burst ends, whatever the driver returns and with no deadline at all.
BurstEnds == <>(pc = "done")
=============================================================================
