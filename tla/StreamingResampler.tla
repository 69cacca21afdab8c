--------------------------- MODULE StreamingResampler ---------------------------
(***************************************************************************)
(* The audio of a capture, derived in chunks (apps/iq_views.py): the FM       *)
(* discriminator, whose every sample needs the one before it, and the         *)
(* polyphase resampler, which keeps a history of the FIR's length and holds   *)
(* back what does not fill a decimation step.  A sample is named for what it   *)
(* is computed from: the arithmetic is the library's, the indices are here.    *)
(***************************************************************************)
EXTENDS Naturals, Integers, Sequences

CONSTANTS Ratios,   \* pairs <<up, down>>, in lowest terms
          Taps,     \* half the filter, in units of the larger of the two (10 in the code)
          MaxLength \* samples of the capture

VARIABLES up, down,      \* the ratio
          prev,          \* the last IQ sample of the chunk before, 0 for none
          pending,       \* discriminator samples that do not fill a step
          history,       \* what the filter has to remember
          processed,     \* samples filtered
          next,          \* the output to come
          out,           \* everything written to the encoder
          closed         \* flushed

resampleVars == <<up, down, prev, pending, history, processed, next, out, closed>>

Larger(a, b) == IF a >= b THEN a ELSE b
CeilDiv(a, b) == (a + b - 1) \div b
Identity == up = down

\* The FIR of resample_poly's default design.
NTaps == 2 * Taps * Larger(up, down) + 1

\* Mutant: the history is as long as the filter, and no longer on a step.
HistoryLengthBug == CeilDiv(NTaps - 1, up)

\* Enough for the filter, in whole steps of the decimation.
HistoryLength == CeilDiv(CeilDiv(NTaps - 1, up), down) * down

ResamplerInit ==
    /\ \E r \in Ratios : up = r[1] /\ down = r[2]
    /\ prev = 0 /\ pending = <<>> /\ history = <<>> /\ processed = 0 /\ next = 0
    /\ out = <<>> /\ closed = FALSE

\* A discriminator sample: the two IQ samples it compares; the first is silence.
Discriminated(n, before) == [i \in 1..n |-> <<IF i = 1 THEN before ELSE before + i - 1, before + i>>]

\* upfirdn: output q is over the inputs j with 0 <= q * down - j * up < taps.
UpFirDn(source) ==
    [q \in 1..(((Len(source) - 1) * up + NTaps - 1) \div down + 1) |->
        {source[j + 1] : j \in {k \in 0..(Len(source) - 1) :
                                   (q - 1) * down - k * up \in 0..(NTaps - 1)}}]

Last(s, n) == SubSeq(s, Larger(1, Len(s) - n + 1), Len(s))

\* _process_aligned.
Filter(block, flush) ==
    LET start    == processed - Len(history)
        source   == history \o block
        filtered == UpFirDn(source)
        total    == processed + Len(block)
        last     == IF flush THEN ((total - 1) * up + NTaps - 1) \div down
                    ELSE (total * up - 1) \div down
        offset   == (start * up) \div down
        stop     == IF last - offset + 1 <= Len(filtered) THEN last - offset + 1 ELSE Len(filtered)
    IN  /\ out' = out \o SubSeq(filtered, next - offset + 1, stop)
        /\ processed' = total /\ next' = last + 1
        /\ history' = Last(source, IF HistoryLength <= total THEN HistoryLength ELSE total)

\* The chunk behind what is pending: whole steps are filtered, the rest waits.
Process(block) ==
    LET joined == pending \o block
        take   == (Len(joined) \div down) * down
    IN  IF Identity
        THEN /\ out' = out \o [i \in DOMAIN block |-> {block[i]}]
             /\ UNCHANGED <<pending, history, processed, next>>
        ELSE /\ pending' = SubSeq(joined, take + 1, Len(joined))
             /\ IF take = 0 THEN UNCHANGED <<history, processed, next, out>>
                ELSE Filter(SubSeq(joined, 1, take), FALSE)

\* Mutant: every chunk starts from silence.
ChunkBug(n) ==
    /\ ~closed /\ prev + n <= MaxLength /\ prev' = prev + n
    /\ Process([Discriminated(n, prev) EXCEPT ![1] = <<0, prev + 1>>])
    /\ UNCHANGED <<up, down, closed>>

\* One chunk of the capture, of any size: discriminate, then process.
Chunk(n) ==
    /\ ~closed /\ prev + n <= MaxLength /\ prev' = prev + n
    /\ Process(Discriminated(n, prev))
    /\ UNCHANGED <<up, down, closed>>

\* The end of the capture: the group delay of the filter is drained.
Flush ==
    /\ ~closed /\ prev >= 2 /\ closed' = TRUE /\ pending' = <<>>
    /\ IF Identity THEN UNCHANGED <<history, processed, next, out>> ELSE Filter(pending, TRUE)
    /\ UNCHANGED <<up, down, prev>>

ResamplerEnds == closed /\ UNCHANGED resampleVars

ResamplerNext == (\E n \in 1..MaxLength : Chunk(n)) \/ Flush \/ ResamplerEnds
-----------------------------------------------------------------------------
\* The same capture in one piece.
Whole == Discriminated(prev, 0)

\* The audio is what one chunk of the whole capture gives: no sample is lost,
\* repeated or computed from less than its inputs at a chunk boundary, and at
\* the end the filter's tail is there.
ChunkingUnseen ==
    LET expected == IF Identity THEN [i \in 1..prev |-> {Whole[i]}] ELSE UpFirDn(Whole)
    IN  /\ Len(out) <= Len(expected)
        /\ \A i \in DOMAIN out : out[i] = expected[i]
        /\ closed => Len(out) = Len(expected)
=============================================================================
