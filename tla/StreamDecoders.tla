---------------------------- MODULE StreamDecoders ----------------------------
(***************************************************************************)
(* The streaming decoders of native_framing: symbols come in pieces of any  *)
(* size, whatever the symbol queue held at a poll, and every frame has to be *)
(* found once, at its place, with a bounded number of symbols kept back.     *)
(*                                                                         *)
(* Every profile of the registry is a row: what it collects behind which    *)
(* sync word, through which line code, and what its decoding chain accepts.  *)
(* The widths are scaled down: sync words of three to four bits, captures of *)
(* a few symbols, a parity bit for FEC and CRC.  The machinery (correlator,  *)
(* pending captures, buffer and its trimming, HDLC window, line code memory) *)
(* is the code's.                                                           *)
(***************************************************************************)
EXTENDS Integers, Sequences, FiniteSets, SequencesExt

CONSTANTS Catalogue,    \* the profiles to run
          Pieces        \* the numbers of symbols one poll may bring

VARIABLES profile,      \* the decoder that is built
          row,          \* and what the registry says of it
          line,         \* every symbol that came, in order
          front,        \* what its line code remembers
          inner,        \* the state of what collects the frames
          frames,       \* the frames returned so far, in order
          raised,       \* the decoder raised RuntimeError
          flushed

decoderVars == <<profile, row, line, front, inner, frames, raised, flushed>>
-----------------------------------------------------------------------------
(* What the decoding chains accept.  A verdict is an integrity and the      *)
(* payload; the integrity "none" stands for no frame.                       *)

Refused == [integrity |-> "none", payload |-> <<>>]
Ones(bits) == Len(SelectSeq(bits, LAMBDA b : b = 1))

\* FEC and CRC over all of it.
Checked(bits) ==
    IF Len(bits) > 1 /\ Ones(bits) % 2 = 0
       THEN [integrity |-> "passed", payload |-> Front(bits)] ELSE Refused

\* The first two bits declare how much of the capture is the packet.
Declared(bits, least, extra) ==
    LET n == 2 * bits[1] + bits[2] + extra
    IN  IF n < least \/ 2 + n > Len(bits) THEN Refused
        ELSE Checked(SubSeq(bits, 3, 2 + n))

\* cc11xx_packet and head_tail: then the head of what passed is cut off.
Cropped(bits) ==
    LET v == Declared(bits, 2, 1)
    IN  IF v.integrity = "none" THEN v ELSE [v EXCEPT !.payload = Tail(@)]

\* The header says whether anything checks the rest.
Flagged(bits) ==
    IF bits[1] = 1 THEN Checked(Tail(bits))
    ELSE [integrity |-> "not_present", payload |-> Tail(bits)]

\* Blocks of two bits, each with its own check; one that holds is enough.
Blocks(bits) ==
    LET n    == Len(bits) \div 2
        good == {b \in 1..n : bits[2 * b - 1] = bits[2 * b]}
    IN  IF good = {} THEN Refused
        ELSE [integrity |-> IF good = 1..n THEN "passed" ELSE "failed",
              payload   |-> [b \in 1..n |-> bits[2 * b]]]

\* Opening flag, content up to the next flag, and a checksum over it.
Delimited(bits) ==
    LET closing == {i \in 2..Len(bits) : bits[i] = 1}
    IN  IF bits[1] = 0 \/ closing = {} THEN Refused
        ELSE Checked(SubSeq(bits, 2, Min(closing) - 1))

Unchecked(bits) == [integrity |-> "not_present", payload |-> bits]

\* A soft code without a check: what does not look like a codeword is dropped.
Plausible(bits) ==
    IF Checked(bits).integrity = "none" THEN Refused ELSE Unchecked(bits)

Verdict(c, bits) ==
    CASE c.chain = "checked"   -> Checked(bits)
      [] c.chain = "declared"  -> Declared(bits, c.least, c.extra)
      [] c.chain = "cropped"   -> Cropped(bits)
      [] c.chain = "flagged"   -> Flagged(bits)
      [] c.chain = "delimited" -> Delimited(bits)
      [] c.chain = "blocks"    -> Blocks(SubSeq(bits, c.header + 1, Len(bits)))
      [] c.chain = "sized"     -> Checked(SubSeq(bits, c.header + 1, Len(bits)))
      [] c.chain = "plausible" -> Plausible(bits)
      [] c.chain = "unchecked" -> Unchecked(bits)
-----------------------------------------------------------------------------
(* The catalogue.                                                          *)

Collector == [family |-> "collect", input |-> "hard", symbols |-> {0, 1}, code |-> "plain",
              memory |-> <<>>, syncs |-> << <<1, 1, 0>> >>, threshold |-> 0, header |-> 0, body |-> 4,
              chain |-> "checked", least |-> 1, extra |-> 0, most |-> 10]

Ax100Mode6  == [Collector EXCEPT !.code = "descrambler", !.memory = <<0, 0>>,
                                 !.chain = "declared", !.extra = -1, !.least = 2]
Ax100Asm    == [Collector EXCEPT !.chain = "declared", !.least = 1]
U482c       == [Collector EXCEPT !.chain = "flagged"]
Cc11xx      == [Collector EXCEPT !.chain = "cropped", !.body = 5]
Grizu       == [Collector EXCEPT !.chain = "cropped", !.syncs = << <<1, 1, 0, 1>> >>,
                                 !.threshold = 1, !.body = 5]
Openlst     == [Collector EXCEPT !.chain = "declared", !.extra = 1, !.least = 2]
Sanosat     == [Collector EXCEPT !.chain = "cropped", !.body = 5]
Snet        == [Collector EXCEPT !.chain = "declared", !.syncs = << <<1, 0, 1, 1>> >>]
Geoscan     == [Collector EXCEPT !.body = 3]
Tt64        == [Collector EXCEPT !.syncs = << <<1, 1, 0, 1>> >>, !.threshold = 1, !.body = 3]
Ao40Uncoded == [Collector EXCEPT !.syncs = << <<1, 1, 0, 1>> >>, !.threshold = 2, !.body = 3]
Fx25        == [Collector EXCEPT !.code = "nrzi", !.memory = <<1>>, !.chain = "delimited"]
CcsdsRs     == [Collector EXCEPT !.code = "differential", !.memory = <<0>>]
CcsdsUncoded == [Collector EXCEPT !.chain = "unchecked"]
Smogp       == [Collector EXCEPT !.syncs = << <<1, 1, 0>>, <<1, 0, 0>> >>, !.threshold = 1,
                                 !.chain = "unchecked", !.body = 2, !.most = 8]

Soft       == [Collector EXCEPT !.input = "soft", !.symbols = {-1, 0, 1}, !.most = 7]
Usp        == [Soft EXCEPT !.chain = "declared", !.syncs = << <<1, 0>> >>]
SmogpRa    == [Soft EXCEPT !.body = 2, !.chain = "plausible", !.syncs = << <<1, 0>> >>]
Ao40Fec    == [Soft EXCEPT !.family = "spread", !.body = 2, !.chain = "checked"]
Concatenated == [Soft EXCEPT !.family = "concatenated", !.symbols = {-1, 1},
                             !.syncs = << <<1, 0>> >>, !.body = 2, !.most = 11]

\* A header decides how long the capture is: a size tag that has to match, or
\* a control word whose block count has to be in range.
Ngham   == [Collector EXCEPT !.header = 2, !.chain = "sized", !.most = 11]
Mobitex == [Soft EXCEPT !.header = 2, !.chain = "blocks", !.symbols = {-1, 1},
                        !.syncs = << <<1, 0>> >>, !.most = 11]

\* Flags of two ones, stuffing after one; the window bound follows the frame
\* limit like the code's.
Hdlc  == [family |-> "hdlc", symbols |-> {0, 1}, scrambled |-> {FALSE, TRUE}, limit |-> 1,
          window |-> 11, most |-> 12]
Ax25  == Hdlc
G3ruh == [Hdlc EXCEPT !.scrambled = {TRUE}]

\* The deframers of gfsk_ax25 over the bits of one poll and a tail.
Legacy == [family |-> "legacy", symbols |-> {0, 1}, tail |-> 12, most |-> 14]

\* The registry, in its order.
LinkRows == [ax25 |-> Ax25, ax25_g3ruh |-> G3ruh, ax100_mode6 |-> Ax100Mode6,
             ax100_asm_golay |-> Ax100Asm, usp |-> Usp, mobitex |-> Mobitex]
CodedRows == [geoscan |-> Geoscan, ao40_fec |-> Ao40Fec, ao40_uncoded |-> Ao40Uncoded,
              ccsds_concatenated |-> Concatenated]
PlainRows == [ccsds_reed_solomon |-> CcsdsRs, ccsds_uncoded |-> CcsdsUncoded, ngham |-> Ngham,
              u482c |-> U482c, snet |-> Snet, openlst |-> Openlst]
MissionRows == [cc11xx |-> Cc11xx, smogp_ra |-> SmogpRa, smogp_signalling |-> Smogp,
                fx25_nrzi |-> Fx25, tt64 |-> Tt64, sanosat |-> Sanosat, grizu263a |-> Grizu]
Rows == LinkRows @@ CodedRows @@ PlainRows @@ MissionRows @@ [legacy |-> Legacy]
Row(name) == Rows[name]

\* How long a capture its header asks for, 0 for a header that is refused.
CaptureFor(c, header) ==
    CASE c.chain = "sized"  -> (CASE header = <<0, 0>> -> 4 [] header = <<1, 1>> -> 6
                                  [] OTHER -> 0)
      [] c.chain = "blocks" -> (CASE header = <<0, 1>> -> 4 [] header = <<1, 1>> -> 6
                                  [] OTHER -> 0)
      [] OTHER -> c.body
LongestCapture(c) == IF c.chain \in {"sized", "blocks"} THEN 6 ELSE c.body
-----------------------------------------------------------------------------
(* The correlator.  Soft distances are weighted by confidence and compared  *)
(* over a common unit, so that they stay whole numbers.                     *)

Distances(c, sync, window) ==
    LET n       == Len(sync)
        wrong   == Cardinality({i \in 1..n : window[i] # sync[i]})
        weight  == Cardinality({i \in 1..n : window[i] # 0})
        product == FoldLeft(LAMBDA sum, i : sum + window[i] * (2 * sync[i] - 1), 0,
                            [i \in 1..n |-> i])
    IN  CASE c.input = "hard" -> [normal |-> wrong, inverted |-> n - wrong, unit |-> 1]
          [] c.input = "soft" /\ weight = 0 -> [normal |-> n, inverted |-> 0, unit |-> 1]
          [] OTHER -> [normal |-> (weight - product) * n, inverted |-> (weight + product) * n,
                       unit |-> 2 * weight]

Correlates(c, sync, window) ==
    LET d == Distances(c, sync, window)
    IN  d.normal <= c.threshold * d.unit \/ d.inverted <= c.threshold * d.unit

PolarityOf(c, sync, window) ==
    LET d == Distances(c, sync, window)
    IN  CASE d.normal < d.inverted -> "normal"
          [] d.normal > d.inverted -> "inverted"
          [] OTHER -> "ambiguous"

\* The bits of a capture, turned over for an inverted sync.
BitsOf(c, polarity, capture) ==
    [i \in 1..Len(capture) |->
        CASE c.input = "hard" /\ polarity = "inverted" -> 1 - capture[i]
          [] c.input = "soft" /\ polarity = "inverted" -> IF capture[i] < 0 THEN 1 ELSE 0
          [] OTHER -> IF capture[i] > 0 THEN 1 ELSE 0]

FrameOf(start, end, polarity, verdict) ==
    [start |-> start, end |-> end, polarity |-> polarity,
     integrity |-> verdict.integrity, payload |-> verdict.payload]

\* The last n of a sequence; the code's combined[-keep:].
KeepLast(n, s) == SubSeq(s, (IF Len(s) > n THEN Len(s) - n ELSE 0) + 1, Len(s))
-----------------------------------------------------------------------------
(* The collectors.  They work on the output of the line code; positions     *)
(* count its symbols, from 0, and an end is the position after the last.    *)

NoCollector == [tail |-> <<>>, buffer |-> <<>>, base |-> 0, total |-> 0, pending |-> <<>>]

\* StreamingSync.push: every window that ends in the new piece, in order.
NewMatches(c, sync, k, piece) ==
    LET all      == k.tail \o piece
        n        == Len(sync)
        at       == SelectSeq([i \in 1..(Len(all) - n + 1) |-> i],
                              LAMBDA i : Correlates(c, sync, SubSeq(all, i, i + n - 1)))
        place(i) == k.total - Len(k.tail) + i - 1
    IN  [j \in 1..Len(at) |->
            [sync     |-> place(at[j]), start |-> place(at[j]) + n,
             polarity |-> PolarityOf(c, sync, SubSeq(all, at[j], at[j] + n - 1))]]

Inside(k, from, to) == from >= k.base /\ to - k.base <= Len(k.buffer)
Cut(k, from, to)    == SubSeq(k.buffer, from - k.base + 1, to - k.base)

\* What a pending capture waits for; nothing for one that is refused.
HeaderEnd(c, p) == p.start + c.header
CaptureEnd(c, k, p) ==
    IF c.header > 0 /\ (p.polarity = "ambiguous" \/ ~Inside(k, p.start, HeaderEnd(c, p)))
       THEN p.start
    ELSE LET size == CaptureFor(c, BitsOf(c, p.polarity, Cut(k, p.start, HeaderEnd(c, p))))
         IN  IF size = 0 THEN p.start ELSE HeaderEnd(c, p) + size
Waits(c, k, p) ==
    \/ HeaderEnd(c, p) > k.total
    \/ CaptureEnd(c, k, p) > k.total

\* _decode: a sync whose polarity is open gives no frame.
Decoded(c, k, p) ==
    LET end == CaptureEnd(c, k, p)
        v   == Verdict(c, BitsOf(c, p.polarity, Cut(k, p.start, end)))
    IN  IF end = p.start \/ p.polarity = "ambiguous" \/ v.integrity = "none" THEN <<>>
        ELSE <<FrameOf(p.sync, end, p.polarity, v)>>

Starts(k) == {k.pending[i].start : i \in DOMAIN k.pending}
KeepFrom(k, place) == [k EXCEPT !.buffer = Cut(k, place, k.total), !.base = place]

TrimBug(k) ==                         \* keeps the newest capture only
    IF k.pending = <<>> THEN KeepFrom(k, k.total)
    ELSE KeepFrom(k, CHOOSE i \in Starts(k) : \A j \in Starts(k) : j <= i)

\* _trim_buffer: nothing is kept that no capture waits for.
Trim(k) ==
    IF k.pending = <<>> THEN KeepFrom(k, k.total)
    ELSE KeepFrom(k, CHOOSE i \in Starts(k) : \A j \in Starts(k) : i <= j)

MaxRetained(c, sync) == c.header + LongestCapture(c) + Len(sync) - 1

TailSizeBug(sync) == Len(sync)        \* finds a sync at the boundary twice
TailSize(sync)    == Len(sync) - 1

\* push of the collectors: first everything new is taken over,
Grown(c, sync, k, piece) ==
    [k EXCEPT !.buffer = @ \o piece,
              !.base = IF k.buffer = <<>> THEN k.total ELSE @,
              !.total = @ + Len(piece),
              !.tail = KeepLast(TailSize(sync), @ \o piece),
              !.pending = @ \o NewMatches(c, sync, k, piece)]

\* then every capture that is complete is decoded and let go.
Settled(c, sync, k) ==
    LET ready   == SelectSeq(k.pending, LAMBDA p : ~Waits(c, k, p))
        broken  == \E i \in DOMAIN ready : ~Inside(k, ready[i].start, CaptureEnd(c, k, ready[i]))
        trimmed == Trim([k EXCEPT !.pending = SelectSeq(@, LAMBDA p : Waits(c, k, p))])
    IN  [k      |-> trimmed,
         found  |-> IF broken THEN <<>>
                    ELSE FlattenSeq([i \in DOMAIN ready |-> Decoded(c, k, ready[i])]),
         raised |-> \/ broken
                    \/ Len(trimmed.buffer) + Len(trimmed.tail) > MaxRetained(c, sync)]

\* DistributedSoftFrameDecoder: the sync bits are spread over the frame, every
\* second symbol, and the whole frame is in the window.
SpreadOver(c) == 2 * Len(c.syncs[1])
SpreadFrame(c, window, place) ==
    LET sync     == c.syncs[1]
        wrong    == Cardinality({j \in 1..Len(sync) : (window[2 * j - 1] >= 0) # (sync[j] = 1)})
        right    == Len(sync) - wrong
        polarity == IF wrong < right THEN "normal" ELSE "inverted"
        v        == Verdict(c, BitsOf(c, polarity, window))
    IN  IF wrong = right \/ (wrong > c.threshold /\ right > c.threshold) \/ v.integrity = "none"
           THEN <<>>
        ELSE <<FrameOf(place, place + SpreadOver(c), polarity, v)>>

Spread(c, k, piece) ==
    LET all == k.tail \o piece
    IN  [k      |-> [k EXCEPT !.tail = KeepLast(SpreadOver(c) - 1, all), !.total = @ + Len(piece)],
         found  |-> FlattenSeq([i \in 1..(Len(all) - SpreadOver(c) + 1) |->
                        SpreadFrame(c, SubSeq(all, i, i + SpreadOver(c) - 1),
                                    k.total - Len(k.tail) + i - 1)]),
         raised |-> FALSE]
-----------------------------------------------------------------------------
(* The line codes in front of a collector remember the last symbols of the  *)
(* previous piece.                                                          *)

\* The symbol at place i of what is remembered and what is new.
LineBit(c, all, i) ==
    CASE c.code = "plain"        -> all[i]
      [] c.code = "nrzi"         -> IF all[i] = all[i - 1] THEN 1 ELSE 0
      [] c.code = "differential" -> IF all[i] = all[i - 1] THEN 0 ELSE 1
      [] c.code = "descrambler"  -> (all[i] + all[i - 1] + all[i - 2]) % 2

\* Line polarity is lost in a code that keeps only transitions.
Annotated(c, f) ==
    IF c.code \in {"nrzi", "differential"} THEN [f EXCEPT !.polarity = "ambiguous"] ELSE f

RememberedBug(c, memory, piece) == c.memory     \* starts over with every piece
Remembered(c, memory, piece) ==
    IF c.code = "plain" THEN memory ELSE KeepLast(Len(c.memory), memory \o piece)

\* StreamingViterbiDecoder with a trellis whose bit is decided by its own
\* pair; the traceback delay and the odd symbol left over are the code's.
Traceback == 1
ViterbiBit(a, b) == IF a > 0 THEN 1 ELSE 0
ViterbiPush(v, piece) ==
    LET all     == v.odd \o piece
        pairs   == Len(all) \div 2
        decided == v.decisions \o [i \in 1..pairs |-> ViterbiBit(all[2 * i - 1], all[2 * i])]
        ready   == IF Len(decided) > Traceback THEN Len(decided) - Traceback ELSE 0
    IN  [v |-> [odd |-> SubSeq(all, 2 * pairs + 1, Len(all)),
                decisions |-> SubSeq(decided, ready + 1, Len(decided))],
         out |-> SubSeq(decided, 1, ready)]

\* One decoder starts a neutral symbol late, for the other pair phase.
Phases == <<[odd |-> <<>>, decisions |-> <<>>], [odd |-> <<0>>, decisions |-> <<>>]>>

MapFrameBug(phase, f) ==              \* forgets the neutral symbol of phase 1
    [f EXCEPT !.start = 2 * f.start, !.end = 2 * f.end]

\* _map_frame: back to positions in the soft symbols.
MapFrame(phase, f) ==
    LET from == 2 * (f.start - phase) + phase
    IN  [f EXCEPT !.start = IF from < 0 THEN 0 ELSE from, !.end = 2 * (f.end - phase) + phase]
-----------------------------------------------------------------------------
(* HDLC: AX.25 windows and the deframer they share with the legacy path.    *)

Flag == <<0, 1, 1, 0>>

\* Flag places, skipping a whole flag on a hit.
FlagStarts(bits) ==
    FoldLeft(LAMBDA found, i :
                IF /\ SubSeq(bits, i, i + 3) = Flag
                   /\ found = <<>> \/ i >= found[Len(found)] + 4
                THEN Append(found, i) ELSE found,
             <<>>, [i \in 1..(IF Len(bits) < 4 THEN 0 ELSE Len(bits) - 3) |-> i])

\* The zero stuffed after a one is dropped.
Destuff(bits) ==
    FoldLeft(LAMBDA acc, b : IF acc.ones = 1 /\ b = 0 THEN [acc EXCEPT !.ones = 0]
                             ELSE [out |-> Append(acc.out, b),
                                   ones |-> IF b = 1 THEN acc.ones + 1 ELSE 0],
             [out |-> <<>>, ones |-> 0], bits).out

\* deframe_with_offsets: octets of two bits, the last bit checks the rest.
Deframe(bits) ==
    LET at == FlagStarts(bits)
        content(n) == Destuff(SubSeq(bits, at[n] + 4, at[n + 1] - 1))
        good == {n \in 1..(Len(at) - 1) :
                    /\ at[n + 1] > at[n] + 4
                    /\ Len(content(n)) % 2 = 0 /\ Checked(content(n)).integrity = "passed"}
    IN  {[start |-> at[n] - 1, end |-> at[n + 1] + 3, octets |-> Len(content(n)) \div 2,
          payload |-> Front(content(n))] : n \in good}

\* _Hypothesis.transform: polarity, descrambler, NRZI.
Hypotheses(c) == c.scrambled \X {"normal", "inverted"}
NoHypothesis  == [bits |-> <<>>, base |-> 0, raw |-> <<>>, level |-> 1]
Transform(h, y, piece) ==
    LET source == IF h[2] = "inverted" THEN [i \in 1..Len(piece) |-> 1 - piece[i]] ELSE piece
        all    == <<0, 0>> \o y.raw \o source
        plain  == IF h[1] THEN [i \in 1..Len(piece) |->
                                   LET j == i + 2 + Len(y.raw)
                                   IN  (all[j] + all[j - 1] + all[j - 2]) % 2]
                  ELSE source
        levels == <<y.level>> \o plain
    IN  [bits  |-> [i \in 1..Len(piece) |-> IF levels[i] = levels[i + 1] THEN 1 ELSE 0],
         raw   |-> IF h[1] THEN KeepLast(2, y.raw \o source) ELSE <<>>,
         level |-> levels[Len(levels)]]

KeptBitsBug(c, bits) == <<>>          \* forgets the flag that opens a frame
\* _HdlcWindow.push: from the last flag on, or what may be the start of one.
KeptBits(c, bits) ==
    LET at == FlagStarts(bits)
    IN  IF at # <<>> /\ Len(bits) - at[Len(at)] + 1 <= c.window
           THEN SubSeq(bits, at[Len(at)], Len(bits))
           ELSE KeepLast(3, bits)

Window(c, h, y, piece) ==
    LET t    == Transform(h, y, piece)
        all  == y.bits \o t.bits
        kept == KeptBits(c, all)
    IN  [y     |-> [bits |-> kept, base |-> y.base + Len(all) - Len(kept),
                    raw |-> t.raw, level |-> t.level],
         found |-> {[f EXCEPT !.start = @ + y.base, !.end = @ + y.base] :
                       f \in {g \in Deframe(all) : g.octets <= c.limit}}]

\* What two hypotheses find at one place is one frame of unknown polarity.
Merged(c, found) ==
    LET all == UNION {found[h] : h \in Hypotheses(c)}
        polarities(f) == {h[2] : h \in {g \in Hypotheses(c) : f \in found[g]}}
    IN  {FrameOf(f.start, f.end,
                 IF Cardinality(polarities(f)) = 1 THEN CHOOSE p \in polarities(f) : TRUE
                 ELSE "ambiguous",
                 [integrity |-> "passed", payload |-> f.payload]) : f \in all}

-----------------------------------------------------------------------------
(* The decoders of a pass.  A poll gives the new state of what collects, the *)
(* frames of this piece in the order they are returned, and whether it      *)
(* raised.                                                                  *)

InnerOf(c) ==
    CASE c.family \in {"collect", "spread"} -> [n \in 1..Len(c.syncs) |-> NoCollector]
      [] c.family = "concatenated" -> [n \in 1..2 |-> [v |-> Phases[n], k |-> NoCollector]]
      [] c.family = "hdlc"         -> [h \in Hypotheses(c) |-> NoHypothesis]
      [] c.family = "legacy"       -> <<>>

\* What two sync words find at one place is one frame.
Earlier(f, g) == f.start < g.start \/ (f.start = g.start /\ f.end < g.end)
Unique(fs)    == FoldLeft(LAMBDA kept, f : IF f \in ToSet(kept) THEN kept ELSE Append(kept, f),
                          <<>>, fs)

Return(states, found, fails) ==
    /\ inner' = states /\ raised' = fails
    /\ frames' = frames \o (IF fails THEN <<>> ELSE found)

Fails(steps)    == \E n \in DOMAIN steps : steps[n].raised
AllFound(steps) == FlattenSeq([n \in DOMAIN steps |-> steps[n].found])
InOrder(found)  == IF row.family = "collect" /\ Len(row.syncs) > 1
                      THEN SortSeq(Unique(found), Earlier) ELSE found

\* The line code's bits go to one collector per sync word.
CollectPush(symbols) ==
    \E bits \in {[i \in 1..Len(symbols) |-> LineBit(row, front \o symbols, Len(front) + i)]} :
    \E grown \in {[n \in DOMAIN inner |-> Grown(row, row.syncs[n], inner[n], bits)]} :
    \E steps \in {[n \in DOMAIN inner |-> Settled(row, row.syncs[n], grown[n])]} :
    \E found \in {AllFound(steps)} :
        Return([n \in DOMAIN steps |-> steps[n].k],
               InOrder([i \in DOMAIN found |-> Annotated(row, found[i])]), Fails(steps))

SpreadPush(symbols) ==
    \E step \in {Spread(row, inner[1], symbols)} : Return(<<step.k>>, step.found, FALSE)

\* The decisions of a phase go to its collector as hard bits.
HardRow == [row EXCEPT !.input = "hard"]
PhasesTake(decided, viterbi) ==
    \E grown \in {[n \in 1..2 |-> Grown(HardRow, row.syncs[1], inner[n].k, decided[n])]} :
    \E steps \in {[n \in 1..2 |-> Settled(HardRow, row.syncs[1], grown[n])]} :
        Return([n \in 1..2 |-> [v |-> viterbi[n], k |-> steps[n].k]],
               FlattenSeq([n \in 1..2 |-> [i \in DOMAIN steps[n].found |->
                                              MapFrame(n - 1, steps[n].found[i])]]),
               Fails(steps))

ConcatenatedPush(symbols) ==
    \E pushed \in {[n \in 1..2 |-> ViterbiPush(inner[n].v, symbols)]} :
        PhasesTake([n \in 1..2 |-> pushed[n].out], [n \in 1..2 |-> pushed[n].v])

\* CcsdsConcatenatedDecoder.flush: an odd symbol gets a neutral partner, and
\* the decisions held back are resolved.
ConcatenatedFlush ==
    LET closed(v) == IF v.odd = <<>> THEN v.decisions
                     ELSE v.decisions \o <<ViterbiBit(v.odd[1], 0)>>
    IN  \E decided \in {[n \in 1..2 |-> closed(inner[n].v)]} :
            PhasesTake(decided, [n \in 1..2 |-> inner[n].v])

\* Ax25StreamingDecoder.push.
HdlcPush(symbols) ==
    \E steps \in {[h \in Hypotheses(row) |-> Window(row, h, inner[h], symbols)]} :
    LET kept     == [h \in Hypotheses(row) |-> steps[h].y]
        retained == FoldFunctionOnSet(+, 0, [h \in Hypotheses(row) |->
                                                Len(kept[h].bits) + Len(kept[h].raw)],
                                      Hypotheses(row))
    IN  Return(kept, SetToSortSeq(Merged(row, [h \in Hypotheses(row) |-> steps[h].found]), Earlier),
               retained > Cardinality(Hypotheses(row)) * (row.window + 2))

\* How often each payload is in a set of frames.
Count(p, fs) == Cardinality({f \in fs : f.payload = p})
Payloads(fs) == {f.payload : f \in fs}

\* _FallbackDemod.drain_frames: the local deframers over tail and fresh bits,
\* less what the tail alone gives, which an earlier poll returned; no offsets.
LegacyPush(symbols) ==
    \E all \in {inner \o symbols} : \E now \in {Deframe(all)} : \E before \in {Deframe(inner)} :
    LET fresh(p)  == Count(p, now) - Count(p, before)
        copies(p) == [i \in 1..fresh(p) |-> FrameOf(0, 0, "ambiguous",
                                            [integrity |-> "passed", payload |-> p])]
        news      == SetToSeq({p \in Payloads(now) : fresh(p) > 0})
    IN  Return(IF all = <<>> THEN inner ELSE KeepLast(row.tail, all),
               FlattenSeq([i \in DOMAIN news |-> copies(news[i])]), FALSE)

DecodersInit ==
    /\ profile \in Catalogue /\ row = Row(profile)
    /\ line = <<>> /\ frames = <<>> /\ raised = FALSE /\ flushed = FALSE
    /\ front = (IF row.family = "collect" THEN row.memory ELSE <<>>)
    /\ inner = InnerOf(row)

Feed(symbols) ==
    CASE row.family = "collect"      -> CollectPush(symbols)
      [] row.family = "spread"       -> SpreadPush(symbols)
      [] row.family = "concatenated" -> ConcatenatedPush(symbols)
      [] row.family = "hdlc"         -> HdlcPush(symbols)
      [] row.family = "legacy"       -> LegacyPush(symbols)

\* One poll hands over what the queue held.
Push ==
    /\ ~raised /\ ~flushed
    /\ \E n \in Pieces : \E symbols \in [1..n -> row.symbols] :
          /\ Len(line) + n <= row.most
          /\ line' = line \o symbols
          /\ front' = (IF row.family = "collect" THEN Remembered(row, front, symbols)
                       ELSE front)
          /\ Feed(symbols)
    /\ UNCHANGED <<profile, row, flushed>>

\* The end of the pass: only a decoder with a delay of its own still has
\* something to say, all others drop what is incomplete.
Flush ==
    /\ ~raised /\ ~flushed /\ flushed' = TRUE
    /\ IF row.family = "concatenated" THEN ConcatenatedFlush
       ELSE UNCHANGED <<inner, raised, frames>>
    /\ UNCHANGED <<profile, row, line, front>>

DecodersDone == raised \/ flushed
DecodersNext == Push \/ Flush \/ (DecodersDone /\ UNCHANGED decoderVars)
DecodersSpec == DecodersInit /\ [][DecodersNext]_decoderVars
-----------------------------------------------------------------------------
(* The reference: what is in the line, read at once, without buffers,       *)
(* pending captures or pieces.                                              *)

\* Every place where a sync word fits and the capture behind it is complete.
FramesIn(c, sync, bits) ==
    LET n        == Len(sync)
        window(i) == SubSeq(bits, i, i + n - 1)
        polarity(i) == PolarityOf(c, sync, window(i))
        read(i, from, to) == BitsOf(c, polarity(i), SubSeq(bits, i + n + from, i + n + to - 1))
        size(i)  == c.header + CaptureFor(c, read(i, 0, c.header))
        at       == {i \in 1..(Len(bits) - n + 1) :
                        /\ Correlates(c, sync, window(i)) /\ polarity(i) # "ambiguous"
                        /\ i + n + c.header - 1 <= Len(bits)
                        /\ size(i) > c.header \/ c.header = 0
                        /\ i + n + size(i) - 1 <= Len(bits)
                        /\ Verdict(c, read(i, 0, size(i))).integrity # "none"}
    IN  {FrameOf(i - 1, i + n + size(i) - 1, polarity(i), Verdict(c, read(i, 0, size(i)))) : i \in at}

LineBits(c) == [i \in 1..Len(line) |-> LineBit(c, c.memory \o line, Len(c.memory) + i)]

\* Decision j of a phase covers two symbols, the first of them at 2j - phase.
PhaseFrames(c, phase) ==
    LET all     == (IF phase = 1 THEN <<0>> ELSE <<>>) \o line
                   \o (IF flushed /\ (Len(line) + phase) % 2 = 1 THEN <<0>> ELSE <<>>)
        pairs   == Len(all) \div 2
        decided == IF flushed THEN pairs ELSE IF pairs > Traceback THEN pairs - Traceback ELSE 0
        bits    == [j \in 1..decided |-> ViterbiBit(all[2 * j - 1], all[2 * j])]
    IN  {[f EXCEPT !.start = IF 2 * @ < phase THEN 0 ELSE 2 * @ - phase, !.end = 2 * @ - phase] :
            f \in FramesIn([c EXCEPT !.input = "hard"], c.syncs[1], bits)}

HdlcFrames(c) ==
    LET found == [h \in Hypotheses(c) |->
                    {f \in Deframe(Transform(h, NoHypothesis, line).bits) : f.octets <= c.limit}]
    IN  Merged(c, found)

Expected(c) ==
    CASE c.family = "collect" -> {Annotated(c, f) : f \in
                                    UNION {FramesIn(c, c.syncs[n], LineBits(c)) : n \in DOMAIN c.syncs}}
      [] c.family = "spread"  -> UNION {ToSet(SpreadFrame(c, SubSeq(line, i, i + SpreadOver(c) - 1), i - 1)) :
                                           i \in 1..(Len(line) - SpreadOver(c) + 1)}
      [] c.family = "concatenated" -> PhaseFrames(c, 0) \cup PhaseFrames(c, 1)
      [] c.family = "hdlc"    -> HdlcFrames(c)

\* The scan for flags skips a whole flag, so a flag that shares its zero with
\* the one before is not seen, or is when a piece begins between them.
SharedFlags(bits) ==
    \E i \in 1..(Len(bits) - 6) :
        SubSeq(bits, i, i + 3) = Flag /\ SubSeq(bits, i + 3, i + 6) = Flag

\* A frame of one octet fits into the tail with its flags.
CountsAgree ==
    \A p \in {f.payload : f \in ToSet(frames) \cup Deframe(line)} :
        Len(p) <= 1 => Cardinality({i \in DOMAIN frames : frames[i].payload = p})
                       = Count(p, Deframe(line))

\* However the symbols of a pass are cut into pieces, every decoder returns
\* what is in the line: each frame once, at its place, with the polarity and
\* the integrity a reader of the whole line would give it, and nothing else.
FramesExactlyOnce ==
    IF row.family = "legacy" THEN SharedFlags(line) \/ CountsAgree
    ELSE /\ ToSet(frames) = Expected(row)
         /\ Len(frames) = Cardinality(Expected(row))

\* No pass is ended by a decoder: the buffer holds every capture that becomes
\* complete, and what is kept back stays within the bound it promises.
NeverRaises == ~raised
=============================================================================
