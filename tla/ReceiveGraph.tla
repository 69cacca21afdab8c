----------------------------- MODULE ReceiveGraph -----------------------------
(***************************************************************************)
(* How the GNU Radio engines assemble the graph of a pass before they start *)
(* it: build_satellites_rx step by step, with the registries it consults    *)
(* (framings, modem, modem_matrix, _fallback_select, sample_clock), the     *)
(* front-end settings of _soapy, the tap of PassRecorder and the demodulator *)
(* chains; and build_rx_top_block of the cubesat engine.                    *)
(*                                                                         *)
(* A graph is a set of edges between named blocks.  What a constructor of   *)
(* GNU Radio or gr-satellites does (build, return nothing, raise) is the    *)
(* environment's choice.  Rates are whole units of 4 kHz.                   *)
(***************************************************************************)
EXTENDS Integers, Sequences

CONSTANTS
    Labels,         \* framing labels the backend may send
    Extras,         \* those it may add in "framings"
    Kinds,          \* its modulations, "none" for none
    Requested,      \* --sample-rate
    Captures,       \* what GS_SDR_CAPTURE_RATE may be, 0 for off
    Symbols,        \* symbol rates it may send, 0 for none
    Offsets,        \* GS_SDR_LO_OFFSET, 0 for unset
    DefaultOffset   \* DEFAULT_LO_OFFSET_HZ

VARIABLES
    step,        \* the part of the builder that runs next
    engine,      \* "satellites" or "cubesat"
    rates,       \* symbol, channel and device rate, LO offset
    gain,        \* how the source's gain was set
    live,        \* GS_GRSAT_LIVE and GS_NATIVE_FRAMING_LIVE
    labels,      \* requested_framings
    primary,     \* the label in "framing", if any
    kind,        \* the modulation of _backend_mode, "none" without a mode
    tap,         \* demod_tap
    edges,       \* the connections made
    fallbacks,   \* the fallback decoders: input, native and legacy labels
    soft,        \* the demodulator has a soft tap
    deframers,   \* the gr-satellites components on it
    fg,          \* a monolithic gr-satellites flowgraph is connected
    reason       \* no_decode_reason

inputs == <<live, labels, primary, kind>>
front  == <<engine, rates, gain>>
decode == <<fallbacks, soft, deframers, fg>>
graphVars == <<step, front, inputs, tap, edges, decode, reason>>

None == "none"
-----------------------------------------------------------------------------
(* The registries.                                                         *)

\* normalize_framing: the labels a deframer of our own serves.
LocalFramings == {"ax25", "g3ruh", "endurosat", "kiss", "ccsds_tm"}

\* The native profiles by what they consume.
HardProfiles == {"ax25", "g3ruh", "ax100"}
SoftProfiles == {"usp"}
Profiles     == HardProfiles \cup SoftProfiles

\* grsat_deframer_plan; a set, as identical components are built once.
ComponentsFor(l) ==
    CASE l = "ax25"      -> {"grsat ax25", "grsat ax25 g3ruh"}
      [] l = "g3ruh"     -> {"grsat ax25 g3ruh"}
      [] l = "ax100"     -> {"grsat ax100 ASM"}
      [] l = "usp"       -> {"grsat usp"}
      [] l = "endurosat" -> {"grsat endurosat"}
      [] OTHER           -> {}

\* modulation_spec.
Family(k) ==
    CASE k \in {"fsk", "gmsk"} -> "fsk"
      [] k = "4fsk" -> "mfsk"
      [] k \in {"bpsk", "bpskmanchester", "oqpsk", "dqpsk", "8psk"} -> "psk"
      [] k = "afsk" -> "afsk"
      [] k = "qam" -> "qam"
      [] k \in {"ofdm", "cw", "nbfm"} -> "pending"
      [] OTHER -> None

\* plan_native_rx_pairing, live and for evaluation.
Paired(l) ==
    /\ l \in Profiles
    /\ \/ Family(kind) = "fsk"
       \/ l \in HardProfiles /\ kind \in {"afsk", "bpsk"}

NativeOn(ls) == {l \in ls : live.native /\ Paired(l)}

\* The labels one kind of symbols can be deframed for; no label at all is
\* deframed by trying the checked local framings.
LegacyServes == labels = {} \/ labels \cap LocalFramings # {}
LocalServes  == LegacyServes \/ NativeOn(labels) # {}
-----------------------------------------------------------------------------
(* The front end.                                                          *)

Greater(a, b) == IF a < b THEN b ELSE a

LargestDivisor(n, top) ==
    CHOOSE k \in 1..top : n % k = 0 /\ \A j \in (k + 1)..top : n % j # 0

\* capture_plan: the device's own rate, unless it is off or the very same.
SdrRate(capture, want) == IF capture # 0 THEN capture ELSE want

Feasible(sym, sdr) == Requested <= sdr /\ 4 * sym <= sdr

ChannelRateBug(sym, sdr) ==           \* rounds the decimation up
    LET want == Greater(Requested, 4 * sym)
    IN  IF want \in {Requested, sdr} THEN want
        ELSE sdr \div LargestDivisor(sdr, (sdr \div want) + 1)

\* select_channel_rate: what is requested, or what four samples a symbol
\* take, widened to a divisor of the capture rate.
ChannelRate(sym, sdr) ==
    LET want == Greater(Requested, 4 * sym)
    IN  IF want \in {Requested, sdr} THEN want
        ELSE sdr \div LargestDivisor(sdr, sdr \div want)

\* auto_lo_offset: on centre when the offset does not fit the band.
LoOffset(configured, channel, sdr) ==
    LET off == IF configured # 0 THEN configured ELSE DefaultOffset
    IN  IF 2 * off > sdr - channel THEN 0 ELSE off

\* configure_soapy_source over merge_sdr_params: elements before an overall
\* gain before AGC before the default; an empty staging is none.
GainFor(elements, overall, agc) ==
    CASE elements = "number" -> "elements"
      [] elements # "number" /\ overall # "unset" -> "overall"
      [] elements # "number" /\ overall = "unset" /\ agc -> "agc"
      [] OTHER -> "default"

Path(blocks) == {<<blocks[i], blocks[i + 1]>> : i \in 1..(Len(blocks) - 1)}
Channel      == IF rates.channel # rates.sdr THEN "decimator" ELSE "rotator"

GraphInit ==
    /\ step = "front" /\ engine \in {"satellites", "cubesat"}
    /\ rates = [sym |-> 0, channel |-> 0, sdr |-> 0, lo |-> 0] /\ gain = "zero"
    /\ live = [grsat |-> FALSE, native |-> FALSE]
    /\ labels = {} /\ primary = None /\ kind = None /\ tap = None
    /\ edges = {} /\ fallbacks = {} /\ soft = FALSE /\ deframers = {} /\ fg = FALSE
    /\ reason = ""

Then(s)   == step' = s
Connect(es) == edges' = edges \cup es

\* Nothing but the demodulators and the gr-satellites constructors is guarded:
\* any other exception ends the build, and with it the pass.
Raises ==
    /\ step \notin {"built", "failed"} /\ Then("failed")
    /\ UNCHANGED <<front, inputs, tap, edges, decode, reason>>

\* Device, tuning and corrections, then rotator and decimator.  The cubesat
\* engine keeps the requested channel.
FrontEnd ==
    /\ step = "front"
    /\ \E sym \in Symbols, capture \in Captures, off \in Offsets :
          LET sdr == SdrRate(capture, IF engine = "cubesat" THEN Requested
                                      ELSE Greater(Requested, 4 * sym))
              ch  == IF engine = "cubesat" THEN Requested ELSE ChannelRate(sym, sdr)
          IN  /\ engine = "satellites" => Feasible(sym, sdr)
              /\ rates' = [sym |-> sym, channel |-> ch, sdr |-> sdr,
                           lo |-> LoOffset(off, ch, sdr)]
              /\ Connect(IF ch # sdr THEN Path(<<"src", "rotator", "decimator">>)
                                     ELSE Path(<<"src", "rotator">>))
    /\ \E elements \in {"unset", "empty", "number"}, overall \in {"unset", "number"},
          agc \in BOOLEAN : gain' = GainFor(elements, overall, agc)
    /\ Then(IF engine = "cubesat" THEN "chain" ELSE "record")
    /\ UNCHANGED <<engine, inputs, tap, decode, reason>>

\* PassRecorder.maybe_start: a tap of its own on the channel, or capture off.
Record ==
    /\ step = "record"
    /\ \/ Connect({<<Channel, "recorder">>})
       \/ UNCHANGED edges
    /\ Then(IF engine = "cubesat" THEN "built" ELSE "select")
    /\ UNCHANGED <<front, inputs, tap, decode, reason>>

\* What the backend asked for and what the station enables.
Select ==
    /\ step = "select"
    /\ live' \in [grsat : BOOLEAN, native : BOOLEAN]
    /\ primary' \in Labels \cup {None}
    /\ \E extra \in {{}} \cup {{l} : l \in Extras} :
          labels' = extra \cup (IF primary' = None THEN {} ELSE {primary'})
    /\ kind' \in (IF rates.sym = 0 THEN {None} ELSE Kinds)
    /\ Then("tap")
    /\ UNCHANGED <<front, tap, edges, decode, reason>>

\* The spectral inversion conjugates the decoder's tap, not the recorder's.
Tap ==
    /\ step = "tap"
    /\ \/ tap' = Channel /\ UNCHANGED edges
       \/ tap' = "conjugate" /\ Connect({<<Channel, "conjugate">>})
    /\ Then(CASE kind # None /\ (LocalServes \/ live.grsat) -> "demod"
              [] kind = None /\ live.grsat -> "monolith"
              [] OTHER -> "terminate")
    /\ UNCHANGED <<front, inputs, decode, reason>>
-----------------------------------------------------------------------------
(* The demodulator and our own decoders.                                   *)

CollectsHardBug == TRUE               \* whether or not anything drains it

\* should_collect_hard_symbols.
CollectsHard == LegacyServes \/ NativeOn(labels) \cap HardProfiles # {}

\* _FallbackDemod: a label is native or legacy, and no label means any.
HardFallback ==
    LET native == NativeOn(labels) \cap HardProfiles
    IN  [input |-> "hardSink", native |-> native,
         legacy |-> IF labels = {} THEN {"auto"}
                    ELSE (labels \cap LocalFramings) \ native]
SoftFallback == [input |-> "softSink", native |-> NativeOn(labels) \cap SoftProfiles,
                 legacy |-> {}]

\* connect_gfsk_demod: one chain, connected when every block was built.
FskChain(from) ==
    Path(<<from, "demod", "slicer", IF CollectsHard THEN "hardSink" ELSE "hardNull">>)

SymbolSinks == {"hardSink", "softSink"}

\* build_demod for each family, and the decoders on what it returned.  The
\* chains of the other families are built only for somebody to drain them.
Demodulates ==
    /\ step = "demod"
    /\ \/ /\ Family(kind) = "fsk"
          /\ LET fbs == (IF CollectsHard THEN {HardFallback} ELSE {})
                        \cup (IF NativeOn(labels) \cap SoftProfiles # {} THEN {SoftFallback}
                              ELSE {})
             IN  /\ fallbacks' = fbs
                 /\ Connect(FskChain(tap)
                            \cup (IF SoftFallback \in fbs THEN {<<"demod", "softSink">>} ELSE {}))
          /\ soft' = TRUE
       \/ /\ Family(kind) \in {"psk", "afsk", "qam"} /\ kind # "bpskmanchester"
          /\ CollectsHard
          /\ Connect(Path(<<tap, "chain", "hardSink">>))
          /\ fallbacks' = {HardFallback} /\ UNCHANGED soft
    /\ Then("deframers")
    /\ UNCHANGED <<front, inputs, tap, deframers, fg, reason>>

\* Raised and skipped, unknown, pending, or not wanted: the graph stays as it
\* is, because every chain is connected last.
NoDemod ==
    /\ step = "demod" /\ Then("deframers")
    /\ UNCHANGED <<front, inputs, tap, edges, decode, reason>>

\* make_grsat_deframers on the soft tap: each may fail by itself.
Deframers ==
    /\ step = "deframers"
    /\ \E built \in SUBSET (UNION {ComponentsFor(l) : l \in labels}) :
          /\ built # {} => soft /\ live.grsat
          /\ deframers' = built
          /\ Connect({<<"demod", c>> : c \in built})
          /\ Then(IF live.grsat /\ built = {} THEN "monolith" ELSE "orphan")
    /\ UNCHANGED <<front, inputs, tap, fallbacks, soft, fg, reason>>

\* The flowgraph of a catalogued satellite or, with a mode, a synthetic one;
\* gr-satellites may refuse both.
Monolith ==
    /\ step = "monolith"
    /\ \/ fg' = TRUE /\ Connect({<<tap, "monolith">>})
       \/ UNCHANGED <<fg, edges>>
    /\ Then(IF kind = None THEN "terminate" ELSE "orphan")
    /\ UNCHANGED <<front, inputs, tap, fallbacks, soft, deframers, reason>>

Consumed == fallbacks # {} \/ deframers # {} \/ fg

\* The demodulator failed and nothing else taps the decoder's stream.
Orphan ==
    /\ step = "orphan" /\ Then("terminate")
    /\ IF Consumed THEN UNCHANGED edges ELSE Connect({<<tap, "null">>})
    /\ UNCHANGED <<front, inputs, tap, decode, reason>>

Recorded == \E b \in {"rotator", "decimator"} : <<b, "recorder">> \in edges

TerminateBug ==                       \* only when nothing is recorded
    /\ step = "terminate" /\ Then("report")
    /\ IF ~Consumed /\ ~Recorded THEN Connect({<<tap, "null">>}) ELSE UNCHANGED edges
    /\ UNCHANGED <<front, inputs, tap, decode, reason>>

\* A conjugated tap always needs a consumer, the channel one when nothing else
\* has it.
Terminate ==
    /\ step = "terminate" /\ Then("report")
    /\ IF ~Consumed /\ (tap # Channel \/ ~Recorded)
          THEN Connect({<<tap, "null">>}) ELSE UNCHANGED edges
    /\ UNCHANGED <<front, inputs, tap, decode, reason>>

Deframable == deframers # {} \/ fg \/ LocalServes

ReasonForBug ==                       \* from the plan, not from what was built
    CASE kind # None /\ Deframable -> ""
      [] kind = None -> "no mode"
      [] OTHER -> "no enabled deframer, gr-satellites gated off"

\* no_decode_reason over what was built and what could deframe it.
ReasonFor ==
    CASE Consumed /\ Deframable  -> ""
      [] Consumed /\ ~Deframable -> "no deframer for these symbols"
      [] ~Consumed /\ kind = None -> "no mode"
      [] ~Consumed /\ kind # None /\ ~Deframable -> "no enabled deframer, gr-satellites gated off"
      [] OTHER -> "demod failed"

Report ==
    /\ step = "report" /\ Then("built") /\ reason' = ReasonFor
    /\ UNCHANGED <<front, inputs, tap, edges, decode>>

\* build_rx_top_block of the cubesat engine: the demodulator comes before the
\* recorder, its soft tap is not used, and its bits go to the app's decoder.
CubesatChain ==
    /\ step = "chain" /\ Then("record")
    /\ Connect(Path(<<Channel, "demod", "slicer", "hardSink">>))
    /\ fallbacks' = {[input |-> "hardSink", native |-> {}, legacy |-> {"endurosat"}]}
    /\ UNCHANGED <<front, inputs, tap, soft, deframers, fg, reason>>

GraphDone == step \in {"built", "failed"} /\ UNCHANGED graphVars

GraphNext ==
    \/ FrontEnd \/ Record \/ Select \/ Tap \/ Demodulates \/ NoDemod \/ Deframers
    \/ Monolith \/ Orphan \/ Terminate \/ Report \/ CubesatChain \/ Raises \/ GraphDone

GraphSpec == GraphInit /\ [][GraphNext]_graphVars
-----------------------------------------------------------------------------
HasOutput == {"src", "rotator", "decimator", "conjugate", "demod", "slicer", "chain"}
Fed(block) == \E e \in edges : e[2] = block
Drained(queue) ==
    \E fb \in fallbacks : fb.input = queue /\ fb.native \cup fb.legacy # {}

\* Whatever was asked for and whichever constructor refused, the graph that is
\* started has no output without a consumer and no block without an input: GNU
\* Radio would refuse it at start, and with it the recording.
PortsTerminated ==
    step = "built" =>
        \A e \in edges : /\ e[2] \in HasOutput => \E f \in edges : f[1] = e[2]
                         /\ e[1] # "src" => Fed(e[1])

\* A queue of symbols is built only where a decoder drains it: one that nobody
\* drains overflows, and the overflow ends the pass and its recording.
NoIdleQueue ==
    step = "built" => \A q \in SymbolSinks : Fed(q) => Drained(q)

\* The ready event says "no decoder" exactly when nothing in the graph can turn
\* samples into frames.
ReportIsTrue ==
    step = "built" /\ engine = "satellites" =>
        (reason = "" <=> \E d \in SymbolSinks \cup {"monolith"} \cup deframers :
                            Fed(d) /\ (d \in SymbolSinks => Drained(d)))

\* Four samples a symbol, a widened channel that divides the capture rate, the
\* offset carrier inside the captured band, a gain: the satellite is heard.  The
\* cubesat engine builds for a capture rate below its channel too; there the band
\* cannot hold the channel, whatever the offset.
SignalHeard ==
    step \notin {"front", "failed"} =>
        /\ rates.channel >= Requested
        /\ engine = "satellites" => rates.channel >= 4 * rates.sym
        /\ rates.channel # Requested => rates.sdr % rates.channel = 0
        /\ engine = "satellites" \/ Requested <= rates.sdr =>
               2 * rates.lo + rates.channel <= rates.sdr
        /\ Fed("decimator") <=> rates.channel # rates.sdr
        /\ gain # "zero"
=============================================================================
