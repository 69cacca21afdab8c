-------------------------- MODULE ReceiveAndTools_proofs --------------------------
(***************************************************************************)
(* Theorems about what stands beside a pass: the assembly of the receive     *)
(* graph and its front end, for any catalogue of labels, modulations and      *)
(* rates; the lock of the transmit probe, for any set of probes; the bench    *)
(* transmit tools, for any frame, packet size and number of trials; the views *)
(* of a recording, for any number of captures, and of its audio for any       *)
(* ratio, filter and chunks; and the replay and the sweep of a capture.       *)
(* Each part has an invariant of its own; the behaviours of the others leave  *)
(* its variables alone.                                                       *)
(***************************************************************************)
EXTENDS ReceiveAndTools, FiniteSetTheorems, SequenceTheorems, DataLemmas, TLAPS

-----------------------------------------------------------------------------
(* The graph.                                                              *)

AfterTap   == {"demod", "deframers", "monolith", "orphan", "terminate", "report"}
Steps      == AfterTap \cup {"front", "chain", "record", "select", "tap", "built", "failed"}
Components == {"grsat ax25", "grsat ax25 g3ruh", "grsat ax100 ASM", "grsat usp",
               "grsat endurosat"}

\* The blocks some connections go to, and those they come from.
Into(es, b) == \E e \in es : e[2] = b
From(es, b) == \E e \in es : e[1] = b

\* The output that the steps still to come connect.
Loose(b) ==
    \/ step \in {"chain", "select", "tap"} /\ b = Graph!Channel
    \/ step = "record" /\ engine = "satellites" /\ b = Graph!Channel
    \/ step \in AfterTap \ {"report"} /\ b = tap

\* The parts of the builder, and which of them an engine has.
StepInv ==
    /\ step \in Steps
    /\ engine \in {"satellites", "cubesat"}
    /\ engine = "cubesat" => step \in {"front", "chain", "record", "built"}
    /\ engine = "satellites" => step # "chain"
    /\ step = "front" => edges = {}

\* Every block is fed, and at most one output is loose.
WiredInv ==
    /\ \A b : From(edges, b) => b = "src" \/ Into(edges, b)
    /\ \A b \in Graph!HasOutput : Into(edges, b) => Loose(b) \/ From(edges, b)
    /\ step # "front" => Into(edges, Graph!Channel)
    /\ step \in AfterTap => tap \in {Graph!Channel, "conjugate"} /\ Into(edges, tap)
    /\ \A b : <<b, "recorder">> \in edges => b = Graph!Channel

\* Whatever consumes the decoder's stream is connected to it.
UsedInv ==
    step \in AfterTap =>
        /\ Graph!Consumed \/ soft => From(edges, tap)
        /\ soft => Into(edges, "demod")

\* No decoder yet.
Bare ==
    /\ fallbacks = {} /\ deframers = {} /\ ~soft /\ ~fg
    /\ \A q \in {"hardSink", "softSink", "monolith"} : ~Into(edges, q)

\* A queue has a decoder that drains it.
SinkInv ==
    /\ step \in {"front", "chain", "select", "tap", "demod"} => Bare
    /\ step = "record" /\ engine = "satellites" => Bare
    /\ \A q \in {"hardSink", "softSink"} :
          Into(edges, q) => \E fb \in fallbacks : fb.input = q /\ fb.native \cup fb.legacy # {}

\* The decoders the builder counts are the decoders in the graph.
DecodeInv ==
    engine = "satellites" =>
        /\ fallbacks # {} => /\ Graph!LocalServes
                             /\ Into(edges, "hardSink") \/ Into(edges, "softSink")
        /\ Into(edges, "monolith") <=> fg
        /\ \A c \in deframers : Into(edges, c)
        /\ step = "built" => reason = Graph!ReasonFor

Built == StepInv /\ WiredInv /\ UsedInv /\ SinkInv /\ DecodeInv
GraphInv  == step # "failed" => Built

\* An empty graph has nothing loose.
LEMMA GraphInitInv == Graph!GraphInit => GraphInv
BY DEF Graph!GraphInit, GraphInv, Built, StepInv, WiredInv, UsedInv, SinkInv, DecodeInv, Bare,
       Into, From, Steps, AfterTap

\* The connections of a chain of two, three and four blocks.
LEMMA Path2 ==
    ASSUME NEW a, NEW b
    PROVE  Graph!Path(<<a, b>>) = {<<a, b>>}
BY DEF Graph!Path

\* See Path2.
LEMMA Path3 ==
    ASSUME NEW a, NEW b, NEW c
    PROVE  Graph!Path(<<a, b, c>>) = {<<a, b>>, <<b, c>>}
<1> DEFINE p == <<a, b, c>>
<1>1. 1 .. (Len(p) - 1) = {1, 2}
  OBVIOUS
<1>2. Graph!Path(p) = {<<p[i], p[i + 1]>> : i \in {1, 2}}
  BY <1>1 DEF Graph!Path
<1>3. QED
  BY <1>2

\* See Path2.
LEMMA Path4 ==
    ASSUME NEW a, NEW b, NEW c, NEW d
    PROVE  Graph!Path(<<a, b, c, d>>) = {<<a, b>>, <<b, c>>, <<c, d>>}
<1> DEFINE p == <<a, b, c, d>>
<1>1. 1 .. (Len(p) - 1) = {1, 2, 3}
  OBVIOUS
<1>2. Graph!Path(p) = {<<p[i], p[i + 1]>> : i \in {1, 2, 3}}
  BY <1>1 DEF Graph!Path
<1>3. QED
  BY <1>2

\* A deframer of gr-satellites is a block of its own.
LEMMA ComponentNames ==
    \A ls : (UNION {Graph!ComponentsFor(l) : l \in ls}) \subseteq Components
<1>1. \A l : Graph!ComponentsFor(l) \subseteq Components
  BY DEF Graph!ComponentsFor, Components
<1>2. QED
  BY <1>1

\* FrontEnd: the device and what leads to the channel.
LEMMA FrontEndStep ==
    ASSUME GraphInv, Graph!FrontEnd
    PROVE  GraphInv'
<1>1. step = "front" /\ Built /\ edges = {}
  BY DEF Graph!FrontEnd, GraphInv, Built, StepInv
<1>2. /\ step' = IF engine = "cubesat" THEN "chain" ELSE "record"
      /\ UNCHANGED <<engine, live, labels, primary, kind, tap, fallbacks, soft, deframers, fg,
             reason>>
  BY DEF Graph!FrontEnd, Graph!Then, Graph!inputs, Graph!decode
<1>3. PICK ch, sdr :
          /\ rates'.channel = ch /\ rates'.sdr = sdr
          /\ edges' = edges \cup (IF ch # sdr THEN Graph!Path(<<"src", "rotator", "decimator">>)
                                              ELSE Graph!Path(<<"src", "rotator">>))
  BY DEF Graph!FrontEnd, Graph!Connect
<1>4. edges' = IF Graph!Channel' = "decimator"
               THEN {<<"src", "rotator">>, <<"rotator", "decimator">>}
               ELSE {<<"src", "rotator">>}
  BY <1>1, <1>3, Path2, Path3 DEF Graph!Channel
<1>5. Graph!Channel' \in {"rotator", "decimator"}
  BY DEF Graph!Channel
<1>6. Bare'
  BY <1>1, <1>2, <1>4 DEF Built, SinkInv, Bare, Into
<1>7. StepInv'
  BY <1>1, <1>2 DEF Built, StepInv, Steps, AfterTap
<1>8. WiredInv'
  <2>1. step' \in {"chain", "record"} /\ (step' = "record" => engine' = "satellites")
    BY <1>1, <1>2 DEF Built, StepInv
  <2>2. Loose(Graph!Channel)'
    BY <2>1, <1>2 DEF Loose
  <2>3. CASE Graph!Channel' = "decimator"
    <3>1. \A b : Into(edges', b) <=> b \in {"rotator", "decimator"}
      BY <1>4, <2>3 DEF Into
    <3>2. \A b : From(edges', b) <=> b \in {"src", "rotator"}
      BY <1>4, <2>3 DEF From
    <3>3. \A b : <<b, "recorder">> \notin edges'
      BY <1>4, <2>3
    <3>4. QED
      BY <2>1, <2>2, <2>3, <3>1, <3>2, <3>3 DEF WiredInv, Loose, AfterTap
  <2>4. CASE Graph!Channel' = "rotator"
    <3>1. \A b : Into(edges', b) <=> b = "rotator"
      BY <1>4, <2>4 DEF Into
    <3>2. \A b : From(edges', b) <=> b = "src"
      BY <1>4, <2>4 DEF From
    <3>3. \A b : <<b, "recorder">> \notin edges'
      BY <1>4, <2>4
    <3>4. QED
      BY <2>1, <2>2, <2>4, <3>1, <3>2, <3>3 DEF WiredInv, Loose, AfterTap
  <2>5. QED
    BY <1>5, <2>3, <2>4
<1>9. UsedInv' /\ SinkInv' /\ DecodeInv'
  BY <1>1, <1>2, <1>6 DEF Built, StepInv, UsedInv, SinkInv, DecodeInv, Bare, AfterTap
<1>10. QED
  BY <1>7, <1>8, <1>9 DEF GraphInv, Built

\* What was asked for, and the channel, are what they were.
LEMMA Kept ==
    ASSUME UNCHANGED <<rates, live, labels, kind>>
    PROVE  /\ Graph!Channel' = Graph!Channel
           /\ Graph!LocalServes' = Graph!LocalServes
BY DEF Graph!Channel, Graph!LocalServes, Graph!LegacyServes, Graph!NativeOn, Graph!Paired,
       Graph!Family

\* What a single connection adds.
LEMMA Wired ==
    ASSUME NEW x, NEW y, Graph!Connect({<<x, y>>})
    PROVE  /\ edges' = edges \cup {<<x, y>>}
           /\ \A b : Into(edges', b) <=> Into(edges, b) \/ b = y
           /\ \A b : From(edges', b) <=> From(edges, b) \/ b = x
<1>1. edges' = edges \cup {<<x, y>>}
  BY DEF Graph!Connect
<1> DEFINE w == <<x, y>>
<1>2. w[1] = x /\ w[2] = y
  OBVIOUS
<1>3. w \in edges' /\ \A e \in edges' : e \in edges \/ e = w
  BY <1>1
<1>4. edges \subseteq edges'
  BY <1>1
<1> HIDE DEF w
<1>5. ASSUME NEW b PROVE Into(edges', b) <=> Into(edges, b) \/ b = y
  BY <1>2, <1>3, <1>4 DEF Into
<1>6. ASSUME NEW b PROVE From(edges', b) <=> From(edges, b) \/ b = x
  BY <1>2, <1>3, <1>4 DEF From
<1>7. QED
  BY <1>1, <1>5, <1>6

\* PassRecorder.maybe_start: the recorder has the channel to itself, or there is none.
LEMMA RecordStep ==
    ASSUME GraphInv, Graph!Record
    PROVE  GraphInv'
<1>1. /\ step = "record" /\ Built
      /\ step' = IF engine = "cubesat" THEN "built" ELSE "select"
      /\ UNCHANGED <<engine, rates, live, labels, primary, kind, tap, fallbacks, soft,
             deframers, fg, reason>>
  BY DEF Graph!Record, Graph!Then, Graph!front, Graph!inputs, Graph!decode, GraphInv
<1>2. Graph!Channel' = Graph!Channel /\ Graph!Channel \in {"rotator", "decimator"}
  BY <1>1 DEF Graph!Channel
<1>3. StepInv'
  BY <1>1 DEF Built, StepInv, Steps, AfterTap
<1>4. /\ \A b : Into(edges, b) => Into(edges', b)
      /\ \A b : Into(edges', b) => Into(edges, b) \/ b = "recorder"
      /\ \A b : From(edges, b) => From(edges', b)
      /\ \A b : From(edges', b) => From(edges, b) \/ b = Graph!Channel
      /\ \A b : <<b, "recorder">> \in edges' => <<b, "recorder">> \in edges \/ b = Graph!Channel
  <2>1. CASE Graph!Connect({<<Graph!Channel, "recorder">>})
    <3>1. /\ edges' = edges \cup {<<Graph!Channel, "recorder">>}
          /\ \A b : Into(edges', b) <=> Into(edges, b) \/ b = "recorder"
          /\ \A b : From(edges', b) <=> From(edges, b) \/ b = Graph!Channel
      BY <2>1, Wired
    <3>2. \A b : <<b, "recorder">> \in edges'
                     => <<b, "recorder">> \in edges \/ b = Graph!Channel
      BY <3>1
    <3>3. QED
      BY <3>1, <3>2
  <2>2. CASE UNCHANGED edges
    BY <2>2
  <2>3. QED
    BY <2>1, <2>2 DEF Graph!Record
<1>5. WiredInv'
  BY <1>1, <1>2, <1>3, <1>4 DEF Built, StepInv, WiredInv, Loose, Graph!HasOutput, Steps,
      AfterTap
<1>6. UsedInv'
  BY <1>1 DEF UsedInv, AfterTap
<1>7. SinkInv'
  BY <1>1, <1>4 DEF Built, StepInv, SinkInv, Bare
<1>8. DecodeInv'
  BY <1>1, <1>4 DEF Built, StepInv, SinkInv, Bare, DecodeInv
<1>9. QED
  BY <1>3, <1>5, <1>6, <1>7, <1>8 DEF GraphInv, Built

\* What was asked for is not in the graph yet.
LEMMA SelectStep ==
    ASSUME GraphInv, Graph!Select
    PROVE  GraphInv'
<1>1. /\ step = "select" /\ Built /\ step' = "tap"
      /\ UNCHANGED <<engine, rates, tap, edges, fallbacks, soft, deframers, fg, reason>>
  BY DEF Graph!Select, Graph!Then, Graph!front, Graph!decode, GraphInv
<1>2. Graph!Channel' = Graph!Channel
  BY <1>1 DEF Graph!Channel
<1>3. StepInv'
  BY <1>1 DEF Built, StepInv, Steps, AfterTap
<1>4. WiredInv'
  BY <1>1, <1>2 DEF Built, WiredInv, Loose, AfterTap
<1>5. UsedInv' /\ SinkInv' /\ DecodeInv'
  BY <1>1 DEF Built, UsedInv, SinkInv, DecodeInv, Bare, AfterTap
<1>6. QED
  BY <1>3, <1>4, <1>5 DEF GraphInv, Built

\* The decoder's tap is the channel or its conjugate.
LEMMA TapStep ==
    ASSUME GraphInv, Graph!Tap
    PROVE  GraphInv'
<1>1. /\ step = "tap" /\ Built /\ step' \in {"demod", "monolith", "terminate"}
      /\ UNCHANGED <<engine, rates, fallbacks, soft, deframers, fg, reason>>
  BY DEF Graph!Tap, Graph!Then, Graph!front, Graph!decode, GraphInv
<1>2. Graph!Channel' = Graph!Channel /\ Graph!Channel \in {"rotator", "decimator"}
  BY <1>1 DEF Graph!Channel
<1>3. StepInv'
  BY <1>1 DEF Built, StepInv, Steps, AfterTap
<1>4. CASE tap' = Graph!Channel /\ UNCHANGED edges
  <2>1. WiredInv'
    BY <1>1, <1>2, <1>4 DEF Built, WiredInv, Loose, AfterTap
  <2>2. UsedInv' /\ SinkInv' /\ DecodeInv'
    BY <1>1, <1>4 DEF Built, SinkInv, Bare, UsedInv, DecodeInv, Graph!Consumed
  <2>3. QED
    BY <1>3, <2>1, <2>2 DEF GraphInv, Built
<1>5. CASE tap' = "conjugate" /\ Graph!Connect({<<Graph!Channel, "conjugate">>})
  <2>1. /\ edges' = edges \cup {<<Graph!Channel, "conjugate">>}
        /\ \A b : Into(edges', b) <=> Into(edges, b) \/ b = "conjugate"
        /\ \A b : From(edges', b) <=> From(edges, b) \/ b = Graph!Channel
    BY <1>5, Wired
  <2>2. WiredInv'
    BY <1>1, <1>2, <1>5, <2>1 DEF Built, WiredInv, Loose, AfterTap
  <2>3. UsedInv' /\ SinkInv' /\ DecodeInv'
    BY <1>1, <1>5, <2>1 DEF Built, SinkInv, Bare, UsedInv, DecodeInv, Graph!Consumed
  <2>4. QED
    BY <1>3, <2>2, <2>3 DEF GraphInv, Built
<1>6. QED
  BY <1>4, <1>5 DEF Graph!Tap

\* The chain that drives the symbols out of the decoder's tap.
LEMMA FskChain ==
    ASSUME NEW from, NEW to, NEW extra, extra \in {{}, {<<"demod", "softSink">>}},
           Graph!Connect(Graph!Path(<<from, "demod", "slicer", to>>) \cup extra)
    PROVE  /\ \A b : to # "recorder" /\ <<b, "recorder">> \in edges'
                     => <<b, "recorder">> \in edges
           /\ \A b : Into(edges', b) <=>
              Into(edges, b) \/ b \in {"demod", "slicer", to} \/ (extra # {} /\ b = "softSink")
           /\ \A b : From(edges', b) <=> From(edges, b) \/ b \in {from, "demod", "slicer"}
<1> DEFINE e1 == <<from, "demod">>
           e2 == <<"demod", "slicer">>
           e3 == <<"slicer", to>>
           e4 == <<"demod", "softSink">>
           es == {e1, e2, e3} \cup extra
<1>1. Graph!Connect(es)
  BY Path4
<1>2. /\ e1[1] = from /\ e1[2] = "demod"
      /\ e2[1] = "demod" /\ e2[2] = "slicer"
      /\ e3[1] = "slicer" /\ e3[2] = to
      /\ e4[1] = "demod" /\ e4[2] = "softSink"
  OBVIOUS
<1>3. extra = {} \/ extra = {e4}
  OBVIOUS
<1>4. extra # {} <=> extra = {e4}
  BY <1>3
<1>5. edges' = edges \cup es
  BY <1>1 DEF Graph!Connect
<1>6. ASSUME NEW b
      PROVE  Into(edges', b) <=>
              Into(edges, b) \/ b \in {"demod", "slicer", to} \/ (extra # {} /\ b = "softSink")
  <2> HIDE DEF e1, e2, e3, e4
  <2>1. Into(es, b) <=> b \in {"demod", "slicer", to} \/ (extra # {} /\ b = "softSink")
    BY <1>2, <1>3, <1>4 DEF Into
  <2>2. Into(edges', b) <=> Into(edges, b) \/ Into(es, b)
    BY <1>5 DEF Into
  <2>3. QED
    BY <2>1, <2>2
<1>7. ASSUME NEW b
      PROVE  From(edges', b) <=> From(edges, b) \/ b \in {from, "demod", "slicer"}
  <2> HIDE DEF e1, e2, e3, e4
  <2>1. From(es, b) <=> b \in {from, "demod", "slicer"}
    BY <1>2, <1>3, <1>4 DEF From
  <2>2. From(edges', b) <=> From(edges, b) \/ From(es, b)
    BY <1>5 DEF From
  <2>3. QED
    BY <2>1, <2>2
<1>8. ASSUME NEW b, to # "recorder", <<b, "recorder">> \in edges'
      PROVE  <<b, "recorder">> \in edges
  BY <1>5, <1>8
<1>9. QED
  BY <1>6, <1>7, <1>8

\* A fallback decoder that is built has something to decode.
LEMMA FallbackServes ==
    /\ Graph!CollectsHard => /\ Graph!LocalServes /\ Graph!HardFallback.input = "hardSink"
                             /\ Graph!HardFallback.native \cup Graph!HardFallback.legacy # {}
    /\ Graph!NativeOn(labels) \cap Graph!SoftProfiles # {} =>
           /\ Graph!LocalServes /\ Graph!SoftFallback.input = "softSink"
           /\ Graph!SoftFallback.native \cup Graph!SoftFallback.legacy # {}
<1>1. Graph!CollectsHard => Graph!LocalServes
  BY DEF Graph!CollectsHard, Graph!LocalServes
<1>2. ASSUME Graph!CollectsHard
      PROVE  Graph!HardFallback.native \cup Graph!HardFallback.legacy # {}
  <2>1. CASE labels = {}
    BY <2>1 DEF Graph!HardFallback
  <2>2. CASE labels # {} /\ Graph!NativeOn(labels) \cap Graph!HardProfiles # {}
    BY <2>2 DEF Graph!HardFallback
  <2>3. CASE labels # {} /\ labels \cap Graph!LocalFramings # {}
    BY <2>3 DEF Graph!HardFallback
  <2>4. QED
    BY <1>2, <2>1, <2>2, <2>3 DEF Graph!CollectsHard, Graph!LegacyServes
<1>3. Graph!HardFallback.input = "hardSink" /\ Graph!SoftFallback.input = "softSink"
  BY DEF Graph!HardFallback, Graph!SoftFallback
<1>4. Graph!NativeOn(labels) \cap Graph!SoftProfiles # {} =>
          Graph!LocalServes /\ Graph!SoftFallback.native \cup Graph!SoftFallback.legacy # {}
  BY DEF Graph!SoftFallback, Graph!LocalServes
<1>5. QED
  BY <1>1, <1>2, <1>3, <1>4

\* A demodulator that is not built leaves the graph as it is.
LEMMA NoDemodStep ==
    ASSUME GraphInv, Graph!NoDemod
    PROVE  GraphInv'
<1>1. /\ step = "demod" /\ Built /\ step' = "deframers"
      /\ UNCHANGED <<engine, rates, live, labels, primary, kind, tap, edges, fallbacks, soft,
             deframers, fg, reason>>
  BY DEF Graph!NoDemod, Graph!Then, Graph!front, Graph!inputs, Graph!decode, GraphInv
<1>2. Graph!Channel' = Graph!Channel
  BY <1>1 DEF Graph!Channel
<1>3. StepInv' /\ WiredInv'
  BY <1>1, <1>2 DEF Built, StepInv, WiredInv, Loose, AfterTap, Steps
<1>4. UsedInv' /\ SinkInv' /\ DecodeInv'
  BY <1>1 DEF Built, SinkInv, Bare, UsedInv, DecodeInv, Graph!Consumed
<1>5. QED
  BY <1>3, <1>4 DEF GraphInv, Built

\* gr-satellites' deframers hang on the soft tap, one by one.
LEMMA DeframersStep ==
    ASSUME GraphInv, Graph!Deframers
    PROVE  GraphInv'
<1>1. /\ step = "deframers" /\ Built /\ step' \in {"monolith", "orphan"}
      /\ UNCHANGED <<engine, rates, live, labels, primary, kind, tap, fallbacks, soft, fg,
             reason>>
      /\ deframers' \subseteq Components /\ (deframers' # {} => soft)
      /\ Graph!Connect({<<"demod", c>> : c \in deframers'})
  BY ComponentNames DEF Graph!Deframers, Graph!Then, Graph!front, Graph!inputs, GraphInv
<1>2. Graph!Channel' = Graph!Channel /\ Graph!Channel \in {"rotator", "decimator"}
  BY <1>1 DEF Graph!Channel
<1> DEFINE es == {<<"demod", c>> : c \in deframers'}
<1>3. /\ \A e \in es : e[1] = "demod" /\ e[2] \in deframers'
      /\ \A c \in deframers' : \E e \in es : e[1] = "demod" /\ e[2] = c
  <2>1. ASSUME NEW e \in es PROVE e[1] = "demod" /\ e[2] \in deframers'
    OBVIOUS
  <2>2. ASSUME NEW c \in deframers' PROVE \E e \in es : e[1] = "demod" /\ e[2] = c
    <3> DEFINE e == <<"demod", c>>
    <3>1. e \in es
      OBVIOUS
    <3>2. e[1] = "demod" /\ e[2] = c
      OBVIOUS
    <3>3. QED
      BY <3>1, <3>2
  <2>3. QED
    BY <2>1, <2>2
<1>5. edges' = edges \cup es
  BY <1>1 DEF Graph!Connect
<1>6. \A b : <<b, "recorder">> \in edges' => <<b, "recorder">> \in edges
  BY <1>1, <1>5 DEF Components
<1> HIDE DEF es
<1>7. /\ \A b : Into(edges', b) <=> Into(edges, b) \/ b \in deframers'
      /\ \A b : From(edges', b) <=> From(edges, b) \/ (b = "demod" /\ deframers' # {})
  <2>1. ASSUME NEW b PROVE Into(edges', b) <=> Into(edges, b) \/ b \in deframers'
    BY <1>3, <1>5 DEF Into
  <2>2. ASSUME NEW b
        PROVE  From(edges', b) <=> From(edges, b) \/ (b = "demod" /\ deframers' # {})
    BY <1>3, <1>5 DEF From
  <2>3. QED
    BY <2>1, <2>2
<1>8. StepInv'
  BY <1>1 DEF Built, StepInv, AfterTap, Steps
<1>9. WiredInv'
  <2>1. /\ \A b : From(edges', b) => b = "src" \/ Into(edges', b)
    BY <1>1, <1>7 DEF Built, WiredInv, UsedInv, AfterTap
  <2>2. \A b \in Graph!HasOutput : Into(edges', b) => (Loose(b))' \/ From(edges', b)
    BY <1>1, <1>7 DEF Built, WiredInv, Loose, AfterTap, Components, Graph!HasOutput
  <2>3. QED
    BY <1>1, <1>2, <1>6, <1>7, <2>1, <2>2 DEF Built, WiredInv, Loose, AfterTap, Components,
        Graph!HasOutput
<1>10. UsedInv' /\ SinkInv' /\ DecodeInv'
  BY <1>1, <1>7, Kept DEF Built, SinkInv, Bare, UsedInv, DecodeInv, Graph!Consumed, Components,
      AfterTap
<1>11. QED
  BY <1>8, <1>9, <1>10 DEF GraphInv, Built

\* The demodulators and our own decoders: FSK, and the families without a soft tap.
LEMMA DemodulatesStep ==
    ASSUME GraphInv, Graph!Demodulates
    PROVE  GraphInv'
<1>1. /\ step = "demod" /\ Built /\ step' = "deframers" /\ Bare
      /\ UNCHANGED <<engine, rates, live, labels, primary, kind, tap, deframers, fg, reason>>
  BY DEF Graph!Demodulates, Graph!Then, Graph!front, Graph!inputs, GraphInv, Built, SinkInv
<1>2. /\ Graph!Channel' = Graph!Channel /\ Graph!Channel \in {"rotator", "decimator"}
      /\ Graph!LocalServes' = Graph!LocalServes
  BY <1>1, Kept DEF Graph!Channel
<1>3. StepInv'
  BY <1>1 DEF Built, StepInv, AfterTap, Steps
<1>4. tap \in {"rotator", "decimator", "conjugate"} /\ Into(edges, tap)
  BY <1>1, <1>2 DEF Built, WiredInv, AfterTap
<1>5. CASE /\ Graph!CollectsHard
           /\ Graph!Connect(Graph!Path(<<tap, "chain", "hardSink">>))
           /\ fallbacks' = {Graph!HardFallback} /\ UNCHANGED soft
  <2> DEFINE e1 == <<tap, "chain">>
             e2 == <<"chain", "hardSink">>
  <2>1. edges' = edges \cup {e1, e2}
    BY <1>5, Path3 DEF Graph!Connect
  <2>2. e1[1] = tap /\ e1[2] = "chain" /\ e2[1] = "chain" /\ e2[2] = "hardSink"
    OBVIOUS
  <2>3. \A b : <<b, "recorder">> \in edges' => <<b, "recorder">> \in edges
    BY <2>1
  <2> HIDE DEF e1, e2
  <2>4. ASSUME NEW b PROVE Into(edges', b) <=> Into(edges, b) \/ b \in {"chain", "hardSink"}
    BY <2>1, <2>2 DEF Into
  <2>5. ASSUME NEW b PROVE From(edges', b) <=> From(edges, b) \/ b \in {tap, "chain"}
    BY <2>1, <2>2 DEF From
  <2>6. WiredInv'
    BY <1>1, <1>2, <1>4, <2>3, <2>4, <2>5 DEF Built, WiredInv, Loose, AfterTap, Graph!HasOutput
  <2>7. UsedInv'
    <3>1. From(edges', tap) /\ ~soft'
      BY <1>1, <1>5, <2>5 DEF Bare
    <3>2. QED
      BY <1>1, <3>1 DEF UsedInv
  <2>8. SinkInv'
    BY <1>1, <1>5, <2>4, FallbackServes DEF Bare, SinkInv
  <2>9. DecodeInv'
    BY <1>1, <1>2, <1>5, <2>4, FallbackServes DEF Bare, DecodeInv
  <2>10. QED
    BY <1>3, <2>6, <2>7, <2>8, <2>9 DEF GraphInv, Built
<1>6. ASSUME NEW fbs,
             fbs = (IF Graph!CollectsHard THEN {Graph!HardFallback} ELSE {})
                   \cup (IF Graph!NativeOn(labels) \cap Graph!SoftProfiles # {}
                           THEN {Graph!SoftFallback} ELSE {}),
             fallbacks' = fbs,
             Graph!Connect(Graph!FskChain(tap)
                           \cup (IF Graph!SoftFallback \in fbs THEN {<<"demod", "softSink">>}
                                 ELSE {})),
             soft' = TRUE
      PROVE  GraphInv'
  <2> DEFINE to == IF Graph!CollectsHard THEN "hardSink" ELSE "hardNull"
             extra == IF Graph!SoftFallback \in fbs THEN {<<"demod", "softSink">>} ELSE {}
  <2>1. Graph!Connect(Graph!Path(<<tap, "demod", "slicer", to>>) \cup extra)
    BY <1>6 DEF Graph!FskChain
  <2>2. extra \in {{}, {<<"demod", "softSink">>}} /\ (extra # {} <=> Graph!SoftFallback \in fbs)
    OBVIOUS
  <2>3. /\ to = "hardSink" <=> Graph!CollectsHard
        /\ to \in {"hardSink", "hardNull"}
    OBVIOUS
  <2> HIDE DEF to, extra
  <2>4. /\ \A b : to # "recorder" /\ <<b, "recorder">> \in edges' => <<b, "recorder">> \in edges
        /\ \A b : Into(edges', b) <=>
              Into(edges, b) \/ b \in {"demod", "slicer", to} \/ (extra # {} /\ b = "softSink")
        /\ \A b : From(edges', b) <=> From(edges, b) \/ b \in {tap, "demod", "slicer"}
    BY <2>1, <2>2, FskChain
  <2>5. WiredInv'
    BY <1>1, <1>2, <1>4, <2>3, <2>4 DEF Built, WiredInv, Loose, AfterTap, Graph!HasOutput
  <2>6. UsedInv'
    <3>1. From(edges', tap) /\ Into(edges', "demod")
      BY <2>4
    <3>2. QED
      BY <1>1, <3>1 DEF UsedInv
  <2>7. /\ Graph!SoftFallback \in fbs => Graph!NativeOn(labels) \cap Graph!SoftProfiles # {}
        /\ fbs # {} => Graph!CollectsHard \/ Graph!SoftFallback \in fbs
        /\ Graph!CollectsHard => Graph!HardFallback \in fbs
    BY <1>6, FallbackServes DEF Graph!SoftFallback, Graph!HardFallback
  <2>8. SinkInv'
    BY <1>1, <1>6, <2>2, <2>3, <2>4, <2>7, FallbackServes DEF Bare, SinkInv
  <2>9. DecodeInv'
    BY <1>1, <1>2, <1>6, <2>2, <2>3, <2>4, <2>7, FallbackServes DEF Bare, DecodeInv
  <2>10. QED
    BY <1>3, <2>5, <2>6, <2>8, <2>9 DEF GraphInv, Built
<1>7. QED
  BY <1>5, <1>6 DEF Graph!Demodulates

\* The monolithic flowgraph of gr-satellites, when it can be built.
LEMMA MonolithStep ==
    ASSUME GraphInv, Graph!Monolith
    PROVE  GraphInv'
<1>1. /\ step = "monolith" /\ Built /\ step' \in {"terminate", "orphan"}
      /\ UNCHANGED <<engine, rates, live, labels, primary, kind, tap, fallbacks, soft,
             deframers, reason>>
  BY DEF Graph!Monolith, Graph!Then, Graph!front, Graph!inputs, GraphInv
<1>2. /\ Graph!Channel' = Graph!Channel /\ Graph!Channel \in {"rotator", "decimator"}
      /\ Graph!LocalServes' = Graph!LocalServes
  BY <1>1, Kept DEF Graph!Channel
<1>3. StepInv'
  BY <1>1 DEF Built, StepInv, AfterTap, Steps
<1>4. CASE UNCHANGED <<fg, edges>>
  <2>1. WiredInv'
    BY <1>1, <1>2, <1>4 DEF Built, WiredInv, Loose, AfterTap
  <2>2. UsedInv' /\ SinkInv' /\ DecodeInv'
    BY <1>1, <1>2, <1>4 DEF Built, SinkInv, UsedInv, DecodeInv, Graph!Consumed, AfterTap
  <2>3. QED
    BY <1>3, <2>1, <2>2 DEF GraphInv, Built
<1>5. CASE fg' = TRUE /\ Graph!Connect({<<tap, "monolith">>})
  <2>1. /\ edges' = edges \cup {<<tap, "monolith">>}
        /\ \A b : Into(edges', b) <=> Into(edges, b) \/ b = "monolith"
        /\ \A b : From(edges', b) <=> From(edges, b) \/ b = tap
    BY <1>5, Wired
  <2>2. \A b : <<b, "recorder">> \in edges' => <<b, "recorder">> \in edges
    BY <2>1
  <2>3. WiredInv'
    BY <1>1, <1>2, <2>1, <2>2 DEF Built, WiredInv, Loose, AfterTap, Graph!HasOutput
  <2>4. UsedInv' /\ SinkInv' /\ DecodeInv'
    BY <1>1, <1>2, <1>5, <2>1 DEF Built, SinkInv, UsedInv, DecodeInv, AfterTap
  <2>5. QED
    BY <1>3, <2>3, <2>4 DEF GraphInv, Built
<1>6. QED
  BY <1>4, <1>5 DEF Graph!Monolith

\* A null sink on the tap neither decodes nor records.
LEMMA NullStep ==
    ASSUME Built, step \in {"orphan", "terminate"}, step' \in {"terminate", "report"},
           UNCHANGED <<engine, rates, live, labels, primary, kind, tap, fallbacks, soft,
               deframers, fg, reason>>,
           Graph!Connect({<<tap, "null">>}) \/ UNCHANGED edges,
           step' = "report" => From(edges', tap)
    PROVE  GraphInv'
<1>1. /\ Graph!Channel' = Graph!Channel /\ Graph!Channel \in {"rotator", "decimator"}
      /\ Graph!LocalServes' = Graph!LocalServes /\ Graph!Consumed' = Graph!Consumed
  BY Kept DEF Graph!Channel, Graph!Consumed
<1>2. StepInv'
  BY DEF Built, StepInv, AfterTap, Steps
<1>3. /\ \A b : Into(edges, b) => Into(edges', b)
      /\ \A b : Into(edges', b) => Into(edges, b) \/ b = "null"
      /\ \A b : From(edges, b) => From(edges', b)
      /\ \A b : From(edges', b) => From(edges, b) \/ b = tap
      /\ \A b : <<b, "recorder">> \in edges' => <<b, "recorder">> \in edges
  <2>1. CASE Graph!Connect({<<tap, "null">>})
    <3>1. /\ edges' = edges \cup {<<tap, "null">>}
          /\ \A b : Into(edges', b) <=> Into(edges, b) \/ b = "null"
          /\ \A b : From(edges', b) <=> From(edges, b) \/ b = tap
      BY <2>1, Wired
    <3>2. \A b : <<b, "recorder">> \in edges' => <<b, "recorder">> \in edges
      BY <3>1
    <3>3. QED
      BY <3>1, <3>2
  <2>2. CASE UNCHANGED edges
    BY <2>2
  <2>3. QED
    BY <2>1, <2>2
<1>4. WiredInv'
  BY <1>1, <1>2, <1>3 DEF Built, WiredInv, Loose, AfterTap, Graph!HasOutput
<1>5. UsedInv'
  BY <1>1, <1>3 DEF Built, UsedInv, AfterTap
<1>6. SinkInv' /\ DecodeInv'
  BY <1>1, <1>3 DEF Built, SinkInv, DecodeInv
<1>7. QED
  BY <1>2, <1>4, <1>5, <1>6 DEF GraphInv, Built

\* A tap nobody took gets a null sink here or in the next step.
LEMMA OrphanStep ==
    ASSUME GraphInv, Graph!Orphan
    PROVE  GraphInv'
<1>1. /\ step = "orphan" /\ Built /\ step' = "terminate"
      /\ UNCHANGED <<engine, rates, live, labels, primary, kind, tap, fallbacks, soft,
             deframers, fg, reason>>
      /\ Graph!Connect({<<tap, "null">>}) \/ UNCHANGED edges
  BY DEF Graph!Orphan, Graph!Then, Graph!front, Graph!inputs, Graph!decode, GraphInv
<1>2. QED
  BY <1>1, NullStep

\* The last output is taken: by a decoder, by the recorder when the tap is the
\* channel itself, or by a null sink.
LEMMA TerminateStep ==
    ASSUME GraphInv, Graph!Terminate
    PROVE  GraphInv'
<1>1. /\ step = "terminate" /\ Built /\ step' = "report"
      /\ UNCHANGED <<engine, rates, live, labels, primary, kind, tap, fallbacks, soft,
             deframers, fg, reason>>
      /\ Graph!Connect({<<tap, "null">>}) \/ UNCHANGED edges
  BY DEF Graph!Terminate, Graph!Then, Graph!front, Graph!inputs, Graph!decode, GraphInv
<1>2. CASE ~Graph!Consumed /\ (tap # Graph!Channel \/ ~Graph!Recorded)
  <2>1. Graph!Connect({<<tap, "null">>})
    BY <1>2 DEF Graph!Terminate
  <2>2. \A b : From(edges', b) <=> From(edges, b) \/ b = tap
    BY <2>1, Wired
  <2>3. QED
    BY <1>1, <2>2, NullStep
<1>3. CASE Graph!Consumed
  <2>1. From(edges, tap) /\ UNCHANGED edges
    BY <1>1, <1>3 DEF Graph!Terminate, Built, UsedInv, AfterTap
  <2>2. QED
    BY <1>1, <2>1, NullStep
<1>4. CASE ~Graph!Consumed /\ tap = Graph!Channel /\ Graph!Recorded
  <2>1. PICK b \in {"rotator", "decimator"} : <<b, "recorder">> \in edges
    BY <1>4 DEF Graph!Recorded
  <2>2. b = tap
    BY <1>1, <1>4, <2>1 DEF Built, WiredInv
  <2> DEFINE e == <<b, "recorder">>
  <2>3. e \in edges /\ e[1] = b
    BY <2>1
  <2>4. From(edges, tap) /\ UNCHANGED edges
    BY <1>4, <2>2, <2>3 DEF Graph!Terminate, From
  <2>5. QED
    BY <1>1, <2>4, NullStep
<1>5. QED
  BY <1>2, <1>3, <1>4

\* The reason is that of the graph as it is started.
LEMMA ReportStep ==
    ASSUME GraphInv, Graph!Report
    PROVE  GraphInv'
<1>1. /\ step = "report" /\ Built /\ step' = "built" /\ reason' = Graph!ReasonFor
      /\ UNCHANGED <<engine, rates, live, labels, primary, kind, tap, edges, fallbacks, soft,
             deframers, fg>>
  BY DEF Graph!Report, Graph!Then, Graph!front, Graph!inputs, Graph!decode, GraphInv
<1>2. /\ Graph!Channel' = Graph!Channel /\ Graph!LocalServes' = Graph!LocalServes
  BY <1>1, Kept DEF Graph!Channel
<1>3. Graph!ReasonFor' = Graph!ReasonFor
  BY <1>1, <1>2 DEF Graph!ReasonFor, Graph!Consumed, Graph!Deframable
<1>4. StepInv' /\ WiredInv' /\ UsedInv'
  BY <1>1, <1>2 DEF Built, StepInv, WiredInv, UsedInv, Loose, AfterTap, Steps
<1>5. SinkInv' /\ DecodeInv'
  BY <1>1, <1>2, <1>3 DEF Built, SinkInv, DecodeInv
<1>6. QED
  BY <1>4, <1>5 DEF GraphInv, Built

\* The cubesat engine has one chain, and the app's decoder drains it.
LEMMA CubesatChainStep ==
    ASSUME GraphInv, Graph!CubesatChain
    PROVE  GraphInv'
<1>1. /\ step = "chain" /\ Built /\ step' = "record" /\ engine = "cubesat"
      /\ UNCHANGED <<engine, rates, live, labels, primary, kind, tap, soft, deframers, fg,
             reason>>
      /\ fallbacks' = {[input |-> "hardSink", native |-> {}, legacy |-> {"endurosat"}]}
  BY DEF Graph!CubesatChain, Graph!Then, Graph!front, Graph!inputs, GraphInv, Built, StepInv
<1>2. Graph!Channel' = Graph!Channel /\ Graph!Channel \in {"rotator", "decimator"}
  BY <1>1 DEF Graph!Channel
<1> DEFINE extra == {}
           to == "hardSink"
<1>3. /\ Graph!Connect(Graph!Path(<<Graph!Channel, "demod", "slicer", to>>) \cup extra)
      /\ extra \in {{}, {<<"demod", "softSink">>}} /\ ~(extra # {}) /\ to = "hardSink"
  BY DEF Graph!CubesatChain
<1> HIDE DEF extra, to
<1>4. /\ \A b : <<b, "recorder">> \in edges' => <<b, "recorder">> \in edges
      /\ \A b : Into(edges', b) <=> Into(edges, b) \/ b \in {"demod", "slicer", "hardSink"}
      /\ \A b : From(edges', b) <=> From(edges, b) \/ b \in {Graph!Channel, "demod", "slicer"}
  <2>1. /\ \A b : to # "recorder" /\ <<b, "recorder">> \in edges' => <<b, "recorder">> \in edges
        /\ \A b : Into(edges', b) <=>
              Into(edges, b) \/ b \in {"demod", "slicer", to} \/ (extra # {} /\ b = "softSink")
        /\ \A b : From(edges', b) <=> From(edges, b) \/ b \in {Graph!Channel, "demod", "slicer"}
    BY <1>3, FskChain
  <2>2. QED
    BY <1>3, <2>1
<1>5. StepInv'
  BY <1>1 DEF Built, StepInv, AfterTap, Steps
<1>6. WiredInv'
  BY <1>1, <1>2, <1>4 DEF Built, WiredInv, Loose, AfterTap, Graph!HasOutput
<1>7. UsedInv' /\ SinkInv' /\ DecodeInv'
  BY <1>1, <1>4 DEF Built, SinkInv, Bare, UsedInv, DecodeInv, AfterTap
<1>8. QED
  BY <1>5, <1>6, <1>7 DEF GraphInv, Built

\* Every step of the builder keeps the invariant, and so does one that is none.
LEMMA GraphStep == GraphInv /\ [Graph!GraphNext]_graph => GraphInv'
<1> SUFFICES ASSUME GraphInv, [Graph!GraphNext]_graph PROVE GraphInv'
  OBVIOUS
<1>1. CASE Graph!Raises
  BY <1>1 DEF Graph!Raises, Graph!Then, GraphInv
<1>2. CASE UNCHANGED graph
  <2>1. /\ Graph!Channel' = Graph!Channel /\ Graph!LocalServes' = Graph!LocalServes
        /\ Graph!Consumed' = Graph!Consumed
    BY <1>2, Kept DEF graph, Graph!Consumed
  <2>2. Graph!ReasonFor' = Graph!ReasonFor
    BY <1>2, <2>1 DEF graph, Graph!ReasonFor, Graph!Deframable
  <2>3. QED
    BY <1>2, <2>1, <2>2 DEF graph, GraphInv, Built, StepInv, WiredInv, Loose, UsedInv, SinkInv,
        Bare, DecodeInv
<1>3. CASE Graph!GraphDone
  BY <1>2, <1>3 DEF Graph!GraphDone, Graph!graphVars, Graph!front, Graph!inputs, Graph!decode,
      graph
<1>4. QED
  BY <1>1, <1>2, <1>3, FrontEndStep, RecordStep, SelectStep, TapStep, DemodulatesStep,
      NoDemodStep,
     DeframersStep, MonolithStep, OrphanStep, TerminateStep, ReportStep, CubesatChainStep
     DEF Graph!GraphNext

\* Whatever else the behaviour is about, the graph moves by the builder or stays.
LEMMA GraphMoves ==
    ASSUME [EitherNext]_<<receiveVars, offlineVars>>
    PROVE  [Graph!GraphNext]_graph
BY DEF EitherNext, ReceiveNext, OfflineNext, receiveVars

\* The graph is in order at every step of its assembly.
LEMMA GraphInductive == EitherSpec => []GraphInv
<1>1. EitherInit => GraphInv
  BY GraphInitInv DEF EitherInit, ReceiveInit, ReceiveStill
<1>2. GraphInv /\ [EitherNext]_<<receiveVars, offlineVars>> => GraphInv'
  BY GraphMoves, GraphStep
<1>3. QED
  BY <1>1, <1>2, PTL DEF EitherSpec

\* Whatever the backend asks for, the station enables and a constructor refuses
\* (build_satellites_rx, build_rx_top_block): the graph that is started has no
\* output without a consumer, no block without an input, and no symbol queue
\* without a decoder.  For any labels, modulations and rates.
THEOREM NothingDanglesCorrect == EitherSpec => []NothingDangles
<1>1. GraphInv => NothingDangles
  <2> SUFFICES ASSUME GraphInv, step = "built" PROVE NothingDangles
    BY DEF NothingDangles, Graph!PortsTerminated, Graph!NoIdleQueue
  <2>1. Built /\ \A b : ~Loose(b)
    BY DEF GraphInv, Loose, AfterTap
  <2>2. ASSUME NEW e \in edges
        PROVE  /\ e[2] \in Graph!HasOutput => \E f \in edges : f[1] = e[2]
               /\ e[1] # "src" => Graph!Fed(e[1])
    <3>1. Into(edges, e[2]) /\ From(edges, e[1])
      BY <2>2 DEF Into, From
    <3>2. /\ e[2] \in Graph!HasOutput => From(edges, e[2])
          /\ e[1] = "src" \/ Into(edges, e[1])
      BY <2>1, <3>1 DEF Built, WiredInv
    <3>3. QED
      BY <3>2 DEF Into, From, Graph!Fed
  <2>3. \A q \in Graph!SymbolSinks : Graph!Fed(q) => Graph!Drained(q)
    BY <2>1 DEF Built, SinkInv, Into, Graph!Fed, Graph!Drained, Graph!SymbolSinks
  <2>4. QED
    BY <2>2, <2>3 DEF NothingDangles, Graph!PortsTerminated, Graph!NoIdleQueue
<1>2. QED
  BY <1>1, GraphInductive, PTL

\* What the ready event says of the decoder (no_decode_reason) is so: it says
\* nothing exactly when something in the graph can turn samples into frames.
THEOREM ReportIsTrueCorrect == EitherSpec => []ReportIsTrue
<1>1. GraphInv => ReportIsTrue
  <2> SUFFICES ASSUME GraphInv, step = "built", engine = "satellites" PROVE ReportIsTrue
    BY DEF ReportIsTrue, Graph!ReportIsTrue
  <2>1. Built
    BY DEF GraphInv
  <2> DEFINE Heard(d) == Graph!Fed(d) /\ (d \in Graph!SymbolSinks => Graph!Drained(d))
  <2>2. /\ \A d : Graph!Fed(d) <=> Into(edges, d)
        /\ \A d \in Graph!SymbolSinks : Into(edges, d) => Graph!Drained(d)
        /\ \A d : Graph!Drained(d) => fallbacks # {}
    BY <2>1 DEF Built, SinkInv, Into, Graph!Fed, Graph!Drained, Graph!SymbolSinks
  <2>3. reason = "" <=> Graph!Consumed /\ Graph!Deframable
    BY <2>1 DEF Built, DecodeInv, Graph!ReasonFor
  <2>4. ASSUME Graph!Consumed, Graph!Deframable
        PROVE  \E d \in Graph!SymbolSinks \cup {"monolith"} \cup deframers : Heard(d)
    <3>1. CASE fallbacks # {}
      <4>1. PICK q \in Graph!SymbolSinks : Into(edges, q)
        BY <2>1, <3>1 DEF Built, DecodeInv, Graph!SymbolSinks
      <4>2. Heard(q)
        BY <2>2, <4>1
      <4>3. QED
        BY <4>2
    <3>2. CASE deframers # {}
      <4>1. PICK c \in deframers : Into(edges, c)
        BY <2>1, <3>2 DEF Built, DecodeInv
      <4>2. Heard(c)
        BY <2>2, <4>1
      <4>3. QED
        BY <4>2
    <3>3. CASE fg
      <4>1. Into(edges, "monolith")
        BY <2>1, <3>3 DEF Built, DecodeInv
      <4>2. Heard("monolith")
        BY <2>2, <4>1
      <4>3. QED
        BY <4>2
    <3>4. QED
      BY <2>4, <3>1, <3>2, <3>3 DEF Graph!Consumed
  <2>5. ASSUME NEW d \in Graph!SymbolSinks \cup {"monolith"} \cup deframers, Heard(d)
        PROVE  Graph!Consumed /\ Graph!Deframable
    BY <2>1, <2>2, <2>5 DEF Built, DecodeInv, Graph!Consumed, Graph!Deframable
  <2>6. QED
    BY <2>3, <2>4, <2>5 DEF ReportIsTrue, Graph!ReportIsTrue
<1>2. QED
  BY <1>1, GraphInductive, PTL

\* The greatest divisor within a bound is there to be chosen.
LEMMA GreatestDivisor ==
    ASSUME NEW n \in Nat, NEW top \in Nat \ {0}
    PROVE  /\ Graph!LargestDivisor(n, top) \in 1..top
           /\ n % Graph!LargestDivisor(n, top) = 0
<1> DEFINE Short == {d \in 0..(top - 1) : n % (top - d) = 0}
<1>1. Short # {}
  <2>1. PICK one \in 0..(top - 1) : one = top - 1
    OBVIOUS
  <2>2. top - one = 1 /\ n % 1 = 0
    BY <2>1
  <2>3. n % (top - one) = 0
    BY <2>2
  <2>4. one \in Short
    BY <2>3
  <2>5. QED
    BY <2>4
<1>2. PICK d \in Short : \A e \in Short : d <= e
  <2>1. Short \in SUBSET Nat /\ Short # {}
    BY <1>1
  <2> HIDE DEF Short
  <2>2. QED
    BY <2>1, LeastNatural
<1>3. ASSUME NEW j \in (top - d + 1)..top, n % j = 0 PROVE FALSE
  <2>1. top - j \in Short
    BY <1>3
  <2>2. QED
    BY <1>2, <2>1, SMTT(30)
<1>4. top - d \in 1..top /\ n % (top - d) = 0
  BY <1>2
<1>5. \E k \in 1..top : n % k = 0 /\ \A j \in (k + 1)..top : n % j # 0
  <2>1. \A j \in ((top - d) + 1)..top : n % j # 0
    BY <1>3
  <2>2. QED
    BY <1>4, <2>1
<1>6. QED
  BY <1>5, Zenon DEF Graph!LargestDivisor

\* A rate divided by a divisor that leaves what is wanted.
LEMMA WidenedRate ==
    ASSUME NEW sdr \in Nat, NEW want \in Nat \ {0}, want <= sdr
    PROVE  LET ch == sdr \div Graph!LargestDivisor(sdr, sdr \div want)
           IN  ch \in Nat \ {0} /\ want <= ch /\ ch <= sdr /\ sdr % ch = 0
<1>1. PICK top \in Nat : top = sdr \div want
  OBVIOUS
<1>2. top # 0 /\ want * top <= sdr
  BY <1>1
<1>3. PICK k : k = Graph!LargestDivisor(sdr, top)
  OBVIOUS
<1>4. k \in 1..top /\ sdr % k = 0
  BY <1>2, <1>3, GreatestDivisor
<1>5. PICK ch : ch = sdr \div k
  OBVIOUS
<1>6. ch \in Nat /\ sdr = k * ch
  BY <1>4, <1>5
<1>7. want * k <= k * ch
  <2>1. want * k <= want * top
    BY <1>4
  <2>2. QED
    BY <1>2, <1>4, <1>6, <2>1
<1>8. want <= ch
  BY <1>4, <1>6, <1>7
<1>9. ch <= sdr
  BY <1>4, <1>6
<1>10. sdr % ch = 0
  <2>1. \A a, b \in Nat \ {0} : (a * b) % b = 0
    OBVIOUS
  <2>2. QED
    BY <1>4, <1>6, <1>8, <2>1
<1>11. QED
  BY <1>1, <1>3, <1>5, <1>6, <1>8, <1>9, <1>10

\* capture_plan, select_channel_rate and auto_lo_offset: the rates of the front end.
LEMMA FrontRates ==
    ASSUME GraphInv, Graph!FrontEnd
    PROVE  /\ rates'.channel >= Requested
           /\ engine = "satellites" => rates'.channel >= 4 * rates'.sym
           /\ rates'.channel # Requested => rates'.sdr % rates'.channel = 0
           /\ engine = "satellites" \/ Requested <= rates'.sdr =>
                  2 * rates'.lo + rates'.channel <= rates'.sdr
<1>1. PICK sym \in Symbols, capture \in Captures, shift \in Offsets :
          LET sdr == Graph!SdrRate(capture, IF engine = "cubesat" THEN Requested
                                            ELSE Graph!Greater(Requested, 4 * sym))
              ch  == IF engine = "cubesat" THEN Requested ELSE Graph!ChannelRate(sym, sdr)
          IN  /\ engine = "satellites" => Graph!Feasible(sym, sdr)
              /\ rates' = [sym |-> sym, channel |-> ch, sdr |-> sdr,
                           lo |-> Graph!LoOffset(shift, ch, sdr)]
  BY DEF Graph!FrontEnd
<1>2. /\ sym \in Nat /\ capture \in Nat /\ shift \in Nat /\ Requested \in Nat \ {0}
      /\ DefaultOffset \in Nat
  BY FrontAssumption
<1>3. PICK want \in Nat \ {0} : want = Graph!Greater(Requested, 4 * sym)
  BY <1>2 DEF Graph!Greater
<1>4. Requested <= want /\ 4 * sym <= want /\ want \in {Requested, 4 * sym}
  BY <1>2, <1>3 DEF Graph!Greater
<1>5. PICK sdr \in Nat : sdr = Graph!SdrRate(capture, IF engine = "cubesat" THEN Requested
                                                      ELSE want)
  BY <1>2 DEF Graph!SdrRate
<1>6. PICK ch : ch = IF engine = "cubesat" THEN Requested ELSE Graph!ChannelRate(sym, sdr)
  OBVIOUS
<1>7. PICK lo : lo = Graph!LoOffset(shift, ch, sdr)
  OBVIOUS
<1>8. /\ engine = "satellites" => Graph!Feasible(sym, sdr)
      /\ rates' = [sym |-> sym, channel |-> ch, sdr |-> sdr, lo |-> lo]
  BY <1>1, <1>3, <1>5, <1>6, <1>7
<1>9. engine \in {"satellites", "cubesat"}
  BY DEF Graph!FrontEnd, GraphInv, Built, StepInv
<1>10. CASE engine = "cubesat"
  <2>1. ch = Requested
    BY <1>6, <1>10
  <2>2. lo \in Nat /\ (Requested <= sdr => 2 * lo + Requested <= sdr)
    BY <1>2, <1>7, <2>1 DEF Graph!LoOffset
  <2>3. QED
    BY <1>2, <1>8, <1>10, <2>1, <2>2
<1>11. CASE engine = "satellites"
  <2>1. want <= sdr
    BY <1>2, <1>4, <1>8, <1>11 DEF Graph!Feasible
  <2>2. /\ ch \in Nat \ {0} /\ want <= ch /\ ch <= sdr
        /\ ch # Requested => sdr % ch = 0
    <3>1. CASE want \in {Requested, sdr}
      <4>1. ch = want
        BY <1>3, <1>6, <1>11, <3>1 DEF Graph!ChannelRate
      <4>2. sdr % sdr = 0 \/ sdr = 0
        OBVIOUS
      <4>3. QED
        BY <1>2, <2>1, <3>1, <4>1, <4>2
    <3>2. CASE want \notin {Requested, sdr}
      <4>1. ch = sdr \div Graph!LargestDivisor(sdr, sdr \div want)
        BY <1>3, <1>6, <1>11, <3>2 DEF Graph!ChannelRate
      <4>2. QED
        BY <2>1, <4>1, WidenedRate
    <3>3. QED
      BY <3>1, <3>2
  <2>3. lo \in Nat /\ 2 * lo + ch <= sdr
    BY <1>2, <1>7, <2>2 DEF Graph!LoOffset
  <2>4. QED
    BY <1>2, <1>4, <1>8, <1>11, <2>2, <2>3
<1>12. QED
  BY <1>9, <1>10, <1>11

\* The front end tunes, widens and connects what was planned, with a gain.
LEMMA FrontHeard ==
    ASSUME GraphInv, Graph!FrontEnd
    PROVE  Graph!SignalHeard'
<1>1. edges = {} /\ engine' = engine
  BY DEF Graph!FrontEnd, GraphInv, Built, StepInv
<1>2. PICK ch, sdr :
          /\ rates'.channel = ch /\ rates'.sdr = sdr
          /\ edges' = edges \cup (IF ch # sdr THEN Graph!Path(<<"src", "rotator", "decimator">>)
                                              ELSE Graph!Path(<<"src", "rotator">>))
  BY DEF Graph!FrontEnd, Graph!Connect
<1>3. Graph!Fed("decimator")' <=> rates'.channel # rates'.sdr
  <2>1. CASE ch # sdr
    <3>1. edges' = {<<"src", "rotator">>, <<"rotator", "decimator">>}
      BY <1>1, <1>2, <2>1, Path3
    <3>2. PICK e : e = <<"rotator", "decimator">>
      OBVIOUS
    <3>3. e \in edges' /\ e[2] = "decimator"
      BY <3>1, <3>2
    <3>4. QED
      BY <1>2, <2>1, <3>3 DEF Graph!Fed
  <2>2. CASE ch = sdr
    <3>1. edges' = {<<"src", "rotator">>}
      BY <1>1, <1>2, <2>2, Path2
    <3>2. QED
      BY <1>2, <2>2, <3>1 DEF Graph!Fed
  <2>3. QED
    BY <2>1, <2>2
<1>4. gain' # "zero"
  <2>1. PICK elements \in {"unset", "empty", "number"}, overall \in {"unset", "number"},
             agc \in BOOLEAN : gain' = Graph!GainFor(elements, overall, agc)
    BY DEF Graph!FrontEnd
  <2>2. Graph!GainFor(elements, overall, agc) \in {"elements", "overall", "agc", "default"}
    BY DEF Graph!GainFor
  <2>3. QED
    BY <2>1, <2>2
<1>5. QED
  BY <1>1, <1>3, <1>4, FrontRates DEF Graph!SignalHeard

\* What follows the front end leaves its settings, and what feeds the decimator.
LEMMA SettingsKept ==
    ASSUME Graph!GraphNext, ~Graph!FrontEnd, ~Graph!Raises, step # "failed"
    PROVE  /\ UNCHANGED <<engine, rates, gain>> /\ step # "front"
           /\ Graph!Fed("decimator")' <=> Graph!Fed("decimator")
<1> USE DEF Graph!front, Graph!inputs, Graph!decode
<1>0. \A b : Graph!Fed(b) <=> Into(edges, b)
  BY DEF Graph!Fed, Into
<1>1. CASE UNCHANGED edges
  <2>1. Graph!Fed("decimator")' <=> Graph!Fed("decimator")
    BY <1>1 DEF Graph!Fed
  <2>2. QED
    BY <2>1, SMT DEF Graph!GraphNext, Graph!Record, Graph!Select, Graph!Tap, Graph!Demodulates,
       Graph!NoDemod, Graph!Deframers, Graph!Monolith, Graph!Orphan, Graph!Terminate,
       Graph!Report, Graph!CubesatChain, Graph!GraphDone, Graph!graphVars
<1>2. ASSUME NEW x, NEW y, y # "decimator", Graph!Connect({<<x, y>>})
      PROVE  Graph!Fed("decimator")' <=> Graph!Fed("decimator")
  <2>1. Into(edges', "decimator") <=> Into(edges, "decimator")
    BY <1>2, Wired
  <2>2. QED
    BY <2>1 DEF Graph!Fed, Into
<1>3. CASE Graph!Record
  BY <1>1, <1>2, <1>3 DEF Graph!Record
<1>4. CASE Graph!Tap
  BY <1>1, <1>2, <1>4 DEF Graph!Tap
<1>5. CASE Graph!Monolith
  BY <1>1, <1>2, <1>5 DEF Graph!Monolith
<1>6. CASE Graph!Orphan \/ Graph!Terminate
  BY <1>1, <1>2, <1>6 DEF Graph!Orphan, Graph!Terminate
<1>7. CASE Graph!Deframers
  <2>1. PICK built \in SUBSET (UNION {Graph!ComponentsFor(l) : l \in labels}) :
           edges' = edges \cup {<<"demod", c>> : c \in built}
    BY <1>7 DEF Graph!Deframers, Graph!Connect
  <2>2. "decimator" \notin built
    BY ComponentNames DEF Components
  <2>3. \A e \in {<<"demod", c>> : c \in built} : e[2] # "decimator"
    BY <2>2
  <2>4. Graph!Fed("decimator")' <=> Graph!Fed("decimator")
    BY <2>1, <2>3 DEF Graph!Fed
  <2>5. QED
    BY <1>7, <2>4 DEF Graph!Deframers
<1>8. ASSUME NEW from, NEW to, NEW extra, to # "decimator",
             extra \in {{}, {<<"demod", "softSink">>}},
             Graph!Connect(Graph!Path(<<from, "demod", "slicer", to>>) \cup extra)
      PROVE  Graph!Fed("decimator")' <=> Graph!Fed("decimator")
  <2>1. Into(edges', "decimator") <=> Into(edges, "decimator")
    BY <1>8, FskChain
  <2>2. QED
    BY <2>1 DEF Graph!Fed, Into
<1>9. CASE Graph!CubesatChain
  <2>1. Graph!Connect(Graph!Path(<<Graph!Channel, "demod", "slicer", "hardSink">>) \cup {})
    BY <1>9 DEF Graph!CubesatChain
  <2>2. Graph!Fed("decimator")' <=> Graph!Fed("decimator")
    BY <1>8, <2>1
  <2>3. QED
    BY <1>9, <2>2 DEF Graph!CubesatChain
<1>10. CASE Graph!Demodulates
  <2>1. CASE Graph!Connect(Graph!Path(<<tap, "chain", "hardSink">>))
    <3>1. edges' = edges \cup {<<tap, "chain">>, <<"chain", "hardSink">>}
      BY <2>1, Path3 DEF Graph!Connect
    <3>2. QED
      BY <1>10, <3>1 DEF Graph!Demodulates, Graph!Fed
  <2>2. ASSUME NEW fbs,
               Graph!Connect(Graph!FskChain(tap)
                             \cup (IF Graph!SoftFallback \in fbs THEN {<<"demod", "softSink">>}
                                   ELSE {}))
        PROVE  Graph!Fed("decimator")' <=> Graph!Fed("decimator")
    <3>1. PICK to \in {"hardSink", "hardNull"} :
              to = IF Graph!CollectsHard THEN "hardSink" ELSE "hardNull"
      OBVIOUS
    <3>2. PICK extra \in {{}, {<<"demod", "softSink">>}} :
              extra = IF Graph!SoftFallback \in fbs THEN {<<"demod", "softSink">>} ELSE {}
      OBVIOUS
    <3>3. Graph!Connect(Graph!Path(<<tap, "demod", "slicer", to>>) \cup extra)
      BY <2>2, <3>1, <3>2 DEF Graph!FskChain
    <3>4. QED
      BY <1>8, <3>3
  <2>3. Graph!Fed("decimator")' <=> Graph!Fed("decimator")
    BY <1>10, <2>1, <2>2 DEF Graph!Demodulates
  <2>4. QED
    BY <1>10, <2>3 DEF Graph!Demodulates
<1>11. CASE Graph!Select \/ Graph!NoDemod \/ Graph!Report \/ Graph!GraphDone
  BY <1>1, <1>11 DEF Graph!Select, Graph!NoDemod, Graph!Report, Graph!GraphDone,
     Graph!graphVars
<1>12. QED
  BY <1>3, <1>4, <1>5, <1>6, <1>7, <1>9, <1>10, <1>11 DEF Graph!GraphNext

\* The device is set once, before anything hangs on it.
LEMMA HeardStep ==
    GraphInv /\ Graph!SignalHeard /\ [Graph!GraphNext]_graph => Graph!SignalHeard'
<1> SUFFICES ASSUME GraphInv, Graph!SignalHeard, [Graph!GraphNext]_graph
             PROVE  Graph!SignalHeard'
  OBVIOUS
<1>1. CASE UNCHANGED graph
  BY <1>1 DEF graph, Graph!SignalHeard, Graph!Fed
<1>2. CASE Graph!FrontEnd
  BY <1>2, FrontHeard
<1>3. CASE Graph!Raises
  BY <1>3 DEF Graph!Raises, Graph!Then, Graph!SignalHeard
<1>4. CASE Graph!GraphNext /\ step = "failed"
  BY <1>1, <1>4 DEF Graph!GraphNext, Graph!FrontEnd, Graph!Record, Graph!Select, Graph!Tap,
     Graph!Demodulates, Graph!NoDemod, Graph!Deframers, Graph!Monolith, Graph!Orphan,
     Graph!Terminate, Graph!Report, Graph!CubesatChain, Graph!Raises, Graph!GraphDone,
     Graph!graphVars, Graph!front, Graph!inputs, Graph!decode, graph
<1>5. CASE Graph!GraphNext /\ ~Graph!FrontEnd /\ ~Graph!Raises /\ step # "failed"
  BY <1>5, SettingsKept DEF Graph!SignalHeard
<1>6. QED
  BY <1>1, <1>2, <1>3, <1>4, <1>5

\* The satellite is heard whatever the station configures (select_channel_rate,
\* capture_plan, auto_lo_offset, configure_soapy_source): the channel has what was
\* requested and four samples a symbol, a widened one divides the rate of the device,
\* the offset carrier stays inside the captured band, the decimator is there exactly
\* when the rates differ, and a gain is set.  For any rates and offsets.
THEOREM SignalHeardCorrect == EitherSpec => []SignalHeard
<1>1. EitherInit => Graph!SignalHeard
  BY DEF EitherInit, ReceiveInit, ReceiveStill, Graph!GraphInit, Graph!SignalHeard
<1>2. GraphInv /\ Graph!SignalHeard /\ [EitherNext]_<<receiveVars, offlineVars>>
          => Graph!SignalHeard'
  BY GraphMoves, HeardStep
<1>3. QED
  BY <1>1, <1>2, GraphInductive, PTL DEF EitherSpec, SignalHeard

-----------------------------------------------------------------------------
(* The lock.                                                               *)

LockFiles   == [owner : Probes, pid : Probes \cup {Lock!Unwritten}]
LockPlaces  == Lock!Running \cup {"done", "refused", "dead"}
Holding == {"write", "hold"}

\* The types, with the one file spelt out.
FileInv ==
    /\ lock = {} \/ \E f \in LockFiles : lock = {f}
    /\ at \in [Probes -> LockPlaces]
    /\ read \in [Probes -> Probes \cup {Lock!Unwritten}]
    /\ swapped \in BOOLEAN

\* A probe about to remove the lock has read the name of one that is gone, and
\* none comes back.
GoneInv ==
    \A p \in Probes : at[p] = "unlink" => read[p] \in Probes /\ at[read[p]] \notin Lock!Running

\* The lock there is belongs to whoever holds it.
HeldInv ==
    swapped \/ \A p \in Probes : at[p] \in Holding =>
                   \E f \in lock : f.owner = p /\ (at[p] = "hold" => f.pid = p)

LockIInv == FileInv /\ GoneInv /\ HeldInv

\* The module of the lock counts as this one does.
LEMMA LockCounts ==
    ASSUME NEW S
    PROVE  Lock!Cardinality(S) = Cardinality(S)
BY Zenon DEF Lock!Cardinality, Cardinality

\* The strengthened types give the type invariant of ProbeLock: a lock file
\* names at most one owner.
LEMMA LockTypeSuffices == FileInv => Lock!LockTypeOK
<1> SUFFICES ASSUME FileInv PROVE Lock!LockTypeOK
  OBVIOUS
<1>1. lock \subseteq LockFiles
  BY DEF FileInv
<1>2. Cardinality(lock) <= 1
  <2>1. CASE lock = {}
    BY <2>1, FS_EmptySet
  <2>2. CASE \E f \in LockFiles : lock = {f}
    <3>1. PICK f \in LockFiles : lock = {f}
      BY <2>2
    <3>2. Cardinality({f}) = 1
      BY FS_Singleton
    <3>3. QED
      BY <3>1, <3>2
  <2>3. QED
    BY <2>1, <2>2 DEF FileInv
<1>3. QED
  BY <1>1, <1>2, LockCounts DEF FileInv, Lock!LockTypeOK, LockFiles, LockPlaces

\* No probe has a lock at first.
LEMMA InitLock == Lock!LockInit => LockIInv
BY DEF Lock!LockInit, LockIInv, FileInv, GoneInv, HeldInv, LockFiles, LockPlaces, Lock!Running,
    Holding

\* Whoever moves, and wherever it goes, the others stay where they are.
LEMMA Moved ==
    ASSUME NEW p \in Probes, NEW place \in LockPlaces, at \in [Probes -> LockPlaces],
        Lock!Goes(p, place)
    PROVE  /\ at' \in [Probes -> LockPlaces] /\ at'[p] = place
           /\ \A q \in Probes \ {p} : at'[q] = at[q]
BY DEF Lock!Goes

\* Every system call keeps the types, and Lock!Kill and the end of all do too.
LEMMA FileStep ==
    ASSUME FileInv, Lock!LockNext
    PROVE  FileInv'
<1>1. ASSUME NEW p \in Probes, Lock!LockStep(p) \/ Lock!Kill(p)
      PROVE  FileInv'
  <2> USE DEF FileInv, LockFiles, LockPlaces, Lock!Running
  <2>1. CASE Lock!Create(p)
    <3>1. [owner |-> p, pid |-> Lock!Unwritten] \in LockFiles
      OBVIOUS
    <3>2. QED
      BY <2>1, <3>1 DEF Lock!Create, Lock!Goes
  <2>2. CASE Lock!WritePid(p)
    <3>1. at' \in [Probes -> LockPlaces] /\ UNCHANGED <<read, swapped>>
      BY <2>2 DEF Lock!WritePid, Lock!Goes
    <3>2. lock' = {} \/ \E f \in LockFiles : lock' = {f}
      <4>1. CASE lock = {}
        BY <2>2, <4>1 DEF Lock!WritePid
      <4>2. ASSUME NEW f \in LockFiles, lock = {f}
            PROVE  \E g \in LockFiles : lock' = {g}
        <5> DEFINE g == [f EXCEPT !.pid = IF f.owner = p THEN p ELSE @]
        <5>1. g \in LockFiles
          OBVIOUS
        <5>2. lock' = {g}
          BY <2>2, <4>2 DEF Lock!WritePid
        <5>3. QED
          BY <5>1, <5>2
      <4>3. QED
        BY <4>1, <4>2
    <3>3. QED
      BY <3>1, <3>2
  <2>3. CASE Lock!Exists(p)
    BY <2>3 DEF Lock!Exists, Lock!Goes
  <2>4. CASE Lock!ReadPid(p)
    <3>1. (IF lock = {} THEN Lock!Unwritten ELSE (CHOOSE f \in lock : TRUE).pid)
              \in Probes \cup {Lock!Unwritten}
      OBVIOUS
    <3>2. QED
      BY <2>4, <3>1 DEF Lock!ReadPid, Lock!Goes
  <2>5. CASE Lock!Judge(p)
    BY <2>5 DEF Lock!Judge, Lock!Goes
  <2>6. CASE Lock!Unlink(p)
    BY <2>6 DEF Lock!Unlink, Lock!Goes
  <2>7. CASE Lock!Release(p)
    BY <2>7 DEF Lock!Release, Lock!Goes
  <2>8. CASE Lock!Unlocked(p)
    BY <2>8 DEF Lock!Unlocked, Lock!Goes
  <2>9. CASE Lock!Kill(p)
    BY <2>9 DEF Lock!Kill, Lock!Goes
  <2>10. QED
    BY <1>1, <2>1, <2>2, <2>3, <2>4, <2>5, <2>6, <2>7, <2>8, <2>9 DEF Lock!LockStep
<1>2. CASE Lock!LockEnds
  BY <1>2 DEF Lock!LockEnds, Lock!lockVars, FileInv
<1>3. QED
  BY <1>1, <1>2 DEF Lock!LockNext

\* A probe that is gone stays gone, and only a judged lock is removed.
LEMMA GoneStep ==
    ASSUME FileInv, GoneInv, Lock!LockNext
    PROVE  GoneInv'
<1>1. ASSUME NEW p \in Probes, Lock!LockStep(p) \/ Lock!Kill(p)
      PROVE  GoneInv'
  <2> SUFFICES ASSUME NEW q \in Probes, at'[q] = "unlink"
               PROVE  read'[q] \in Probes /\ at'[read'[q]] \notin Lock!Running
    BY DEF GoneInv
  <2>1. at \in [Probes -> LockPlaces] /\ at[p] \in Lock!Running
    BY <1>1 DEF Lock!LockStep, Lock!Create, Lock!WritePid, Lock!Exists, Lock!ReadPid,
        Lock!Judge, Lock!Unlink, Lock!Release, Lock!Unlocked,
                Lock!Kill, FileInv, Lock!Running
  <2>2. at' = [at EXCEPT ![p] = at'[p]]
    BY <1>1, <2>1 DEF Lock!LockStep, Lock!Create, Lock!WritePid, Lock!Exists, Lock!ReadPid,
        Lock!Judge, Lock!Unlink, Lock!Release,
                      Lock!Unlocked, Lock!Kill, Lock!Goes, LockPlaces, Lock!Running
  <2>3. CASE q # p
    <3>1. at[q] = "unlink" /\ read'[q] = read[q]
      BY <1>1, <2>1, <2>2, <2>3 DEF Lock!LockStep, Lock!Create, Lock!WritePid, Lock!Exists,
          Lock!ReadPid, Lock!Judge, Lock!Unlink,
                                    Lock!Release, Lock!Unlocked, Lock!Kill, FileInv
    <3>2. read[q] \in Probes /\ at[read[q]] \notin Lock!Running
      BY <3>1 DEF GoneInv
    <3>3. read[q] # p
      BY <2>1, <3>2
    <3>4. QED
      BY <2>1, <2>2, <3>1, <3>2, <3>3
  <2>4. CASE q = p
    <3>1. Lock!Judge(p)
      BY <1>1, <2>1, <2>4 DEF Lock!LockStep, Lock!Create, Lock!WritePid, Lock!Exists,
          Lock!ReadPid, Lock!Judge, Lock!Unlink,
                              Lock!Release, Lock!Unlocked, Lock!Kill, Lock!Goes
    <3>2. PICK alive \in BOOLEAN :
              /\ read[p] # Lock!Unwritten => Lock!PidAlive(read[p], alive)
              /\ Lock!Goes(p,
                     IF read[p] # Lock!Unwritten /\ ~alive THEN "unlink" ELSE "refused")
      BY <3>1 DEF Lock!Judge
    <3>3. read[p] # Lock!Unwritten /\ ~alive
      BY <2>1, <2>4, <3>2 DEF Lock!Goes
    <3>4. read[p] \in Probes /\ at[read[p]] \notin Lock!Running
      BY <3>2, <3>3 DEF Lock!PidAlive, FileInv
    <3>5. read[p] # p /\ read' = read
      BY <2>1, <3>1, <3>4 DEF Lock!Judge
    <3>6. QED
      BY <2>1, <2>2, <2>4, <3>4, <3>5
  <2>5. QED
    BY <2>3, <2>4
<1>2. CASE Lock!LockEnds
  BY <1>2 DEF Lock!LockEnds, Lock!lockVars, GoneInv
<1>3. QED
  BY <1>1, <1>2 DEF Lock!LockNext

\* The file and its holder: the one step that could part them removes a file by
\* its name, and then says so.
LEMMA HeldStep ==
    ASSUME FileInv, GoneInv, HeldInv, Lock!LockNext
    PROVE  HeldInv'
<1>1. ASSUME NEW p \in Probes, Lock!LockStep(p) \/ Lock!Kill(p)
      PROVE  HeldInv'
  <2>1. at \in [Probes -> LockPlaces]
    BY DEF FileInv
  <2> SUFFICES ASSUME ~swapped', NEW q \in Probes, at'[q] \in Holding
               PROVE  \E f \in lock' : f.owner = q /\ (at'[q] = "hold" => f.pid = q)
    BY DEF HeldInv
  <2>2. ~swapped
    BY <1>1 DEF Lock!LockStep, Lock!Create, Lock!WritePid, Lock!Exists, Lock!ReadPid,
        Lock!Judge, Lock!Unlink, Lock!Release, Lock!Unlocked, Lock!Kill
  <2>3. \A r \in Probes : at[r] \in Holding =>
            \E f \in lock : f.owner = r /\ (at[r] = "hold" => f.pid = r)
    BY <2>2 DEF HeldInv
  <2>4. CASE Lock!Create(p)
    <3>1. q = p
      BY <2>1, <2>3, <2>4 DEF Lock!Create, Lock!Goes
    <3>2. QED
      BY <2>1, <2>4, <3>1 DEF Lock!Create, Lock!Goes
  <2>5. CASE Lock!WritePid(p)
    <3>1. at[q] \in Holding
      BY <2>1, <2>5 DEF Lock!WritePid, Lock!Goes, Holding
    <3>2. PICK f \in lock : f.owner = q /\ (at[q] = "hold" => f.pid = q)
      BY <2>3, <3>1
    <3>3. f \in LockFiles
      BY DEF FileInv
    <3> DEFINE g == [f EXCEPT !.pid = IF f.owner = p THEN p ELSE @]
    <3>4. g \in lock' /\ g.owner = q
      BY <2>5, <3>2, <3>3 DEF Lock!WritePid, LockFiles
    <3>5. CASE q = p
      BY <3>2, <3>3, <3>4, <3>5 DEF LockFiles
    <3>6. CASE q # p
      BY <2>1, <2>5, <3>2, <3>3, <3>4, <3>6 DEF LockFiles, Lock!WritePid, Lock!Goes
    <3>7. QED
      BY <3>5, <3>6
  <2>6. CASE \/ Lock!Exists(p) \/ Lock!ReadPid(p) \/ Lock!Judge(p)
             \/ Lock!Unlocked(p) \/ Lock!Kill(p)
    <3>1. lock' = lock /\ q # p /\ at'[q] = at[q]
      BY <2>1, <2>6 DEF Lock!Exists, Lock!ReadPid, Lock!Judge, Lock!Unlocked, Lock!Kill,
          Lock!Goes, Holding
    <3>2. QED
      BY <2>3, <3>1
  <2>7. CASE Lock!Unlink(p)
    <3>1. q # p /\ at[q] = at'[q]
      BY <2>1, <2>7 DEF Lock!Unlink, Lock!Goes, Holding
    <3>2. PICK f \in lock : f.owner = q
      BY <2>3, <3>1
    <3>3. q = read[p]
      BY <2>7, <3>2 DEF Lock!Unlink
    <3>4. at[q] \notin Lock!Running
      BY <2>7, <3>3 DEF Lock!Unlink, GoneInv
    <3>5. QED
      BY <3>1, <3>4 DEF Lock!Running, Holding
  <2>8. CASE Lock!Release(p)
    <3>1. q # p /\ at[q] = at'[q]
      BY <2>1, <2>8 DEF Lock!Release, Lock!Goes, Holding
    <3>2. PICK f \in lock : f.owner = q
      BY <2>3, <3>1
    <3>3. QED
      BY <2>8, <3>1, <3>2 DEF Lock!Release
  <2>9. QED
    BY <1>1, <2>4, <2>5, <2>6, <2>7, <2>8 DEF Lock!LockStep
<1>2. CASE Lock!LockEnds
  BY <1>2 DEF Lock!LockEnds, Lock!lockVars, HeldInv
<1>3. QED
  BY <1>1, <1>2 DEF Lock!LockNext

\* One step of the whole either leaves the lock alone or is a step of a probe.
LEMMA LockMoves ==
    ASSUME [EitherNext]_<<receiveVars, offlineVars>>, tool' = "lock"
    PROVE  tool = "lock" /\ [Lock!LockNext]_Lock!lockVars
<1>1. CASE tool = "none" /\ ReceiveNext /\ UNCHANGED offlineVars
  BY <1>1 DEF offlineVars
<1>2. CASE OfflineNext
  BY <1>2 DEF OfflineNext
<1>3. CASE UNCHANGED <<receiveVars, offlineVars>>
  BY <1>3 DEF offlineVars, locks, Lock!lockVars
<1>4. QED
  BY <1>1, <1>2, <1>3 DEF EitherNext

\* While the behaviour is about the lock, its invariant holds.
LEMMA LockInductive == EitherSpec => [](tool = "lock" => LockIInv)
<1>1. EitherInit => (tool = "lock" => LockIInv)
  BY InitLock DEF EitherInit, NoTool, OfflineInit
<1>2. (tool = "lock" => LockIInv) /\ [EitherNext]_<<receiveVars, offlineVars>>
          => (tool = "lock" => LockIInv)'
  <2> SUFFICES ASSUME tool = "lock" => LockIInv, [EitherNext]_<<receiveVars, offlineVars>>,
                      tool' = "lock"
               PROVE  LockIInv'
    OBVIOUS
  <2>1. LockIInv /\ [Lock!LockNext]_Lock!lockVars
    BY LockMoves
  <2>2. CASE UNCHANGED Lock!lockVars
    BY <2>1, <2>2 DEF Lock!lockVars, LockIInv, FileInv, GoneInv, HeldInv
  <2>3. CASE Lock!LockNext
    BY <2>1, <2>3, FileStep, GoneStep, HeldStep DEF LockIInv
  <2>4. QED
    BY <2>1, <2>2, <2>3
<1>3. QED
  BY <1>1, <1>2, PTL DEF EitherSpec

\* Every variable of the lock keeps its type, for any set of probes: there is
\* at most one file, and it names nobody but probes.
THEOREM LockTypeCorrect == EitherSpec => [](tool = "lock" => Lock!LockTypeOK)
<1>1. LockIInv => Lock!LockTypeOK
  BY LockTypeSuffices DEF LockIInv
<1>2. QED
  BY <1>1, LockInductive, PTL

\* The lock does what it is for (_probe_lock, "prevent overlapping probe runs"),
\* for any number of probes, killed anywhere: two never run at once unless a
\* clearing has removed a lock other than the stale one it had read.
THEOREM OneProbeAtATimeCorrect == EitherSpec => []OneProbeAtATime
<1>1. LockIInv => Lock!OneProbeAtATime
  <2> SUFFICES ASSUME LockIInv, ~swapped PROVE Lock!OneProbeAtATime
    BY DEF Lock!OneProbeAtATime
  <2> DEFINE Holders == {p \in Probes : at[p] \in Holding}
  <2>1. \A p \in Holders : \E f \in lock : f.owner = p /\ (at[p] = "hold" => f.pid = p)
    BY DEF LockIInv, HeldInv
  <2>2. \A f, g \in lock : f = g
    BY DEF LockIInv, FileInv
  <2>3. \A p, q \in Holders : p = q
    BY <2>1, <2>2
  <2>4. Cardinality(Holders) <= 1
    <3>1. CASE Holders = {}
      BY <3>1, FS_EmptySet
    <3>2. CASE \E p \in Holders : Holders = {p}
      <4>1. PICK p \in Holders : Holders = {p}
        BY <3>2
      <4>2. Cardinality({p}) = 1
        BY FS_Singleton
      <4>3. QED
        BY <4>1, <4>2
    <3>3. QED
      BY <2>3, <3>1, <3>2
  <2>5. ASSUME NEW p \in Probes, at[p] = "hold"
        PROVE  lock = {[owner |-> p, pid |-> p]}
    <3>1. PICK f \in lock : f.owner = p /\ f.pid = p
      BY <2>1, <2>5 DEF Holding
    <3>2. f \in LockFiles /\ lock = {f}
      BY <2>2, <3>1 DEF LockIInv, FileInv
    <3>3. f = [owner |-> p, pid |-> p]
      BY <3>1, <3>2 DEF LockFiles
    <3>4. QED
      BY <3>2, <3>3
  <2>6. QED
    BY <2>4, <2>5, LockCounts DEF Lock!OneProbeAtATime, Holding
<1>2. QED
  <2>1. (tool = "lock" => LockIInv) => OneProbeAtATime
    BY <1>1 DEF OneProbeAtATime
  <2>2. QED
    BY <2>1, LockInductive, PTL

-----------------------------------------------------------------------------
(* The bench transmit tools.                                               *)

Programs == {"gfsk", "direct", "probe", "native"}
JobFields ==
    {"tool", "xtrx", "rate", "chunk", "gain", "time", "repeat", "writes", "end", "status", "fatal",
     "payload", "truncate", "to", "stopOk", "stopWedge", "call", "cases", "case"}
IsJob(j) ==
    /\ DOMAIN j = JobFields /\ j.tool \in Programs
    /\ j.payload \in {"missing", "fits", "oversize"}
    /\ j.rate \in Nat /\ j.chunk \in Nat /\ j.repeat \in Nat \ {0} /\ j.writes \in Nat \ {0}

\* Only tx_gfsk reads a file or renders to one; the direct trials are all of the
\* one case that is named for what tx_gfsk does.
JobInv ==
    /\ IsJob(job)
    /\ job.tool # "gfsk" => job.to = "radio" /\ job.payload = "fits"
    /\ job.tool = "direct" =>
          /\ job.cases = TxGfskCase(job.xtrx, job.rate) /\ job.case \in job.cases
          /\ job.call = "simple" /\ job.time = "none"

\* Where a child is with what it holds.
EmptyHanded    == {"build", "open"}
Tuning   == {"tune", "trim", "setup"}
Armed    == {"mtu", "activate", "clock"}
Sending  == {"poll", "write", "status", "next"}
Gone     == {"hung", "crashed"}
OnAir    == EmptyHanded \cup Tuning \cup Armed \cup Sending

HoldsInv ==
    /\ stage \in OnAir \cup Teardown \cup Gone \cup {"prepare", "native", "exit", "over"}
    /\ stage = "prepare" => job.tool = "gfsk"
    /\ job.tool = "native" => stage \in Gone \cup {"native", "exit", "over"}
    /\ stage = "native" => job.tool = "native"
    /\ stage \in EmptyHanded \cup {"prepare", "native", "exit"} => open = {}
    /\ stage \in Tuning \cup {"release"} => open = {"device"}
    /\ stage \in Armed \cup Sending \cup {"deactivate", "close"} => open = {"device", "stream"}
    /\ stage \in OnAir \cup {"prepare", "native", "deactivate"} => torn = <<>>
    /\ stage = "close" => torn = <<"deactivate">>
    /\ stage = "release" => torn \in {<<>>, <<"deactivate", "close">>}
    /\ stage = "exit" => torn \in {<<>>, <<"release">>, <<"deactivate", "close", "release">>}
    /\ stage \in OnAir \cup {"prepare", "native"} => code = 0
    /\ stage = "release" /\ code = 0 => torn # <<>>
    /\ stage = "exit" /\ code = 0 /\ job.to = "radio" /\ job.tool # "native" => Len(torn) = 3
    /\ stage \in OnAir \/ (stage \in Teardown \cup {"exit"} /\ code = 0 /\ job.tool # "native") =>
          /\ job.payload = "fits" \/ job.truncate
          /\ stage # "exit" => job.to = "radio"

\* A write that ends its burst.
WholeAt(i) == air[i].from + air[i].n = Samples /\ (WriteCall # "simple" => air[i].end)

\* The burst has not begun, is under way, or is over.
NotBegun ==
    /\ offset = 0
    /\ IF air = <<>> THEN burst = 1
       ELSE air[Len(air)].burst = burst - 1 /\ (job.tool # "probe" => WholeAt(Len(air)))
    /\ job.tool = "probe" => Len(air) = burst - 1
UnderWay ==
    /\ job.tool # "probe" /\ air # <<>>
    /\ air[Len(air)].burst = burst /\ offset = air[Len(air)].from + air[Len(air)].n
Flown ==
    /\ air # <<>> /\ air[Len(air)].burst = burst
    /\ job.tool # "probe" => WholeAt(Len(air))
    /\ job.tool = "probe" => Len(air) = burst

Writes == [burst : Nat, from : Nat, n : Nat, end : BOOLEAN]

\* What is in the air so far.
AirInv ==
    /\ air \in Seq(Writes)
    /\ chunk \in Nat /\ offset \in 0..Samples /\ burst \in 1..Bursts
    /\ \A b \in 1..(burst - 1) : \E i \in DOMAIN air : air[i].burst = b
    /\ \A i \in DOMAIN air :
          /\ air[i].burst \in 1..burst
          /\ i > 1 => air[i - 1].burst <= air[i].burst
          /\ Begins(i) => air[i].from = 0
          /\ job.tool # "probe" =>
                /\ ~Begins(i) => air[i].from = air[i - 1].from + air[i - 1].n
                /\ i < Len(air) /\ Ends(i) => WholeAt(i)

\* How far the burst is, in each call.
BurstInv ==
    /\ stage \in EmptyHanded \cup Tuning \cup Armed \cup {"poll", "prepare"} => NotBegun
    /\ stage = "write" => NotBegun \/ UnderWay
    /\ stage \in {"status", "next"} => Flown
    /\ stage \in Teardown \cup {"exit"} /\ code = 0 /\ job.tool # "native" /\ job.to = "radio" =>
          Flown /\ burst = Bursts

\* What a probe's child says last, and what is known of one that is lost.
FirstWrite == <<"write", 1, "enter">>
ToldInv ==
    /\ stage \notin Gone => died = <<>>
    /\ job.tool = "probe" /\ stage \in Gone /\ told = FirstWrite => died = <<"write", 1>>
    /\ job.tool = "probe" /\ stage = "exit" => told # FirstWrite

\* What the report says of each trial is so.
Returned == {"OK", "OK_DRIVER_ERR", "TX_DISCARDED"}
Verdicts == Returned \cup Wedged \cup {"EXIT", "OK_NO_SUCCESS_MARKER", "OK_UNDERRUN"}
Earned(r) ==
    /\ r.status = "OK" => r.clean
    /\ r.status = "OK_DRIVER_ERR" => ~r.clean
    /\ job.xtrx /\ Snap(job.rate) = job.rate => r.named
    /\ job.tool = "probe" /\ r.first => r.status \in Wedged /\ r.lost
    /\ job.tool = "probe" /\ r.status \in Returned => r.whole

\* A trial after which a session may go on.
GoesOn(r) ==
    /\ job.stopOk => r.status # "OK"
    /\ job.stopWedge /\ job.tool # "native" => r.status \notin Wedged

Judgements == [status : Verdicts, first : BOOLEAN, lost : BOOLEAN, whole : BOOLEAN,
               clean : BOOLEAN, named : BOOLEAN]
TrialsInv ==
    /\ results \in Seq(Judgements)
    /\ worst \in 0..3 \/ (worst = 130 /\ stage = "over")
    /\ \A i \in DOMAIN results :
          /\ Earned(results[i])
          /\ stage # "over" \/ i < Len(results) => GoesOn(results[i])
          /\ worst = 130 \/ Severity(results[i].status) <= worst
    /\ worst \in 1..3 => \E i \in DOMAIN results : Severity(results[i].status) = worst

BenchInv == JobInv /\ HoldsInv /\ AirInv /\ BurstInv /\ ToldInv /\ TrialsInv


\* The calls, and which follows which.
LEMMA CallsAre ==
    /\ Calls = EmptyHanded \cup Tuning \cup Armed \cup Teardown \cup {"poll", "write", "status"}
    /\ {Opening[i] : i \in 1..(Len(Opening) - 1)} = EmptyHanded \cup Tuning \cup Armed
<1>1. DOMAIN Opening = 1..9 /\ Len(Opening) = 9
  BY DEF Opening
<1>2. /\ Opening[1] = "build" /\ Opening[2] = "open" /\ Opening[3] = "tune"
      /\ Opening[4] = "trim" /\ Opening[5] = "setup" /\ Opening[6] = "mtu"
      /\ Opening[7] = "activate" /\ Opening[8] = "clock" /\ Opening[9] = "write"
  BY DEF Opening
<1>3. \A i \in 1..9 : i \in {1, 2, 3, 4, 5, 6, 7, 8, 9}
  OBVIOUS
<1>4. {Opening[i] : i \in 1..9} = EmptyHanded \cup Tuning \cup Armed \cup {"write"}
  BY <1>2, <1>3 DEF EmptyHanded, Tuning, Armed
<1>5. {Opening[i] : i \in 1..8} = EmptyHanded \cup Tuning \cup Armed
  BY <1>2, <1>3 DEF EmptyHanded, Tuning, Armed
<1>6. QED
  BY <1>1, <1>4, <1>5 DEF Calls, Flight, EmptyHanded, Tuning, Armed, Teardown

\* Only the clock may be skipped on the way from the opening to the first write.
LEMMA FollowingIs ==
    /\ Following("build") = "open" /\ Following("open") = "tune" /\ Following("tune") = "trim"
    /\ Following("trim") = "setup" /\ Following("setup") = "mtu" /\ Following("mtu") = "activate"
    /\ Following("activate") \in {"clock", BeforeWrite} /\ Following("clock") = BeforeWrite
<1>1. DOMAIN Opening = 1..9
  BY DEF Opening
<1>2. /\ Opening[1] = "build" /\ Opening[2] = "open" /\ Opening[3] = "tune"
      /\ Opening[4] = "trim" /\ Opening[5] = "setup" /\ Opening[6] = "mtu"
      /\ Opening[7] = "activate" /\ Opening[8] = "clock" /\ Opening[9] = "write"
  BY DEF Opening
<1>3. \A n \in DOMAIN Opening : n \in {1, 2, 3, 4, 5, 6, 7, 8, 9}
  BY <1>1
<1>4. \A k \in DOMAIN Opening : (CHOOSE n \in DOMAIN Opening : Opening[n] = Opening[k]) = k
  <2> SUFFICES ASSUME NEW k \in DOMAIN Opening
               PROVE  \A n \in DOMAIN Opening : Opening[n] = Opening[k] => n = k
    OBVIOUS
  <2>1. QED
    BY <1>2, <1>3
<1>5. /\ (CHOOSE n \in DOMAIN Opening : Opening[n] = "build") = 1
      /\ (CHOOSE n \in DOMAIN Opening : Opening[n] = "open") = 2
      /\ (CHOOSE n \in DOMAIN Opening : Opening[n] = "tune") = 3
      /\ (CHOOSE n \in DOMAIN Opening : Opening[n] = "trim") = 4
      /\ (CHOOSE n \in DOMAIN Opening : Opening[n] = "setup") = 5
      /\ (CHOOSE n \in DOMAIN Opening : Opening[n] = "mtu") = 6
      /\ (CHOOSE n \in DOMAIN Opening : Opening[n] = "activate") = 7
      /\ (CHOOSE n \in DOMAIN Opening : Opening[n] = "clock") = 8
  <2>1. 1 \in DOMAIN Opening /\ 2 \in DOMAIN Opening /\ 3 \in DOMAIN Opening
        /\ 4 \in DOMAIN Opening /\ 5 \in DOMAIN Opening /\ 6 \in DOMAIN Opening
        /\ 7 \in DOMAIN Opening /\ 8 \in DOMAIN Opening
    BY <1>1
  <2>2. QED
    BY <1>2, <1>4, <2>1
<1>6. ASSUME NEW s, NEW k \in 1..8, (CHOOSE n \in DOMAIN Opening : Opening[n] = s) = k
      PROVE  Following(s) = LET call == IF Skipped(Opening[k + 1]) THEN Opening[k + 2]
                                        ELSE Opening[k + 1]
                            IN  IF call = "write" THEN BeforeWrite ELSE call
  <2> DEFINE Call(i) == IF Skipped(Opening[i + 1]) THEN Opening[i + 2] ELSE Opening[i + 1]
             Where(i) == IF Call(i) = "write" THEN BeforeWrite ELSE Call(i)
  <2>1. Following(s) = Where(CHOOSE n \in DOMAIN Opening : Opening[n] = s)
    BY Zenon DEF Following
  <2> HIDE DEF Where
  <2>2. Following(s) = Where(k)
    BY <1>6, <2>1
  <2>3. QED
    BY <2>2 DEF Where
<1>7. \A s \in {"open", "tune", "trim", "setup", "mtu", "activate", "write"} : ~Skipped(s)
  BY DEF Skipped
<1>8. QED
  BY <1>2, <1>5, <1>6, <1>7

\* The first job of any program.
LEMMA JobInit == BenchInit => JobInv
<1>1. ASSUME NEW j \in Common
      PROVE  IsJob(j) /\ j.to = "radio" /\ j.payload = "fits" /\ j.time = "none"
  <2>1. Tools \subseteq Programs
    BY BenchAssumption DEF BenchAssumption, Programs
  <2>2. {4800, 5040, 9600, 10030, DefaultRate} \subseteq Nat /\ {0, 2} \subseteq Nat
        /\ {1} \subseteq Nat \ {0}
    BY DEF DefaultRate
  <2>3. j.tool \in Programs
    BY <2>1 DEF Common
  <2>4. j.rate \in Nat /\ j.chunk \in Nat /\ j.repeat \in Nat \ {0} /\ j.writes \in Nat \ {0}
    BY <2>2 DEF Common
  <2>5. DOMAIN j = JobFields /\ j.to = "radio" /\ j.payload = "fits" /\ j.time = "none"
    BY DEF Common, JobFields
  <2>6. QED
    BY <2>3, <2>4, <2>5 DEF IsJob
<1>2. ASSUME GfskJob PROVE JobInv
  <2>1. PICK j \in {k \in Common : k.tool = "gfsk" /\ Plain(k)} :
           \/ \E call \in {"auto", "flags"}, time \in {"none", "hw", "late"}, repeat \in {1, 2},
                 asked \in BOOLEAN :
                 job = [j EXCEPT !.call = call, !.time = TimeOf(FALSE, time, FALSE),
                                 !.repeat = repeat, !.gain = OverallGain(FALSE, asked, FALSE)]
           \/ \E payload \in {"missing", "fits", "oversize"}, truncate \in BOOLEAN,
                 to \in {"file", "nowhere", "no soapy", "radio"} :
                 /\ j.chunk = 0
                 /\ job = [j EXCEPT !.payload = payload, !.truncate = truncate, !.to = to]
    BY Zenon, <1>2 DEF GfskJob
  <2>2. IsJob(j) /\ j.tool = "gfsk"
    BY <1>1
  <2>3. ASSUME NEW call \in {"auto", "flags"}, NEW time \in {"none", "hw", "late"},
               NEW repeat \in {1, 2}, NEW asked \in BOOLEAN,
               job = [j EXCEPT !.call = call, !.time = TimeOf(FALSE, time, FALSE),
                               !.repeat = repeat, !.gain = OverallGain(FALSE, asked, FALSE)]
        PROVE  JobInv
    <3> DEFINE j1 == [j EXCEPT !.call = call]
               j2 == [j1 EXCEPT !.time = TimeOf(FALSE, time, FALSE)]
               j3 == [j2 EXCEPT !.repeat = repeat]
               j4 == [j3 EXCEPT !.gain = OverallGain(FALSE, asked, FALSE)]
    <3>1. job = j4
      BY Zenon, <2>3
    <3>2. IsJob(j1) /\ j1.tool = "gfsk"
      BY <2>2 DEF IsJob, JobFields
    <3> HIDE DEF j1
    <3>3. IsJob(j2) /\ j2.tool = "gfsk"
      BY <3>2 DEF IsJob, JobFields, TimeOf
    <3> HIDE DEF j2
    <3>4. repeat \in Nat \ {0}
      OBVIOUS
    <3>5. IsJob(j3) /\ j3.tool = "gfsk"
      BY <3>3, <3>4 DEF IsJob, JobFields
    <3> HIDE DEF j3
    <3>6. IsJob(j4) /\ j4.tool = "gfsk"
      BY <3>5 DEF IsJob, JobFields, OverallGain
    <3>7. QED
      BY <3>1, <3>6 DEF JobInv
  <2>4. ASSUME NEW payload \in {"missing", "fits", "oversize"}, NEW truncate \in BOOLEAN,
               NEW to \in {"file", "nowhere", "no soapy", "radio"},
               job = [j EXCEPT !.payload = payload, !.truncate = truncate, !.to = to]
        PROVE  JobInv
    <3> DEFINE j1 == [j EXCEPT !.payload = payload]
               j2 == [j1 EXCEPT !.truncate = truncate]
               j3 == [j2 EXCEPT !.to = to]
    <3>1. job = j3
      BY Zenon, <2>4
    <3>2. IsJob(j1) /\ j1.tool = "gfsk"
      BY <2>2 DEF IsJob, JobFields
    <3> HIDE DEF j1
    <3>3. IsJob(j2) /\ j2.tool = "gfsk"
      BY <3>2 DEF IsJob, JobFields
    <3> HIDE DEF j2
    <3>4. IsJob(j3) /\ j3.tool = "gfsk"
      BY <3>3 DEF IsJob, JobFields
    <3>5. QED
      BY <3>1, <3>4 DEF JobInv
  <2>5. QED
    BY <2>1, <2>3, <2>4, ZenonT(60)
<1>3. ASSUME DirectJob PROVE JobInv
  <2>1. PICK j \in {k \in Common : k.tool = "direct" /\ k.chunk = 2 /\ ~k.stopOk} :
            \E c \in TxGfskCase(j.xtrx, j.rate) :
               job = [j EXCEPT !.cases = TxGfskCase(j.xtrx, j.rate), !.case = c, !.call = "simple"]
    BY Zenon, <1>3 DEF DirectJob
  <2>2. PICK c \in TxGfskCase(j.xtrx, j.rate) :
            job = [j EXCEPT !.cases = TxGfskCase(j.xtrx, j.rate), !.case = c, !.call = "simple"]
    BY Zenon, <2>1
  <2> DEFINE cases == TxGfskCase(j.xtrx, j.rate)
             j1 == [j EXCEPT !.cases = cases]
             j2 == [j1 EXCEPT !.case = c]
             j3 == [j2 EXCEPT !.call = "simple"]
  <2>3. job = j3
    BY Zenon, <2>2
  <2>4. /\ IsJob(j) /\ j.tool = "direct" /\ j.to = "radio" /\ j.payload = "fits"
        /\ j.time = "none"
    BY <1>1
  <2>5. /\ IsJob(j1) /\ j1.cases = TxGfskCase(j1.xtrx, j1.rate) /\ j1.tool = "direct"
        /\ j1.to = "radio" /\ j1.payload = "fits" /\ j1.time = "none" /\ c \in j1.cases
    BY <2>2, <2>4 DEF IsJob, JobFields
  <2> HIDE DEF j1
  <2>6. /\ IsJob(j2) /\ j2.cases = TxGfskCase(j2.xtrx, j2.rate) /\ j2.tool = "direct"
        /\ j2.to = "radio" /\ j2.payload = "fits" /\ j2.time = "none" /\ j2.case \in j2.cases
    BY <2>5 DEF IsJob, JobFields
  <2> HIDE DEF j2
  <2>7. /\ IsJob(j3) /\ j3.cases = TxGfskCase(j3.xtrx, j3.rate) /\ j3.tool = "direct"
        /\ j3.to = "radio" /\ j3.payload = "fits" /\ j3.time = "none" /\ j3.case \in j3.cases
        /\ j3.call = "simple"
    BY <2>6 DEF IsJob, JobFields
  <2>8. QED
    BY <2>3, <2>7 DEF JobInv
<1>4. ASSUME ProbeJob PROVE JobInv
  <2> DEFINE Asked == {k \in Common : /\ k.tool = "probe" /\ k.chunk = 2 /\ k.rate = DefaultRate /\ ~k.xtrx
                                      /\ k.stopOk <=> k.stopWedge}
  <2>1. Asked \subseteq Common /\ \A k \in Asked : k.tool = "probe"
    OBVIOUS
  <2>2. PICK j \in Asked :
            \E cases \in Selections :
            \E c \in cases, flag \in BOOLEAN, status \in {"no", "before", "after"},
               fatal \in BOOLEAN :
               /\ <<status, fatal>> \in {<<"no", FALSE>>, <<"before", TRUE>>, <<"after", FALSE>>,
                                      <<"after", TRUE>>}
               /\ job = [j EXCEPT !.cases = cases, !.case = c, !.call = c.call, !.writes = 2,
                                  !.end = flag, !.status = status, !.fatal = fatal]
    BY Zenon, <1>4 DEF ProbeJob
  <2> HIDE DEF Asked
  <2>3. PICK cases \in Selections :
            \E c \in cases, flag \in BOOLEAN, status \in {"no", "before", "after"},
               fatal \in BOOLEAN :
               /\ <<status, fatal>> \in {<<"no", FALSE>>, <<"before", TRUE>>, <<"after", FALSE>>,
                                      <<"after", TRUE>>}
               /\ job = [j EXCEPT !.cases = cases, !.case = c, !.call = c.call, !.writes = 2,
                                  !.end = flag, !.status = status, !.fatal = fatal]
    BY Zenon, <2>2
  <2>4. PICK c \in cases, flag \in BOOLEAN, status \in {"no", "before", "after"},
             fatal \in BOOLEAN :
            /\ <<status, fatal>> \in {<<"no", FALSE>>, <<"before", TRUE>>, <<"after", FALSE>>,
                                   <<"after", TRUE>>}
            /\ job = [j EXCEPT !.cases = cases, !.case = c, !.call = c.call, !.writes = 2,
                               !.end = flag, !.status = status, !.fatal = fatal]
    BY Zenon, <2>3
  <2>5. 2 \in Nat \ {0}
    OBVIOUS
  <2>6. /\ IsJob(j) /\ j.tool = "probe" /\ j.to = "radio" /\ j.payload = "fits"
    BY <1>1, <2>1
  <2> DEFINE j1 == [j EXCEPT !.cases = cases]
             j2 == [j1 EXCEPT !.case = c]
             j3 == [j2 EXCEPT !.call = c.call]
             j4 == [j3 EXCEPT !.writes = 2]
             j5 == [j4 EXCEPT !.end = flag]
             j6 == [j5 EXCEPT !.status = status]
             j7 == [j6 EXCEPT !.fatal = fatal]
             Fine(k) == /\ IsJob(k) /\ k.tool = "probe" /\ k.to = "radio"
                        /\ k.payload = "fits"
  <2>7. job = j7
    BY Zenon, <2>4
  <2>8. Fine(j1)
    BY <2>6 DEF IsJob, JobFields
  <2> HIDE DEF j1
  <2>9. Fine(j2)
    BY <2>8 DEF IsJob, JobFields
  <2> HIDE DEF j2
  <2>10. Fine(j3)
    BY <2>9 DEF IsJob, JobFields
  <2> HIDE DEF j3
  <2>11. Fine(j4)
    BY <2>5, <2>10 DEF IsJob, JobFields
  <2> HIDE DEF j4
  <2>12. Fine(j5)
    BY <2>11 DEF IsJob, JobFields
  <2> HIDE DEF j5
  <2>13. Fine(j6)
    BY <2>12 DEF IsJob, JobFields
  <2> HIDE DEF j6
  <2>14. Fine(j7)
    BY <2>13 DEF IsJob, JobFields
  <2>15. QED
    BY <2>7, <2>14 DEF JobInv
<1>5. ASSUME NativeJob PROVE JobInv
  BY <1>1, <1>5 DEF NativeJob, JobInv
<1>6. QED
  BY <1>2, <1>3, <1>4, <1>5 DEF BenchInit

\* Between two trials only the case changes.
SameJob(j, k) ==
    /\ j.tool = k.tool /\ j.xtrx = k.xtrx /\ j.rate = k.rate /\ j.time = k.time
    /\ j.repeat = k.repeat /\ j.writes = k.writes /\ j.chunk = k.chunk
    /\ j.to = k.to /\ j.payload = k.payload /\ j.truncate = k.truncate
    /\ j.stopOk = k.stopOk /\ j.stopWedge = k.stopWedge /\ j.cases = k.cases
    /\ DOMAIN j = DOMAIN k

LEMMA JudgeKeeps ==
    ASSUME IsJob(job), Judge
    PROVE  /\ SameJob(job', job)
           /\ \/ stage' = "over" /\ job' = job /\ Stops(StatusOf)
              \/ /\ stage' = FirstOfTrial /\ ~Stops(StatusOf)
                 /\ job'.case \in job.cases /\ job'.call = job'.case.call
<1>1. CASE Stops(StatusOf)
  BY <1>1 DEF Judge, SameJob
<1>2. CASE ~Stops(StatusOf)
  <2>1. PICK c \in job.cases :
            stage' = FirstOfTrial /\ job' = [job EXCEPT !.case = c, !.call = c.call]
    BY Zenon, <1>2 DEF Judge
  <2> DEFINE j1 == [job EXCEPT !.case = c]
             j2 == [j1 EXCEPT !.call = c.call]
  <2>2. job' = j2
    BY Zenon, <2>1
  <2>3. SameJob(j1, job) /\ j1.case = c
    BY DEF SameJob, IsJob, JobFields
  <2> HIDE DEF j1
  <2>4. SameJob(j2, job) /\ j2.case = c /\ j2.call = c.call
    BY <2>3 DEF SameJob, IsJob, JobFields
  <2>5. QED
    BY <1>2, <2>1, <2>2, <2>4
<1>3. QED
  BY <1>1, <1>2

\* Only the end of a trial changes what was asked, or adds to the report.
LEMMA ChildMoves ==
    ASSUME BenchNext, ~Judge
    PROVE  job' = job /\ results' = results
<1>1. ASSUME NEW s \in Calls, Advance(s) \/ Raises(s) \/ Tear(s) \/ Wedge(s)
      PROVE  UNCHANGED <<job, results>>
  BY <1>1 DEF Advance, Raises, Tear, Wedge
<1>2. QED
  BY <1>1 DEF BenchNext, Prepare, Mtu, Accept, Empty, Status, NextBurst, NativeChild, Interrupt,
      BenchEnds, benchVars

\* The job stays what the program was asked to do.
LEMMA JobStep == JobInv /\ BenchNext => JobInv'
<1> SUFFICES ASSUME JobInv, BenchNext PROVE JobInv'
  OBVIOUS
<1>1. CASE Judge
  <2>1. IsJob(job)
    BY DEF JobInv
  <2>2. /\ SameJob(job', job)
        /\ job' = job \/ (job'.case \in job.cases /\ job'.call = job'.case.call)
    BY <1>1, <2>1, JudgeKeeps
  <2>3. IsJob(job') /\ SameJob(job', job)
    BY <2>1, <2>2 DEF IsJob, SameJob
  <2>4. job.tool = "direct" => \A c \in job.cases : c.call = "simple"
    BY DEF JobInv, TxGfskCase, Case
  <2>5. QED
    BY <2>2, <2>3, <2>4 DEF JobInv, SameJob
<1>2. CASE ~Judge
  <2>1. job' = job
    BY <1>2, ChildMoves
  <2>2. QED
    BY <2>1 DEF JobInv
<1>3. QED
  BY <1>1, <1>2

\* The stages the last calls before the first write lead to.
LEMMA Nexts ==
    /\ BeforeWrite \in {"poll", "write"} /\ AfterWrite \in {"status", "next"}
    /\ FirstStage \in EmptyHanded /\ FirstOfTrial \in EmptyHanded \cup {"native"}
    /\ FirstOfTrial = "native" <=> job.tool = "native"
BY DEF BeforeWrite, AfterWrite, FirstStage, FirstOfTrial, EmptyHanded

\* What is appended to a pair or to one.
LEMMA Append2 ==
    ASSUME NEW a, NEW b
    PROVE  Append(<<a>>, b) = <<a, b>>
<1> DEFINE S == {a, b}  s == Append(<<a>>, b)  t == <<a, b>>
<1>1. s \in Seq(S) /\ t \in Seq(S)
  OBVIOUS
<1>2. Len(s) = 2 /\ Len(t) = 2 /\ s[1] = t[1] /\ s[2] = t[2]
  OBVIOUS
<1> HIDE DEF S, s, t
<1>3. \A k \in 1..2 : k \in {1, 2}
  OBVIOUS
<1>4. s = t
  BY <1>1, <1>2, <1>3, SeqEqual
<1>5. QED
  BY <1>4 DEF s, t

LEMMA Append3 ==
    ASSUME NEW a, NEW b, NEW c
    PROVE  Append(<<a, b>>, c) = <<a, b, c>>
<1> DEFINE S == {a, b, c}  s == Append(<<a, b>>, c)  t == <<a, b, c>>
<1>1. s \in Seq(S) /\ t \in Seq(S)
  OBVIOUS
<1>2. Len(s) = 3 /\ Len(t) = 3 /\ s[1] = t[1] /\ s[2] = t[2] /\ s[3] = t[3]
  OBVIOUS
<1> HIDE DEF S, s, t
<1>3. \A k \in 1..3 : k \in {1, 2, 3}
  OBVIOUS
<1>4. s = t
  BY <1>1, <1>2, <1>3, SeqEqual
<1>5. QED
  BY <1>4 DEF s, t

\* A child begins with nothing open.
LEMMA HoldsInit == BenchInit /\ JobInv => HoldsInv
BY Nexts DEF BenchInit, Fresh, HoldsInv, JobInv, OnAir, EmptyHanded, Tuning,
    Armed, Sending, Gone, Teardown

\* Every call keeps what is held in step with where it is.
LEMMA HoldsStep == JobInv /\ HoldsInv /\ BenchNext => HoldsInv'
<1> SUFFICES ASSUME JobInv, HoldsInv, BenchNext PROVE HoldsInv'
  OBVIOUS
<1> USE DEF OnAir, EmptyHanded, Tuning, Armed, Sending, Gone, Teardown
<1>1. CASE Prepare
  <2>1. /\ stage = "prepare" /\ open' = open /\ torn' = torn /\ job' = job
        /\ \/ stage' = "exit" /\ (code' \in {2, 3} \/ (code' = 0 /\ job.to = "file"))
           \/ stage' = FirstStage /\ code' = 0 /\ job.to = "radio"
    BY <1>1 DEF Prepare
  <2>2. code' = 0 => job.payload = "fits" \/ job.truncate
    <3>1. job.payload \in {"missing", "fits", "oversize"}
      BY DEF JobInv, IsJob
    <3>2. QED
      BY <1>1, <3>1 DEF Prepare
  <2>3. job.tool = "gfsk" /\ open = {} /\ torn = <<>>
    BY <2>1 DEF HoldsInv
  <2>4. QED
    BY <2>1, <2>2, <2>3, Nexts DEF HoldsInv
<1>2. CASE Mtu
  BY <1>2, FollowingIs DEF Mtu, Quits, Unwind, Failure, HoldsInv
<1>3. CASE Accept
  BY <1>3, Nexts DEF Accept, HoldsInv
<1>4. CASE Empty
  BY <1>4 DEF Empty, Quits, Unwind, Failure, HoldsInv
<1>5. CASE Status
  BY <1>5, CallsAre DEF Status, After, Polls, HoldsInv
<1>6. CASE NextBurst
  BY <1>6, Nexts DEF NextBurst, Unwind, HoldsInv
<1>7. CASE NativeChild
  BY <1>7 DEF NativeChild, HoldsInv
<1>8. ASSUME NEW s \in Calls, Advance(s) PROVE HoldsInv'
  BY <1>8, CallsAre, FollowingIs, Nexts, ZenonT(60) DEF Advance, Resources, HoldsInv
<1>9. ASSUME NEW s \in Calls, Raises(s) PROVE HoldsInv'
  BY <1>9, CallsAre, FollowingIs, Nexts
     DEF Raises, Suppressed, Polls, After, Quits, Unwind, Failure, HoldsInv
<1>10. ASSUME NEW s \in Calls, Tear(s) PROVE HoldsInv'
  <2>1. Append(<<>>, "deactivate") = <<"deactivate">>
    OBVIOUS
  <2>2. Append(<<"deactivate">>, "close") = <<"deactivate", "close">>
    BY Append2
  <2>3. /\ Append(<<>>, "release") = <<"release">>
        /\ Append(<<"deactivate", "close">>, "release") = <<"deactivate", "close", "release">>
        /\ Len(<<"deactivate", "close", "release">>) = 3
    BY Append3
  <2>4. CASE s = "deactivate"
    BY <1>10, <2>1, <2>4 DEF Tear, HoldsInv
  <2>5. CASE s = "close"
    <3>1. /\ stage = "close" /\ open = {"device", "stream"} /\ torn = <<"deactivate">>
          /\ torn' = Append(torn, "close") /\ job' = job /\ code' = code
          /\ open' = open \ {"stream"} /\ stage' = Unwind(open')
      BY <1>10, <2>5 DEF Tear, HoldsInv
    <3>2. open' = {"device"} /\ torn' = <<"deactivate", "close">>
      BY <2>2, <3>1
    <3>3. stage' = "release"
      BY <3>1, <3>2 DEF Unwind
    <3>4. torn' # <<>>
      BY <3>2
    <3>5. QED
      BY <3>1, <3>2, <3>3, <3>4 DEF HoldsInv
  <2>6. CASE s = "release"
    BY <1>10, <2>3, <2>6 DEF Tear, Unwind, HoldsInv
  <2>7. QED
    BY <1>10, <2>4, <2>5, <2>6 DEF Tear
<1>11. ASSUME NEW s \in Calls, Wedge(s) PROVE HoldsInv'
  BY <1>11 DEF Wedge, HoldsInv
<1>12. CASE Judge
  <2>1. IsJob(job)
    BY DEF JobInv
  <2>2. /\ SameJob(job', job) /\ stage' \in {"over", FirstOfTrial}
    BY <1>12, <2>1, JudgeKeeps
  <2>3. QED
    BY <1>12, <2>2, Nexts, ZenonT(60) DEF Judge, Renew, SameJob, HoldsInv, JobInv
<1>13. CASE Interrupt
  BY <1>13 DEF Interrupt, Renew, HoldsInv
<1>14. CASE BenchEnds
  BY <1>14 DEF BenchEnds, benchVars, HoldsInv
<1>15. QED
  BY <1>1, <1>2, <1>3, <1>4, <1>5, <1>6, <1>7, <1>8, <1>9, <1>10, <1>11, <1>12, <1>13, <1>14
     DEF BenchNext

\* Nothing is in the air at first.
LEMMA AirInit == BenchInit /\ JobInv => AirInv /\ BurstInv
<1> SUFFICES ASSUME BenchInit, JobInv PROVE AirInv /\ BurstInv
  OBVIOUS
<1>1. Bursts \in Nat \ {0} /\ Samples \in Nat
  BY BenchAssumption DEF BenchAssumption, Bursts, JobInv, IsJob
<1>2. /\ air = <<>> /\ burst = 1 /\ offset = 0 /\ chunk = 0
      /\ stage \in EmptyHanded \cup {"prepare", "native"}
  BY Nexts DEF BenchInit, Fresh
<1>3. AirInv
  BY <1>1, <1>2 DEF AirInv
<1>4. BurstInv
  BY <1>2 DEF BurstInv, NotBegun, EmptyHanded, Teardown
<1>5. QED
  BY <1>3, <1>4

\* A step that writes nothing keeps what is known of the air.
LEMMA AirKept ==
    ASSUME AirInv, UNCHANGED <<job, air, burst, offset>>, chunk' \in Nat
    PROVE  AirInv' /\ NotBegun' = NotBegun /\ UnderWay' = UnderWay /\ Flown' = Flown
                   /\ Bursts' = Bursts
<1>1. WriteCall' = WriteCall /\ Bursts' = Bursts
  BY DEF WriteCall, CallOf, Chosen, Bursts
<1>2. AirInv'
  BY <1>1 DEF AirInv, Begins, Ends, WholeAt
<1>3. NotBegun' = NotBegun
  BY <1>1 DEF NotBegun, WholeAt
<1>4. UnderWay' = UnderWay
  BY DEF UnderWay
<1>5. Flown' = Flown
  BY <1>1 DEF Flown, WholeAt
<1>6. QED
  BY <1>1, <1>2, <1>3, <1>4, <1>5

\* A write goes on from where the last one of its burst ended.
LEMMA AcceptStep ==
    ASSUME JobInv, HoldsInv, AirInv, BurstInv, Accept
    PROVE  AirInv' /\ BurstInv'
<1>1. PICK n \in 1..Offered :
          /\ air' = Append(air, [burst |-> burst, from |-> offset, n |-> n, end |-> EndFlag])
          /\ offset' = IF job.tool = "probe" THEN 0 ELSE offset + n
          /\ stage' = IF job.tool = "probe" \/ offset + n = Samples THEN AfterWrite ELSE "write"
  BY DEF Accept
<1> DEFINE e == [burst |-> burst, from |-> offset, n |-> n, end |-> EndFlag]
<1>2. PICK L \in Nat : L = Len(air)
  BY DEF AirInv
<1>3. /\ stage = "write" /\ job' = job /\ burst' = burst /\ chunk' = chunk
      /\ WriteCall' = WriteCall /\ Bursts' = Bursts
  BY DEF Accept, WriteCall, CallOf, Chosen, Bursts
<1>4. /\ Samples \in Nat /\ chunk \in Nat /\ offset \in 0..Samples /\ burst \in 1..Bursts
      /\ Bursts \in Nat \ {0}
  BY BenchAssumption DEF BenchAssumption, Bursts, JobInv, IsJob, AirInv
<1>5. n \in Nat \ {0} /\ n <= Offered /\ (job.tool # "probe" => offset + n <= Samples)
  BY <1>4 DEF Offered, Least
<1>6. EndFlag \in BOOLEAN
  BY Zenon DEF EndFlag
<1>7. e \in Writes
  <2>1. burst \in Nat /\ offset \in Nat /\ n \in Nat
    BY <1>4, <1>5
  <2>2. QED
    BY <1>6, <2>1 DEF Writes
<1>8. e.burst = burst /\ e.from = offset /\ e.n = n /\ (e.end <=> EndFlag)
  OBVIOUS
<1> HIDE DEF e
<1>9. /\ air' \in Seq(Writes) /\ Len(air') = L + 1 /\ air'[L + 1] = e
      /\ \A i \in 1..L : air'[i] = air[i]
  BY <1>2, <1>1, <1>7, AppendProperties DEF AirInv, e
<1>10. DOMAIN air = 1..L /\ DOMAIN air' = 1..(L + 1)
  BY <1>2, <1>9 DEF AirInv
<1>11. NotBegun \/ UnderWay
  BY <1>3 DEF BurstInv
<1>12. /\ L = 0 => NotBegun
       /\ L > 0 /\ air[L].burst # burst => NotBegun /\ (job.tool # "probe" => WholeAt(L))
       /\ L > 0 /\ air[L].burst = burst => UnderWay /\ offset = air[L].from + air[L].n
       /\ NotBegun => offset = 0
  <2>1. L = 0 <=> air = <<>>
    BY <1>2 DEF AirInv
  <2>2. burst - 1 # burst
    BY <1>4
  <2>3. QED
    BY <1>2, <1>4, <1>11, <2>1, <2>2 DEF NotBegun, UnderWay
<1>13. job.tool # "probe" /\ offset + n = Samples => WholeAt(L + 1)'
  <2>1. (WriteCall # "simple" /\ offset + n = Samples /\ job.tool # "probe") => EndFlag
    <3>1. Offered \in Nat
      BY <1>4 DEF Offered, Least
    <3>2. QED
      BY <1>4, <1>5, <3>1 DEF EndFlag
  <2>2. QED
    BY <1>3, <1>8, <1>9, <2>1 DEF WholeAt
<1>14. AirInv'
  <2>1. ASSUME NEW b \in 1..(burst - 1)
        PROVE  \E i \in DOMAIN air' : air'[i].burst = b
    <3>1. PICK i \in DOMAIN air : air[i].burst = b
      BY <2>1 DEF AirInv
    <3>2. QED
      BY <1>9, <1>10, <3>1
  <2>2. ASSUME NEW i \in 1..L
        PROVE  /\ air'[i].burst \in 1..burst
               /\ i > 1 => air'[i - 1].burst <= air'[i].burst
               /\ Begins(i)' => air'[i].from = 0
               /\ job.tool # "probe" =>
                     /\ ~Begins(i)' => air'[i].from = air'[i - 1].from + air'[i - 1].n
                     /\ i < L + 1 /\ Ends(i)' => WholeAt(i)'
    <3>1. /\ air[i].burst \in 1..burst
          /\ i > 1 => air[i - 1].burst <= air[i].burst
          /\ Begins(i) => air[i].from = 0
          /\ job.tool # "probe" =>
                /\ ~Begins(i) => air[i].from = air[i - 1].from + air[i - 1].n
                /\ i < L /\ Ends(i) => WholeAt(i)
      BY <1>2, <1>10 DEF AirInv
    <3>2. air'[i] = air[i] /\ (i > 1 => air'[i - 1] = air[i - 1])
      BY <1>4, <1>9
    <3>3. i < L => air'[i + 1] = air[i + 1]
      BY <1>4, <1>9
    <3>4. Begins(i)' = Begins(i)
      BY <3>2 DEF Begins
    <3>5. WholeAt(i)' = WholeAt(i)
      BY <1>3, <3>2 DEF WholeAt
    <3>6. Ends(i)' /\ job.tool # "probe" => WholeAt(i)
      <4>1. CASE i < L
        <5>1. Ends(i)' => Ends(i)
          BY <1>4, <1>9, <3>2, <3>3, <4>1 DEF Ends
        <5>2. QED
          BY <3>1, <4>1, <5>1
      <4>2. CASE i = L
        <5>1. Ends(i)' => air[L].burst # burst
          BY <1>4, <1>8, <1>9, <3>2, <4>2 DEF Ends
        <5>2. QED
          BY <1>4, <1>12, <4>2, <5>1
      <4>3. QED
        BY <1>4, <4>1, <4>2
    <3>7. QED
      BY <3>1, <3>2, <3>4, <3>5, <3>6 DEF Begins
  <2>3. /\ e.burst \in 1..burst
        /\ L + 1 > 1 => air'[L].burst <= e.burst
        /\ Begins(L + 1)' => e.from = 0
        /\ job.tool # "probe" => (~Begins(L + 1)' => e.from = air'[L].from + air'[L].n)
    <3>1. L > 0 => air'[L] = air[L] /\ air[L].burst \in 1..burst
      BY <1>4, <1>9, <1>10 DEF AirInv
    <3>2. Begins(L + 1)' <=> L = 0 \/ air[L].burst # burst
      BY <1>4, <1>8, <1>9, <3>1 DEF Begins
    <3>3. QED
      BY <1>4, <1>8, <1>12, <3>1, <3>2
  <2>4. offset' \in 0..Samples
    BY <1>1, <1>4, <1>5
  <2>5. ASSUME NEW i \in DOMAIN air'
        PROVE  /\ air'[i].burst \in 1..burst'
               /\ i > 1 => air'[i - 1].burst <= air'[i].burst
               /\ Begins(i)' => air'[i].from = 0
               /\ job'.tool # "probe" =>
                     /\ ~Begins(i)' => air'[i].from = air'[i - 1].from + air'[i - 1].n
                     /\ i < Len(air') /\ Ends(i)' => WholeAt(i)'
    <3>1. CASE i \in 1..L
      BY <1>3, <1>9, <2>2, <3>1
    <3>2. CASE i = L + 1
      BY <1>3, <1>4, <1>9, <2>3, <3>2
    <3>3. QED
      BY <1>4, <1>10, <3>1, <3>2
  <2>6. QED
    BY <1>3, <1>4, <1>9, <2>1, <2>4, <2>5 DEF AirInv
<1>15. BurstInv'
  <2>1. air' # <<>> /\ air'[Len(air')].burst = burst'
    BY <1>3, <1>4, <1>8, <1>9
  <2>2. CASE job.tool = "probe"
    <3>1. L = burst - 1
      BY <1>2, <1>11, <2>2 DEF NotBegun, UnderWay
    <3>2. Flown'
      BY <1>3, <1>4, <1>9, <2>1, <2>2, <3>1 DEF Flown
    <3>3. stage' \in {"status", "next"}
      BY <1>1, <2>2, Nexts
    <3>4. QED
      BY <3>2, <3>3 DEF BurstInv, EmptyHanded, Tuning, Armed, Teardown
  <2>3. CASE job.tool # "probe" /\ offset + n = Samples
    <3>1. Flown'
      BY <1>3, <1>9, <1>13, <2>1, <2>3 DEF Flown
    <3>2. stage' \in {"status", "next"}
      BY <1>1, <2>3, Nexts
    <3>3. QED
      BY <3>1, <3>2 DEF BurstInv, EmptyHanded, Tuning, Armed, Teardown
  <2>4. CASE job.tool # "probe" /\ offset + n # Samples
    <3>1. stage' = "write" /\ offset' = offset + n
      BY <1>1, <2>4
    <3>2. UnderWay'
      BY <1>3, <1>8, <1>9, <2>1, <2>4, <3>1 DEF UnderWay
    <3>3. QED
      BY <3>1, <3>2 DEF BurstInv, EmptyHanded, Tuning, Armed, Teardown
  <2>5. QED
    BY <2>2, <2>3, <2>4
<1>16. QED
  BY <1>14, <1>15

\* The next burst begins when the last one is over.
LEMMA NextBurstStep ==
    ASSUME JobInv, HoldsInv, AirInv, BurstInv, NextBurst
    PROVE  AirInv' /\ BurstInv'
<1> USE DEF EmptyHanded, Tuning, Armed, Teardown
<1>1. /\ stage = "next" /\ offset' = 0 /\ job' = job /\ air' = air /\ chunk' = chunk /\ Flown
      /\ WriteCall' = WriteCall /\ Bursts' = Bursts
  BY DEF NextBurst, BurstInv, WriteCall, CallOf, Chosen, Bursts
<1>2. /\ Samples \in Nat /\ burst \in 1..Bursts /\ Bursts \in Nat
  BY BenchAssumption DEF BenchAssumption, Bursts, JobInv, IsJob, AirInv
<1>3. CASE burst < Bursts
  <2>1. burst' = burst + 1 /\ stage' \in {"poll", "write"}
    BY <1>3, Nexts DEF NextBurst
  <2>2. PICK L \in DOMAIN air : L = Len(air) /\ air[L].burst = burst
    BY <1>1 DEF Flown, AirInv
  <2>3. \A b \in 1..burst : \E i \in DOMAIN air : air[i].burst = b
    BY <1>2, <2>2 DEF AirInv
  <2>4. AirInv'
    <3>1. \A i : Begins(i)' = Begins(i) /\ Ends(i)' = Ends(i) /\ WholeAt(i)' = WholeAt(i)
      BY <1>1 DEF Begins, Ends, WholeAt
    <3>2. burst' \in 1..Bursts /\ burst' - 1 = burst /\ \A b \in 1..burst : b \in 1..burst'
      BY <1>2, <1>3, <2>1
    <3>3. \A i \in DOMAIN air : air[i].burst \in 1..burst'
      BY <3>2 DEF AirInv
    <3>4. offset' \in 0..Samples
      BY <1>1, <1>2
    <3>5. QED
      BY <1>1, <2>3, <3>1, <3>2, <3>3, <3>4 DEF AirInv
  <2>5. NotBegun'
    BY <1>1, <1>2, <2>1 DEF NotBegun, Flown, WholeAt
  <2>6. QED
    BY <2>1, <2>4, <2>5 DEF BurstInv
<1>4. CASE ~(burst < Bursts)
  <2>1. burst' = burst /\ stage' = Unwind(open) /\ burst = Bursts
    BY <1>2, <1>4 DEF NextBurst
  <2>2. stage' = "deactivate"
    BY <1>1, <2>1 DEF Unwind, HoldsInv, OnAir, Sending
  <2>3. AirInv'
    BY <1>1, <1>2, <2>1 DEF AirInv, Begins, Ends, WholeAt
  <2>4. Flown'
    BY <1>1, <2>1 DEF Flown, WholeAt
  <2>5. QED
    BY <1>1, <2>1, <2>2, <2>3, <2>4 DEF BurstInv
<1>5. QED
  BY <1>3, <1>4

\* The other calls, and what is between two trials.
LEMMA AirStep ==
    ASSUME JobInv, HoldsInv, AirInv, BurstInv, BenchNext
    PROVE  AirInv' /\ BurstInv'
<1> USE DEF EmptyHanded, Tuning, Armed, Teardown
<1>1. ASSUME UNCHANGED <<job, air, burst, offset>>, chunk' \in Nat
      PROVE  AirInv' /\ NotBegun' = NotBegun /\ UnderWay' = UnderWay /\ Flown' = Flown
                     /\ Bursts' = Bursts
    BY <1>1, AirKept
<1>2. CASE Prepare
  <2>1. AirInv' /\ NotBegun' = NotBegun
    BY <1>1, <1>2 DEF Prepare, AirInv
  <2>2. stage = "prepare" /\ stage' \in {"exit", FirstStage} /\ NotBegun
    BY <1>2 DEF Prepare, BurstInv
  <2>3. stage' = "exit" => code' # 0 \/ job'.to = "file"
    <3>1. /\ job' = job
          /\ \/ stage' = "exit" /\ (code' \in {2, 3} \/ (code' = 0 /\ job.to = "file"))
             \/ stage' = FirstStage
      BY <1>2 DEF Prepare
    <3>2. QED
      BY <3>1, Nexts
  <2>4. QED
    BY <2>1, <2>2, <2>3, Nexts DEF BurstInv
<1>3. CASE Mtu
  <2>1. chunk' \in Nat
    <3>1. PICK mtu \in Mtus \cup {0} : chunk' = ChunkOf(job.tool, job.chunk, mtu)
      BY <1>3 DEF Mtu
    <3>2. mtu \in Nat /\ job.chunk \in Nat /\ DefaultChunk \in Nat
      BY BenchAssumption DEF BenchAssumption, JobInv, IsJob
    <3>3. QED
      BY <3>1, <3>2 DEF ChunkOf, Least
  <2>2. AirInv' /\ NotBegun' = NotBegun
    BY <1>1, <1>3, <2>1 DEF Mtu
  <2>3. /\ stage = "mtu" /\ NotBegun
        /\ stage' = "activate" \/ (stage' = Unwind(open) /\ code' # 0)
    BY <1>3, FollowingIs DEF Mtu, Quits, Failure, BurstInv
  <2>4. Unwind(open) \in {"deactivate", "release", "exit"}
    BY DEF Unwind
  <2>5. QED
    BY <2>2, <2>3, <2>4 DEF BurstInv
<1>4. CASE Accept
  BY <1>4, AcceptStep
<1>5. CASE Empty
  <2>1. AirInv' /\ NotBegun' = NotBegun /\ UnderWay' = UnderWay
    BY <1>1, <1>5 DEF Empty, AirInv
  <2>2. /\ stage = "write"
        /\ stage' = "write" \/ (stage' = Unwind(open) /\ code' # 0)
    BY <1>5 DEF Empty, Quits, Failure
  <2>3. Unwind(open) \in {"deactivate", "release", "exit"}
    BY DEF Unwind
  <2>4. QED
    BY <2>1, <2>2, <2>3 DEF BurstInv
<1>6. CASE Status
  <2>1. AirInv' /\ NotBegun' = NotBegun /\ Flown' = Flown
    BY <1>1, <1>6 DEF Status, AirInv
  <2>2. (stage = "poll" /\ stage' = "write") \/ (stage = "status" /\ stage' = "next")
    BY <1>6 DEF Status, Polls, After
  <2>3. QED
    BY <2>1, <2>2 DEF BurstInv
<1>7. CASE NextBurst
  BY <1>7, NextBurstStep
<1>8. CASE NativeChild
  <2>1. AirInv'
    BY <1>1, <1>8 DEF NativeChild, AirInv
  <2>2. job' = job /\ job.tool = "native" /\ stage' \in {"exit", "hung", "crashed"}
    BY <1>8 DEF NativeChild, HoldsInv
  <2>3. QED
    BY <2>1, <2>2 DEF BurstInv
<1>9. ASSUME NEW s \in Calls, Advance(s) PROVE AirInv' /\ BurstInv'
  <2>1. AirInv' /\ NotBegun' = NotBegun
    BY <1>1, <1>9 DEF Advance, AirInv
  <2>2. /\ stage = s /\ s \in (EmptyHanded \cup Tuning \cup Armed) \ {"mtu"}
        /\ stage' \in EmptyHanded \cup Tuning \cup Armed \cup {"poll", "write"}
    BY <1>9, CallsAre, FollowingIs, Nexts DEF Advance
  <2>3. QED
    BY <2>1, <2>2 DEF BurstInv
<1>10. ASSUME NEW s \in Calls, Raises(s) PROVE AirInv' /\ BurstInv'
  <2>1. AirInv' /\ NotBegun' = NotBegun /\ Flown' = Flown
    BY <1>1, <1>10 DEF Raises, AirInv
  <2>2. stage = s /\ s \in Calls \ (Teardown \cup {"mtu"})
    BY <1>10 DEF Raises
  <2>3. CASE Suppressed(s)
    <3>1. s \in {"trim", "poll", "status"} /\ stage' = After(s)
      BY <1>10, <2>2, <2>3 DEF Raises, Suppressed, Polls
    <3>2. \/ s = "trim" /\ stage' = "setup"
          \/ s = "poll" /\ stage' = "write"
          \/ s = "status" /\ stage' = "next"
      BY <3>1, FollowingIs DEF After
    <3>3. QED
      BY <2>1, <2>2, <3>2 DEF BurstInv
  <2>4. CASE ~Suppressed(s)
    <3>1. code' # 0 /\ stage' \in {"deactivate", "release", "exit"}
      BY <1>10, <2>4 DEF Raises, Quits, Failure, Unwind
    <3>2. QED
      BY <2>1, <3>1 DEF BurstInv
  <2>5. QED
    BY <2>3, <2>4
<1>11. ASSUME NEW s \in Calls, Tear(s) PROVE AirInv' /\ BurstInv'
  <2>1. AirInv' /\ Flown' = Flown /\ Bursts' = Bursts
    BY <1>1, <1>11 DEF Tear, AirInv
  <2>2. /\ stage = s /\ s \in Teardown /\ job' = job /\ code' = code /\ burst' = burst
        /\ stage' \in {"close", "deactivate", "release", "exit"}
    BY <1>11 DEF Tear, Unwind
  <2>3. QED
    BY <2>1, <2>2 DEF BurstInv
<1>12. ASSUME NEW s \in Calls, Wedge(s) PROVE AirInv' /\ BurstInv'
  <2>1. AirInv' /\ stage' \in {"hung", "crashed"}
    BY <1>1, <1>12 DEF Wedge, AirInv
  <2>2. QED
    BY <2>1 DEF BurstInv
<1>13. CASE Judge \/ Interrupt
  <2>1. air' = <<>> /\ burst' = 1 /\ offset' = 0 /\ chunk' = 0
    BY <1>13 DEF Judge, Interrupt, Renew
  <2>2. SameJob(job', job) /\ stage' \in {"over", FirstOfTrial}
    <3>1. IsJob(job)
      BY DEF JobInv
    <3>2. QED
      BY <1>13, <3>1, JudgeKeeps DEF Interrupt, SameJob
  <2>3. Bursts' \in Nat \ {0}
    BY <2>2 DEF SameJob, Bursts, JobInv, IsJob
  <2>4. AirInv'
    BY <2>1, <2>3, BenchAssumption DEF AirInv, BenchAssumption
  <2>5. NotBegun'
    BY <2>1 DEF NotBegun
  <2>6. QED
    BY <2>2, <2>4, <2>5, Nexts DEF BurstInv
<1>14. CASE BenchEnds
  <2>1. UNCHANGED benchVars /\ AirInv' /\ NotBegun' = NotBegun /\ UnderWay' = UnderWay
        /\ Flown' = Flown /\ Bursts' = Bursts
    BY <1>1, <1>14 DEF BenchEnds, benchVars, AirInv
  <2>2. QED
    BY <2>1 DEF BurstInv, benchVars
<1>15. QED
  BY <1>2, <1>3, <1>4, <1>5, <1>6, <1>7, <1>8, <1>9, <1>10, <1>11, <1>12, <1>13, <1>14
     DEF BenchNext

\* What has been kept is what a clean exit promises.
LEMMA CleanExit ==
    ASSUME JobInv, HoldsInv, AirInv, BurstInv
    PROVE  CleanExitDelivers
<1> SUFFICES ASSUME stage = "exit", job.tool # "native" PROVE CleanExitDelivers
  BY DEF CleanExitDelivers
<1>1. open = {} /\ torn \in {<<>>, <<"release">>, <<"deactivate", "close", "release">>}
  BY DEF HoldsInv
<1>2. ASSUME code = 0, job.to = "radio"
      PROVE  /\ torn = <<"deactivate", "close", "release">>
             /\ job.payload = "fits" \/ job.truncate
             /\ \A b \in 1..Bursts : \E i \in DOMAIN air : air[i].burst = b
             /\ \A i \in DOMAIN air :
                   /\ i > 1 => air[i - 1].burst <= air[i].burst
                   /\ Begins(i) => air[i].from = 0
                   /\ job.tool # "probe" =>
                         /\ ~Begins(i) => air[i].from = air[i - 1].from + air[i - 1].n
                         /\ Ends(i) => WholeAt(i)
  <2>1. torn = <<"deactivate", "close", "release">>
    <3>1. Len(torn) = 3
      BY <1>2 DEF HoldsInv
    <3>2. Len(<<>>) = 0 /\ Len(<<"release">>) = 1
      OBVIOUS
    <3>3. QED
      BY <1>1, <3>1, <3>2
  <2>2. Flown /\ burst = Bursts /\ (job.payload = "fits" \/ job.truncate)
    BY <1>2 DEF HoldsInv, BurstInv
  <2>3. Len(air) \in DOMAIN air /\ burst \in Nat /\ DOMAIN air = 1..Len(air) /\ Len(air) \in Nat
    BY <2>2, BenchAssumption DEF AirInv, Flown, BenchAssumption, Bursts, JobInv, IsJob
  <2>4. \A b \in 1..Bursts : b = burst \/ b \in 1..(burst - 1)
    BY <2>2, <2>3, SMTT(30)
  <2>5. \A b \in 1..Bursts : \E i \in DOMAIN air : air[i].burst = b
    BY <2>2, <2>3, <2>4 DEF AirInv, Flown
  <2>6. \A i \in DOMAIN air : i = Len(air) \/ i < Len(air)
    BY <2>3
  <2>7. QED
    BY <2>1, <2>2, <2>5, <2>6 DEF AirInv, Flown
<1>3. QED
  BY <1>1, <1>2 DEF CleanExitDelivers, WholeAt

\* Nothing is printed at first.
LEMMA ToldInit == BenchInit => ToldInv
BY Nexts DEF BenchInit, Fresh, ToldInv, Gone, EmptyHanded

\* What a probe's child prints of a call names the call, and the write it is in.
LEMMA Prints ==
    ASSUME job.tool = "probe", NEW s, NEW ending
    PROVE  Append(Label(s), ending) = <<s, IF s = "write" THEN burst ELSE 0, ending>>
BY Append3 DEF Label

\* The line a probe's child is lost at is the one of the call it was in.
LEMMA ToldStep ==
    ASSUME JobInv, HoldsInv, AirInv, ToldInv, BenchNext
    PROVE  ToldInv'
<1> USE DEF OnAir, EmptyHanded, Tuning, Armed, Sending, Teardown, Gone
<1>1. CASE Prepare
  <2>1. stage = "prepare" /\ stage' \in {"exit", FirstStage} /\ UNCHANGED <<job, told, died>>
    BY <1>1 DEF Prepare
  <2>2. job.tool = "gfsk"
    BY <2>1 DEF HoldsInv
  <2>3. QED
    BY <2>1, <2>2, Nexts DEF ToldInv
<1>2. CASE Mtu
  <2>1. /\ stage = "mtu" /\ stage' \in {"activate", Unwind(open)} /\ UNCHANGED <<job, died>>
    BY <1>2, FollowingIs DEF Mtu, Quits
  <2>2. Unwind(open) = "deactivate"
    BY <2>1 DEF HoldsInv, Unwind
  <2>3. QED
    BY <2>1, <2>2 DEF ToldInv
<1>3. CASE Accept
  <2>1. stage = "write" /\ stage' \in {"write", AfterWrite} /\ UNCHANGED <<job, died>>
    BY <1>3 DEF Accept
  <2>2. QED
    BY <2>1, Nexts DEF ToldInv
<1>4. CASE Empty
  <2>1. /\ stage = "write" /\ stage' \in {"write", Unwind(open)} /\ UNCHANGED <<job, died>>
    BY <1>4 DEF Empty, Quits
  <2>2. Unwind(open) = "deactivate"
    BY <2>1 DEF HoldsInv, Unwind
  <2>3. QED
    BY <2>1, <2>2 DEF ToldInv
<1>5. CASE Status
  BY <1>5 DEF Status, Polls, After, ToldInv
<1>6. CASE NextBurst
  <2>1. /\ stage = "next" /\ stage' \in {BeforeWrite, Unwind(open)}
        /\ UNCHANGED <<job, told, died>>
    BY <1>6 DEF NextBurst
  <2>2. Unwind(open) = "deactivate"
    BY <2>1 DEF HoldsInv, Unwind
  <2>3. QED
    BY <2>1, <2>2, Nexts DEF ToldInv
<1>7. CASE NativeChild
  <2>1. stage = "native" /\ stage' \in {"exit", "hung", "crashed"} /\ UNCHANGED <<job, died>>
    BY <1>7 DEF NativeChild
  <2>2. job.tool = "native"
    BY <2>1 DEF HoldsInv
  <2>3. QED
    BY <2>1, <2>2 DEF ToldInv
<1>8. ASSUME NEW s \in Calls, Advance(s) PROVE ToldInv'
  <2>1. /\ stage = s /\ s \in (EmptyHanded \cup Tuning \cup Armed) \ {"mtu"}
        /\ stage' \in EmptyHanded \cup Tuning \cup Armed \cup {"poll", "write"}
        /\ UNCHANGED <<job, died>>
    BY <1>8, CallsAre, FollowingIs, Nexts DEF Advance
  <2>2. QED
    BY <2>1 DEF ToldInv
<1>9. ASSUME NEW s \in Calls, Raises(s) PROVE ToldInv'
  <2>1. /\ stage = s /\ s \in Calls \ (Teardown \cup {"mtu"}) /\ told' = Entered(s)
        /\ UNCHANGED <<job, died>>
        /\ stage' = IF Suppressed(s) THEN After(s) ELSE Unwind(open)
    BY <1>9 DEF Raises, Quits
  <2>2. CASE Suppressed(s)
    <3>1. s \in {"trim", "poll", "status"}
      BY <2>1, <2>2 DEF Suppressed, Polls
    <3>2. stage' \in {"setup", "write", "next"}
      BY <2>1, <2>2, <3>1, FollowingIs DEF After
    <3>3. QED
      BY <2>1, <3>1, <3>2 DEF ToldInv
  <2>3. CASE ~Suppressed(s)
    <3>1. /\ stage' \in {"deactivate", "release", "exit"}
          /\ stage' = "exit" => s \in {"build", "open"}
      BY <2>1, <2>3, CallsAre DEF Unwind, HoldsInv
    <3>2. job.tool = "probe" /\ stage' = "exit" => told' # FirstWrite
      <4> SUFFICES ASSUME job.tool = "probe", stage' = "exit" PROVE told' # FirstWrite
        OBVIOUS
      <4>1. told' = <<s, 0, "enter">> /\ s # "write"
        BY <2>1, <3>1, Prints DEF Entered
      <4>2. QED
        BY <4>1 DEF FirstWrite
    <3>3. stage \notin Gone
      BY <2>1, CallsAre
    <3>4. QED
      BY <2>1, <3>1, <3>2, <3>3 DEF ToldInv
  <2>4. QED
    BY <2>2, <2>3
<1>10. ASSUME NEW s \in Calls, Tear(s) PROVE ToldInv'
  <2>1. /\ stage = s /\ s \in Teardown /\ told' \in {Entered(s), Left(s)}
        /\ UNCHANGED <<job, died>> /\ stage' \in Teardown \cup {"exit"}
    BY <1>10 DEF Tear, Unwind
  <2>2. job.tool = "probe" => told' # FirstWrite
    <3> SUFFICES ASSUME job.tool = "probe" PROVE told' # FirstWrite
      OBVIOUS
    <3>1. told' \in {<<s, 0, "enter">>, <<s, 0, "ok">>} /\ s # "write"
      BY <2>1, Prints DEF Entered, Left
    <3>2. QED
      BY <3>1 DEF FirstWrite
  <2>3. QED
    BY <2>1, <2>2 DEF ToldInv
<1>11. ASSUME NEW s \in Calls, Wedge(s) PROVE ToldInv'
  <2>1. /\ stage' \in Gone /\ told' = Entered(s) /\ died' = <<s, burst>>
        /\ job' = job
    BY <1>11 DEF Wedge
  <2>2. job.tool = "probe" /\ told' = FirstWrite => died' = <<"write", 1>>
    <3> SUFFICES ASSUME job.tool = "probe", told' = FirstWrite PROVE died' = <<"write", 1>>
      OBVIOUS
    <3>1. told' = <<s, IF s = "write" THEN burst ELSE 0, "enter">>
      BY <2>1, Prints DEF Entered
    <3>2. s = "write" /\ burst = 1
      BY <3>1 DEF FirstWrite
    <3>3. QED
      BY <2>1, <3>2
  <2>3. QED
    BY <2>1, <2>2 DEF ToldInv
<1>12. CASE Judge \/ Interrupt
  <2>1. died' = <<>> /\ told' = <<"", 0>>
    BY <1>12 DEF Judge, Interrupt, Renew
  <2>2. stage' \in {"over", FirstOfTrial}
    <3>1. IsJob(job)
      BY DEF JobInv
    <3>2. QED
      BY <1>12, <3>1, JudgeKeeps DEF Interrupt
  <2>3. QED
    BY <2>1, <2>2, Nexts DEF ToldInv
<1>13. CASE BenchEnds
  BY <1>13 DEF BenchEnds, benchVars, ToldInv
<1>14. QED
  BY <1>1, <1>2, <1>3, <1>4, <1>5, <1>6, <1>7, <1>8, <1>9, <1>10, <1>11, <1>12, <1>13
     DEF BenchNext

\* There is nothing to report at first.
LEMMA TrialsInit == BenchInit => TrialsInv
<1> SUFFICES ASSUME BenchInit PROVE TrialsInv
  OBVIOUS
<1>1. results = <<>> /\ worst = 0
  BY DEF BenchInit
<1>2. results \in Seq(Judgements) /\ DOMAIN results = {}
  BY <1>1
<1>3. QED
  BY <1>1, <1>2 DEF TrialsInv

\* How severe a verdict is.
LEMMA Severities ==
    ASSUME NEW status \in Verdicts
    PROVE  /\ Severity(status) \in 0..3
           /\ Severity(status) = 0 <=> status = "OK"
           /\ Severity(status) \in {2, 3} => status \in Wedged
BY DEF Severity, Wedged

\* What the report is told of a trial is what became of it.
LEMMA ResultEarned ==
    ASSUME JobInv, HoldsInv, AirInv, BurstInv, ToldInv, stage \in Gone \cup {"exit"}
    PROVE  Result \in Judgements /\ Result.status = StatusOf /\ Earned(Result)
<1> DEFINE first == StatusOf # "OK" /\ told = FirstWrite
           lost  == died = <<"write", 1>>
           whole == died = <<>> /\ Len(air) = Bursts
           clean == stage = "exit" /\ code = 0 /\ logged \subseteq {"success"}
           named == \/ job.tool # "direct"
                    \/ /\ job.case.fmt = FormatOf(job.xtrx, Snap(job.rate), "auto")
                       /\ job.case.channels = ChannelsOf(job.xtrx, Snap(job.rate), "auto")
                       /\ job.case.call = WriteCall
<1>1. Result = [status |-> StatusOf, first |-> first, lost |-> lost, whole |-> whole,
                clean |-> clean, named |-> named]
  BY Zenon DEF Result, FirstWrite
<1>2. /\ first \in BOOLEAN /\ lost \in BOOLEAN /\ whole \in BOOLEAN /\ clean \in BOOLEAN
      /\ named \in BOOLEAN
  BY Zenon
<1>3. StatusOf \in Verdicts
  BY DEF StatusOf, Verdicts, Returned, Wedged
<1>4. /\ stage \in Gone <=> StatusOf \in Wedged
      /\ StatusOf \in Returned => stage = "exit" /\ code = 0
  <2>1. stage = "hung" => StatusOf = "HANG"
    BY DEF StatusOf
  <2>2. stage = "crashed" => StatusOf = "SIGNAL"
    BY DEF StatusOf
  <2>3. stage = "exit" /\ code # 0 => StatusOf = "EXIT"
    BY DEF StatusOf
  <2>4. stage = "exit" /\ code = 0 =>
            StatusOf \in Returned \cup {"OK_UNDERRUN", "OK_NO_SUCCESS_MARKER"}
    BY DEF StatusOf, Returned
  <2>5. QED
    BY <2>1, <2>2, <2>3, <2>4 DEF Wedged, Returned, Gone
<1>5. StatusOf = "OK" => clean
  <2> SUFFICES ASSUME StatusOf = "OK" PROVE clean
    OBVIOUS
  <2>1. stage = "exit" /\ code = 0
    BY <1>4 DEF Returned
  <2>2. logged \ {"success"} = {}
    BY <2>1 DEF StatusOf
  <2>3. QED
    BY <2>1, <2>2
<1>6. StatusOf = "OK_DRIVER_ERR" => ~clean
  <2> SUFFICES ASSUME StatusOf = "OK_DRIVER_ERR" PROVE ~(logged \subseteq {"success"})
    OBVIOUS
  <2>1. stage = "exit" /\ code = 0
    BY <1>4 DEF Returned
  <2>2. logged \ {"success"} # {}
    BY <2>1 DEF StatusOf
  <2>3. QED
    BY <2>2
<1>7. job.xtrx /\ Snap(job.rate) = job.rate => named
  <2> SUFFICES ASSUME job.tool = "direct", job.xtrx, Snap(job.rate) = job.rate
               PROVE  /\ job.case.fmt = FormatOf(job.xtrx, Snap(job.rate), "auto")
                      /\ job.case.channels = ChannelsOf(job.xtrx, Snap(job.rate), "auto")
                      /\ job.case.call = WriteCall
    OBVIOUS
  <2>1. /\ job.case \in TxGfskCase(job.xtrx, job.rate)
        /\ job.call = "simple" /\ job.time = "none" /\ job.rate \in Nat
    BY DEF JobInv, IsJob
  <2>2. /\ job.case.call = "simple"
        /\ job.case.fmt = FormatOf(job.xtrx, job.rate, "auto")
        /\ job.case.channels = ChannelsOf(job.xtrx, job.rate, "auto")
    BY <2>1 DEF TxGfskCase, Case, FormatOf, ChannelsOf, Chosen, VeryLowRate, LowRate
  <2>3. WriteCall = "simple"
    BY <2>1 DEF WriteCall, CallOf, Chosen
  <2>4. QED
    BY <2>2, <2>3
<1>8. job.tool = "probe" /\ first => StatusOf \in Wedged /\ lost
  BY <1>4 DEF ToldInv
<1>9. job.tool = "probe" /\ StatusOf \in Returned => whole
  <2> SUFFICES ASSUME job.tool = "probe", StatusOf \in Returned PROVE whole
    OBVIOUS
  <2>1. stage = "exit" /\ code = 0
    BY <1>4
  <2>2. job.to = "radio"
    BY DEF JobInv
  <2>3. Flown /\ burst = Bursts /\ died = <<>>
    BY <2>1, <2>2 DEF BurstInv, ToldInv, Gone
  <2>4. QED
    BY <2>3 DEF Flown
<1> HIDE DEF first, lost, whole, clean, named
<1>10. Result \in Judgements
  BY <1>1, <1>2, <1>3 DEF Judgements
<1>11. /\ Result.status = StatusOf /\ (Result.first <=> first) /\ (Result.lost <=> lost)
       /\ (Result.whole <=> whole) /\ (Result.clean <=> clean) /\ (Result.named <=> named)
  BY <1>1, <1>2
<1>12. QED
  BY <1>5, <1>6, <1>7, <1>8, <1>9, <1>10, <1>11 DEF Earned

\* A session stops, goes on, or is interrupted; what it has judged stands.
LEMMA TrialsStep ==
    ASSUME JobInv, HoldsInv, AirInv, BurstInv, ToldInv, TrialsInv, BenchNext
    PROVE  TrialsInv'
<1>1. CASE Judge
  <2> DEFINE st == StatusOf
  <2>1. IsJob(job) /\ stage \in Gone \cup {"exit"}
    BY <1>1 DEF JobInv, Judge, Gone
  <2>2. SameJob(job', job) /\ (stage' # "over" => ~Stops(st))
    BY <1>1, <2>1, JudgeKeeps, Nexts DEF EmptyHanded
  <2>3. Result \in Judgements /\ Result.status = st /\ Earned(Result)
    BY <2>1, ResultEarned
  <2>4. st \in Verdicts
    BY <2>3 DEF Judgements
  <2>5. /\ results' = Append(results, Result)
        /\ worst' = IF worst < Severity(st) THEN Severity(st) ELSE worst
    BY <1>1 DEF Judge
  <2>6. PICK r : r = Result
    OBVIOUS
  <2>7. PICK L \in Nat : L = Len(results)
    BY DEF TrialsInv
  <2>8. /\ results' \in Seq(Judgements) /\ Len(results') = L + 1 /\ results'[L + 1] = r
        /\ \A i \in 1..L : results'[i] = results[i]
        /\ DOMAIN results = 1..L /\ DOMAIN results' = 1..(L + 1)
    BY <2>3, <2>5, <2>6, <2>7, AppendProperties DEF TrialsInv
  <2>9. stage # "over" /\ worst \in 0..3
    BY <2>1 DEF TrialsInv, Gone
  <2>10. \A i \in 1..L : results[i].status \in Verdicts
    <3>1. \A i \in 1..L : results[i] \in Judgements
      BY <2>8 DEF TrialsInv
    <3>2. QED
      BY <3>1 DEF Judgements
  <2>11. \A q : /\ Severity(q)' = Severity(q) /\ Earned(q)' = Earned(q) /\ GoesOn(q)' = GoesOn(q)
    BY <2>2 DEF SameJob, Severity, Earned, GoesOn
  <2>12. stage' # "over" => GoesOn(r)
    BY <2>2, <2>3, <2>6 DEF Stops, GoesOn
  <2>13. \A v \in Verdicts : Severity(v) \in 0..3
    BY Severities
  <2>14. Severity(st) \in 0..3 /\ worst' \in 0..3 /\ Severity(st) <= worst' /\ worst <= worst'
    BY <2>4, <2>5, <2>9, <2>13
  <2>15. ASSUME NEW i \in 1..(L + 1)
         PROVE  /\ Earned(results'[i])
                /\ stage' # "over" \/ i < L + 1 => GoesOn(results'[i])
                /\ Severity(results'[i].status) <= worst'
    <3>1. CASE i \in 1..L
      <4>1. Earned(results[i]) /\ GoesOn(results[i]) /\ Severity(results[i].status) <= worst
        BY <2>8, <2>9, <3>1 DEF TrialsInv
      <4>2. Severity(results[i].status) \in 0..3
        BY <2>10, <2>13, <3>1
      <4>3. QED
        BY <2>8, <2>9, <2>14, <3>1, <4>1, <4>2
    <3>2. CASE i = L + 1
      BY <2>3, <2>6, <2>8, <2>12, <2>14, <3>2
    <3>3. QED
      BY <3>1, <3>2
  <2>16. worst' \in 1..3 => \E i \in 1..(L + 1) : Severity(results'[i].status) = worst'
    <3>1. CASE worst < Severity(st)
      BY <2>3, <2>5, <2>6, <2>8, <3>1
    <3>2. CASE ~(worst < Severity(st))
      <4> SUFFICES ASSUME worst' \in 1..3
                   PROVE  \E i \in 1..(L + 1) : Severity(results'[i].status) = worst'
        OBVIOUS
      <4>1. worst' = worst
        BY <2>5, <3>2
      <4>2. PICK i \in 1..L : Severity(results[i].status) = worst
        BY <2>8, <4>1 DEF TrialsInv
      <4>3. QED
        BY <2>8, <4>1, <4>2
    <3>3. QED
      BY <3>1, <3>2
  <2>17. QED
    BY <2>8, <2>11, <2>14, <2>15, <2>16 DEF TrialsInv
<1>2. CASE Interrupt
  BY <1>2 DEF Interrupt, TrialsInv, Earned, GoesOn, Severity
<1>3. CASE ~Judge /\ ~Interrupt
  <2>1. UNCHANGED <<job, results, worst>> /\ (stage = "over" => stage' = "over")
    <3>1. ASSUME NEW s \in Calls, Advance(s) \/ Raises(s) \/ Tear(s) \/ Wedge(s)
          PROVE  UNCHANGED <<job, results, worst>> /\ stage # "over"
      BY <3>1, CallsAre DEF Advance, Raises, Tear, Wedge, EmptyHanded, Tuning, Armed, Teardown
    <3>2. QED
      BY <1>3, <3>1 DEF BenchNext, Prepare, Mtu, Accept, Empty, Status, NextBurst, NativeChild,
          BenchEnds, benchVars, Polls
  <2>2. stage # "over" \/ stage' = "over"
    BY <2>1
  <2>3. QED
    BY <2>1, <2>2 DEF TrialsInv, Earned, GoesOn, Severity
<1>4. QED
  BY <1>1, <1>2, <1>3

\* Counting trials: all of them, all of them in two kinds, and any of them.
LEMMA AllOfThem ==
    ASSUME NEW n \in Nat, NEW S \in SUBSET (1..n)
    PROVE  /\ IsFiniteSet(S) /\ Cardinality(S) \in Nat
           /\ Cardinality(S) = n => S = 1..n
           /\ Cardinality(S) = 0 <=> S = {}
<1>1. IsFiniteSet(1..n) /\ Cardinality(1..n) = n
  BY FS_Interval
<1>2. IsFiniteSet(S) /\ (Cardinality(S) = n => S = 1..n)
  BY <1>1, FS_Subset
<1>3. QED
  BY <1>2, FS_CardinalityType, FS_EmptySet

LEMMA TwoKinds ==
    ASSUME NEW n \in Nat, NEW S \in SUBSET (1..n), NEW T \in SUBSET (1..n), S \cap T = {},
           Cardinality(S) + Cardinality(T) = n
    PROVE  S \cup T = 1..n
<1>1. /\ IsFiniteSet(S) /\ Cardinality(S) \in Nat
      /\ IsFiniteSet(T) /\ Cardinality(T) \in Nat
  BY AllOfThem
<1>2. Cardinality({}) = 0
  BY FS_EmptySet
<1>3. Cardinality(S \cup T) = Cardinality(S) + Cardinality(T) - Cardinality(S \cap T)
  BY <1>1, FS_Union
<1>4. Cardinality(S \cup T) = n
  <2>1. Cardinality(S \cap T) = 0
    BY <1>2
  <2>2. QED
    BY <1>1, <1>3, <2>1
<1>5. S \cup T \in SUBSET (1..n)
  OBVIOUS
<1>6. QED
  BY <1>4, <1>5, AllOfThem

\* What is counted is not empty.
LEMMA Shares ==
    \A n, a, b \in Nat : /\ a = n - b => a + b = n
                         /\ a + b > 0 => a # 0 \/ b # 0
                         /\ a > 0 => a # 0
OBVIOUS

\* What the session's end reports is earned.
LEMMA VerdictEarned ==
    ASSUME TrialsInv, stage = "over"
    PROVE  VerdictIsEarned
<1> DEFINE Trial == DOMAIN results
           Of(statuses) == {i \in Trial : results[i].status \in statuses}
           First == {i \in Trial : results[i].first}
<1>1. PICK n \in Nat : n = Len(results) /\ Trial = 1..n
  BY DEF TrialsInv
<1>2. \A i \in Trial : /\ results[i] \in Judgements /\ Earned(results[i])
                       /\ i < n => GoesOn(results[i])
  BY <1>1 DEF TrialsInv
<1>3. \A i \in Trial : results[i].status \in Verdicts
  BY <1>2 DEF Judgements
<1>4. worst = 0 => \A i \in Trial : results[i].clean
  <2> SUFFICES ASSUME worst = 0, NEW i \in Trial PROVE results[i].clean
    OBVIOUS
  <2>1. Severity(results[i].status) <= 0
    BY DEF TrialsInv
  <2>2. results[i].status = "OK"
    BY <1>3, <2>1, Severities
  <2>3. QED
    BY <1>2, <2>2 DEF Earned
<1>5. worst \in {2, 3} => \E i \in Trial : results[i].status \in Wedged
  BY <1>3, Severities DEF TrialsInv
<1>6. \A statuses : Having(statuses) = Cardinality(Of(statuses))
  <2> SUFFICES ASSUME NEW statuses PROVE Having(statuses) = Cardinality(Of(statuses))
    OBVIOUS
  <2> DEFINE P == [i \in DOMAIN results |-> results[i].status \in statuses]
  <2>1. {i \in DOMAIN results : P[i]} = Of(statuses)
    OBVIOUS
  <2>2. QED
    BY <2>1 DEF Having, CountOf
<1>7. Wedges = Cardinality(First)
  <2> DEFINE P == [i \in DOMAIN results |-> results[i].first]
  <2>1. {i \in DOMAIN results : P[i]} = First
    OBVIOUS
  <2>2. QED
    BY <2>1 DEF Wedges, CountOf
<1> DEFINE clean == Cardinality(Of({"OK"}))
           dirty == Cardinality(Of({"OK_DRIVER_ERR"}))
           thrown == Cardinality(Of({"TX_DISCARDED"}))
           first == Cardinality(First)
<1>8. Diagnosis =
          IF n = 0 THEN "none"
          ELSE IF thrown = n THEN "all discarded"
          ELSE IF clean + dirty = 0 /\ first = n THEN "global first write failure"
          ELSE IF clean = 0 /\ dirty > 0 /\ first = n - dirty
               THEN IF dirty = n THEN "all returned with errors" ELSE "no clean write format"
          ELSE IF clean + dirty > 0 /\ first > 0 THEN "flaky first write"
          ELSE IF clean + dirty = n THEN "all returned"
          ELSE "none"
  BY <1>1, <1>6, <1>7, Zenon DEF Diagnosis
<1>9. /\ Of({"OK"}) \in SUBSET (1..n) /\ Of({"OK_DRIVER_ERR"}) \in SUBSET (1..n)
      /\ Of({"TX_DISCARDED"}) \in SUBSET (1..n) /\ First \in SUBSET (1..n)
      /\ Of({"OK"}) \cap Of({"OK_DRIVER_ERR"}) = {}
  BY <1>1
<1>10. clean \in Nat /\ dirty \in Nat /\ thrown \in Nat /\ first \in Nat
  BY <1>9, AllOfThem
<1>11. \A i \in 1..(n - 1) : i \in 1..n /\ i < n
  OBVIOUS
<1>12. \A i \in 1..(Len(results) - 1) :
          /\ job.stopOk => results[i].status # "OK"
          /\ job.stopWedge /\ job.tool # "native" => results[i].status \notin Wedged
  BY <1>1, <1>2, <1>11 DEF GoesOn
<1> SUFFICES ASSUME job.tool = "probe"
             PROVE  /\ Diagnosis = "global first write failure" =>
                          \A i \in Trial : results[i].lost
                    /\ Diagnosis \in {"all returned", "all returned with errors",
                                      "all discarded"} =>
                          \A i \in Trial : results[i].whole
                    /\ Diagnosis = "no clean write format" =>
                          \A i \in Trial : \/ results[i].whole /\ ~results[i].clean
                                           \/ results[i].lost
                    /\ Diagnosis = "flaky first write" =>
                          /\ \E i \in Trial : results[i].whole
                          /\ \E i \in Trial : results[i].lost
  BY <1>2, <1>4, <1>5, <1>12 DEF VerdictIsEarned, Earned
<1>13. /\ \A i \in First : results[i].status \in Wedged /\ results[i].lost
       /\ \A i \in Of(Returned) : results[i].whole
       /\ \A i \in Of({"OK_DRIVER_ERR"}) : results[i].whole /\ ~results[i].clean
  BY <1>2 DEF Earned, Returned
<1>14. /\ Of({"OK"}) \cup Of({"OK_DRIVER_ERR"}) \cup Of({"TX_DISCARDED"}) = Of(Returned)
       /\ First \cap Of({"OK_DRIVER_ERR"}) = {}
  BY <1>13 DEF Returned, Wedged
<1> HIDE DEF Of, First, clean, dirty, thrown, first
<1>15. Diagnosis = "global first write failure" => \A i \in Trial : results[i].lost
  <2> SUFFICES ASSUME Diagnosis = "global first write failure"
               PROVE  \A i \in Trial : results[i].lost
    OBVIOUS
  <2>1. first = n
    BY <1>8
  <2>2. First = Trial
    BY <1>1, <1>9, <2>1, AllOfThem DEF first
  <2>3. QED
    BY <1>13, <2>2
<1>16. Diagnosis \in {"all returned", "all returned with errors", "all discarded"} =>
           \A i \in Trial : results[i].whole
  <2>1. CASE Diagnosis = "all discarded"
    <3>1. thrown = n
      BY <1>8, <2>1
    <3>2. Of({"TX_DISCARDED"}) = Trial
      BY <1>1, <1>9, <3>1, AllOfThem DEF thrown
    <3>3. QED
      BY <1>13, <1>14, <3>2
  <2>2. CASE Diagnosis = "all returned with errors"
    <3>1. dirty = n
      BY <1>8, <2>2
    <3>2. Of({"OK_DRIVER_ERR"}) = Trial
      BY <1>1, <1>9, <3>1, AllOfThem DEF dirty
    <3>3. QED
      BY <1>13, <3>2
  <2>3. CASE Diagnosis = "all returned"
    <3>1. clean + dirty = n
      BY <1>8, <2>3
    <3>2. Of({"OK"}) \cup Of({"OK_DRIVER_ERR"}) = Trial
      BY <1>1, <1>9, <3>1, TwoKinds DEF clean, dirty
    <3>3. QED
      BY <1>13, <1>14, <3>2
  <2>4. QED
    BY <2>1, <2>2, <2>3
<1>17. Diagnosis = "no clean write format" =>
           \A i \in Trial : (results[i].whole /\ ~results[i].clean) \/ results[i].lost
  <2> SUFFICES ASSUME Diagnosis = "no clean write format"
               PROVE  \A i \in Trial :
                          (results[i].whole /\ ~results[i].clean) \/ results[i].lost
    OBVIOUS
  <2>1. first + dirty = n
    <3>1. first = n - dirty
      BY <1>8
    <3>2. QED
      BY <1>10, <3>1, Shares, Zenon
  <2>2. First \cup Of({"OK_DRIVER_ERR"}) = Trial
    BY <1>1, <1>9, <1>14, <2>1, TwoKinds DEF first, dirty
  <2>3. QED
    BY <1>13, <2>2
<1>18. Diagnosis = "flaky first write" =>
           (\E i \in Trial : results[i].whole) /\ (\E i \in Trial : results[i].lost)
  <2> SUFFICES ASSUME Diagnosis = "flaky first write"
               PROVE  (\E i \in Trial : results[i].whole) /\ (\E i \in Trial : results[i].lost)
    OBVIOUS
  <2>1. first # 0 /\ (clean # 0 \/ dirty # 0)
    <3>1. clean + dirty > 0 /\ first > 0
      BY <1>8
    <3>2. QED
      BY <1>10, <3>1, Shares, Zenon
  <2>2. First # {} /\ (Of({"OK"}) # {} \/ Of({"OK_DRIVER_ERR"}) # {})
    BY <1>9, <2>1, AllOfThem DEF first, clean, dirty
  <2>3. (\E i \in First : TRUE) /\ (\E i \in Of(Returned) : TRUE)
    BY <1>14, <2>2
  <2>4. First \subseteq Trial /\ Of(Returned) \subseteq Trial
    BY DEF First, Of
  <2>5. QED
    BY <1>13, <2>3, <2>4
<1>19. QED
  BY <1>15, <1>16, <1>17, <1>18

\* Every part of the invariant at once.
LEMMA BenchStep == BenchInv /\ [BenchNext]_benchVars => BenchInv'
<1> SUFFICES ASSUME BenchInv, [BenchNext]_benchVars PROVE BenchInv'
  OBVIOUS
<1>1. CASE BenchNext
  <2>1. JobInv /\ HoldsInv /\ AirInv /\ BurstInv /\ ToldInv /\ TrialsInv
    BY DEF BenchInv
  <2>2. JobInv' /\ HoldsInv'
    BY <1>1, <2>1, JobStep, HoldsStep
  <2>3. AirInv' /\ BurstInv'
    BY <1>1, <2>1, AirStep
  <2>4. ToldInv' /\ TrialsInv'
    BY <1>1, <2>1, ToldStep, TrialsStep
  <2>5. QED
    BY <2>2, <2>3, <2>4 DEF BenchInv
<1>2. CASE UNCHANGED benchVars
  <2>1. JobInv' /\ HoldsInv' /\ ToldInv'
    BY <1>2 DEF benchVars, BenchInv, JobInv, HoldsInv, ToldInv
  <2>2. chunk' \in Nat
    BY <1>2 DEF benchVars, BenchInv, AirInv
  <2>3. AirInv' /\ NotBegun' = NotBegun /\ UnderWay' = UnderWay /\ Flown' = Flown
        /\ Bursts' = Bursts
    BY <1>2, <2>2, AirKept DEF benchVars, BenchInv
  <2>4. BurstInv'
    BY <1>2, <2>3 DEF benchVars, BenchInv, BurstInv
  <2>5. TrialsInv'
    BY <1>2 DEF benchVars, BenchInv, TrialsInv, Earned, GoesOn, Severity
  <2>6. QED
    BY <2>1, <2>3, <2>4, <2>5 DEF BenchInv
<1>3. QED
  BY <1>1, <1>2

\* One step of the whole either leaves the bench tools alone or is a step of theirs.
LEMMA BenchMoves ==
    ASSUME [EitherNext]_<<receiveVars, offlineVars>>, tool' = "bench"
    PROVE  tool = "bench" /\ [BenchNext]_benchVars
<1>1. CASE tool = "none" /\ ReceiveNext /\ UNCHANGED offlineVars
  BY <1>1 DEF offlineVars
<1>2. CASE OfflineNext
  BY <1>2 DEF OfflineNext
<1>3. CASE UNCHANGED <<receiveVars, offlineVars>>
  BY <1>3 DEF offlineVars
<1>4. QED
  BY <1>1, <1>2, <1>3 DEF EitherNext

\* While the behaviour is about a bench tool, its invariant holds.
LEMMA BenchInductive == EitherSpec => [](tool = "bench" => BenchInv)
<1>1. EitherInit => (tool = "bench" => BenchInv)
  <2> SUFFICES ASSUME EitherInit, tool = "bench" PROVE BenchInv
    OBVIOUS
  <2>1. BenchInit
    BY DEF EitherInit, NoTool, OfflineInit
  <2>2. QED
    BY <2>1, JobInit, HoldsInit, AirInit, ToldInit, TrialsInit DEF BenchInv
<1>2. (tool = "bench" => BenchInv) /\ [EitherNext]_<<receiveVars, offlineVars>>
          => (tool = "bench" => BenchInv)'
  <2> SUFFICES ASSUME tool = "bench" => BenchInv, [EitherNext]_<<receiveVars, offlineVars>>,
                      tool' = "bench"
               PROVE  BenchInv'
    OBVIOUS
  <2>1. BenchInv /\ [BenchNext]_benchVars
    BY BenchMoves
  <2>2. QED
    BY <2>1, BenchStep
<1>3. QED
  BY <1>1, <1>2, PTL DEF EitherSpec

\* A transmit tool that exits 0 has flown every burst whole and in order, with
\* END_BURST on its last write, and one that ends by itself has let go of the
\* stream and then of the device (tx_gfsk._transmit, the probe's own child),
\* for any frame, packet size, chunk and number of timeouts waited out.
THEOREM CleanTransmitCorrect == EitherSpec => []CleanTransmit
<1>1. (tool = "bench" => BenchInv) => CleanTransmit
  BY CleanExit DEF CleanTransmit, BenchInv
<1>2. QED
  BY <1>1, BenchInductive, PTL

\* What a session of trials reports is what happened (the probes' main and
\* diagnosis), for any number of trials: it exits 0 only if all were clean, and
\* says of the first write, or of the writes, only what is true of every trial.
THEOREM HonestVerdictCorrect == EitherSpec => []HonestVerdict
<1>1. (tool = "bench" => BenchInv) => HonestVerdict
  <2> SUFFICES ASSUME tool = "bench", BenchInv PROVE VerdictIsEarned
    BY DEF HonestVerdict
  <2>1. CASE stage = "over"
    BY <2>1, VerdictEarned DEF BenchInv
  <2>2. CASE stage # "over"
    BY <2>2 DEF VerdictIsEarned
  <2>3. QED
    BY <2>1, <2>2
<1>2. QED
  BY <1>1, BenchInductive, PTL

-----------------------------------------------------------------------------
(* The views of a recording.                                               *)

\* Where a view comes in the order.
Past(f) == \E i \in 1..4 : Views!Order[i] = f /\ i < view

\* The state of the files, and of the view being derived.
DiskInv ==
    /\ attempt \in 1..Attempts /\ wanted \subseteq Views!Formats /\ view \in 1..Views!Killed
    /\ doing \in {"clear", "write", "promote", "fail"}
    /\ disk \in [Views!Formats -> 0..Views!Partial] /\ temp \in [Views!Formats -> 0..Views!Partial]
    /\ \A f \in {"csv", "sdf", "ogg"} : disk[f] # Views!Partial
MadeInv == \A f \in made : f \in wanted /\ disk[f] = attempt /\ Past(f)
PastInv ==
    view <= Views!Done => \A f \in wanted : Past(f) =>
        /\ f # "ogg" \/ f \in made => temp[f] = Views!None
        /\ f \in Views!ClearsTarget => disk[f] \in {Views!None, attempt}
ViewInv ==
    Views!Running /\ doing # "clear" =>
        /\ Views!Format \in wanted
        /\ Views!Format \in Views!ClearsTarget => disk[Views!Format] = Views!None
        /\ doing = "write" => temp[Views!Format] = Views!None
        /\ doing \in {"promote", "fail"} => Views!Format # "png"
        /\ doing = "promote" => temp[Views!Format] = attempt
ViewsInv == DiskInv /\ MadeInv /\ PastInv /\ ViewInv

\* The four views, and how a derivation ends.
LEMMA OrderIs ==
    /\ Views!Done = 5 /\ Views!Raised = 6 /\ Views!Killed = 7
    /\ Views!Order[1] = "png" /\ Views!Order[2] = "csv"
    /\ Views!Order[3] = "sdf" /\ Views!Order[4] = "ogg"
    /\ Views!Running <=> view < 5
    /\ \A i : i \in 1..4 => i \in {1, 2, 3, 4}
BY DEF Views!Done, Views!Raised, Views!Killed, Views!Order, Views!Running

\* A file that is whole is not cut short.
LEMMA WholeFile ==
    /\ attempt \in 1..Attempts => attempt \in (0..Views!Partial) \ {Views!None, Views!Partial}
    /\ Views!None \in 0..Views!Partial /\ Views!Partial \in 0..Views!Partial
    /\ Views!None # Views!Partial
BY ToolsAssumption DEF Views!None, Views!Partial, ToolsAssumption

\* An empty workspace has nothing old in it.
LEMMA ViewsInitInv == Views!ViewsInit => ViewsInv
<1> SUFFICES ASSUME Views!ViewsInit PROVE ViewsInv
  OBVIOUS
<1>1. 1 \in 1..Attempts /\ 1 \in 1..Views!Killed
  BY ToolsAssumption, OrderIs DEF ToolsAssumption
<1>2. attempt \in 1..Attempts
  BY <1>1 DEF Views!ViewsInit
<1>3. DiskInv
  <2>1. \A f \in Views!Formats : disk[f] = Views!None /\ temp[f] = Views!None
    BY DEF Views!ViewsInit
  <2>2. disk \in [Views!Formats -> 0..Views!Partial] /\ temp \in [Views!Formats -> 0..Views!Partial]
    BY WholeFile DEF Views!ViewsInit
  <2>3. QED
    BY <1>1, <1>2, <2>1, <2>2, WholeFile DEF Views!ViewsInit, DiskInv, Views!Formats
<1>4. Views!ViewsInit => \A f : ~Past(f)
  BY DEF Views!ViewsInit, Past
<1>5. QED
  BY <1>3, <1>4 DEF Views!ViewsInit, ViewsInv, MadeInv, PastInv, ViewInv

\* The present view is not past, and going on makes it so, alone.
LEMMA PastMoves ==
    ASSUME DiskInv, Views!Running
    PROVE  /\ Views!Format \in Views!Formats /\ ~Past(Views!Format)
           /\ view \in 1..4
           /\ view' = view + 1 => \A f : Past(f)' <=> (Past(f) \/ f = Views!Format)
<1>1. view \in {1, 2, 3, 4}
  BY OrderIs DEF DiskInv
<1>2. QED
  BY <1>1, OrderIs DEF Past, Views!Format, Views!Formats

\* Every operation on a file keeps the workspace in order, a kill in the middle of
\* a write and the next capture included.
LEMMA ViewsStep == ViewsInv /\ Views!ViewsNext => ViewsInv'
<1> SUFFICES ASSUME ViewsInv, Views!ViewsNext PROVE ViewsInv'
  OBVIOUS
<1> USE DEF ViewsInv
<1>1. /\ DiskInv /\ attempt # Views!None /\ attempt # Views!Partial /\ attempt \in 0..Views!Partial
      /\ Views!None \in 0..Views!Partial /\ Views!Partial \in 0..Views!Partial
  BY WholeFile DEF DiskInv
<1>2. CASE Views!NoCapture
  BY <1>1, <1>2, OrderIs DEF Views!NoCapture, DiskInv, MadeInv, PastInv, ViewInv, Past
<1>3. CASE Views!Unwanted
  <2>1. /\ Views!Running /\ view' = view + 1 /\ doing' = "clear" /\ made' = made
        /\ Views!Format \notin wanted
    BY <1>3 DEF Views!Unwanted, Views!Leave
  <2>2. DiskInv'
    BY <1>1, <1>3, <2>1, PastMoves, OrderIs DEF Views!Unwanted, DiskInv
  <2>3. MadeInv' /\ PastInv'
    BY <1>1, <1>3, <2>1, PastMoves, OrderIs DEF Views!Unwanted, MadeInv, PastInv
  <2>4. QED
    BY <2>1, <2>2, <2>3 DEF ViewInv
<1>4. CASE Views!Clear
  <2>1. /\ Views!Running /\ doing = "clear" /\ Views!Format \in wanted /\ doing' = "write"
        /\ UNCHANGED <<attempt, wanted, view, made>> /\ Views!Format \in Views!Formats
        /\ ~Past(Views!Format)
    BY <1>1, <1>4, PastMoves DEF Views!Clear
  <2>2. /\ disk' \in [Views!Formats -> 0..Views!Partial]
        /\ temp' = [temp EXCEPT ![Views!Format] = Views!None]
        /\ \A f \in Views!Formats \ {Views!Format} : disk'[f] = disk[f] /\ temp'[f] = temp[f]
        /\ temp'[Views!Format] = Views!None
        /\ (Views!Format \in Views!ClearsTarget => disk'[Views!Format] = Views!None)
        /\ Views!Format \notin Views!ClearsTarget => disk'[Views!Format] = disk[Views!Format]
    BY <1>1, <1>4, <2>1 DEF Views!Clear, DiskInv
  <2>3. DiskInv'
    BY <1>1, <2>1, <2>2 DEF DiskInv, Views!Formats, Views!None, Views!Partial
  <2>4. \A f : Past(f)' = Past(f)
    BY <2>1 DEF Past
  <2>5. MadeInv' /\ PastInv'
    BY <1>1, <2>1, <2>2, <2>4 DEF MadeInv, PastInv, DiskInv
  <2>6. Views!Format' = Views!Format
    BY <2>1 DEF Views!Format
  <2>7. QED
    BY <2>1, <2>2, <2>3, <2>5, <2>6 DEF ViewInv
<1>5. CASE Views!Inaudible
  <2>1. /\ Views!Running /\ doing = "clear" /\ Views!Format = "ogg" /\ doing' = "clear"
        /\ view' = view + 1
        /\ UNCHANGED <<attempt, wanted, temp, made>> /\ "ogg" \in Views!Formats /\ ~Past("ogg")
        /\ "ogg" \in wanted
    BY <1>1, <1>5, PastMoves DEF Views!Inaudible, Views!Leave
  <2>2. /\ disk' \in [Views!Formats -> 0..Views!Partial] /\ disk'["ogg"] = Views!None
        /\ \A f \in Views!Formats \ {"ogg"} : disk'[f] = disk[f]
    BY <1>1, <1>5, <2>1 DEF Views!Inaudible, DiskInv
  <2>3. DiskInv'
    BY <1>1, <2>1, <2>2, OrderIs DEF DiskInv, Views!Formats, Views!None, Views!Partial
  <2>4. \A f : Past(f)' <=> (Past(f) \/ f = "ogg")
    BY <1>1, <2>1, PastMoves
  <2>5. MadeInv' /\ PastInv'
    BY <1>1, <2>1, <2>2, <2>4, OrderIs DEF MadeInv, PastInv, DiskInv
  <2>6. QED
    BY <2>1, <2>3, <2>5 DEF ViewInv
<1>6. CASE Views!Picture
  <2>1. /\ Views!Running /\ doing = "write" /\ Views!Format = "png" /\ "png" \in wanted
        /\ UNCHANGED <<attempt, wanted, temp>> /\ "png" \in Views!Formats /\ ~Past("png")
        /\ disk["png"] = Views!None /\ temp["png"] = Views!None
    BY <1>1, <1>6, PastMoves DEF Views!Picture, ViewInv, Views!ClearsTarget
  <2>2. /\ disk' \in [Views!Formats -> 0..Views!Partial]
        /\ \A f \in Views!Formats \ {"png"} : disk'[f] = disk[f]
    BY <1>1, <1>6, <2>1 DEF Views!Picture, DiskInv
  <2>3. \/ /\ disk'["png"] = attempt /\ made' = made \cup {"png"}
           /\ view' = view + 1 /\ doing' = "clear"
        \/ disk'["png"] = Views!None /\ made' = made /\ view' = view + 1 /\ doing' = "clear"
        \/ made' = made /\ view' = Views!Raised /\ doing' = doing
    BY <1>1, <1>6, <2>1 DEF Views!Picture, DiskInv, Views!Leave
  <2>4. DiskInv'
    BY <1>1, <2>1, <2>2, <2>3, OrderIs, PastMoves DEF DiskInv, Views!Formats
  <2>5. CASE view' = view + 1 /\ doing' = "clear"
    <3>1. \A f : Past(f)' <=> (Past(f) \/ f = "png")
      BY <1>1, <2>1, <2>5, PastMoves
    <3>2. disk'["png"] = attempt \/ (disk'["png"] = Views!None /\ made' = made)
      BY <1>1, <2>3, <2>5, <2>1, PastMoves, OrderIs
    <3>3. made' = made \/ (made' = made \cup {"png"} /\ disk'["png"] = attempt)
      BY <2>3
    <3>4. MadeInv'
      BY <1>1, <2>1, <2>2, <3>1, <3>3 DEF MadeInv, DiskInv
    <3>5. PastInv'
      BY <1>1, <2>1, <2>2, <3>1, <3>2, <3>3, OrderIs DEF PastInv, DiskInv
    <3>6. QED
      BY <2>4, <2>5, <3>4, <3>5 DEF ViewInv
  <2>6. CASE made' = made /\ view' = Views!Raised
    <3>1. \A f : Past(f) => Past(f)'
      BY <2>6, OrderIs DEF Past
    <3>2. MadeInv'
      BY <1>1, <2>1, <2>2, <2>6, <3>1 DEF MadeInv, DiskInv
    <3>3. QED
      BY <2>4, <2>6, <3>2, OrderIs DEF PastInv, ViewInv, Views!Running
  <2>7. QED
    BY <2>3, <2>5, <2>6
<1>7. CASE Views!Write
  <2>1. /\ Views!Running /\ Views!Format # "png" /\ Views!Format \in wanted /\ doing = "write"
        /\ UNCHANGED <<attempt, wanted, view, disk, made>> /\ Views!Format \in Views!Formats
        /\ ~Past(Views!Format)
        /\ Views!Format \in Views!ClearsTarget => disk[Views!Format] = Views!None
    BY <1>1, <1>7, PastMoves DEF Views!Write, ViewInv
  <2>2. /\ temp' \in [Views!Formats -> 0..Views!Partial]
        /\ \A f \in Views!Formats \ {Views!Format} : temp'[f] = temp[f]
        /\ (doing' = "promote" /\ temp'[Views!Format] = attempt) \/ doing' = "fail"
    BY <1>1, <1>7, <2>1 DEF Views!Write, DiskInv
  <2>3. DiskInv'
    BY <1>1, <2>1, <2>2 DEF DiskInv
  <2>4. (\A f : Past(f)' = Past(f)) /\ Views!Format' = Views!Format
    BY <2>1 DEF Past, Views!Format
  <2>5. MadeInv' /\ PastInv'
    BY <1>1, <2>1, <2>2, <2>4 DEF MadeInv, PastInv, DiskInv
  <2>6. QED
    BY <2>1, <2>2, <2>3, <2>4, <2>5 DEF ViewInv
<1>8. CASE Views!Promote
  <2>1. /\ Views!Running /\ Views!Format # "png" /\ Views!Format \in wanted /\ doing = "promote"
        /\ UNCHANGED <<attempt, wanted>> /\ Views!Format \in Views!Formats /\ ~Past(Views!Format)
        /\ temp[Views!Format] = attempt
        /\ (Views!Format \in Views!ClearsTarget => disk[Views!Format] = Views!None)
    BY <1>1, <1>8, PastMoves DEF Views!Promote, ViewInv
  <2>2. CASE doing' = "fail" /\ UNCHANGED <<disk, temp, view, made>>
    <3>1. DiskInv'
      BY <1>1, <2>1, <2>2 DEF DiskInv
    <3>2. (\A f : Past(f)' = Past(f)) /\ Views!Format' = Views!Format
      BY <2>2 DEF Past, Views!Format
    <3>3. MadeInv' /\ PastInv'
      BY <2>1, <2>2, <3>2 DEF MadeInv, PastInv
    <3>4. QED
      BY <2>1, <2>2, <3>1, <3>2, <3>3 DEF ViewInv
  <2>3. CASE /\ disk' = [disk EXCEPT ![Views!Format] = temp[Views!Format]]
             /\ temp' = [temp EXCEPT ![Views!Format] = Views!None] /\ Views!Leave(TRUE)
    <3>1. /\ view' = view + 1 /\ doing' = "clear" /\ made' = made \cup {Views!Format}
      BY <2>3 DEF Views!Leave
    <3>2. /\ disk' \in [Views!Formats -> 0..Views!Partial]
          /\ temp' \in [Views!Formats -> 0..Views!Partial]
          /\ \A f \in Views!Formats \ {Views!Format} : disk'[f] = disk[f] /\ temp'[f] = temp[f]
          /\ disk'[Views!Format] = attempt /\ temp'[Views!Format] = Views!None
      BY <1>1, <2>1, <2>3 DEF DiskInv
    <3>3. DiskInv'
      <4>1. view' \in 1..Views!Killed
        BY <1>1, <2>1, <3>1, PastMoves, OrderIs
      <4>2. \A f \in {"csv", "sdf", "ogg"} : disk'[f] # Views!Partial
        BY <1>1, <2>1, <3>2 DEF DiskInv, Views!Formats
      <4>3. QED
        BY <1>1, <2>1, <3>1, <3>2, <4>1, <4>2 DEF DiskInv, Views!Partial
    <3>4. \A f : Past(f)' <=> (Past(f) \/ f = Views!Format)
      BY <1>1, <2>1, <3>1, PastMoves
    <3>5. MadeInv'
      BY <1>1, <2>1, <3>1, <3>2, <3>4 DEF MadeInv, DiskInv
    <3>6. PastInv'
      BY <1>1, <2>1, <3>1, <3>2, <3>4, PastMoves, OrderIs DEF PastInv, DiskInv, Views!ClearsTarget
    <3>7. QED
      BY <3>1, <3>3, <3>5, <3>6 DEF ViewInv
  <2>4. QED
    BY <1>8, <2>2, <2>3 DEF Views!Promote
<1>9. CASE Views!Fail
  <2>1. /\ Views!Running /\ doing = "fail" /\ Views!Format \in wanted /\ Views!Format # "png"
        /\ UNCHANGED <<attempt, wanted, disk, made>> /\ Views!Format \in Views!Formats
        /\ ~Past(Views!Format)
        /\ view' = view + 1 /\ doing' = "clear"
        /\ (Views!Format \in Views!ClearsTarget => disk[Views!Format] = Views!None)
    BY <1>1, <1>9, PastMoves DEF Views!Fail, ViewInv, Views!Leave
  <2>2. /\ temp' \in [Views!Formats -> 0..Views!Partial] /\ temp'[Views!Format] = Views!None
        /\ \A f \in Views!Formats \ {Views!Format} : temp'[f] = temp[f]
    BY <1>1, <1>9, <2>1 DEF Views!Fail, DiskInv
  <2>3. DiskInv'
    BY <1>1, <2>1, <2>2, PastMoves, OrderIs DEF DiskInv
  <2>4. \A f : Past(f)' <=> (Past(f) \/ f = Views!Format)
    BY <1>1, <2>1, PastMoves
  <2>5. MadeInv'
    BY <1>1, <2>1, <2>4 DEF MadeInv
  <2>6. PastInv'
    BY <1>1, <2>1, <2>2, <2>4, PastMoves, OrderIs DEF PastInv, DiskInv
  <2>7. QED
    BY <2>1, <2>3, <2>5, <2>6 DEF ViewInv
<1>10. CASE Views!Kill
  <2>1. /\ Views!Running /\ view' = Views!Killed /\ UNCHANGED <<attempt, wanted, doing, made>>
        /\ Views!Format \in Views!Formats /\ ~Past(Views!Format)
    BY <1>1, <1>10, PastMoves DEF Views!Kill
  <2>2. /\ disk' \in [Views!Formats -> 0..Views!Partial]
        /\ temp' \in [Views!Formats -> 0..Views!Partial]
        /\ \A f \in Views!Formats \ {"png"} : disk'[f] = disk[f]
        /\ Views!Format # "png" => disk'["png"] = disk["png"]
    BY <1>1, <1>10, <2>1 DEF Views!Kill, DiskInv
  <2>3. DiskInv'
    BY <1>1, <2>1, <2>2, OrderIs DEF DiskInv, Views!Formats, Views!Partial
  <2>4. \A f : Past(f) => Past(f)' /\ f # Views!Format
    BY <2>1, OrderIs DEF Past
  <2>5. MadeInv'
    BY <1>1, <2>1, <2>2, <2>4 DEF MadeInv, DiskInv
  <2>6. QED
    BY <2>1, <2>3, <2>5, OrderIs DEF PastInv, ViewInv, Views!Running
<1>11. CASE Views!Again
  <2>1. /\ attempt' \in 1..Attempts /\ view' = 1 /\ doing' = "clear" /\ made' = {}
        /\ wanted' \subseteq Views!Formats
    BY <1>1, <1>11, ToolsAssumption DEF Views!Again, DiskInv, ToolsAssumption
  <2>2. DiskInv'
    BY <1>1, <1>11, <2>1, OrderIs DEF Views!Again, DiskInv
  <2>3. \A f : ~Past(f)'
    BY <2>1 DEF Past
  <2>4. QED
    BY <2>1, <2>2, <2>3 DEF MadeInv, PastInv, ViewInv
<1>12. CASE Views!ViewsEnd
  BY <1>12
     DEF Views!ViewsEnd, Views!viewVars, DiskInv, MadeInv, PastInv, ViewInv, Past, Views!Running,
         Views!Format
<1>13. QED
  BY <1>2, <1>3, <1>4, <1>5, <1>6, <1>7, <1>8, <1>9, <1>10, <1>11, <1>12 DEF Views!ViewsNext

\* When the last view is past, so are all.
LEMMA FreshProducts == ViewsInv => Views!ProductsAreFresh
<1> SUFFICES ASSUME ViewsInv PROVE Views!ProductsAreFresh
  OBVIOUS
<1>1. view = Views!Done => \A f \in Views!Formats : Past(f)
  BY OrderIs DEF Past, Views!Formats
<1>2. \A f \in made : f \in wanted /\ disk[f] = attempt
  BY DEF ViewsInv, MadeInv
<1>3. view = Views!Done => \A f \in wanted :
           /\ f # "ogg" \/ f \in made => temp[f] = Views!None
           /\ f \in Views!ClearsTarget => disk[f] \in {Views!None, attempt}
  BY <1>1 DEF ViewsInv, DiskInv, PastInv, Views!Done
<1>4. view = Views!Done /\ Views!ExitCode = 0 => \A f \in wanted : disk[f] = attempt
  BY <1>2 DEF Views!ExitCode
<1>5. QED
  BY <1>2, <1>3, <1>4 DEF ViewsInv, DiskInv, Views!ProductsAreFresh, Views!ClearsTarget

\* A step that changes no file.
LEMMA ViewsStill == ViewsInv /\ UNCHANGED Views!viewVars => ViewsInv'
BY DEF Views!viewVars, ViewsInv, DiskInv, MadeInv, PastInv, ViewInv, Past, Views!Running,
       Views!Format

\* One step of the whole either leaves the views of a recording alone or is a step of it.
LEMMA ViewsMoves ==
    ASSUME [EitherNext]_<<receiveVars, offlineVars>>, tool' = "views"
    PROVE  tool = "views" /\ [Views!ViewsNext]_Views!viewVars
<1>1. CASE tool = "none" /\ ReceiveNext /\ UNCHANGED offlineVars
  BY <1>1 DEF offlineVars
<1>2. CASE OfflineNext
  BY <1>2 DEF OfflineNext
<1>3. CASE UNCHANGED <<receiveVars, offlineVars>>
  BY <1>3 DEF offlineVars, views, Views!viewVars
<1>4. QED
  BY <1>1, <1>2, <1>3 DEF EitherNext

\* While the behaviour is about the views of a recording, its invariant holds.
LEMMA ViewsInductive == EitherSpec => [](tool = "views" => ViewsInv)
<1>1. EitherInit => (tool = "views" => ViewsInv)
  BY ViewsInitInv DEF EitherInit, NoTool, OfflineInit
<1>2. (tool = "views" => ViewsInv) /\ [EitherNext]_<<receiveVars, offlineVars>>
          => (tool = "views" => ViewsInv)'
  <2> SUFFICES ASSUME tool = "views" => ViewsInv, [EitherNext]_<<receiveVars, offlineVars>>,
                      tool' = "views"
               PROVE  ViewsInv'
    OBVIOUS
  <2>1. ViewsInv /\ [Views!ViewsNext]_Views!viewVars
    BY ViewsMoves
  <2>2. QED
    BY <2>1, ViewsStep, ViewsStill
<1>3. QED
  BY <1>1, <1>2, PTL DEF EitherSpec

-----------------------------------------------------------------------------
(* The audio of a recording.                                               *)

\* A sample of the capture's discriminator, and an output of the filter over the
\* samples first..upto-1.
Pairs == Int \X Int
Sample(j) == <<j - 1, j>>
Reach(g, first, upto) == {k \in first..(upto - 1) : g * down - k * up \in 0..(Resampler!NTaps - 1)}
Span(g, first, upto)  == {Sample(k + 1) : k \in Reach(g, first, upto)}

\* How long the audio of so many samples is.
Outputs(m) == ((m - 1) * up + Resampler!NTaps - 1) \div down + 1

\* So many samples of the capture, and the first outputs over the first samples.
SamplesOf(s, n, before) ==
    s \in Seq(Pairs) /\ Len(s) = n /\ \A i \in 1..n : s[i] = Sample(before + i)
OutIs(s, n, m) ==
    s \in Seq(SUBSET Pairs) /\ Len(s) = n /\ \A i \in 1..n : s[i] = Span(i - 1, 0, m)

RatioInv == up \in Nat \ {0} /\ down \in Nat \ {0} /\ prev \in Nat /\ closed \in BOOLEAN
PlainInv ==
    Resampler!Identity =>
        out \in Seq(SUBSET Pairs) /\ Len(out) = prev /\ \A i \in 1..prev : out[i] = {Sample(i)}
Memory(n) == IF Resampler!HistoryLength <= n THEN Resampler!HistoryLength ELSE n
StepsInv ==
    /\ \E m \in 0..processed : processed = m * down /\ next = m * up
    /\ processed <= prev /\ prev - processed < down
OpenInv ==
    ~Resampler!Identity /\ ~closed =>
        /\ StepsInv
        /\ SamplesOf(unfilled, prev - processed, processed)
        /\ SamplesOf(history, Memory(processed), processed - Memory(processed))
        /\ OutIs(out, next, processed)
ClosedInv == ~Resampler!Identity /\ closed => prev \in Nat \ {0} /\ OutIs(out, Outputs(prev), prev)
ResamplerInv == RatioInv /\ PlainInv /\ OpenInv /\ ClosedInv

\* Products and quotients of whole numbers.
LEMMA Products ==
    /\ \A a, b \in Nat : a * b \in Nat
    /\ \A a, b \in Int : a * b \in Int
    /\ \A a, b \in Int, c \in Nat : a <= b => a * c <= b * c
    /\ \A a, b \in Int, c \in Nat \ {0} : a < b => a * c + c <= b * c
    /\ \A a, b, c \in Int : (a + b) * c = a * c + b * c /\ (a - b) * c = a * c - b * c
OBVIOUS

LEMMA Quotients ==
    /\ \A x \in Int, d \in Nat \ {0} :
          x \div d \in Int /\ (x \div d) * d <= x /\ x < (x \div d) * d + d
    /\ \A x, q \in Int, d \in Nat \ {0} : q * d <= x /\ x < q * d + d => x \div d = q
OBVIOUS

\* The quotient of what is so many steps further is so much more.
LEMMA WholeSteps ==
    ASSUME NEW x \in Int, NEW s \in Int, NEW d \in Nat \ {0}
    PROVE  /\ (s * d) \div d = s
           /\ (s * d - 1) \div d = s - 1
           /\ (x + s * d) \div d = x \div d + s
<1>1. s * d \in Int
  BY Products
<1>2. (s - 1) * d = s * d - d /\ (x \div d + s) * d = (x \div d) * d + s * d /\ x \div d \in Int
  BY Products, Quotients
<1>3. (s * d) \div d = s
  BY <1>1, Quotients
<1>4. (s * d - 1) \div d = s - 1
  <2>1. /\ s * d - 1 \in Int /\ s - 1 \in Int
        /\ (s - 1) * d <= s * d - 1 /\ s * d - 1 < (s - 1) * d + d
    BY <1>1, <1>2
  <2>2. QED
    BY <2>1, Quotients
<1>5. (x \div d) * d <= x /\ x < (x \div d) * d + d
  BY Quotients
<1>6. (x + s * d) \div d = x \div d + s
  <2>1. /\ (x \div d + s) * d <= x + s * d /\ x + s * d < (x \div d + s) * d + d
        /\ x \div d + s \in Int /\ x + s * d \in Int
    BY <1>1, <1>2, <1>5, Products
  <2>2. QED
    BY <2>1, Quotients
<1>7. QED
  BY <1>3, <1>4, <1>6

\* The filter is longer than a step, and what is remembered is enough for it, in
\* whole steps.
LEMMA Lengths ==
    ASSUME RatioInv
    PROVE  /\ Resampler!NTaps \in Nat /\ Resampler!NTaps - 1 >= up /\ Resampler!NTaps - 1 >= down
           /\ \E c \in Nat : Resampler!HistoryLength = c * down
           /\ Resampler!HistoryLength \in Nat /\ Resampler!HistoryLength * up >= Resampler!NTaps - 1
<1>1. up \in Nat \ {0} /\ down \in Nat \ {0} /\ Taps \in Nat \ {0}
  BY ToolsAssumption DEF RatioInv, ToolsAssumption
<1>2. PICK w \in Nat : w = Resampler!Larger(up, down) /\ w >= up /\ w >= down
  BY <1>1 DEF Resampler!Larger
<1>3. 2 * Taps * w \in Nat /\ 2 * Taps * w >= w
  <2>1. 2 * Taps \in Nat /\ 1 <= 2 * Taps
    BY <1>1
  <2>2. 1 * w <= 2 * Taps * w /\ 2 * Taps * w \in Nat
    BY <1>2, <2>1, Products
  <2>3. QED
    BY <1>2, <2>2
<1>4. PICK t \in Nat : t = Resampler!NTaps - 1 /\ Resampler!NTaps = t + 1 /\ t >= w
  BY <1>2, <1>3 DEF Resampler!NTaps
<1>5. \A a \in Nat, d \in Nat \ {0} :
         Resampler!CeilDiv(a, d) \in Nat /\ Resampler!CeilDiv(a, d) * d >= a
  <2> SUFFICES ASSUME NEW a \in Nat, NEW d \in Nat \ {0}
               PROVE  Resampler!CeilDiv(a, d) \in Nat /\ Resampler!CeilDiv(a, d) * d >= a
    OBVIOUS
  <2> DEFINE x == a + d - 1
             q == x \div d
  <2>1. x \in Nat /\ q \in Int /\ q * d <= x /\ x < q * d + d
    BY Quotients
  <2>2. q * d >= a
    <3>1. q * d \in Int
      BY <2>1, Products
    <3>2. QED
      BY <2>1, <3>1
  <2>3. q >= 0
    <3>1. q < 0 => q * d + d <= 0 * d
      BY <2>1, Products
    <3>2. QED
      BY <2>1, <2>2, <3>1
  <2>4. QED
    BY <2>1, <2>2, <2>3 DEF Resampler!CeilDiv
<1>6. PICK c0 \in Nat : c0 = Resampler!CeilDiv(Resampler!NTaps - 1, up) /\ c0 * up >= t
  BY <1>1, <1>4, <1>5
<1>7. PICK c \in Nat : c = Resampler!CeilDiv(c0, down) /\ c * down >= c0
  BY <1>1, <1>5
<1>8. Resampler!HistoryLength = c * down /\ c * down \in Nat
  BY <1>1, <1>6, <1>7, Products DEF Resampler!HistoryLength
<1>9. c0 * up <= (c * down) * up
  BY <1>1, <1>7, <1>8, Products
<1>10. Resampler!HistoryLength * up >= t
  <2>1. c0 * up \in Nat /\ (c * down) * up \in Nat
    BY <1>1, <1>8, Products
  <2>2. QED
    BY <1>4, <1>6, <1>8, <1>9, <2>1
<1>11. QED
  BY <1>1, <1>2, <1>4, <1>8, <1>10

\* An output before the samples to come does not depend on them.
LEMMA Unaffected ==
    ASSUME RatioInv, NEW g \in Nat, NEW m \in Nat, NEW n \in Nat, m <= n, g * down < m * up
    PROVE  Span(g, 0, m) = Span(g, 0, n)
<1>1. ASSUME NEW k \in Nat, m <= k PROVE g * down - k * up < 0
  <2>1. m * up <= k * up
    BY <1>1, Products DEF RatioInv
  <2>2. m * up \in Int /\ k * up \in Int /\ g * down \in Int
    BY Products DEF RatioInv
  <2>3. QED
    BY <2>1, <2>2
<1>2. Resampler!NTaps \in Nat
  BY Lengths
<1>3. Reach(g, 0, m) = Reach(g, 0, n)
  BY <1>1, <1>2 DEF Reach
<1>4. QED
  BY <1>3 DEF Span

\* An output a filter's length behind a sample does not depend on what is before it.
LEMMA Forgotten ==
    ASSUME RatioInv, NEW g \in Nat, NEW a \in Nat, NEW m \in Nat,
           \A k \in 0..(a - 1) : g * down - k * up > Resampler!NTaps - 1
    PROVE  Span(g, 0, m) = Span(g, a, m)
<1>1. Resampler!NTaps \in Nat
  BY Lengths
<1>2. \A k \in 0..(a - 1) : k \notin Reach(g, 0, m)
  <2> SUFFICES ASSUME NEW k \in 0..(a - 1), k \in Reach(g, 0, m) PROVE FALSE
    OBVIOUS
  <2>1. g * down - k * up \in Int
    BY Products DEF RatioInv
  <2>2. g * down - k * up <= Resampler!NTaps - 1 /\ g * down - k * up > Resampler!NTaps - 1
    BY <1>1, <2>1 DEF Reach
  <2>3. QED
    BY <1>1, <2>1, <2>2
<1>3. Reach(g, 0, m) \subseteq Reach(g, a, m)
  BY <1>2 DEF Reach
<1>4. Reach(g, a, m) \subseteq Reach(g, 0, m)
  BY DEF Reach
<1>5. QED
  BY <1>3, <1>4 DEF Span

\* The filter over a piece that begins on a step is the filter over all, further on.
LEMMA PieceFiltered ==
    ASSUME RatioInv, NEW source, NEW L \in Nat, NEW before \in Nat, NEW o \in Nat,
           SamplesOf(source, L, before), before * up = o * down
    PROVE  /\ Resampler!UpFirDn(source) \in Seq(SUBSET Pairs)
           /\ Len(Resampler!UpFirDn(source)) = Outputs(L)
           /\ Outputs(L) \in Nat \ {0}
           /\ \A q \in 1..Outputs(L) :
                 Resampler!UpFirDn(source)[q] = Span(q - 1 + o, before, before + L)
<1>1. up \in Nat \ {0} /\ down \in Nat \ {0} /\ Resampler!NTaps \in Nat /\ Resampler!NTaps - 1 >= up
  BY Lengths DEF RatioInv
<1>2. Outputs(L) \in Nat \ {0}
  <2> DEFINE x == (L - 1) * up + Resampler!NTaps - 1
  <2>1. x \in Nat
    <3>1. (L - 1) * up = L * up - up /\ L * up \in Nat
      <4>1. (L - 1) * up = L * up - 1 * up
        BY <1>1, Products
      <4>2. QED
        BY <1>1, <4>1, Products
    <3>2. QED
      BY <1>1, <3>1
  <2> HIDE DEF x
  <2>2. x \div down \in Int /\ x < (x \div down) * down + down
    BY <1>1, <2>1, Quotients
  <2>3. x \div down < 0 => (x \div down) * down + down <= 0 * down
    BY <1>1, <2>2, Products
  <2>4. x \div down >= 0
    BY <1>1, <2>1, <2>2, <2>3, Products
  <2>5. QED
    BY <2>2, <2>4 DEF Outputs, x
<1>3. Len(source) = L /\ \A i \in 1..L : source[i] = Sample(before + i) /\ source[i] \in Pairs
  BY DEF SamplesOf
<1> DEFINE Near(q) == {k \in 0..(L - 1) : (q - 1) * down - k * up \in 0..(Resampler!NTaps - 1)}
           Out(q) == {source[k + 1] : k \in Near(q)}
           n == Outputs(L)
<1>4. Resampler!UpFirDn(source) = [q \in 1..n |-> Out(q)]
  BY <1>3 DEF Resampler!UpFirDn, Outputs
<1>5. ASSUME NEW q \in 1..n
      PROVE  Out(q) = Span(q - 1 + o, before, before + L) /\ Out(q) \in SUBSET Pairs
  <2>1. ASSUME NEW k \in 0..(L - 1)
        PROVE  (q - 1 + o) * down - (before + k) * up = (q - 1) * down - k * up
    <3>1. /\ (q - 1 + o) * down = (q - 1) * down + o * down
          /\ (before + k) * up = before * up + k * up
      BY <1>1, <1>2, Products
    <3>2. /\ (q - 1) * down \in Int /\ o * down \in Int /\ k * up \in Int
      BY <1>1, <1>2, Products
    <3>3. QED
      BY <3>1, <3>2
  <2> DEFINE All == Reach(q - 1 + o, before, before + L)
  <2>2. \A k \in Near(q) : before + k \in All
    BY <2>1 DEF Reach
  <2>3. \A j \in All : j - before \in Near(q)
    <3> SUFFICES ASSUME NEW j \in All PROVE j - before \in Near(q)
      OBVIOUS
    <3>1. PICK k \in 0..(L - 1) : k = j - before /\ j = before + k
      BY DEF Reach
    <3>2. (q - 1 + o) * down - j * up \in 0..(Resampler!NTaps - 1)
      BY DEF Reach
    <3>3. QED
      BY <2>1, <3>1, <3>2
  <2>4. \A k \in Near(q) : source[k + 1] = Sample(before + k + 1) /\ source[k + 1] \in Pairs
    BY <1>3
  <2>5. \A k \in Near(q) : source[k + 1] \in Span(q - 1 + o, before, before + L)
    BY <2>2, <2>4 DEF Span
  <2>6. \A j \in All : Sample(j + 1) \in Out(q)
    <3> SUFFICES ASSUME NEW j \in All PROVE Sample(j + 1) \in Out(q)
      OBVIOUS
    <3>1. PICK k \in Near(q) : k = j - before
      BY <2>3
    <3>2. before + k + 1 = j + 1
      BY <3>1 DEF Reach
    <3>3. source[k + 1] = Sample(j + 1)
      BY <2>4, <3>2
    <3>4. QED
      BY <3>3
  <2>7. QED
    BY <2>4, <2>5, <2>6 DEF Span
<1> HIDE DEF Out
<1>6. [q \in 1..n |-> Out(q)] \in Seq(SUBSET Pairs) /\ Len([q \in 1..n |-> Out(q)]) = n
  <2>1. n \in Nat /\ \A q \in 1..n : Out(q) \in SUBSET Pairs
    BY <1>2, <1>5
  <2>2. QED
    BY <2>1
<1>7. QED
  BY <1>2, <1>4, <1>5, <1>6

\* What is kept of the samples that were filtered begins on a step, and is
\* enough for every output to come.
LEMMA MemorySuffices ==
    ASSUME RatioInv, NEW P \in Nat, NEW m \in Nat, P = m * down
    PROVE  /\ Memory(P) \in 0..P
           /\ \E s \in 0..m : P - Memory(P) = s * down
           /\ \A g \in Nat, k \in 0..(P - Memory(P) - 1) :
                 g >= m * up => g * down - k * up > Resampler!NTaps - 1
<1>1. /\ up \in Nat \ {0} /\ down \in Nat \ {0} /\ Resampler!NTaps \in Nat
      /\ Resampler!HistoryLength \in Nat
      /\ Resampler!HistoryLength * up >= Resampler!NTaps - 1
  BY Lengths DEF RatioInv
<1>2. Memory(P) \in 0..P
  BY <1>1 DEF Memory
<1>3. CASE Resampler!HistoryLength <= P
  <2>1. PICK c \in Nat : Resampler!HistoryLength = c * down
    BY Lengths
  <2>2. (m - c) * down = P - Resampler!HistoryLength /\ Memory(P) = Resampler!HistoryLength
    BY <1>1, <1>3, <2>1, Products DEF Memory
  <2>3. m - c \in 0..m
    <3>1. m - c < 0 => (m - c) * down + down <= 0 * down
      BY <1>1, <2>1, Products
    <3>2. 0 * down = 0 /\ (m - c) * down >= 0
      BY <1>1, <1>3, <2>2
    <3>3. QED
      BY <1>1, <2>1, <3>1, <3>2
  <2>4. ASSUME NEW g \in Nat, NEW k \in 0..(P - Resampler!HistoryLength - 1), g >= m * up
        PROVE  g * down - k * up > Resampler!NTaps - 1
    <3>1. m * up * down <= g * down /\ m * up \in Nat
      BY <1>1, <2>4, Products
    <3>2. m * up * down = P * up
      BY <1>1
    <3>3. (k + 1) * up <= (P - Resampler!HistoryLength) * up
      BY <1>1, <1>3, <2>4, Products
    <3>4. /\ (k + 1) * up = k * up + up
          /\ (P - Resampler!HistoryLength) * up = P * up - Resampler!HistoryLength * up
      <4>1. (k + 1) * up = k * up + 1 * up
        BY <1>1, Products
      <4>2. QED
        BY <1>1, <4>1, Products
    <3>5. /\ g * down \in Int /\ k * up \in Int /\ P * up \in Int
          /\ Resampler!HistoryLength * up \in Int
      BY <1>1, Products
    <3>6. QED
      BY <1>1, <3>1, <3>2, <3>3, <3>4, <3>5
  <2>5. QED
    BY <1>2, <2>2, <2>3, <2>4
<1>4. CASE ~(Resampler!HistoryLength <= P)
  <2>1. P - Memory(P) = 0 /\ 0 * down = 0
    BY <1>1, <1>4 DEF Memory
  <2>2. QED
    BY <1>2, <2>1
<1>5. QED
  BY <1>3, <1>4

\* The end of a sequence of samples.
LEMMA LastOfSamples ==
    ASSUME NEW s, NEW L \in Nat, NEW before \in Nat, SamplesOf(s, L, before), NEW n \in 0..L
    PROVE  SamplesOf(Resampler!Last(s, n), n, before + L - n)
<1>1. s \in Seq(Pairs) /\ Len(s) = L /\ \A i \in 1..L : s[i] = Sample(before + i) /\ s[i] \in Pairs
  BY DEF SamplesOf
<1>2. PICK a \in Int : a = L - n + 1 /\ a >= 1
  OBVIOUS
<1>3. Resampler!Last(s, n) = SubSeq(s, a, L)
  <2>1. Resampler!Last(s, n) = SubSeq(s, Resampler!Larger(1, L - n + 1), L)
    BY <1>1, Zenon DEF Resampler!Last
  <2>2. Resampler!Larger(1, L - n + 1) = a
    BY <1>2 DEF Resampler!Larger
  <2>3. QED
    BY <2>1, <2>2
<1>4. \A i \in a..L : s[i] \in Pairs
  BY <1>1, <1>2
<1>5. /\ SubSeq(s, a, L) \in Seq(Pairs)
      /\ Len(SubSeq(s, a, L)) = IF a <= L THEN L - a + 1 ELSE 0
      /\ \A i \in 1..(L - a + 1) : SubSeq(s, a, L)[i] = s[a + i - 1]
  BY <1>4, SubSeqProperties
<1>6. Len(SubSeq(s, a, L)) = n
  BY <1>2, <1>5
<1>7. ASSUME NEW i \in 1..n PROVE SubSeq(s, a, L)[i] = Sample(before + L - n + i)
  <2>1. a + i - 1 \in 1..L /\ before + (a + i - 1) = before + L - n + i /\ i \in 1..(L - a + 1)
    BY <1>2
  <2>2. QED
    BY <1>1, <1>5, <2>1
<1>8. QED
  BY <1>3, <1>5, <1>6, <1>7 DEF SamplesOf

\* Samples behind samples.
LEMMA SamplesJoined ==
    ASSUME NEW s, NEW t, NEW L \in Nat, NEW n \in Nat, NEW before \in Nat,
           SamplesOf(s, L, before), SamplesOf(t, n, before + L)
    PROVE  SamplesOf(s \o t, L + n, before)
<1>1. /\ s \in Seq(Pairs) /\ t \in Seq(Pairs) /\ Len(s) = L /\ Len(t) = n
      /\ \A i \in 1..L : s[i] = Sample(before + i)
      /\ \A i \in 1..n : t[i] = Sample(before + L + i)
  BY DEF SamplesOf
<1>2. /\ s \o t \in Seq(Pairs) /\ Len(s \o t) = L + n
      /\ \A i \in 1..(L + n) : (s \o t)[i] = IF i <= L THEN s[i] ELSE t[i - L]
  BY <1>1, ConcatProperties
<1>3. ASSUME NEW i \in 1..(L + n) PROVE (s \o t)[i] = Sample(before + i)
  <2>1. CASE i <= L
    BY <1>1, <1>2, <2>1
  <2>2. CASE ~(i <= L)
    <3>1. i - L \in 1..n /\ before + L + (i - L) = before + i
      BY <2>2
    <3>2. QED
      BY <1>1, <1>2, <2>2, <3>1
  <2>3. QED
    BY <2>1, <2>2
<1>4. QED
  BY <1>2, <1>3 DEF SamplesOf

\* One run of the filter carries on where the last one stopped.
LEMMA FilterStep ==
    ASSUME RatioInv, OpenInv, ~Resampler!Identity, ~closed,
           NEW block, NEW b \in Nat, NEW flush \in BOOLEAN,
           SamplesOf(block, b, processed), processed + b > 0,
           ~flush => \E c \in Nat : b = c * down,
           Resampler!Filter(block, flush)
    PROVE  \E total \in Nat :
               /\ total = processed + b /\ processed' = total
               /\ flush => next' = Outputs(total)
               /\ ~flush => \E m \in Nat : total = m * down /\ next' = m * up
               /\ OutIs(out', next', total)
               /\ SamplesOf(history', Memory(total), total - Memory(total))
<1>1. /\ up \in Nat \ {0} /\ down \in Nat \ {0} /\ Resampler!NTaps \in Nat
      /\ Resampler!NTaps - 1 >= up
      /\ Resampler!NTaps - 1 >= down /\ Resampler!HistoryLength \in Nat
  BY Lengths DEF RatioInv
<1>2. PICK m \in Nat : processed = m * down /\ next = m * up
  BY DEF OpenInv, StepsInv
<1>3. PICK P \in Nat : P = processed /\ P = m * down
  BY <1>1, <1>2, Products
<1>4. PICK h \in 0..P : h = Memory(processed) /\ SamplesOf(history, h, P - h)
  BY <1>3, MemorySuffices DEF OpenInv
<1>5. PICK s \in 0..m : P - h = s * down
  BY <1>3, <1>4, MemorySuffices, ZenonT(60)
<1>6. \A g \in Nat, k \in 0..(P - h - 1) : g >= m * up => g * down - k * up > Resampler!NTaps - 1
  BY <1>3, <1>4, MemorySuffices
<1>7. PICK total \in Nat : total = processed + b /\ total = P + b /\ total > 0
  BY <1>3
<1>8. PICK begin \in Nat : begin = P - h /\ begin = s * down /\ begin + h = P
  BY <1>4, <1>5
<1>9. PICK source : source = history \o block
  OBVIOUS
<1>10. SamplesOf(source, h + b, begin)
  <2>1. SamplesOf(history, h, begin) /\ SamplesOf(block, b, begin + h)
    BY <1>3, <1>4, <1>8
  <2>2. PICK s0, t0 :
           /\ s0 = history /\ t0 = block
           /\ SamplesOf(s0, h, begin) /\ SamplesOf(t0, b, begin + h)
    BY <2>1
  <2>3. h \in Nat /\ b \in Nat /\ begin \in Nat
    BY <1>4
  <2>4. SamplesOf(s0 \o t0, h + b, begin)
    BY ONLY <2>2, <2>3, SamplesJoined
  <2>5. QED
    BY <1>9, <2>2, <2>4
<1>11. Len(history) = h /\ Len(block) = b
  BY <1>4 DEF SamplesOf
<1>12. PICK o \in Nat : o = s * up /\ o <= m * up /\ m * up \in Nat
  BY <1>1, <1>5, Products
<1>13. begin * up = o * down /\ (begin * up) \div down = o
  <2>1. begin * up = o * down
    BY <1>1, <1>5, <1>8, <1>12
  <2>2. (o * down) \div down = o
    BY <1>1, <1>12, WholeSteps
  <2>3. QED
    BY <2>1, <2>2
<1>14. PICK F \in Nat \ {0} :
          /\ F = Outputs(h + b)
          /\ Resampler!UpFirDn(source) \in Seq(SUBSET Pairs) /\ Len(Resampler!UpFirDn(source)) = F
          /\ \A q \in 1..F : Resampler!UpFirDn(source)[q] = Span(q - 1 + o, begin, begin + (h + b))
  BY <1>4, <1>10, <1>13, PieceFiltered, SMTT(30)
<1>15. begin + (h + b) = total
  BY <1>4, <1>7, <1>8
<1>16. PICK last \in Int :
          last = IF flush THEN ((total - 1) * up + Resampler!NTaps - 1) \div down
                 ELSE (total * up - 1) \div down
  <2>1. (total - 1) * up + Resampler!NTaps - 1 \in Int /\ total * up - 1 \in Int
    BY <1>1, Products
  <2>2. QED
    BY <1>1, <2>1, Quotients
<1>17. /\ last + 1 >= m * up /\ last - o + 1 <= F
       /\ flush => last + 1 = Outputs(total)
       /\ ~flush => \E c \in Nat : total = c * down /\ last + 1 = c * up
  <2> DEFINE y == (h + b - 1) * up + Resampler!NTaps - 1
  <2>0. /\ y \in Int /\ F = y \div down + 1
        /\ h + b - 1 + begin = total - 1
        /\ (total - 1) * up + Resampler!NTaps - 1 = y + o * down
    <3>1. (total - 1) * up = (h + b - 1) * up + begin * up
      <4>1. PICK a \in Int : a = h + b - 1 /\ total - 1 = a + begin
        BY <1>4, <1>15
      <4>2. (a + begin) * up = a * up + begin * up
        BY <1>1, Products
      <4>3. QED
        BY <4>1, <4>2
    <3>2. (h + b - 1) * up \in Int /\ o * down \in Int /\ (total - 1) * up \in Int
      BY <1>1, <1>4, <1>12, Products
    <3>3. y \in Int
      BY <1>1, <3>2
    <3>4. F = y \div down + 1
      BY <1>14 DEF Outputs
    <3>5. (total - 1) * up + Resampler!NTaps - 1 = y + o * down
      BY <1>1, <1>13, <3>1, <3>2
    <3>6. h + b - 1 + begin = total - 1
      BY <1>4, <1>15
    <3>7. QED
      BY <3>3, <3>4, <3>5, <3>6
  <2> HIDE DEF y
  <2>1. CASE flush
    <3>1. last = y \div down + o
      <4>1. o \in Int /\ y \in Int /\ down \in Nat \ {0}
        BY <1>1, <1>12, <2>0
      <4>2. (y + o * down) \div down = y \div down + o
        BY ONLY <4>1, WholeSteps, ZenonT(60)
      <4>3. QED
        BY <1>16, <2>0, <2>1, <4>2
    <3>2. last - o + 1 = F
      <4>1. y \div down \in Int
        BY <1>1, <2>0, Quotients
      <4>2. QED
        BY <1>12, <2>0, <3>1, <4>1
    <3>3. last + 1 = Outputs(total)
      BY <1>16, <2>1 DEF Outputs
    <3>4. last + 1 >= m * up
      <4>1. last = ((total - 1) * up + Resampler!NTaps - 1) \div down
        BY <1>16, <2>1
      <4>2. (total - 1) * up + Resampler!NTaps - 1 >= P * up
        <5>1. (total - 1) * up = total * up - up
          <6>1. (total - 1) * up = total * up - 1 * up
            BY <1>1, Products
          <6>2. QED
            BY <1>1, <6>1
        <5>2. P * up <= total * up /\ P * up \in Int /\ total * up \in Int
          BY <1>1, <1>7, Products
        <5>3. QED
          BY <1>1, <5>1, <5>2
      <4>3. P * up = m * up * down
        BY <1>1, <1>3
      <4>4. (m * up) \div down \in Int /\ m * up * down \in Int /\ m * up \in Int
        BY <1>1, Products, Quotients
      <4>5. PICK z \in Int :
               z = (total - 1) * up + Resampler!NTaps - 1 /\ last = z \div down
               /\ z >= m * up * down
        BY <1>1, <4>1, <4>2, <4>3, Products
      <4>6. z < last * down + down
        BY <1>1, <4>5, Quotients
      <4>7. last + 1 < m * up => (last + 1) * down + down <= m * up * down
        BY <1>1, <4>4, Products
      <4>8. (last + 1) * down = last * down + down /\ last * down \in Int
        <5>1. (last + 1) * down = last * down + 1 * down
          BY <1>1, Products
        <5>2. QED
          BY <1>1, <5>1, Products
      <4>9. QED
        BY <1>1, <4>4, <4>5, <4>6, <4>7, <4>8
    <3>5. QED
      BY <2>1, <3>2, <3>3, <3>4
  <2>2. CASE ~flush
    <3>1. PICK c \in Nat : b = c * down
      BY <2>2
    <3>2. (m + c) * down = total
      <4>1. (m + c) * down = m * down + c * down
        BY <1>1, Products
      <4>2. QED
        BY <1>3, <1>7, <3>1, <4>1
    <3>3. PICK e \in Nat : e = (m + c) * up /\ e * down = total * up /\ e >= m * up
      <4>1. (m + c) * up * down = total * up
        BY <1>1, <3>2
      <4>2. m * up <= (m + c) * up /\ (m + c) * up \in Nat
        BY <1>1, Products
      <4>3. QED
        BY <4>1, <4>2
    <3>4. last = e - 1
      <4>1. e \in Int /\ 0 \in Int /\ down \in Nat \ {0}
        BY <1>1, <3>3
      <4>2. (e * down - 1) \div down = e - 1
        BY ONLY <4>1, WholeSteps, Zenon
      <4>3. QED
        BY <1>16, <2>2, <3>3, <4>2
    <3>5. last - o + 1 <= F
      <4>1. y >= (e - o) * down - 1
        <5>1. (e - o) * down = total * up - o * down
          BY <1>1, <1>12, <3>3, Products
        <5>2. (total - 1) * up = total * up - up
          <6>1. (total - 1) * up = total * up - 1 * up
            BY <1>1, Products
          <6>2. QED
            BY <1>1, <6>1
        <5>3. total * up \in Int /\ o * down \in Int
          BY <1>1, <1>12, Products
        <5>4. QED
          BY <1>1, <2>0, <5>1, <5>2, <5>3
      <4>2. y < (y \div down) * down + down /\ y \div down \in Int
        BY <1>1, <2>0, Quotients
      <4>3. y \div down + 1 < e - o => (y \div down + 1) * down + down <= (e - o) * down
        BY <1>1, <1>12, <3>3, <4>2, Products
      <4>4. (y \div down + 1) * down = (y \div down) * down + down
        <5>1. (y \div down + 1) * down = (y \div down) * down + 1 * down
          BY <1>1, <4>2, Products
        <5>2. QED
          BY <1>1, <5>1
      <4>5. (y \div down) * down \in Int /\ (e - o) * down \in Int
        BY <1>1, <1>12, <3>3, <4>2, Products
      <4>6. y \div down + 1 >= e - o
        BY <1>1, <1>12, <2>0, <3>3, <4>1, <4>2, <4>3, <4>4, <4>5
      <4>7. QED
        BY <1>12, <2>0, <3>3, <3>4, <4>6
    <3>6. QED
      BY <1>12, <2>2, <3>2, <3>3, <3>4, <3>5
  <2>3. QED
    BY <2>1, <2>2
<1>18. /\ out' = out \o SubSeq(Resampler!UpFirDn(source), next - o + 1, last - o + 1)
       /\ processed' = total /\ next' = last + 1
       /\ history' = Resampler!Last(source, Memory(total))
  <2>1. PICK start : start = processed - Len(history) /\ start = begin
    BY <1>3, <1>8, <1>11
  <2>2. processed + Len(block) = total
    BY <1>7, <1>11
  <2>3. (start * up) \div down = o /\ Len(Resampler!UpFirDn(source)) = F
    BY <1>13, <1>14, <2>1, SMTT(30)
  <2>4. /\ out' = out \o SubSeq(Resampler!UpFirDn(source), next - o + 1,
                                IF last - o + 1 <= F THEN last - o + 1 ELSE F)
        /\ processed' = total /\ next' = last + 1
        /\ history' = Resampler!Last(source, IF Resampler!HistoryLength <= total
                                             THEN Resampler!HistoryLength ELSE total)
    BY <1>9, <1>16, <2>1, <2>2, <2>3 DEF Resampler!Filter
  <2>5. QED
    BY <1>17, <2>4 DEF Memory
<1>19. SamplesOf(history', Memory(total), total - Memory(total))
  <2>1. Memory(total) \in 0..(h + b)
    <3>1. h = Memory(P)
      BY <1>3, <1>4
    <3>2. CASE Resampler!HistoryLength <= P
      BY <1>1, <1>7, <3>1, <3>2 DEF Memory
    <3>3. CASE ~(Resampler!HistoryLength <= P)
      BY <1>1, <1>7, <3>1, <3>3 DEF Memory
    <3>4. QED
      BY <3>2, <3>3
  <2>2. PICK n \in 0..(h + b) : n = Memory(total)
    BY <2>1
  <2>3. h + b \in Nat /\ begin \in Nat
    BY <1>4
  <2>4. SamplesOf(Resampler!Last(source, n), n, begin + (h + b) - n)
    BY ONLY <1>10, <2>2, <2>3, LastOfSamples
  <2>5. QED
    BY <1>15, <1>18, <2>2, <2>4, SMTT(30)
<1>20. OutIs(out', next', total)
  <2>1. OutIs(out, next, P)
    BY <1>3 DEF OpenInv
  <2>2. next \in Nat /\ next = m * up
    BY <1>2, <1>12
  <2> DEFINE from == next - o + 1
             to   == last - o + 1
             new  == SubSeq(Resampler!UpFirDn(source), from, to)
  <2>3. from \in Int /\ to \in Int /\ from >= 1 /\ to <= F /\ to - from + 1 = last + 1 - next
        /\ last + 1 >= next
    BY <1>12, <1>17, <2>2
  <2>4. \A q \in from..to : q \in 1..F /\ Resampler!UpFirDn(source)[q] \in SUBSET Pairs
    BY <1>14, <2>3
  <2>5. /\ new \in Seq(SUBSET Pairs) /\ Len(new) = last + 1 - next
        /\ \A i \in 1..(last + 1 - next) : new[i] = Resampler!UpFirDn(source)[from + i - 1]
    <3> HIDE DEF from, to
    <3>1. /\ new \in Seq(SUBSET Pairs) /\ Len(new) = IF from <= to THEN to - from + 1 ELSE 0
          /\ \A i \in 1..(to - from + 1) : new[i] = Resampler!UpFirDn(source)[from + i - 1]
      BY <2>3, <2>4, SubSeqProperties
    <3>2. QED
      BY <2>2, <2>3, <3>1
  <2> HIDE DEF new
  <2>6. out' = out \o new
    BY <1>18 DEF new
  <2>7. /\ out' \in Seq(SUBSET Pairs) /\ Len(out') = last + 1
        /\ \A i \in 1..(last + 1) : out'[i] = IF i <= next THEN out[i] ELSE new[i - next]
    <3>1. out \in Seq(SUBSET Pairs) /\ Len(out) = next
      BY <2>1 DEF OutIs
    <3>2. /\ out \o new \in Seq(SUBSET Pairs) /\ Len(out \o new) = Len(out) + Len(new)
          /\ \A i \in 1..(Len(out) + Len(new)) :
                (out \o new)[i] = IF i <= Len(out) THEN out[i] ELSE new[i - Len(out)]
      BY <2>5, <3>1, ConcatProperties, ZenonT(60)
    <3>3. Len(out) + Len(new) = last + 1
      BY <2>2, <2>5, <3>1
    <3>4. QED
      BY <2>6, <3>1, <3>2, <3>3
  <2>8. ASSUME NEW i \in 1..(last + 1)
        PROVE  out'[i] = Span(i - 1, 0, total)
    <3>1. CASE i <= next
      <4>1. out'[i] = Span(i - 1, 0, P)
        BY <2>1, <2>2, <2>7, <3>1 DEF OutIs
      <4>2. (i - 1) * down < P * up
        <5>1. (i - 1) * down + down <= next * down
          BY <1>1, <2>2, <3>1, Products
        <5>2. next * down = P * up
          BY <1>1, <1>3, <2>2
        <5>3. (i - 1) * down \in Int /\ P * up \in Int
          BY <1>1, Products
        <5>4. QED
          BY <1>1, <5>1, <5>2, <5>3
      <4>3. i - 1 \in Nat /\ P <= total
        BY <1>7
      <4>4. QED
        BY <4>1, <4>2, <4>3, Unaffected
    <3>2. CASE ~(i <= next)
      <4>1. i - next \in 1..(last + 1 - next) /\ from + (i - next) - 1 = i - o
        BY <1>12, <2>2, <3>2
      <4>2. out'[i] = Resampler!UpFirDn(source)[i - o]
        BY <2>5, <2>7, <3>2, <4>1
      <4>3. i - o \in 1..F /\ (i - o) - 1 + o = i - 1
        BY <1>12, <1>17, <2>2, <3>2
      <4>4. out'[i] = Span(i - 1, begin, total)
        BY <1>14, <1>15, <4>2, <4>3
      <4>5. i - 1 \in Nat /\ i - 1 >= m * up
        BY <2>2, <3>2
      <4>6. Span(i - 1, 0, total) = Span(i - 1, begin, total)
        BY <1>6, <1>8, <4>5, Forgotten
      <4>7. QED
        BY <4>4, <4>6
    <3>3. QED
      BY <3>1, <3>2
  <2>9. QED
    BY <1>18, <2>7, <2>8 DEF OutIs
<1>21. QED
  BY <1>7, <1>17, <1>18, <1>19, <1>20

\* The discriminator's samples are the capture's, wherever the chunk begins.
LEMMA Discriminators ==
    ASSUME NEW n \in Nat, NEW before \in Nat
    PROVE  SamplesOf(Resampler!Discriminated(n, before), n, before)
<1> DEFINE Value(i) == <<IF i = 1 THEN before ELSE before + i - 1, before + i>>
<1>1. Resampler!Discriminated(n, before) = [i \in 1..n |-> Value(i)]
  BY DEF Resampler!Discriminated
<1>2. \A i \in 1..n : Value(i) = Sample(before + i) /\ Value(i) \in Pairs
  BY DEF Pairs, Sample
<1> HIDE DEF Value
<1>3. [i \in 1..n |-> Value(i)] \in [1..n -> Pairs]
  BY <1>2
<1>4. PICK f \in [1..n -> Pairs] : f = [i \in 1..n |-> Value(i)]
  BY <1>3
<1>5. f \in Seq(Pairs) /\ Len(f) = n
  OBVIOUS
<1>6. \A i \in 1..n : f[i] = Sample(before + i)
  BY <1>2, <1>4
<1>7. QED
  BY <1>1, <1>4, <1>5, <1>6 DEF SamplesOf

\* The two parts of a sequence of samples.
LEMMA SamplesParted ==
    ASSUME NEW s, NEW L \in Nat, NEW before \in Nat, SamplesOf(s, L, before), NEW a \in 0..L
    PROVE  /\ SamplesOf(SubSeq(s, 1, a), a, before)
           /\ SamplesOf(SubSeq(s, a + 1, Len(s)), L - a, before + a)
<1>1. s \in Seq(Pairs) /\ Len(s) = L /\ \A i \in 1..L : s[i] = Sample(before + i) /\ s[i] \in Pairs
  BY DEF SamplesOf
<1>2. /\ SubSeq(s, 1, a) \in Seq(Pairs) /\ Len(SubSeq(s, 1, a)) = a
      /\ \A i \in 1..a : SubSeq(s, 1, a)[i] = s[i]
  <2>1. \A i \in 1..a : s[i] \in Pairs
    BY <1>1
  <2>2. /\ SubSeq(s, 1, a) \in Seq(Pairs)
        /\ Len(SubSeq(s, 1, a)) = IF 1 <= a THEN a - 1 + 1 ELSE 0
        /\ \A i \in 1..(a - 1 + 1) : SubSeq(s, 1, a)[i] = s[1 + i - 1]
    BY <2>1, SubSeqProperties
  <2>3. QED
    BY <2>2
<1>3. PICK b \in Nat : b = a + 1
  OBVIOUS
<1>4. /\ SubSeq(s, b, L) \in Seq(Pairs) /\ Len(SubSeq(s, b, L)) = L - a
      /\ \A i \in 1..(L - a) : SubSeq(s, b, L)[i] = s[a + i]
  <2>1. \A i \in b..L : s[i] \in Pairs
    BY <1>1, <1>3
  <2>2. /\ SubSeq(s, b, L) \in Seq(Pairs)
        /\ Len(SubSeq(s, b, L)) = IF b <= L THEN L - b + 1 ELSE 0
        /\ \A i \in 1..(L - b + 1) : SubSeq(s, b, L)[i] = s[b + i - 1]
    BY <2>1, <1>3, SubSeqProperties
  <2>3. \A i \in 1..(L - a) : b + i - 1 = a + i /\ i \in 1..(L - b + 1)
    BY <1>3
  <2>4. QED
    BY <1>3, <2>2, <2>3
<1>5. SamplesOf(SubSeq(s, 1, a), a, before)
  BY <1>1, <1>2 DEF SamplesOf
<1>6. SamplesOf(SubSeq(s, b, L), L - a, before + a)
  <2>1. \A i \in 1..(L - a) : a + i \in 1..L /\ before + (a + i) = before + a + i
    OBVIOUS
  <2>2. \A i \in 1..(L - a) : SubSeq(s, b, L)[i] = Sample(before + a + i)
    BY <1>1, <1>4, <2>1
  <2>3. QED
    BY <1>4, <2>2 DEF SamplesOf
<1>7. QED
  BY <1>1, <1>3, <1>5, <1>6

\* The ratio is fixed, and with it the filter.
LEMMA SameFilter ==
    ASSUME up' = up, down' = down
    PROVE  /\ Resampler!Identity' <=> Resampler!Identity
           /\ Resampler!NTaps' = Resampler!NTaps
           /\ Resampler!HistoryLength' = Resampler!HistoryLength
<1>1. Resampler!NTaps' = Resampler!NTaps
  BY DEF Resampler!NTaps, Resampler!Larger
<1>2. Resampler!HistoryLength' = Resampler!HistoryLength
  BY <1>1 DEF Resampler!HistoryLength, Resampler!CeilDiv
<1>3. QED
  BY <1>1, <1>2 DEF Resampler!Identity

\* The conditions on what was written and what is kept, said of the variables a
\* step leaves behind, are the conditions after the step.
LEMMA OutAfter ==
    ASSUME up' = up, down' = down, OutIs(out', next', processed')
    PROVE  OutIs(out, next, processed)'
<1>1. \A g, m : {k \in 0..(m - 1) : g * down' - k * up' \in 0..(Resampler!NTaps' - 1)}
                     = {k \in 0..(m - 1) : g * down - k * up \in 0..(Resampler!NTaps - 1)}
  BY SameFilter
<1>2. QED
  BY <1>1 DEF OutIs, Span, Reach

LEMMA AllOutAfter ==
    ASSUME up' = up, down' = down, OutIs(out', Outputs(prev'), prev')
    PROVE  OutIs(out, Outputs(prev), prev)'
<1>1. \A g, m : {k \in 0..(m - 1) : g * down' - k * up' \in 0..(Resampler!NTaps' - 1)}
                     = {k \in 0..(m - 1) : g * down - k * up \in 0..(Resampler!NTaps - 1)}
  BY SameFilter
<1>2. Outputs(prev)' = Outputs(prev')
  BY SameFilter DEF Outputs
<1>3. QED
  BY <1>1, <1>2 DEF OutIs, Span, Reach

LEMMA KeptAfter ==
    ASSUME up' = up, down' = down,
           SamplesOf(history', Memory(processed'), processed' - Memory(processed'))
    PROVE  SamplesOf(history, Memory(processed), processed - Memory(processed))'
<1>1. Memory(processed)' = Memory(processed')
  BY SameFilter DEF Memory
<1>2. QED
  BY <1>1 DEF SamplesOf

\* Nothing is remembered, and nothing written, of no capture.
LEMMA ResamplerInitInv == Resampler!ResamplerInit => ResamplerInv
<1> SUFFICES ASSUME Resampler!ResamplerInit PROVE ResamplerInv
  OBVIOUS
<1>1. /\ up \in Nat \ {0} /\ down \in Nat \ {0} /\ prev = 0 /\ unfilled = <<>> /\ history = <<>>
      /\ processed = 0 /\ next = 0 /\ out = <<>> /\ closed = FALSE
  BY ToolsAssumption DEF Resampler!ResamplerInit, ToolsAssumption
<1>2. RatioInv
  BY <1>1 DEF RatioInv
<1>3. PlainInv
  BY <1>1 DEF PlainInv
<1>4. Memory(processed) = 0 /\ 0 * down = 0 /\ 0 * up = 0
  BY <1>1, <1>2, Lengths DEF Memory
<1>5. SamplesOf(<<>>, 0, 0) /\ OutIs(<<>>, 0, 0)
  BY DEF SamplesOf, OutIs
<1>6. StepsInv
  BY <1>1, <1>4 DEF StepsInv
<1>7. OpenInv
  BY <1>1, <1>4, <1>5, <1>6 DEF OpenInv
<1>8. ClosedInv
  BY <1>1 DEF ClosedInv
<1>9. QED
  BY <1>2, <1>3, <1>7, <1>8 DEF ResamplerInv

\* What a step of the filter leaves, in the words of the invariant.
LEMMA OpenAfter ==
    ASSUME RatioInv, up' = up, down' = down,
           NEW waiting \in Nat, waiting < down, prev' \in Nat, processed' \in Nat,
           prev' = processed' + waiting,
           \E m \in Nat : processed' = m * down /\ next' = m * up,
           SamplesOf(unfilled', waiting, processed'),
           SamplesOf(history', Memory(processed'), processed' - Memory(processed')),
           OutIs(out', next', processed')
    PROVE  OpenInv'
<1>1. down \in Nat \ {0} /\ up \in Nat \ {0}
  BY DEF RatioInv
<1>2. PICK m \in Nat : processed' = m * down /\ next' = m * up
  OBVIOUS
<1>3. m \in 0..processed'
  <2>1. m * 1 <= m * down
    <3>1. 1 * m <= down * m
      BY <1>1, Products
    <3>2. QED
      BY <1>1, <3>1
  <2>2. QED
    BY <1>2, <2>1
<1>4. /\ \E n \in 0..processed' : processed' = n * down' /\ next' = n * up'
      /\ processed' <= prev' /\ prev' - processed' < down'
  BY <1>1, <1>2, <1>3
<1>5. StepsInv'
  BY <1>4 DEF StepsInv
<1>6. SamplesOf(unfilled, prev - processed, processed)'
  <2>1. prev' - processed' = waiting
    OBVIOUS
  <2>2. SamplesOf(unfilled', prev' - processed', processed')
    BY <2>1
  <2>3. QED
    BY <2>2 DEF SamplesOf
<1>7. SamplesOf(history, Memory(processed), processed - Memory(processed))'
  BY KeptAfter
<1>8. OutIs(out, next, processed)'
  BY OutAfter
<1>9. QED
  BY <1>5, <1>6, <1>7, <1>8 DEF OpenInv

\* A chunk without resampling: the samples as they are.
LEMMA PlainChunk ==
    ASSUME ResamplerInv, NEW n \in 1..MaxLength, Resampler!Chunk(n), Resampler!Identity
    PROVE  ResamplerInv'
<1>1. /\ RatioInv /\ PlainInv /\ up' = up /\ down' = down /\ closed' = closed /\ closed = FALSE
      /\ prev' = prev + n /\ n \in Nat /\ MaxLength \in Nat
  BY ToolsAssumption DEF ResamplerInv, RatioInv, Resampler!Chunk, ToolsAssumption
<1>2. RatioInv'
  BY <1>1 DEF RatioInv
<1>3. PICK block : block = Resampler!Discriminated(n, prev) /\ SamplesOf(block, n, prev)
  BY <1>1, Discriminators DEF RatioInv
<1>4. /\ block \in Seq(Pairs) /\ Len(block) = n /\ DOMAIN block = 1..n
      /\ \A i \in 1..n : block[i] = Sample(prev + i) /\ block[i] \in Pairs
  BY <1>1, <1>3 DEF SamplesOf
<1>5. PICK new \in [1..n -> SUBSET Pairs] :
         new = [i \in 1..n |-> {block[i]}] /\ \A i \in 1..n : new[i] = {Sample(prev + i)}
  <2>1. \A i \in 1..n : {block[i]} \in SUBSET Pairs
    BY <1>4
  <2>2. [i \in 1..n |-> {block[i]}] \in [1..n -> SUBSET Pairs]
    BY <2>1
  <2>3. \A i \in 1..n : [j \in 1..n |-> {block[j]}][i] = {Sample(prev + i)}
    BY <1>4
  <2>4. QED
    BY <2>2, <2>3
<1>6. out' = out \o new
  BY <1>1, <1>3, <1>4, <1>5 DEF Resampler!Chunk, Resampler!Process
<1>7. new \in Seq(SUBSET Pairs) /\ Len(new) = n
  BY <1>1
<1>8. /\ out \in Seq(SUBSET Pairs) /\ Len(out) = prev /\ prev \in Nat
      /\ \A i \in 1..prev : out[i] = {Sample(i)}
  BY <1>1 DEF PlainInv, RatioInv
<1>9. /\ out' \in Seq(SUBSET Pairs) /\ Len(out') = prev + n
      /\ \A i \in 1..(prev + n) : out'[i] = IF i <= prev THEN out[i] ELSE new[i - prev]
  <2>1. /\ out \o new \in Seq(SUBSET Pairs) /\ Len(out \o new) = Len(out) + Len(new)
        /\ \A i \in 1..(Len(out) + Len(new)) :
              (out \o new)[i] = IF i <= Len(out) THEN out[i] ELSE new[i - Len(out)]
    <3>1. out \in Seq(SUBSET Pairs) /\ new \in Seq(SUBSET Pairs)
      BY <1>7, <1>8
    <3>2. QED
      BY ONLY <3>1, ConcatProperties
  <2>2. QED
    BY <1>6, <1>7, <1>8, <2>1
<1>10. ASSUME NEW i \in 1..(prev + n) PROVE out'[i] = {Sample(i)}
  <2>1. CASE i <= prev
    BY <1>8, <1>9, <2>1
  <2>2. CASE ~(i <= prev)
    <3>1. i - prev \in 1..n /\ prev + (i - prev) = i
      BY <1>1, <1>8, <2>2
    <3>2. QED
      BY <1>5, <1>9, <2>2, <3>1
  <2>3. QED
    BY <2>1, <2>2
<1>11. PlainInv'
  BY <1>1, <1>9, <1>10 DEF PlainInv, Sample
<1>12. Resampler!Identity'
  BY <1>1, SameFilter
<1>13. QED
  BY <1>2, <1>11, <1>12 DEF ResamplerInv, OpenInv, ClosedInv

\* A chunk that is resampled: whole steps are filtered, the rest waits.
LEMMA ResampledChunk ==
    ASSUME ResamplerInv, NEW n \in 1..MaxLength, Resampler!Chunk(n), ~Resampler!Identity
    PROVE  ResamplerInv'
<1>1. /\ RatioInv /\ OpenInv /\ up' = up /\ down' = down /\ closed' = closed /\ closed = FALSE
      /\ prev' = prev + n /\ n \in Nat /\ MaxLength \in Nat
      /\ up \in Nat \ {0} /\ down \in Nat \ {0} /\ prev \in Nat
  BY ToolsAssumption DEF ResamplerInv, RatioInv, Resampler!Chunk, ToolsAssumption
<1>2. RatioInv'
  BY <1>1 DEF RatioInv
<1>3. ~Resampler!Identity' /\ ~closed'
  BY <1>1, SameFilter
<1>4. PICK m \in Nat : processed = m * down /\ next = m * up
  <2>1. StepsInv
    BY <1>1 DEF OpenInv
  <2>2. QED
    BY <2>1 DEF StepsInv
<1>5. PICK P \in Nat : P = processed /\ P <= prev
  BY <1>1, <1>4, Products DEF OpenInv, StepsInv
<1>6. PICK w \in Nat : w = prev - P /\ SamplesOf(unfilled, w, P)
  BY <1>1, <1>5 DEF OpenInv
<1>7. PICK block : block = Resampler!Discriminated(n, prev) /\ SamplesOf(block, n, P + w)
  <2>1. P + w = prev
    BY <1>1, <1>5, <1>6
  <2>2. QED
    BY <1>1, <2>1, Discriminators
<1>8. PICK joined : joined = unfilled \o block
  OBVIOUS
<1>9. PICK L \in Nat : L = w + n /\ SamplesOf(joined, L, P) /\ Len(joined) = L
  <2>1. SamplesOf(joined, w + n, P)
    BY <1>1, <1>6, <1>7, <1>8, SamplesJoined
  <2>2. QED
    BY <1>1, <2>1 DEF SamplesOf
<1>10. PICK c \in Nat : c = L \div down /\ c * down \in 0..L /\ L - c * down < down
  <2>1. L \div down \in Int /\ (L \div down) * down <= L /\ L < (L \div down) * down + down
    BY <1>1, Quotients
  <2>2. L \div down < 0 => (L \div down) * down + down <= 0 * down
    BY <1>1, <2>1, Products
  <2>3. L \div down \in Nat
    BY <1>1, <2>1, <2>2, Products
  <2>4. QED
    BY <1>1, <2>1, <2>3, Products
<1>11. PICK take \in 0..L : take = c * down
  BY <1>10
<1>12. /\ unfilled' = SubSeq(joined, take + 1, Len(joined))
       /\ IF take = 0 THEN UNCHANGED <<history, processed, next, out>>
          ELSE Resampler!Filter(SubSeq(joined, 1, take), FALSE)
  <2>1. (Len(joined) \div down) * down = take
    BY <1>9, <1>10, <1>11
  <2>2. QED
    BY <1>7, <1>8, <2>1 DEF Resampler!Chunk, Resampler!Process
<1>13. PICK piece : piece = SubSeq(joined, 1, take) /\ SamplesOf(piece, take, P)
  BY <1>9, SamplesParted
<1>14. SamplesOf(unfilled', L - take, P + take)
  BY <1>9, <1>12, SamplesParted
<1>15. /\ processed' = P + take
       /\ \E k \in Nat : P + take = k * down /\ next' = k * up
       /\ OutIs(out', next', P + take)
       /\ SamplesOf(history', Memory(P + take), (P + take) - Memory(P + take))
  <2>1. CASE take = 0
    <3>1. P + take = P /\ history' = history /\ processed' = P /\ next' = next /\ out' = out
      BY <1>5, <1>12, <2>1
    <3>2. OutIs(out, next, P) /\ SamplesOf(history, Memory(P), P - Memory(P))
      BY <1>1, <1>5 DEF OpenInv
    <3>3. P = m * down /\ next' = m * up
      BY <1>4, <1>5, <3>1
    <3>4. QED
      BY <3>1, <3>2, <3>3
  <2>2. CASE take # 0
    <3>1. Resampler!Filter(piece, FALSE)
      BY <1>12, <1>13, <2>2
    <3>2. /\ take \in Nat /\ P + take \in Nat /\ P + take = processed + take /\ P + take > 0
          /\ SamplesOf(piece, take, processed)
      BY <1>5, <1>13, <2>2
    <3>3. \E k \in Nat : take = k * down
      BY <1>11
    <3>4. PICK total \in Nat :
             /\ total = processed + take /\ processed' = total
             /\ \E k \in Nat : total = k * down /\ next' = k * up
             /\ OutIs(out', next', total)
             /\ SamplesOf(history', Memory(total), total - Memory(total))
      BY <1>1, <3>1, <3>2, <3>3, FilterStep
    <3>5. total = P + take
      BY <3>2, <3>4
    <3>6. QED
      BY <3>4, <3>5
  <2>3. QED
    BY <2>1, <2>2
<1>16. PICK rest \in Nat : rest = L - take /\ rest < down /\ prev' = (P + take) + rest
  <2>1. take \in Int /\ take <= L /\ L - take < down
    BY <1>9, <1>10, <1>11
  <2>2. prev' = P + L
    BY <1>1, <1>5, <1>6, <1>9
  <2>3. QED
    BY <2>1, <2>2
<1>17. OpenInv'
  <2>1. /\ prev' \in Nat /\ processed' \in Nat /\ prev' = processed' + rest
        /\ \E k \in Nat : processed' = k * down /\ next' = k * up
        /\ SamplesOf(unfilled', rest, processed')
        /\ SamplesOf(history', Memory(processed'), processed' - Memory(processed'))
        /\ OutIs(out', next', processed')
    BY <1>14, <1>15, <1>16
  <2>2. QED
    BY <1>1, <1>16, <2>1, OpenAfter
<1>18. QED
  BY <1>2, <1>3, <1>17 DEF ResamplerInv, PlainInv, ClosedInv

\* The end: what waits is filtered, and the filter drained.
LEMMA FlushStep ==
    ASSUME ResamplerInv, Resampler!Flush
    PROVE  ResamplerInv'
<1>1. /\ RatioInv /\ up' = up /\ down' = down /\ prev' = prev /\ closed = FALSE /\ closed' = TRUE
      /\ prev \in Nat \ {0}
  BY DEF ResamplerInv, RatioInv, Resampler!Flush
<1>2. RatioInv'
  BY <1>1 DEF RatioInv
<1>3. CASE Resampler!Identity
  <2>1. out' = out /\ Resampler!Identity'
    BY <1>1, <1>3, SameFilter DEF Resampler!Flush
  <2>2. PlainInv'
    BY <1>1, <1>3, <2>1 DEF ResamplerInv, PlainInv, Sample
  <2>3. QED
    BY <1>2, <2>1, <2>2 DEF ResamplerInv, OpenInv, ClosedInv
<1>4. CASE ~Resampler!Identity
  <2>1. ~Resampler!Identity'
    BY <1>1, <1>4, SameFilter
  <2>2. OpenInv /\ Resampler!Filter(unfilled, TRUE)
    BY <1>4 DEF ResamplerInv, Resampler!Flush
  <2>3. PICK b \in Nat : b = prev - processed /\ SamplesOf(unfilled, b, processed)
                         /\ processed + b = prev /\ processed + b > 0
    <3>1. processed \in Nat /\ processed <= prev
      <4>1. PICK m \in Nat : processed = m * down
        BY <1>1, <1>4, <2>2 DEF OpenInv, StepsInv
      <4>2. down \in Nat
        BY <1>1 DEF RatioInv
      <4>3. QED
        BY <1>1, <1>4, <2>2, <4>1, <4>2, Products DEF OpenInv, StepsInv
    <3>2. QED
      BY <1>1, <1>4, <2>2, <3>1 DEF OpenInv
  <2>4. PICK total \in Nat :
           total = processed + b /\ next' = Outputs(total) /\ OutIs(out', next', total)
    BY <1>1, <1>4, <2>2, <2>3, FilterStep
  <2>5. OutIs(out', Outputs(prev'), prev')
    BY <1>1, <2>3, <2>4
  <2>6. ClosedInv'
    BY <1>1, <2>5, AllOutAfter DEF ClosedInv
  <2>7. QED
    BY <1>1, <1>2, <2>1, <2>6 DEF ResamplerInv, PlainInv, OpenInv
<1>5. QED
  BY <1>3, <1>4

\* Every step of the stream.
LEMMA ResamplerStep ==
    ASSUME ResamplerInv, [Resampler!ResamplerNext]_Resampler!resampleVars
    PROVE  ResamplerInv'
<1>1. ASSUME NEW n \in 1..MaxLength, Resampler!Chunk(n) PROVE ResamplerInv'
  BY <1>1, PlainChunk, ResampledChunk
<1>2. ASSUME Resampler!Flush PROVE ResamplerInv'
  BY <1>2, FlushStep
<1>3. ASSUME UNCHANGED Resampler!resampleVars PROVE ResamplerInv'
  <2>1. /\ RatioInv' /\ (Resampler!Identity' <=> Resampler!Identity)
        /\ prev' = prev /\ closed' = closed /\ unfilled' = unfilled /\ processed' = processed
        /\ next' = next /\ out' = out /\ history' = history /\ up' = up /\ down' = down
    BY <1>3, SameFilter DEF Resampler!resampleVars, ResamplerInv, RatioInv
  <2>2. PlainInv'
    BY <2>1 DEF ResamplerInv, PlainInv, Sample
  <2>3. ASSUME ~Resampler!Identity, ~closed PROVE OpenInv'
    <3>1. /\ StepsInv /\ SamplesOf(unfilled, prev - processed, processed)
          /\ SamplesOf(history, Memory(processed), processed - Memory(processed))
          /\ OutIs(out, next, processed)
      BY <2>3 DEF ResamplerInv, OpenInv
    <3>2. StepsInv'
      BY <2>1, <3>1 DEF StepsInv
    <3>3. SamplesOf(unfilled, prev - processed, processed)'
      BY <2>1, <3>1 DEF SamplesOf
    <3>4. SamplesOf(history, Memory(processed), processed - Memory(processed))'
      BY <2>1, <3>1, KeptAfter
    <3>5. OutIs(out, next, processed)'
      BY <2>1, <3>1, OutAfter
    <3>6. QED
      BY <3>2, <3>3, <3>4, <3>5 DEF OpenInv
  <2>4. ASSUME ~Resampler!Identity, closed PROVE ClosedInv'
    <3>1. prev \in Nat \ {0} /\ OutIs(out, Outputs(prev), prev)
      BY <2>4 DEF ResamplerInv, ClosedInv
    <3>2. OutIs(out, Outputs(prev), prev)'
      BY <2>1, <3>1, AllOutAfter
    <3>3. QED
      BY <2>1, <3>1, <3>2 DEF ClosedInv
  <2>5. QED
    BY <2>1, <2>2, <2>3, <2>4 DEF ResamplerInv, OpenInv, ClosedInv
<1>4. QED
  BY <1>1, <1>2, <1>3 DEF Resampler!ResamplerNext, Resampler!ResamplerEnds

\* What the invariant promises: the audio of the whole capture.
LEMMA AudioIsWhole == ResamplerInv => Resampler!ChunkingUnseen
<1> SUFFICES ASSUME ResamplerInv PROVE Resampler!ChunkingUnseen
  OBVIOUS
<1>1. RatioInv /\ prev \in Nat /\ up \in Nat \ {0} /\ down \in Nat \ {0}
  BY DEF ResamplerInv, RatioInv
<1>2. SamplesOf(Resampler!Whole, prev, 0)
  BY <1>1, Discriminators DEF Resampler!Whole
<1>3. CASE Resampler!Identity
  <2>1. /\ out \in Seq(SUBSET Pairs) /\ Len(out) = prev /\ \A i \in 1..prev : out[i] = {Sample(i)}
    BY <1>3 DEF ResamplerInv, PlainInv
  <2>2. \A i \in 1..prev : Resampler!Whole[i] = Sample(i)
    BY <1>1, <1>2 DEF SamplesOf
  <2>3. PICK plain \in [1..prev -> SUBSET Pairs] :
           /\ plain = [i \in 1..prev |-> {Resampler!Whole[i]}]
           /\ \A i \in 1..prev : plain[i] = {Sample(i)}
    <3>1. \A i \in 1..prev : {Resampler!Whole[i]} \in SUBSET Pairs
      BY <1>1, <1>2 DEF SamplesOf
    <3>2. [i \in 1..prev |-> {Resampler!Whole[i]}] \in [1..prev -> SUBSET Pairs]
      BY <3>1
    <3>3. \A i \in 1..prev : [j \in 1..prev |-> {Resampler!Whole[j]}][i] = {Sample(i)}
      BY <2>2
    <3>4. QED
      BY <3>2, <3>3
  <2>4. Len(plain) = prev /\ DOMAIN out = 1..prev
    BY <1>1, <2>1
  <2>5. QED
    BY <1>1, <1>3, <2>1, <2>3, <2>4 DEF Resampler!ChunkingUnseen
<1>4. CASE ~Resampler!Identity
  <2>1. PICK begin \in Nat, o \in Nat : begin = 0 /\ o = 0 /\ begin * up = o * down
    BY <1>1
  <2>2. /\ Len(Resampler!UpFirDn(Resampler!Whole)) = Outputs(prev) /\ Outputs(prev) \in Nat \ {0}
        /\ \A q \in 1..Outputs(prev) : Resampler!UpFirDn(Resampler!Whole)[q] = Span(q - 1, 0, prev)
    <3>1. /\ Len(Resampler!UpFirDn(Resampler!Whole)) = Outputs(prev) /\ Outputs(prev) \in Nat \ {0}
          /\ \A q \in 1..Outputs(prev) :
                Resampler!UpFirDn(Resampler!Whole)[q] = Span(q - 1 + o, begin, begin + prev)
      <4>1. SamplesOf(Resampler!Whole, prev, begin)
        BY <1>2, <2>1
      <4>2. begin \in Nat /\ o \in Nat /\ begin * up = o * down
        BY <2>1
      <4>3. PICK L \in Nat : L = prev /\ SamplesOf(Resampler!Whole, L, begin)
        BY <1>1, <4>1
      <4>4. PICK source : source = Resampler!Whole /\ SamplesOf(source, L, begin)
        BY <4>3
      <4>5. /\ Len(Resampler!UpFirDn(source)) = Outputs(L) /\ Outputs(L) \in Nat \ {0}
            /\ \A q \in 1..Outputs(L) :
                  Resampler!UpFirDn(source)[q] = Span(q - 1 + o, begin, begin + L)
        <5>1. RatioInv /\ L \in Nat /\ SamplesOf(source, L, begin)
          BY <1>1, <4>3, <4>4
        <5>2. QED
          BY ONLY <4>2, <5>1, PieceFiltered
      <4>6. QED
        BY <4>3, <4>4, <4>5
    <3>2. begin = 0 /\ begin + prev = prev /\ \A q \in 1..Outputs(prev) : q - 1 + o = q - 1
      BY <1>1, <2>1, <3>1
    <3>3. QED
      BY <3>1, <3>2
  <2>3. CASE closed
    <3>1. OutIs(out, Outputs(prev), prev)
      BY <1>4, <2>3 DEF ResamplerInv, ClosedInv
    <3>2. Len(out) = Outputs(prev) /\ DOMAIN out = 1..Outputs(prev)
      BY <3>1 DEF OutIs
    <3>3. QED
      BY <1>4, <2>2, <3>1, <3>2 DEF OutIs, Resampler!ChunkingUnseen
  <2>4. CASE ~closed
    <3>1. StepsInv /\ OutIs(out, next, processed)
      BY <1>4, <2>4 DEF ResamplerInv, OpenInv
    <3>2. PICK m \in Nat : processed = m * down /\ next = m * up
      BY <3>1 DEF StepsInv
    <3>3. PICK P \in Nat : P = processed /\ P <= prev
      BY <1>1, <3>1, <3>2, Products DEF StepsInv
    <3>4. PICK N \in Nat : N = next /\ N = m * up
      BY <1>1, <3>2, Products
    <3>5. DOMAIN out = 1..N /\ Len(out) = N /\ \A i \in 1..N : out[i] = Span(i - 1, 0, P)
      BY <3>1, <3>3, <3>4 DEF OutIs
    <3>6. N * down = P * up
      BY <1>1, <3>2, <3>3, <3>4
    <3>7. N <= Outputs(prev)
      <4>1. PICK x \in Int :
               x = (prev - 1) * up + Resampler!NTaps - 1 /\ x >= P * up /\ P * up \in Int
        <5>1. Resampler!NTaps \in Nat /\ Resampler!NTaps - 1 >= up
          BY <1>1, Lengths
        <5>2. (prev - 1) * up = prev * up - 1 * up /\ prev * up \in Int /\ P * up \in Int
              /\ P * up <= prev * up
          BY <1>1, <3>3, Products
        <5>3. QED
          BY <1>1, <5>1, <5>2
      <4>2. PICK q \in Int : q = x \div down /\ x < q * down + down
        BY <1>1, <4>1, Quotients
      <4>3. q + 1 < N => (q + 1) * down + down <= N * down
        BY <1>1, <3>4, Products
      <4>4. (q + 1) * down = q * down + down /\ q * down \in Int
        <5>1. (q + 1) * down = q * down + 1 * down
          BY <1>1, Products
        <5>2. QED
          BY <1>1, <5>1, Products
      <4>5. q + 1 = Outputs(prev)
        BY <4>1, <4>2 DEF Outputs
      <4>6. QED
        BY <1>1, <3>4, <3>6, <4>1, <4>2, <4>3, <4>4, <4>5
    <3>8. ASSUME NEW i \in 1..N PROVE out[i] = Resampler!UpFirDn(Resampler!Whole)[i]
      <4>1. (i - 1) * down < P * up
        <5>1. (i - 1) * down + down <= N * down /\ (i - 1) * down \in Int /\ P * up \in Int
          BY <1>1, <3>3, Products
        <5>2. QED
          BY <1>1, <3>6, <5>1
      <4>2. Span(i - 1, 0, P) = Span(i - 1, 0, prev)
        BY <1>1, <3>3, <4>1, Unaffected
      <4>3. i \in 1..Outputs(prev)
        BY <2>2, <3>7
      <4>4. QED
        BY <2>2, <3>5, <4>2, <4>3
    <3>9. QED
      BY <1>4, <2>2, <2>4, <3>5, <3>7, <3>8 DEF Resampler!ChunkingUnseen
  <2>5. QED
    BY <2>3, <2>4
<1>5. QED
  BY <1>3, <1>4

\* One step of the whole either leaves the audio of a recording alone or is a step of it.
LEMMA ResamplerMoves ==
    ASSUME [EitherNext]_<<receiveVars, offlineVars>>, tool' = "resampler"
    PROVE  tool = "resampler" /\ [Resampler!ResamplerNext]_Resampler!resampleVars
<1>1. CASE tool = "none" /\ ReceiveNext /\ UNCHANGED offlineVars
  BY <1>1 DEF offlineVars
<1>2. CASE OfflineNext
  BY <1>2 DEF OfflineNext
<1>3. CASE UNCHANGED <<receiveVars, offlineVars>>
  BY <1>3 DEF offlineVars, resampler, Resampler!resampleVars
<1>4. QED
  BY <1>1, <1>2, <1>3 DEF EitherNext

\* While the behaviour is about the audio of a recording, its invariant holds.
LEMMA ResamplerInductive == EitherSpec => [](tool = "resampler" => ResamplerInv)
<1>1. EitherInit => (tool = "resampler" => ResamplerInv)
  BY ResamplerInitInv DEF EitherInit, NoTool, OfflineInit
<1>2. (tool = "resampler" => ResamplerInv) /\ [EitherNext]_<<receiveVars, offlineVars>>
          => (tool = "resampler" => ResamplerInv)'
  <2> SUFFICES ASSUME tool = "resampler" => ResamplerInv, [EitherNext]_<<receiveVars, offlineVars>>,
                      tool' = "resampler"
               PROVE  ResamplerInv'
    OBVIOUS
  <2>1. ResamplerInv /\ [Resampler!ResamplerNext]_Resampler!resampleVars
    BY ResamplerMoves
  <2>2. QED
    BY <2>1, ResamplerStep
<1>3. QED
  BY <1>1, <1>2, PTL DEF EitherSpec

\* What is made of a recording is true to it (apps/iq_views.py), for any number of
\* captures through one workspace, any ratio, filter and length: no product of an
\* earlier attempt, and no file cut short by a kill, passes for one of this
\* capture; and the audio is what one chunk of the whole capture gives, wherever
\* it was cut.
THEOREM ViewsAreTrueCorrect == EitherSpec => []ViewsAreTrue
<1>1. /\ tool = "views" => ViewsInv
      /\ tool = "resampler" => ResamplerInv
      => ViewsAreTrue
  BY FreshProducts, AudioIsWhole DEF ViewsAreTrue
<1>2. QED
  BY <1>1, ViewsInductive, ResamplerInductive, PTL

-----------------------------------------------------------------------------
(* The replay of a recording.                                              *)

\* What waits in the queues, and what they have been given.
Queued(b) == \E s \in Replay!Sources : \E i \in 1..Len(queues[s]) : queues[s][i] = b
Hits(b)  == hits["native"][b] + hits["upstream"][b]
Drained  == {"flush", "append"}

ReplayTypes ==
    /\ engines \subseteq Replay!Sources /\ append \in BOOLEAN /\ broken \in BOOLEAN
    /\ replayed \in {"none", "running", "ended", "failed"}
    /\ stepping \in {"setup", "wait", "drain", "last", "flush", "append", "over"}
    /\ replayExit \in {"none", "clean", "failed"}
    /\ queues \in [Replay!Sources -> Seq(Replay!Contents)]
    /\ hits \in [Replay!Sources -> [Replay!Contents -> Nat]]
    /\ rows \in [Replay!Contents -> Nat] /\ filed \in [Replay!Contents -> Nat]

\* A record for every payload that was found or one waiting for it, and not more
\* than were found.
RowsInv ==
    \A b \in Replay!Contents :
        /\ rows[b] <= Hits(b) /\ filed[b] <= rows[b]
        /\ Queued(b) => rows[b] + 1 <= Hits(b)
        /\ Hits(b) > 0 => rows[b] > 0 \/ Queued(b) \/ overrun # {}

\* What the program may still have to see before it ends clean.
StopsInv ==
    /\ overrun \subseteq engines
    /\ broken => "native" \in engines
    /\ replayed = "none" => rows = Replay!Zero /\ overrun = {} /\ ~broken
                            /\ \A b \in Replay!Contents : Hits(b) = 0 /\ ~Queued(b)
    /\ stepping = "setup" <=> replayed = "none" /\ replayExit = "none"
    /\ stepping \in {"last"} \cup Drained => replayed # "running"
    /\ stepping \in Drained => ~broken /\ overrun = {} /\ \A b \in Replay!Contents : ~Queued(b)
    /\ stepping # "over" => filed = Replay!Zero
    /\ replayExit # "none" <=> stepping = "over"
    /\ replayExit = "clean" =>
          /\ replayed \in {"none", "ended"} /\ ~broken /\ overrun = {}
          /\ \A b \in Replay!Contents : ~Queued(b)
          /\ append => filed = rows

ReplayInv == ReplayTypes /\ RowsInv /\ StopsInv

\* Nothing is found before the graph runs.
LEMMA ReplayInitInv == Replay!ReplayInit => ReplayInv
<1> SUFFICES ASSUME Replay!ReplayInit PROVE ReplayInv
  OBVIOUS
<1> USE DEF Replay!ReplayInit, Replay!Sources, Replay!Contents, Replay!Zero, Hits, Queued
<1>1. /\ queues \in [Replay!Sources -> Seq(Replay!Contents)]
      /\ hits \in [Replay!Sources -> [Replay!Contents -> Nat]]
      /\ rows \in [Replay!Contents -> Nat] /\ filed \in [Replay!Contents -> Nat]
  OBVIOUS
<1>2. ReplayTypes
  BY <1>1 DEF ReplayTypes
<1>3. \A b \in Replay!Contents : rows[b] = 0 /\ filed[b] = 0 /\ Hits(b) = 0 /\ ~Queued(b)
  OBVIOUS
<1>4. RowsInv
  BY <1>3 DEF RowsInv
<1>5. StopsInv
  BY <1>3 DEF StopsInv, Drained
<1>6. QED
  BY <1>2, <1>4, <1>5 DEF ReplayInv

\* A frame found: it waits, or its queue has refused it.
LEMMA OfferedFrame ==
    ASSUME ReplayInv, NEW s \in engines, NEW b \in Replay!Contents, Replay!Offer(s, b)
    PROVE  /\ queues' \in [Replay!Sources -> Seq(Replay!Contents)]
           /\ hits' \in [Replay!Sources -> [Replay!Contents -> Nat]]
           /\ Hits(b)' = Hits(b) + 1
           /\ \A c \in Replay!Contents \ {b} : Hits(c)' = Hits(c) /\ (Queued(c)' <=> Queued(c))
           /\ Queued(b) => Queued(b)'
           /\ \/ overrun' = overrun /\ Queued(b)'
              \/ overrun' = overrun \cup {s} /\ (Queued(b)' <=> Queued(b))
<1> USE DEF ReplayInv, ReplayTypes
<1>1. s \in Replay!Sources
  OBVIOUS
<1>2. hits' = [hits EXCEPT ![s][b] = @ + 1]
  BY DEF Replay!Offer
<1>3. /\ hits' \in [Replay!Sources -> [Replay!Contents -> Nat]]
      /\ Hits(b)' = Hits(b) + 1
      /\ \A c \in Replay!Contents \ {b} : Hits(c)' = Hits(c)
  <2>1. PICK h : h = hits
    OBVIOUS
  <2>2. h \in [Replay!Sources -> [Replay!Contents -> Nat]] /\ hits' = [h EXCEPT ![s][b] = @ + 1]
    BY <1>2, <2>1
  <2>3. hits' = [h EXCEPT ![s] = [h[s] EXCEPT ![b] = h[s][b] + 1]]
    BY <1>1, <2>2
  <2>4. PICK g : g = [h[s] EXCEPT ![b] = h[s][b] + 1]
    OBVIOUS
  <2>5. g \in [Replay!Contents -> Nat] /\ g[b] = h[s][b] + 1
        /\ \A c \in Replay!Contents \ {b} : g[c] = h[s][c]
    BY <1>1, <2>2, <2>4
  <2>6. /\ hits' \in [Replay!Sources -> [Replay!Contents -> Nat]] /\ hits'[s] = g
        /\ \A t \in Replay!Sources \ {s} : hits'[t] = h[t]
    BY <1>1, <2>2, <2>3, <2>4, <2>5
  <2>7. h["native"] \in [Replay!Contents -> Nat] /\ h["upstream"] \in [Replay!Contents -> Nat]
    BY <2>2 DEF Replay!Sources
  <2>8. \A c \in Replay!Contents :
           /\ h["native"][c] \in Nat /\ h["upstream"][c] \in Nat
           /\ hits["native"][c] = h["native"][c] /\ hits["upstream"][c] = h["upstream"][c]
    BY <2>1, <2>7
  <2>9. CASE s = "native"
    <3>1. hits'["native"] = g /\ hits'["upstream"] = h["upstream"] /\ g[b] = h["native"][b] + 1
      BY <2>5, <2>6, <2>9 DEF Replay!Sources
    <3>2. \A c \in Replay!Contents \ {b} : g[c] = h["native"][c]
      BY <2>5, <2>9
    <3>3. Hits(b)' = Hits(b) + 1
      <4>1. Hits(b)' = hits'["native"][b] + hits'["upstream"][b]
            /\ Hits(b) = h["native"][b] + h["upstream"][b]
        BY <2>1 DEF Hits
      <4>2. h["native"][b] \in Nat /\ h["upstream"][b] \in Nat
        BY <2>8
      <4>3. QED
        BY <3>1, <4>1, <4>2
    <3>4. \A c \in Replay!Contents \ {b} : Hits(c)' = Hits(c)
      BY <2>8, <3>1, <3>2 DEF Hits
    <3>5. QED
      BY <2>6, <3>3, <3>4
  <2>10. CASE s = "upstream"
    <3>1. hits'["upstream"] = g /\ hits'["native"] = h["native"] /\ g[b] = h["upstream"][b] + 1
      BY <2>5, <2>6, <2>10 DEF Replay!Sources
    <3>2. \A c \in Replay!Contents \ {b} : g[c] = h["upstream"][c]
      BY <2>5, <2>10
    <3>3. Hits(b)' = Hits(b) + 1
      <4>1. Hits(b)' = hits'["native"][b] + hits'["upstream"][b]
            /\ Hits(b) = h["native"][b] + h["upstream"][b]
        BY <2>1 DEF Hits
      <4>2. h["native"][b] \in Nat /\ h["upstream"][b] \in Nat
        BY <2>8
      <4>3. QED
        BY <3>1, <4>1, <4>2
    <3>4. \A c \in Replay!Contents \ {b} : Hits(c)' = Hits(c)
      BY <2>8, <3>1, <3>2 DEF Hits
    <3>5. QED
      BY <2>6, <3>3, <3>4
  <2>11. QED
    BY <1>1, <2>9, <2>10 DEF Replay!Sources
<1>4. CASE queues' = queues /\ overrun' = overrun \cup {s}
  <2>1. \A c \in Replay!Contents : Queued(c)' <=> Queued(c)
    BY <1>4 DEF Queued
  <2>2. QED
    BY <1>3, <1>4, <2>1
<1>5. CASE queues' = [queues EXCEPT ![s] = Append(@, b)] /\ overrun' = overrun
  <2>1. PICK q \in Seq(Replay!Contents) : q = queues[s]
    BY <1>1
  <2>2. /\ Append(q, b) \in Seq(Replay!Contents) /\ Len(Append(q, b)) = Len(q) + 1
        /\ \A i \in 1..Len(q) : Append(q, b)[i] = q[i]
        /\ Append(q, b)[Len(q) + 1] = b
    OBVIOUS
  <2>3. /\ queues' \in [Replay!Sources -> Seq(Replay!Contents)] /\ queues'[s] = Append(q, b)
        /\ \A t \in Replay!Sources \ {s} : queues'[t] = queues[t]
    BY <1>1, <1>5, <2>1, <2>2
  <2>4. Len(q) \in Nat
    BY <2>1
  <2>5. Queued(b)'
    <3>1. Len(q) + 1 \in 1..Len(queues'[s]) /\ queues'[s][Len(q) + 1] = b
      BY <2>2, <2>3, <2>4
    <3>2. QED
      BY <1>1, <3>1 DEF Queued
  <2>6. ASSUME NEW c \in Replay!Contents \ {b} PROVE Queued(c)' <=> Queued(c)
    <3>1. (\E i \in 1..Len(queues'[s]) : queues'[s][i] = c)
             <=> (\E i \in 1..Len(queues[s]) : queues[s][i] = c)
      <4>1. PICK r : r = queues'[s]
        OBVIOUS
      <4>2. /\ Len(r) = Len(q) + 1 /\ r[Len(q) + 1] = b
            /\ \A i \in 1..Len(q) : r[i] = q[i]
        BY <2>2, <2>3, <4>1
      <4>3. (\E i \in 1..Len(r) : r[i] = c) <=> (\E i \in 1..Len(q) : q[i] = c)
        BY ONLY <2>4, <4>2, c # b
      <4>4. QED
        BY <2>1, <4>1, <4>3
    <3>2. QED
      BY <2>3, <3>1 DEF Queued
  <2>7. QED
    BY <1>3, <1>5, <2>3, <2>5, <2>6
<1>6. QED
  BY <1>4, <1>5 DEF Replay!Offer

\* Every step of the graph and of the program keeps the account.
LEMMA ReplayStep == ReplayInv /\ [Replay!ReplayNext]_Replay!replayVars => ReplayInv'
<1> SUFFICES ASSUME ReplayInv, [Replay!ReplayNext]_Replay!replayVars PROVE ReplayInv'
  OBVIOUS
<1>1. ASSUME queues' = queues, hits' = hits, rows' = rows, overrun' = overrun, filed' = filed
      PROVE  /\ \A b \in Replay!Contents : (Queued(b)' <=> Queued(b)) /\ Hits(b)' = Hits(b)
             /\ RowsInv'
  <2>1. \A b \in Replay!Contents : (Queued(b)' <=> Queued(b)) /\ Hits(b)' = Hits(b)
    BY <1>1 DEF Queued, Hits
  <2>2. QED
    BY <1>1, <2>1 DEF RowsInv, ReplayInv
<1>2. CASE Replay!Setup
  <2> USE <1>2 DEF Replay!Setup
  <2>1. ReplayTypes'
    BY DEF ReplayInv, ReplayTypes
  <2>2. StopsInv'
    BY <1>1 DEF ReplayInv, ReplayTypes, StopsInv, Drained
  <2>3. QED
    BY <1>1, <2>1, <2>2 DEF ReplayInv
<1>3. CASE Replay!Push
  <2>1. PICK s \in engines, b \in Replay!Contents : Replay!Offer(s, b)
    BY <1>3 DEF Replay!Push
  <2>2. /\ replayed = "running" /\ broken' = broken
        /\ UNCHANGED <<engines, replayed, stepping, rows, append, filed, replayExit>>
    BY <1>3 DEF Replay!Push
  <2>3. /\ queues' \in [Replay!Sources -> Seq(Replay!Contents)]
        /\ hits' \in [Replay!Sources -> [Replay!Contents -> Nat]]
        /\ Hits(b)' = Hits(b) + 1
        /\ \A c \in Replay!Contents \ {b} : Hits(c)' = Hits(c) /\ (Queued(c)' <=> Queued(c))
        /\ Queued(b) => Queued(b)'
        /\ \/ overrun' = overrun /\ Queued(b)'
           \/ overrun' = overrun \cup {s} /\ (Queued(b)' <=> Queued(b))
    BY <2>1, OfferedFrame
  <2>4. ReplayTypes'
    BY <2>2, <2>3 DEF ReplayInv, ReplayTypes
  <2>5. \A c \in Replay!Contents : Hits(c) \in Nat /\ rows[c] \in Nat
    BY DEF ReplayInv, ReplayTypes, Hits, Replay!Sources
  <2>6. RowsInv'
    <3>1. ASSUME NEW c \in Replay!Contents
          PROVE  /\ rows[c] <= Hits(c) /\ filed[c] <= rows[c]
                 /\ Queued(c) => rows[c] + 1 <= Hits(c)
                 /\ Hits(c) > 0 => rows[c] > 0 \/ Queued(c) \/ overrun # {}
      BY DEF ReplayInv, RowsInv
    <3>2. overrun # {} => overrun' # {}
      BY <2>3
    <3>3. /\ rows[b] <= Hits(b)' /\ filed[b] <= rows[b]
          /\ rows[b] + 1 <= Hits(b)'
          /\ rows[b] > 0 \/ Queued(b)' \/ overrun' # {}
      <4>1. rows[b] <= Hits(b) /\ filed[b] <= rows[b]
        BY <3>1
      <4>2. Hits(b)' = Hits(b) + 1 /\ Hits(b) \in Nat /\ rows[b] \in Nat
        BY <2>3, <2>5
      <4>3. Queued(b)' \/ overrun' # {}
        BY <2>3
      <4>4. QED
        BY <4>1, <4>2, <4>3
    <3>4. ASSUME NEW c \in Replay!Contents \ {b}
          PROVE  /\ rows[c] <= Hits(c)' /\ filed[c] <= rows[c]
                 /\ Queued(c)' => rows[c] + 1 <= Hits(c)'
                 /\ Hits(c)' > 0 => rows[c] > 0 \/ Queued(c)' \/ overrun' # {}
      BY <2>3, <3>1, <3>2
    <3>5. rows' = rows /\ filed' = filed /\ Replay!Contents' = Replay!Contents
      BY <2>2 DEF Replay!Contents
    <3>6. QED
      BY <3>3, <3>4, <3>5 DEF RowsInv
  <2>7. StopsInv'
    <3>1. stepping \notin {"setup", "last"} \cup Drained /\ replayExit # "clean"
      BY <2>2 DEF ReplayInv, ReplayTypes, StopsInv
    <3>2. overrun' \subseteq engines'
      BY <2>2, <2>3 DEF ReplayInv, StopsInv
    <3>3. QED
      BY <2>2, <3>1, <3>2 DEF ReplayInv, StopsInv, Drained
  <2>8. QED
    BY <2>4, <2>6, <2>7 DEF ReplayInv
<1>4. CASE Replay!DecoderRaises
  <2> USE <1>4 DEF Replay!DecoderRaises
  <2>1. ReplayTypes'
    BY DEF ReplayInv, ReplayTypes
  <2>2. StopsInv'
    BY <1>1 DEF ReplayInv, ReplayTypes, StopsInv, Drained
  <2>3. QED
    BY <1>1, <2>1, <2>2 DEF ReplayInv
<1>5. CASE Replay!GraphEnds
  <2> USE <1>5 DEF Replay!GraphEnds
  <2>1. ReplayTypes'
    BY DEF ReplayInv, ReplayTypes
  <2>2. StopsInv'
    BY <1>1 DEF ReplayInv, ReplayTypes, StopsInv, Drained
  <2>3. QED
    BY <1>1, <2>1, <2>2 DEF ReplayInv
<1>6. CASE Replay!Wait
  <2> USE <1>6 DEF Replay!Wait
  <2>1. ReplayTypes'
    BY DEF ReplayInv, ReplayTypes
  <2>2. StopsInv'
    BY <1>1 DEF ReplayInv, ReplayTypes, StopsInv, Drained
  <2>3. QED
    BY <1>1, <2>1, <2>2 DEF ReplayInv
<1>7. CASE Replay!Drain
  <2>1. /\ UNCHANGED <<engines, hits, overrun, broken, append, filed>>
        /\ stepping \in {"drain", "last"}
    BY <1>7 DEF Replay!Drain
  <2>2. CASE (\E s \in engines : Replay!Lossy(s)) /\ Replay!Abandon /\ UNCHANGED <<rows, queues>>
    <3> USE <2>1, <2>2 DEF Replay!Abandon
    <3>1. ReplayTypes'
      BY DEF ReplayInv, ReplayTypes
    <3>2. StopsInv'
      BY <1>1 DEF ReplayInv, ReplayTypes, StopsInv, Drained
    <3>3. QED
      BY <1>1, <3>1, <3>2 DEF ReplayInv
  <2>3. CASE /\ \A s \in engines : ~Replay!Lossy(s)
             /\ rows' = [b \in Replay!Contents |-> rows[b] + IF b \in Replay!Batch THEN 1 ELSE 0]
             /\ queues' = [s \in Replay!Sources |-> <<>>]
             /\ stepping' = IF stepping = "drain" THEN "wait" ELSE "flush"
             /\ UNCHANGED <<replayed, replayExit>>
    <3>1. \A b \in Replay!Contents : b \in Replay!Batch <=> Queued(b)
      BY DEF Replay!Batch, Queued
    <3>2. \A b \in Replay!Contents : Hits(b) \in Nat /\ rows[b] \in Nat /\ Hits(b)' = Hits(b)
      BY <2>1 DEF ReplayInv, ReplayTypes, Hits, Replay!Sources
    <3>3. \A b \in Replay!Contents : rows'[b] = rows[b] + IF Queued(b) THEN 1 ELSE 0
      BY <2>3, <3>1
    <3>4. queues' \in [Replay!Sources -> Seq(Replay!Contents)]
      BY <2>3
    <3>5. \A b \in Replay!Contents : ~Queued(b)'
      BY <2>3 DEF Queued
    <3>6. rows' \in [Replay!Contents -> Nat]
      BY <2>3, <3>2
    <3>7. ReplayTypes'
      BY <2>1, <2>3, <3>4, <3>6 DEF ReplayInv, ReplayTypes
    <3>8. filed \in [Replay!Contents -> Nat]
      BY DEF ReplayInv, ReplayTypes
    <3>9. RowsInv'
      BY <2>1, <3>2, <3>3, <3>5, <3>8 DEF ReplayInv, RowsInv
    <3>10. overrun = {} /\ ~broken
      BY <2>3 DEF Replay!Lossy, ReplayInv, StopsInv
    <3>11. StopsInv'
      <4> HIDE DEF Queued, Hits
      <4>1. replayed # "none"
        BY <2>1 DEF ReplayInv, StopsInv
      <4>2. QED
        BY <2>1, <2>3, <3>2, <3>5, <3>10, <4>1 DEF ReplayInv, ReplayTypes, StopsInv, Drained
    <3>12. QED
      BY <3>7, <3>9, <3>11 DEF ReplayInv
  <2>4. QED
    BY <1>7, <2>1, <2>2, <2>3 DEF Replay!Drain
<1>8. CASE Replay!Flush
  <2>1. UNCHANGED <<engines, queues, overrun, broken, append, filed>> /\ stepping = "flush"
    BY <1>8 DEF Replay!Flush
  <2>2. CASE stepping' = "append" /\ UNCHANGED <<hits, rows, replayExit, replayed>>
    <3> USE <2>1, <2>2
    <3>1. ReplayTypes'
      BY DEF ReplayInv, ReplayTypes
    <3>2. StopsInv'
      BY <1>1 DEF ReplayInv, ReplayTypes, StopsInv, Drained
    <3>3. QED
      BY <1>1, <3>1, <3>2 DEF ReplayInv
  <2>3. CASE Replay!Abandon /\ UNCHANGED <<hits, rows>>
    <3> USE <2>1, <2>3 DEF Replay!Abandon
    <3>1. ReplayTypes'
      BY DEF ReplayInv, ReplayTypes
    <3>2. StopsInv'
      BY <1>1 DEF ReplayInv, ReplayTypes, StopsInv, Drained
    <3>3. QED
      BY <1>1, <3>1, <3>2 DEF ReplayInv
  <2>4. ASSUME NEW b \in Replay!Contents, hits' = [hits EXCEPT !["native"][b] = @ + 1],
               rows' = [rows EXCEPT ![b] = @ + 1], stepping' = "append",
               UNCHANGED <<replayExit, replayed>>
        PROVE  ReplayInv'
    <3>1. /\ hits' \in [Replay!Sources -> [Replay!Contents -> Nat]]
          /\ Hits(b)' = Hits(b) + 1
          /\ \A c \in Replay!Contents \ {b} : Hits(c)' = Hits(c)
      <4>1. hits \in [Replay!Sources -> [Replay!Contents -> Nat]]
        BY DEF ReplayInv, ReplayTypes
      <4>2. QED
        BY <2>4, <4>1 DEF Hits, Replay!Sources, Replay!Contents
    <3>2. /\ rows' \in [Replay!Contents -> Nat]
          /\ rows'[b] = rows[b] + 1
          /\ \A c \in Replay!Contents \ {b} : rows'[c] = rows[c]
      BY <2>4 DEF Replay!Contents, ReplayInv, ReplayTypes
    <3>3. \A c \in Replay!Contents : Queued(c)' <=> Queued(c)
      BY <2>1 DEF Queued
    <3>4. \A c \in Replay!Contents : ~Queued(c)
      BY <2>1 DEF ReplayInv, StopsInv, Drained
    <3>5. \A c \in Replay!Contents : Hits(c) \in Nat /\ rows[c] \in Nat /\ filed[c] \in Nat
      BY DEF ReplayInv, ReplayTypes, Hits, Replay!Sources
    <3>6. RowsInv'
      BY <2>1, <3>1, <3>2, <3>3, <3>4, <3>5 DEF ReplayInv, RowsInv
    <3>7. ReplayTypes'
      BY <2>1, <2>4, <3>1, <3>2 DEF ReplayInv, ReplayTypes
    <3>8. StopsInv'
      BY <2>1, <2>4, <3>3, <3>4 DEF ReplayInv, ReplayTypes, StopsInv, Drained
    <3>9. QED
      BY <3>6, <3>7, <3>8 DEF ReplayInv
  <2>5. QED
    BY <1>8, <2>2, <2>3, <2>4 DEF Replay!Flush
<1>9. CASE Replay!Finish
  <2>1. /\ UNCHANGED <<engines, replayed, queues, hits, overrun, broken, rows, append>>
        /\ stepping = "append" /\ stepping' = "over"
    BY <1>9 DEF Replay!Finish
  <2>2. /\ \A b \in Replay!Contents : (Queued(b)' <=> Queued(b)) /\ Hits(b)' = Hits(b)
        /\ \A b \in Replay!Contents : ~Queued(b)
    BY <2>1 DEF Queued, Hits, ReplayInv, StopsInv, Drained
  <2>3. /\ filed' \in [Replay!Contents -> Nat]
        /\ \A b \in Replay!Contents : filed'[b] <= rows'[b]
        /\ replayExit' = "clean" /\ append => filed' = rows'
        /\ replayExit' = "clean" => replayed = "ended"
        /\ replayExit' \in {"clean", "failed"}
    <3>1. CASE /\ UNCHANGED filed
               /\ \/ replayExit' = "failed"
                  \/ replayed = "ended" /\ ~append /\ replayExit' = "clean"
      BY <2>1, <3>1 DEF ReplayInv, ReplayTypes, RowsInv
    <3>2. CASE replayed = "ended" /\ replayExit' = "clean" /\ filed' = rows
      BY <2>1, <3>2 DEF ReplayInv, ReplayTypes
    <3>3. ASSUME NEW a \in 0..rows["a"], NEW b \in 0..rows["b"], replayExit' = "failed",
                 filed' = [filed EXCEPT !["a"] = a, !["b"] = b]
          PROVE  /\ filed' \in [Replay!Contents -> Nat]
                 /\ \A c \in Replay!Contents : filed'[c] <= rows'[c]
      <4>1. rows["a"] \in Nat /\ rows["b"] \in Nat /\ filed \in [{"a", "b"} -> Nat]
        BY DEF ReplayInv, ReplayTypes, Replay!Contents
      <4>2. filed' = [[filed EXCEPT !["a"] = a] EXCEPT !["b"] = b]
        BY <3>3, Zenon
      <4>3. PICK g : g = [filed EXCEPT !["a"] = a]
        OBVIOUS
      <4>4. g \in [{"a", "b"} -> Nat] /\ g["a"] = a
        BY <4>1, <4>3
      <4>5. filed' \in [{"a", "b"} -> Nat] /\ filed'["a"] = a /\ filed'["b"] = b
        BY <4>1, <4>2, <4>3, <4>4
      <4>6. QED
        BY <2>1, <3>3, <4>5 DEF Replay!Contents
    <3>4. \/ /\ UNCHANGED filed
             /\ \/ replayExit' = "failed"
                \/ replayed = "ended" /\ ~append /\ replayExit' = "clean"
          \/ replayed = "ended" /\ replayExit' = "clean" /\ filed' = rows
          \/ \E a \in 0..rows["a"], b \in 0..rows["b"] :
                replayExit' = "failed" /\ filed' = [filed EXCEPT !["a"] = a, !["b"] = b]
      BY <1>9 DEF Replay!Finish
    <3>5. QED
      BY <3>1, <3>2, <3>3, <3>4
  <2>4. ReplayTypes'
    BY <2>1, <2>3 DEF ReplayInv, ReplayTypes
  <2>5. RowsInv'
    BY <2>1, <2>2, <2>3 DEF ReplayInv, RowsInv
  <2>6. StopsInv'
    BY <2>1, <2>2, <2>3 DEF ReplayInv, ReplayTypes, StopsInv, Drained
  <2>7. QED
    BY <2>4, <2>5, <2>6 DEF ReplayInv
<1>10. CASE UNCHANGED Replay!replayVars
  <2> USE <1>10 DEF Replay!replayVars
  <2>1. ReplayTypes'
    BY DEF ReplayInv, ReplayTypes
  <2>2. StopsInv'
    BY <1>1 DEF ReplayInv, ReplayTypes, StopsInv, Drained
  <2>3. QED
    BY <1>1, <2>1, <2>2 DEF ReplayInv
<1>11. QED
  BY <1>2, <1>3, <1>4, <1>5, <1>6, <1>7, <1>8, <1>9, <1>10 DEF Replay!ReplayNext, Replay!ReplayEnds

\* What the account says of a clean end.
LEMMA WholeReplay == ReplayInv => Replay!ReplayedWhole
<1> SUFFICES ASSUME ReplayInv PROVE Replay!ReplayedWhole
  OBVIOUS
<1>1. \A b \in Replay!Contents : Hits(b) = hits["native"][b] + hits["upstream"][b]
  BY DEF Hits
<1>2. QED
  BY <1>1 DEF ReplayInv, RowsInv, StopsInv, Replay!ReplayedWhole

\* One step of the whole either leaves the replay alone or is a step of it.
LEMMA ReplayMoves ==
    ASSUME [EitherNext]_<<receiveVars, offlineVars>>, tool' = "replay"
    PROVE  tool = "replay" /\ [Replay!ReplayNext]_Replay!replayVars
<1>1. CASE tool = "none" /\ ReceiveNext /\ UNCHANGED offlineVars
  BY <1>1 DEF offlineVars
<1>2. CASE OfflineNext
  BY <1>2 DEF OfflineNext
<1>3. CASE UNCHANGED <<receiveVars, offlineVars>>
  BY <1>3 DEF offlineVars, replay, Replay!replayVars
<1>4. QED
  BY <1>1, <1>2, <1>3 DEF EitherNext

\* While the behaviour is about the replay, its invariant holds.
LEMMA ReplayInductive == EitherSpec => [](tool = "replay" => ReplayInv)
<1>1. EitherInit => (tool = "replay" => ReplayInv)
  BY ReplayInitInv DEF EitherInit, NoTool, OfflineInit
<1>2. (tool = "replay" => ReplayInv) /\ [EitherNext]_<<receiveVars, offlineVars>>
          => (tool = "replay" => ReplayInv)'
  <2> SUFFICES ASSUME tool = "replay" => ReplayInv, [EitherNext]_<<receiveVars, offlineVars>>,
                      tool' = "replay"
               PROVE  ReplayInv'
    OBVIOUS
  <2>1. ReplayInv /\ [Replay!ReplayNext]_Replay!replayVars
    BY ReplayMoves
  <2>2. QED
    BY <2>1, ReplayStep
<1>3. QED
  BY <1>1, <1>2, PTL DEF EitherSpec

-----------------------------------------------------------------------------
(* The sweep over a recording.                                             *)

\* The windows that have been looked at, and in which nothing raised.
Swept(f) == \E start \in Sweep!Starts : /\ start < off /\ Sweep!Within(f, start)
                                        /\ <<start, f.framing>> \notin spoilt
SweepTypes ==
    /\ sent \subseteq Sweep!Frames
    /\ win \in 2..4 /\ off \in Nat /\ off % Sweep!Step = 0
    /\ sweepExit \in {"none", "clean", "failed"}

\* What is recorded was sent, and its key is known; what is known is recorded.
FoundInv ==
    /\ \A r \in found : \E f \in sent :
          /\ r.framing = f.framing /\ r.body = f.body
          /\ IF r.framing \in Native THEN r.at = f.at ELSE Sweep!Within(f, r.at)
    /\ \A r, s \in found : r.framing = s.framing /\ r.body = s.body => r = s
    /\ \A r \in found : <<r.framing, r.body>> \in known
    /\ \A k \in known : \E r \in found : k = <<r.framing, r.body>>

\* What could be found is known.
KnownInv == \A f \in sent : f.framing \in played /\ Swept(f) => Sweep!Key(f) \in known

FiledInv ==
    sweepExit = "clean" => (swept = found /\ off >= MaxSamples) \/ sent = {}

SweepInv == SweepTypes /\ FoundInv /\ KnownInv /\ FiledInv

\* The windows overlap by what is left of half a window.
LEMMA HalfWindows ==
    ASSUME win \in 2..4
    PROVE  /\ Sweep!Step \in {1, 2}
           /\ Sweep!Step = 1 <=> win = 2
           /\ Sweep!Step - 1 + (win \div 2) + 1 = win
  BY DEF Sweep!Step

\* Nothing is known before the first window.
LEMMA SweepInitInv == Sweep!SweepInit => SweepInv
<1> SUFFICES ASSUME Sweep!SweepInit PROVE SweepInv
  OBVIOUS
<1>1. win \in 2..4 /\ off = 0 /\ sweepExit = "none" /\ found = {} /\ known = {}
  BY DEF Sweep!SweepInit
<1>2. sent \subseteq Sweep!Frames
  BY DEF Sweep!SweepInit
<1>3. off % Sweep!Step = 0
  BY <1>1, HalfWindows
<1>4. \A start \in Sweep!Starts : ~(start < off)
  BY <1>1 DEF Sweep!Starts
<1>5. QED
  BY <1>1, <1>2, <1>3, <1>4 DEF SweepInv, SweepTypes, FoundInv, KnownInv, FiledInv, Swept

\* Of the frames a window gives, one of those with a key is the first of them.
LEMMA FirstOfThem ==
    ASSUME NEW F, F \subseteq Sweep!Frames, NEW f \in F
    PROVE  \E g \in F : /\ Sweep!Key(g) = Sweep!Key(f)
                        /\ \A h \in F : Sweep!Key(h) = Sweep!Key(g) => g.at <= h.at
<1> DEFINE Places == {n \in Nat : \E g \in F : Sweep!Key(g) = Sweep!Key(f) /\ g.at = n}
<1>1. \A g \in F : g.at \in Nat
  BY ToolsAssumption DEF Sweep!Frames
<1>2. Places # {} /\ Places \in SUBSET Nat
  <2>1. f.at \in Places
    BY <1>1
  <2>2. QED
    BY <2>1
<1>3. PICK n \in Places : \A m \in Places : n <= m
  <2> HIDE DEF Places
  <2>1. QED
    BY <1>2, LeastNatural
<1>4. PICK g \in F : Sweep!Key(g) = Sweep!Key(f) /\ g.at = n
  BY <1>3
<1>5. \A h \in F : Sweep!Key(h) = Sweep!Key(g) => g.at <= h.at
  BY <1>1, <1>3, <1>4
<1>6. QED
  BY <1>4, <1>5

\* One window keeps it: what it gives is known afterwards, and recorded once.
LEMMA WindowStep == SweepInv /\ Sweep!Window => SweepInv'
<1> SUFFICES ASSUME SweepInv, Sweep!Window PROVE SweepInv'
  OBVIOUS
<1> USE DEF SweepInv
<1>1. /\ off < MaxSamples /\ sweepExit = "none" /\ off' = off + Sweep!Step
      /\ UNCHANGED <<sent, played, win, swept, sweepExit>>
  BY DEF Sweep!Window
<1>2. PICK bad \in SUBSET played :
          LET F == {f \in sent : f.framing \in played \ bad /\ Sweep!Within(f, off)}
          IN  /\ spoilt' = spoilt \cup {<<off, n>> : n \in bad}
              /\ found' = found \cup {Sweep!Record(f) : f \in Sweep!New(F)}
              /\ known' = known \cup {Sweep!Key(f) : f \in F}
  BY DEF Sweep!Window
<1>3. PICK F : F = {f \in sent : f.framing \in played \ bad /\ Sweep!Within(f, off)}
  OBVIOUS
<1>4. /\ spoilt' = spoilt \cup {<<off, n>> : n \in bad}
      /\ found' = found \cup {Sweep!Record(f) : f \in Sweep!New(F)}
      /\ known' = known \cup {Sweep!Key(f) : f \in F}
  BY <1>2, <1>3
<1>5. F \subseteq sent /\ F \subseteq Sweep!Frames /\ sent' = sent /\ win' = win
  BY <1>1, <1>3 DEF SweepTypes
<1>6. \A g \in Sweep!New(F) :
         /\ g \in F /\ Sweep!Key(g) \notin known
         /\ \A h \in F : Sweep!Key(h) = Sweep!Key(g) => g.at <= h.at
  BY DEF Sweep!New
<1>7. \A f : Sweep!Record(f).framing = f.framing /\ Sweep!Record(f).body = f.body
             /\ Sweep!Record(f).at = IF f.framing \in Native THEN f.at ELSE off
  BY DEF Sweep!Record
<1>8. \A f : Sweep!Key(f) = <<f.framing, f.body>>
  BY DEF Sweep!Key
<1>9. \A f, start : Sweep!Within(f, start)' <=> Sweep!Within(f, start)
  BY <1>1 DEF Sweep!Within
<1>10. SweepTypes'
  <2>1. Sweep!Step' = Sweep!Step /\ Sweep!Step \in {1, 2}
    BY <1>1, HalfWindows DEF Sweep!Step, SweepTypes
  <2>2. off + Sweep!Step \in Nat /\ (off + Sweep!Step) % Sweep!Step = 0
    BY <2>1 DEF SweepTypes
  <2>3. QED
    BY <1>1, <2>1, <2>2 DEF SweepTypes
<1>11. FoundInv'
  <2>1. ASSUME NEW r \in found'
        PROVE  \E f \in sent : /\ r.framing = f.framing /\ r.body = f.body
                               /\ IF r.framing \in Native THEN r.at = f.at
                                                          ELSE Sweep!Within(f, r.at)
    <3>1. CASE r \in found
      BY <3>1 DEF FoundInv
    <3>2. CASE r \notin found
      <4>1. PICK g \in F : r = Sweep!Record(g)
        BY <1>4, <1>6, <2>1, <3>2
      <4>2. Sweep!Within(g, off)
        BY <1>3
      <4>3. QED
        BY <1>5, <1>7, <4>1, <4>2
    <3>3. QED
      BY <3>1, <3>2
  <2>2. ASSUME NEW r \in found', NEW s \in found', r.framing = s.framing, r.body = s.body
        PROVE  r = s
    <3>1. CASE r \in found /\ s \in found
      BY <2>2, <3>1 DEF FoundInv
    <3>2. ASSUME NEW a \in found, NEW g \in Sweep!New(F)
          PROVE  ~(a.framing = g.framing /\ a.body = g.body)
      BY <1>6, <1>8 DEF FoundInv
    <3>3. ASSUME NEW g \in Sweep!New(F), NEW h \in Sweep!New(F), Sweep!Key(g) = Sweep!Key(h)
          PROVE  Sweep!Record(g) = Sweep!Record(h)
      <4>1. g.at <= h.at /\ h.at <= g.at
        BY <1>6, <3>3
      <4>2. g.at \in Nat /\ h.at \in Nat
        BY <1>5, <1>6, ToolsAssumption DEF Sweep!Frames
      <4>3. g.at = h.at
        BY <4>1, <4>2
      <4>4. g.framing = h.framing /\ g.body = h.body
        BY <1>8, <3>3
      <4>5. QED
        BY <4>3, <4>4 DEF Sweep!Record
    <3>4. r \in found \/ \E g \in Sweep!New(F) : r = Sweep!Record(g)
      BY <1>4
    <3>5. s \in found \/ \E g \in Sweep!New(F) : s = Sweep!Record(g)
      BY <1>4
    <3>6. ASSUME NEW g \in Sweep!New(F), r = Sweep!Record(g) PROVE s \notin found
      BY <1>7, <2>2, <3>2, <3>6
    <3>7. ASSUME NEW g \in Sweep!New(F), s = Sweep!Record(g) PROVE r \notin found
      BY <1>7, <2>2, <3>2, <3>7
    <3>8. ASSUME NEW g \in Sweep!New(F), NEW h \in Sweep!New(F),
                 r = Sweep!Record(g), s = Sweep!Record(h)
          PROVE  r = s
      <4>1. Sweep!Key(g) = Sweep!Key(h)
        BY <1>7, <1>8, <2>2, <3>8
      <4>2. QED
        BY <3>3, <3>8, <4>1
    <3>9. QED
      BY <3>1, <3>4, <3>5, <3>6, <3>7, <3>8
  <2>3. ASSUME NEW r \in found' PROVE <<r.framing, r.body>> \in known'
    <3>1. CASE r \in found
      BY <1>4, <3>1 DEF FoundInv
    <3>2. CASE r \notin found
      <4>1. PICK g \in F : r = Sweep!Record(g)
        BY <1>4, <1>6, <2>3, <3>2
      <4>2. QED
        BY <1>4, <1>7, <1>8, <4>1
    <3>3. QED
      BY <3>1, <3>2
  <2>4. ASSUME NEW k \in known' PROVE \E r \in found' : k = <<r.framing, r.body>>
    <3>1. CASE k \in known
      BY <1>4, <3>1 DEF FoundInv
    <3>2. CASE k \notin known
      <4>1. PICK f \in F : k = Sweep!Key(f)
        BY <1>4, <2>4, <3>2
      <4>2. PICK g \in F : /\ Sweep!Key(g) = Sweep!Key(f)
                           /\ \A h \in F : Sweep!Key(h) = Sweep!Key(g) => g.at <= h.at
        BY <1>5, FirstOfThem
      <4>3. g \in Sweep!New(F)
        BY <3>2, <4>1, <4>2 DEF Sweep!New
      <4>4. QED
        BY <1>4, <1>7, <1>8, <4>1, <4>2, <4>3
    <3>3. QED
      BY <3>1, <3>2
  <2>5. QED
    BY <1>1, <1>9, <2>1, <2>2, <2>3, <2>4 DEF FoundInv
<1>12. KnownInv'
  <2> SUFFICES ASSUME NEW f \in sent, f.framing \in played, Swept(f)'
               PROVE  Sweep!Key(f) \in known'
    BY <1>1 DEF KnownInv, Sweep!Key
  <2>1. Sweep!Starts' = Sweep!Starts
    BY <1>1 DEF Sweep!Starts, Sweep!Step
  <2>2. PICK start \in Sweep!Starts : /\ start < off + Sweep!Step /\ Sweep!Within(f, start)
                                      /\ <<start, f.framing>> \notin spoilt'
    BY <1>1, <1>9, <2>1 DEF Swept
  <2>3. CASE start < off
    BY <1>4, <2>2, <2>3 DEF KnownInv, Swept
  <2>4. CASE start = off
    <3>1. f.framing \notin bad
      BY <1>4, <2>2, <2>4
    <3>2. f \in F
      BY <1>3, <2>2, <2>4, <3>1
    <3>3. QED
      BY <1>4, <3>2
  <2>5. start <= off
    <3>1. start \in Int /\ start % Sweep!Step = 0
      BY <2>2, ToolsAssumption DEF Sweep!Starts
    <3>2. off \in Int /\ off % Sweep!Step = 0
      BY DEF SweepTypes
    <3>3. Sweep!Step \in {1, 2}
      BY HalfWindows DEF SweepTypes
    <3>4. \A a, b \in Int, c \in {1, 2} : a % c = 0 /\ b % c = 0 /\ a < b + c => a <= b
      OBVIOUS
    <3>5. QED
      BY <2>2, <3>1, <3>2, <3>3, <3>4
  <2>6. start \in Int /\ off \in Int
    BY <2>2, ToolsAssumption DEF Sweep!Starts, SweepTypes
  <2>7. QED
    BY <2>3, <2>4, <2>5, <2>6
<1>13. FiledInv'
  BY <1>1 DEF FiledInv
<1>14. QED
  BY <1>10, <1>11, <1>12, <1>13

\* Nothing else of the sweep touches what was found.
LEMMA SweepStep == SweepInv /\ [Sweep!SweepNext]_Sweep!sweepVars => SweepInv'
<1> SUFFICES ASSUME SweepInv, [Sweep!SweepNext]_Sweep!sweepVars PROVE SweepInv'
  OBVIOUS
<1>1. ASSUME UNCHANGED <<sent, played, win, off, known, spoilt, found>>
      PROVE  (SweepTypes /\ FoundInv /\ KnownInv)' \/ sweepExit' \notin {"none", "clean", "failed"}
  <2>1. \A f, start : Sweep!Within(f, start)' <=> Sweep!Within(f, start)
    BY <1>1 DEF Sweep!Within
  <2>2. Sweep!Step' = Sweep!Step /\ Sweep!Starts' = Sweep!Starts
    BY <1>1 DEF Sweep!Starts, Sweep!Step
  <2>3. \A f : Swept(f)' <=> Swept(f)
    BY <1>1, <2>1, <2>2 DEF Swept
  <2>4. FoundInv'
    BY <1>1, <2>1 DEF FoundInv, SweepInv
  <2>5. KnownInv'
    BY <1>1, <2>3 DEF KnownInv, SweepInv, Sweep!Key
  <2>6. QED
    BY <1>1, <2>2, <2>4, <2>5 DEF SweepTypes, SweepInv
<1>2. CASE Sweep!Window
  BY <1>2, WindowStep
<1>3. CASE Sweep!AppendFrames
  BY <1>1, <1>3 DEF Sweep!AppendFrames, SweepInv, FiledInv
<1>4. CASE Sweep!Refuse \/ Sweep!Nothing
  BY <1>1, <1>4 DEF Sweep!Refuse, Sweep!Nothing, SweepInv, FiledInv
<1>5. CASE UNCHANGED Sweep!sweepVars
  BY <1>1, <1>5 DEF Sweep!sweepVars, SweepInv, FiledInv, SweepTypes
<1>6. QED
  BY <1>2, <1>3, <1>4, <1>5 DEF Sweep!SweepNext, Sweep!SweepEnds

\* A frame of half a window and a sample is whole in the window of its first sample.
LEMMA AWindowHasIt ==
    ASSUME SweepInv, NEW f \in sent, f.len <= win \div 2 + 1
    PROVE  \E start \in Sweep!Starts : Sweep!Within(f, start)
<1>1. f.at \in 0..(MaxSamples - 1) /\ f.len \in Int /\ MaxSamples \in Nat
  BY ToolsAssumption DEF SweepInv, SweepTypes, Sweep!Frames
<1>2. win \in 2..4 /\ Sweep!Step \in {1, 2} /\ Sweep!Step - 1 + (win \div 2) + 1 = win
  BY HalfWindows DEF SweepInv, SweepTypes
<1>3. PICK start \in Int : start = f.at - (f.at % Sweep!Step)
  BY <1>1, <1>2
<1>4. \A a \in Nat, c \in {1, 2} : (a - (a % c)) % c = 0 /\ a % c \in 0..(c - 1) /\ a - (a % c) >= 0
  OBVIOUS
<1>5. start % Sweep!Step = 0 /\ start >= 0 /\ start <= f.at /\ f.at - start <= Sweep!Step - 1
  BY <1>1, <1>2, <1>3, <1>4
<1>6. start \in Sweep!Starts
  BY <1>1, <1>5 DEF Sweep!Starts
<1>7. f.at + f.len <= start + win
  BY <1>1, <1>2, <1>5
<1>8. QED
  BY <1>5, <1>6, <1>7 DEF Sweep!Within

\* What the sweep knows at its end is what was asked of it.
LEMMA WholeSweep == SweepInv => Sweep!SweptWhole
<1> SUFFICES ASSUME SweepInv PROVE Sweep!SweptWhole
  OBVIOUS
<1>1. ASSUME sweepExit = "clean", NEW f \in sent
      PROVE  /\ f.framing \in played /\ Sweep!Looked(f) # {}
                   => \E r \in swept : r.framing = f.framing /\ r.body = f.body
             /\ spoilt = {} /\ f.len <= win \div 2 + 1 => Sweep!Looked(f) # {}
  <2>1. swept = found /\ off >= MaxSamples
    BY <1>1 DEF SweepInv, FiledInv
  <2>2. ASSUME f.framing \in played, Sweep!Looked(f) # {}
        PROVE  \E r \in swept : r.framing = f.framing /\ r.body = f.body
    <3>1. PICK start \in Sweep!Starts : Sweep!Within(f, start) /\ <<start, f.framing>> \notin spoilt
      BY <2>2 DEF Sweep!Looked
    <3>2. start < off
      BY <2>1, <3>1, ToolsAssumption DEF Sweep!Starts, SweepInv, SweepTypes
    <3>3. Sweep!Key(f) \in known
      BY <2>2, <3>1, <3>2 DEF SweepInv, KnownInv, Swept
    <3>4. PICK r \in found : Sweep!Key(f) = <<r.framing, r.body>>
      BY <3>3 DEF SweepInv, FoundInv
    <3>5. QED
      BY <2>1, <3>4 DEF Sweep!Key
  <2>3. ASSUME spoilt = {}, f.len <= win \div 2 + 1 PROVE Sweep!Looked(f) # {}
    <3>1. PICK start \in Sweep!Starts : Sweep!Within(f, start)
      BY <2>3, AWindowHasIt
    <3>2. start \in Sweep!Looked(f)
      BY <2>3, <3>1 DEF Sweep!Looked
    <3>3. QED
      BY <3>2
  <2>4. QED
    BY <2>2, <2>3
<1>2. QED
  BY <1>1 DEF Sweep!SweptWhole, SweepInv, FoundInv

\* One step of the whole either leaves the sweep alone or is a step of it.
LEMMA SweepMoves ==
    ASSUME [EitherNext]_<<receiveVars, offlineVars>>, tool' = "sweep"
    PROVE  tool = "sweep" /\ [Sweep!SweepNext]_Sweep!sweepVars
<1>1. CASE tool = "none" /\ ReceiveNext /\ UNCHANGED offlineVars
  BY <1>1 DEF offlineVars
<1>2. CASE OfflineNext
  BY <1>2 DEF OfflineNext
<1>3. CASE UNCHANGED <<receiveVars, offlineVars>>
  BY <1>3 DEF offlineVars, sweep, Sweep!sweepVars
<1>4. QED
  BY <1>1, <1>2, <1>3 DEF EitherNext

\* While the behaviour is about the sweep, its invariant holds.
LEMMA SweepInductive == EitherSpec => [](tool = "sweep" => SweepInv)
<1>1. EitherInit => (tool = "sweep" => SweepInv)
  BY SweepInitInv DEF EitherInit, NoTool, OfflineInit
<1>2. (tool = "sweep" => SweepInv) /\ [EitherNext]_<<receiveVars, offlineVars>>
          => (tool = "sweep" => SweepInv)'
  <2> SUFFICES ASSUME tool = "sweep" => SweepInv, [EitherNext]_<<receiveVars, offlineVars>>,
                      tool' = "sweep"
               PROVE  SweepInv'
    OBVIOUS
  <2>1. SweepInv /\ [Sweep!SweepNext]_Sweep!sweepVars
    BY SweepMoves
  <2>2. QED
    BY <2>1, SweepStep
<1>3. QED
  BY <1>1, <1>2, PTL DEF EitherSpec

\* A decode of a recording that ends clean has filed every frame that could be found
\* (apps/iq_decode.py, decode_capture and decode_capture_gnuradio), once by the sweep and
\* at most as often as it was found by the replay, for any recording, framings and bound
\* of the queues: a frame short enough for the overlap is looked at whole, a
\* queue that overflowed or a decoder that raised ends the replay in a failure, and what
\* the native engine had still open is filed with the rest.
THEOREM DecodedWholeCorrect == EitherSpec => []DecodedWhole
<1>1. /\ tool = "sweep" => SweepInv
      /\ tool = "replay" => ReplayInv
      => DecodedWhole
  BY WholeSweep, WholeReplay DEF DecodedWhole
<1>2. QED
  BY <1>1, SweepInductive, ReplayInductive, PTL
=============================================================================
