--------------------------- MODULE SatelliteReceive ---------------------------
(***************************************************************************)
(* The two halves of a satellite pass that share nothing while they run: the *)
(* graph that is assembled before it (ReceiveGraph), and the decoders its    *)
(* symbol queues feed (StreamDecoders).  `part` says which one a behaviour   *)
(* looks at.                                                                *)
(***************************************************************************)
EXTENDS StreamDecoders

CONSTANTS Labels, Extras, Kinds, Requested, Captures, Symbols, Offsets, DefaultOffset

ASSUME FrontAssumption ==
    /\ Requested \in Nat \ {0} /\ DefaultOffset \in Nat
    /\ Captures \subseteq Nat /\ Symbols \subseteq Nat /\ Offsets \subseteq Nat

VARIABLES part, step, engine, rates, gain, live, labels, primary, kind, tap, edges,
          fallbacks, soft, deframers, fg, reason

Graph == INSTANCE ReceiveGraph

graph == <<step, engine, rates, gain, live, labels, primary, kind, tap, edges, fallbacks,
           soft, deframers, fg, reason>>
receiveVars == <<part, graph, decoderVars>>

ReceiveInit ==
    \/ part = "graph" /\ Graph!GraphInit /\ DecodersInit /\ profile = "legacy"
    \/ part = "decoders" /\ Graph!GraphInit /\ engine = "satellites" /\ DecodersInit

ReceiveNext ==
    /\ UNCHANGED part
    /\ \/ part = "graph" /\ Graph!GraphNext /\ UNCHANGED decoderVars
       \/ part = "decoders" /\ DecodersNext /\ UNCHANGED graph

ReceiveSpec == ReceiveInit /\ [][ReceiveNext]_receiveVars
-----------------------------------------------------------------------------
\* See ReceiveGraph: no output without a consumer, no input without a feed, and
\* every symbol queue is drained by a decoder.
NothingDangles == Graph!PortsTerminated /\ Graph!NoIdleQueue

\* See ReceiveGraph: a silent decoder says so, a working one does not.
ReportIsTrue == Graph!ReportIsTrue

\* See ReceiveGraph: tuned, wide enough, and with the gain that was asked for.
SignalHeard == Graph!SignalHeard
=============================================================================
