----------------------------- MODULE CaptureReplay -----------------------------
(***************************************************************************)
(* The second engine of the decode after the pass (apps/iq_decode.py,          *)
(* decode_capture_gnuradio): the recording is played through the live receive *)
(* graph on a thread of its own.  Native decoders run inside that thread      *)
(* (_ReplayDecoderFanout), gr-satellites' beside it; frames cross to the       *)
(* program in two bounded queues, which it drains until the graph has ended.   *)
(***************************************************************************)
EXTENDS Naturals, Sequences, FiniteSets

CONSTANTS MaxHits,  \* frames found in the capture
          QueueCap  \* frames a queue holds

Sources  == {"native", "upstream"}
Contents == {"a", "b"}   \* payloads

VARIABLES
    engines,   \* the decoders that could be built
    graph,     \* "none", "running", "ended" or "failed"
    queues,    \* the frames of each source that wait
    hits,      \* (ghost) how often each source has found each payload
    overrun,   \* the sources whose queue has refused a frame
    broken,    \* a native decoder has raised
    step,      \* the program: "setup", "wait", "drain", "last", "flush", "append", "over"
    rows,      \* the records, by payload
    append,    \* --append-frames
    filed,     \* records in frames.jsonl
    exit       \* the exit code, or "none"

replayVars == <<engines, graph, queues, hits, overrun, broken, step, rows, append, filed, exit>>

Zero == [b \in Contents |-> 0]

ReplayInit ==
    /\ engines \in SUBSET Sources /\ append \in BOOLEAN
    /\ graph = "none" /\ queues = [s \in Sources |-> <<>>] /\ hits = [s \in Sources |-> Zero]
    /\ overrun = {} /\ broken = FALSE /\ step = "setup"
    /\ rows = Zero /\ filed = Zero /\ exit = "none"

Count(table) == table["a"] + table["b"]

\* No modem, no usable parameter or no deframer: the replay raises.  With no
\* framing asked for there is nothing to do.
Setup ==
    /\ step = "setup"
    /\ \/ graph' = "running" /\ engines # {} /\ step' = "wait" /\ UNCHANGED exit
       \/ step' = "over" /\ exit' = "failed" /\ UNCHANGED graph
       \/ step' = "over" /\ exit' = "clean" /\ engines = {} /\ UNCHANGED graph
    /\ UNCHANGED <<engines, queues, hits, overrun, broken, rows, append, filed>>

\* BoundedQueue.offer: a frame that does not fit is refused and counted.
Offer(s, b) ==
    /\ Count(hits["native"]) + Count(hits["upstream"]) < MaxHits
    /\ hits' = [hits EXCEPT ![s][b] = @ + 1]
    /\ IF Len(queues[s]) < QueueCap
       THEN queues' = [queues EXCEPT ![s] = Append(@, b)] /\ UNCHANGED overrun
       ELSE overrun' = overrun \cup {s} /\ UNCHANGED queues

\* The scheduler calls the sinks; a native decoder that has raised is left alone.
Push ==
    /\ graph = "running"
    /\ \E s \in engines, b \in Contents :
          /\ s = "native" => ~broken
          /\ Offer(s, b) /\ UNCHANGED broken
    /\ UNCHANGED <<engines, graph, step, rows, append, filed, exit>>

\* Its exception is kept for the program: it must not leave the scheduler's call.
DecoderRaises ==
    /\ graph = "running" /\ "native" \in engines /\ ~broken /\ broken' = TRUE
    /\ UNCHANGED <<engines, graph, queues, hits, overrun, step, rows, append, filed, exit>>

\* run_graph: the capture is at its end, or the graph fails, and completed is set.
GraphEnds ==
    /\ graph = "running" /\ graph' \in {"ended", "failed"}
    /\ UNCHANGED <<engines, queues, hits, overrun, broken, step, rows, append, filed, exit>>

\* completed.wait: it times out, and the queues are drained, or the event is set.
Wait ==
    /\ step = "wait" /\ step' = IF graph = "running" THEN "drain" ELSE "last"
    /\ UNCHANGED <<engines, graph, queues, hits, overrun, broken, rows, append, filed, exit>>

\* Mutant: an exception kept by the fan-out is never looked at.
LossyBug(s) == s \in overrun

\* What stops the program when it drains: frames refused, or a decoder that raised.
Lossy(s) == s \in overrun \/ (s = "native" /\ broken)

Gives(s) == s \in engines /\ ~Lossy(s)

\* The payloads that wait, each once.
Batch == UNION {{queues[s][i] : i \in 1..Len(queues[s])} : s \in Sources}

\* Out of the loop with an exception: the graph is stopped, nothing is filed.
Abandon ==
    /\ step' = "over" /\ exit' = "failed"
    /\ graph' = IF graph = "running" THEN "ended" ELSE graph

\* drain_once.  The same payload found by both engines, or twice by one, is one
\* record of this drain.
Drain ==
    /\ step \in {"drain", "last"}
    /\ \/ /\ \A s \in engines : ~Lossy(s)
          /\ rows' = [b \in Contents |-> rows[b] + IF b \in Batch THEN 1 ELSE 0]
          /\ queues' = [s \in Sources |-> <<>>]
          /\ step' = IF step = "drain" THEN "wait" ELSE "flush"
          /\ UNCHANGED <<graph, exit>>
       \/ (\E s \in engines : Lossy(s)) /\ Abandon /\ UNCHANGED <<rows, queues>>
    /\ UNCHANGED <<engines, hits, overrun, broken, append, filed>>

\* Mutant: what the decoders held back is drained before it is asked for.
FlushBug ==
    /\ step = "flush" /\ step' = "append"
    /\ \/ "native" \in engines /\ (\E b \in Contents : Offer("native", b)) /\ UNCHANGED rows
       \/ UNCHANGED <<queues, hits, overrun, rows>>
    /\ UNCHANGED <<engines, graph, broken, append, filed, exit>>

\* flush_results: what the decoders still hold comes out, each a record of its own.
Flush ==
    /\ step = "flush"
    /\ \/ /\ "native" \in engines
          /\ \E b \in Contents : /\ Count(hits["native"]) + Count(hits["upstream"]) < MaxHits
                                 /\ hits' = [hits EXCEPT !["native"][b] = @ + 1]
                                 /\ rows' = [rows EXCEPT ![b] = @ + 1]
          /\ step' = "append" /\ UNCHANGED <<exit, graph>>
       \/ step' = "append" /\ UNCHANGED <<hits, rows, exit, graph>>
       \/ "native" \in engines /\ Abandon /\ UNCHANGED <<hits, rows>>
    /\ UNCHANGED <<engines, queues, overrun, broken, append, filed>>

\* A graph that failed fails the replay; records are filed only when asked for.
Finish ==
    /\ step = "append" /\ step' = "over"
    /\ \/ graph = "failed" /\ exit' = "failed" /\ UNCHANGED filed
       \/ graph = "ended" /\ ~append /\ exit' = "clean" /\ UNCHANGED filed
       \/ graph = "ended" /\ append /\ exit' = "clean" /\ filed' = rows
       \/ /\ graph = "ended" /\ append /\ Count(rows) > 0 /\ exit' = "failed"
          /\ \E a \in 0..rows["a"], b \in 0..rows["b"] : filed' = [filed EXCEPT !["a"] = a, !["b"] = b]
    /\ UNCHANGED <<engines, graph, queues, hits, overrun, broken, rows, append>>

ReplayEnds == step = "over" /\ graph # "running" /\ UNCHANGED replayVars

ReplayNext == Setup \/ Push \/ DecoderRaises \/ GraphEnds \/ Wait \/ Drain \/ Flush \/ Finish
                 \/ ReplayEnds
-----------------------------------------------------------------------------
\* A replay that exits 0 has a record of every payload either engine has found,
\* whatever the threads' order: no queue refused one, no decoder raised, the
\* graph played the capture to its end, and what was found between the last
\* drain and the end is there; with --append-frames it is in the file.  No
\* payload has more records than it was found, and the file none but these.
ReplayedWhole ==
    /\ \A b \in Contents : /\ rows[b] <= hits["native"][b] + hits["upstream"][b]
                           /\ filed[b] <= rows[b]
    /\ exit = "clean" => 
          /\ graph \notin {"running", "failed"} /\ ~broken /\ overrun = {}
          /\ \A b \in Contents : hits["native"][b] + hits["upstream"][b] > 0 => rows[b] > 0
          /\ append => filed = rows
=============================================================================
