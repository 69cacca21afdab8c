----------------------------- MODULE CaptureSweep -----------------------------
(***************************************************************************)
(* The portable decode of a recording after the pass (apps/iq_decode.py,      *)
(* decode_capture): windows of the capture, half over each other, are         *)
(* demodulated one after the other and given to every framing; what raises is *)
(* skipped, what two windows hold is recorded once, and the records are       *)
(* appended to the pass's frames.jsonl.                                      *)
(***************************************************************************)
EXTENDS Naturals, FiniteSets

CONSTANTS Framings,   \* the labels that were asked for
          Native,     \* those of them with a native decoder, which knows where a frame began
          MaxSamples, \* of a capture
          MaxFrame,   \* samples of a frame
          MaxBad      \* windows in which something raises

VARIABLES
    sent,     \* the frames in the capture
    played,   \* the framings whose pairing with the modem is accepted
    win, off, \* the window, and where the sweep is
    seen,     \* the frames already recorded, by framing and payload
    spoilt,   \* (ghost) <<window, framing>> that gave nothing because something raised
    records,  \* what was found
    filed,    \* the records in frames.jsonl
    exit      \* the exit code, or "none"

sweepVars == <<sent, played, win, off, seen, spoilt, records, filed, exit>>

\* A frame: its framing, its payload, and the samples it takes.
Frames == {f \in [framing : Framings, body : {"a", "b"}, at : 0..(MaxSamples - 1), len : 1..MaxFrame] :
              f.at + f.len <= MaxSamples}

SweepInit ==
    /\ \E f, g \in {h \in Frames : h.len >= MaxFrame - 1} :
          f.body = "a" /\ f.at <= g.at /\ sent \in {{}, {f, g}}
    /\ played \in {Framings, Framings \ Native}
    /\ win \in 2..4 /\ off = 0
    /\ seen = {} /\ spoilt = {} /\ records = {} /\ filed = {} /\ exit = "none"

\* Mutant: the windows lie end to end.
StepBug == win

\* Windows overlap by half, so that a frame on a boundary is whole in the next.
Step == win - win \div 2

Within(f, start) == f.at >= start /\ f.at + f.len <= start + win

\* Mutant: a payload is recorded once, whatever framing found it.
KeyBug(f) == <<f.body>>

\* What a frame that two windows hold is recognised by.
Key(f) == <<f.framing, f.body>>

\* A native decoder gives the place of the frame, any other the window's.
Record(f) == [framing |-> f.framing, body |-> f.body,
              at |-> IF f.framing \in Native THEN f.at ELSE off]

\* The first of the frames with each key, where the key is new.
New(found) == {f \in found : Key(f) \notin seen
                             /\ \A g \in found : Key(g) = Key(f) => f.at <= g.at}

\* One window.  The demodulator may raise, and each framing on its own.
Window ==
    /\ off < MaxSamples /\ exit = "none"
    /\ \E bad \in SUBSET played :
          LET found == {f \in sent : f.framing \in played \ bad /\ Within(f, off)}
          IN  /\ bad # {} => Cardinality({w[1] : w \in spoilt}) < MaxBad
              /\ spoilt' = spoilt \cup {<<off, n>> : n \in bad}
              /\ records' = records \cup {Record(f) : f \in New(found)}
              /\ seen' = seen \cup {Key(f) : f \in found}
    /\ off' = off + Step
    /\ UNCHANGED <<sent, played, win, filed, exit>>

\* _append_frames, and the end of main.  A file that cannot be written to may
\* have taken some of the records, and fails the run.
AppendFrames ==
    /\ off >= MaxSamples /\ exit = "none"
    /\ \/ filed' = records /\ exit' = "clean"
       \/ filed' \in SUBSET records /\ records # {} /\ exit' = "failed"
    /\ UNCHANGED <<sent, played, win, off, seen, spoilt, records>>

\* What is refused before the sweep: a modulation it cannot demodulate, or
\* parameters of the wrong kind.
Refuse ==
    /\ off = 0 /\ exit = "none" /\ exit' = "failed"
    /\ UNCHANGED <<sent, played, win, off, seen, spoilt, records, filed>>

\* No framing, no file or no sample: nothing is found and nothing is wrong.
Nothing ==
    /\ off = 0 /\ exit = "none" /\ sent = {} /\ exit' = "clean"
    /\ UNCHANGED <<sent, played, win, off, seen, spoilt, records, filed>>

SweepEnds == exit # "none" /\ UNCHANGED sweepVars

SweepNext == Window \/ AppendFrames \/ Refuse \/ Nothing \/ SweepEnds
-----------------------------------------------------------------------------
\* The windows a finished sweep has looked at.
Starts == {start \in 0..(MaxSamples - 1) : start % Step = 0}
Looked(f) == {start \in Starts : Within(f, start) /\ <<start, f.framing>> \notin spoilt}

\* A sweep that ends clean has filed every frame of a framing it plays that is
\* whole in a window in which that framing did not raise: every frame of half a
\* window and a sample at least, wherever it lies on the boundaries.  What is
\* filed was sent, names a place the frame can be found from, and no frame is
\* there twice for the windows' overlap.
SweptWhole ==
    /\ \A r \in records : \E f \in sent :
          /\ r.framing = f.framing /\ r.body = f.body
          /\ IF r.framing \in Native THEN r.at = f.at ELSE Within(f, r.at)
    /\ \A r, s \in records : r.framing = s.framing /\ r.body = s.body => r = s
    /\ exit = "clean" => 
          \A f \in sent :
             /\ f.framing \in played /\ Looked(f) # {}
                   => \E r \in filed : r.framing = f.framing /\ r.body = f.body
             /\ spoilt = {} /\ f.len <= win \div 2 + 1 => Looked(f) # {}
=============================================================================
