------------------------------- MODULE PassViews -------------------------------
(***************************************************************************)
(* The views of a recording, derived after the pass (apps/iq_views.py): a    *)
(* waterfall picture, a VSA table, an SDF transcode and discriminator audio,  *)
(* next to the capture.  The workspace may be that of an earlier attempt,    *)
(* with its products and its temporary files; a write may fail, a capture    *)
(* may be too short for a view, and the process may be killed anywhere and   *)
(* run again on the next capture.                                            *)
(***************************************************************************)
EXTENDS Naturals, Sequences

CONSTANT Attempts       \* captures that pass through the one workspace

Formats == {"png", "csv", "sdf", "ogg"}
Order   == <<"png", "csv", "sdf", "ogg">>

None    == 0            \* no file; a whole file holds the number of its capture
Partial == Attempts + 1 \* a file cut short

VARIABLES
    attempt,  \* which capture is being looked at
    wanted,   \* the formats asked for
    view,     \* where the derivation is: an index of Order, or how it ended
    doing,    \* what of this view: "clear", "write", "promote"
    disk,     \* the file of each view under its own name
    temp,     \* and under its temporary one
    made      \* the views reported as written

viewVars == <<attempt, wanted, view, doing, disk, temp, made>>

ViewsInit ==
    /\ attempt = 1 /\ wanted \in SUBSET Formats
    /\ view = 1 /\ doing = "clear" /\ made = {}
    /\ disk = [f \in Formats |-> None]
    /\ temp = [f \in Formats |-> None]

Done    == Len(Order) + 1
Raised  == Done + 1
Killed  == Done + 2
Running == view < Done
Format  == Order[view]

\* On to the next view, with or without this one among the products.
Leave(wrote) == /\ view' = view + 1 /\ doing' = "clear"
                /\ made' = IF wrote THEN made \cup {Format} ELSE made

\* No capture, or no sample in it: nothing is derived, and nothing is cleared.
\* Whoever wants no view is not told.
NoCapture ==
    /\ view = 1 /\ doing = "clear" /\ wanted # {} /\ view' = Raised
    /\ UNCHANGED <<attempt, wanted, doing, disk, temp, made>>

Unwanted ==
    /\ Running /\ doing = "clear" /\ Format \notin wanted /\ Leave(FALSE)
    /\ UNCHANGED <<attempt, wanted, disk, temp>>

\* Mutant: an old picture stays in place for a capture that yields none.
ClearsTargetBug == {"ogg"}

\* The formats whose old product is removed before anything else is done.
ClearsTarget == {"png", "ogg"}

Clear ==
    /\ Running /\ doing = "clear" /\ Format \in wanted
    /\ disk' = IF Format \in ClearsTarget THEN [disk EXCEPT ![Format] = None] ELSE disk
    /\ temp' = [temp EXCEPT ![Format] = None]
    /\ doing' = "write" /\ UNCHANGED <<attempt, wanted, view, made>>

\* Audio that cannot be had (no encoder, a bad rate, a short capture) is left
\* out before its temporary file is looked at.
Inaudible ==
    /\ Running /\ doing = "clear" /\ Format \in wanted /\ Format = "ogg"
    /\ disk' = [disk EXCEPT !["ogg"] = None] /\ Leave(FALSE)
    /\ UNCHANGED <<attempt, wanted, temp>>

\* The picture is written under its own name.  A capture shorter than one FFT
\* window has none; a disk that is full ends the derivation.
Picture ==
    /\ Running /\ doing = "write" /\ Format = "png"
    /\ \/ disk' = [disk EXCEPT !["png"] = attempt] /\ Leave(TRUE)
       \/ Leave(FALSE) /\ UNCHANGED disk
       \/ /\ disk' = [disk EXCEPT !["png"] = Partial]
          /\ view' = Raised /\ UNCHANGED <<doing, made>>
    /\ UNCHANGED <<attempt, wanted, temp>>

\* Everything else is written aside first.
Write ==
    /\ Running /\ doing = "write" /\ Format # "png"
    /\ \/ temp' = [temp EXCEPT ![Format] = attempt] /\ doing' = "promote"
       \/ temp' = [temp EXCEPT ![Format] = Partial] /\ doing' = "fail"
    /\ UNCHANGED <<attempt, wanted, view, disk, made>>

\* The rename is atomic, and may be refused.
Promote ==
    /\ Running /\ doing = "promote"
    /\ \/ /\ disk' = [disk EXCEPT ![Format] = temp[Format]]
          /\ temp' = [temp EXCEPT ![Format] = None] /\ Leave(TRUE)
       \/ doing' = "fail" /\ UNCHANGED <<disk, temp, view, made>>
    /\ UNCHANGED <<attempt, wanted>>

\* A write or a rename that failed takes its temporary file with it.
Fail ==
    /\ Running /\ doing = "fail"
    /\ temp' = [temp EXCEPT ![Format] = None] /\ Leave(FALSE)
    /\ UNCHANGED <<attempt, wanted, disk>>

\* A kill in the middle of a write leaves what there is of the file.
Kill ==
    /\ Running /\ view' = Killed
    /\ disk' = [disk EXCEPT !["png"] = IF doing = "write" /\ Format = "png" THEN Partial ELSE @]
    /\ temp' = [temp EXCEPT ![Format] = IF doing = "write" /\ Format # "png" THEN Partial ELSE @]
    /\ UNCHANGED <<attempt, wanted, doing, made>>

\* main: a view that was asked for and not made fails the run.
ExitCode == IF view = Done /\ wanted \subseteq made THEN 0 ELSE 1

\* The workspace is used again for the next capture.
Again ==
    /\ ~Running /\ attempt < Attempts
    /\ attempt' = attempt + 1 /\ wanted' \in SUBSET Formats
    /\ view' = 1 /\ doing' = "clear" /\ made' = {}
    /\ UNCHANGED <<disk, temp>>

ViewsEnd == ~Running /\ attempt = Attempts /\ UNCHANGED viewVars

ViewsNext ==
    \/ NoCapture \/ Unwanted \/ Clear \/ Inaudible \/ Picture \/ Write \/ Promote \/ Fail
    \/ Kill \/ Again \/ ViewsEnd
-----------------------------------------------------------------------------
ViewsTypeOK ==
    /\ attempt \in 1..Attempts /\ wanted \subseteq Formats /\ made \subseteq Formats
    /\ view \in 1..Killed
    /\ doing \in {"clear", "write", "promote", "fail"}
    /\ disk \in [Formats -> 0..Partial] /\ temp \in [Formats -> 0..Partial]

\* Whatever an earlier attempt or a kill has left in the workspace, a view that
\* is reported is whole and of this capture, a run that exits 0 has all that
\* were asked for, a picture or a sound that was asked for and is not of this
\* capture is not there at all, and a file cut short never has the name of a
\* table, a transcode or a sound.
ProductsAreFresh ==
    /\ \A f \in made : disk[f] = attempt
    /\ view = Done /\ ExitCode = 0 => (\A f \in wanted : disk[f] = attempt)
    /\ view = Done => (\A f \in (wanted \ {"ogg"}) \cup made : temp[f] = None)
    /\ view = Done => (\A f \in wanted \cap {"png", "ogg"} : disk[f] \in {None, attempt})
    /\ \A f \in {"csv", "sdf", "ogg"} : disk[f] # Partial
=============================================================================
