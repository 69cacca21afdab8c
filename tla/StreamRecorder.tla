---------------------------- MODULE StreamRecorder ----------------------------
(***************************************************************************)
(* _recorder.StreamRecorder under the reader thread of a receiver: every   *)
(* chunk is offered to the capture file before it is offered to the        *)
(* decoder, and a disk that is full ends the capture and not the pass.     *)
(* Samples are numbered in the order they come from the device.            *)
(***************************************************************************)
EXTENDS Integers, Sequences

CONSTANTS
    MaxChunk,    \* samples a chunk may have
    MaxSamples   \* bound: samples of the pass

VARIABLES
    captured,    \* samples the device delivered
    room,        \* samples the disk has room for
    handle,      \* the file: "open" or "closed"
    file,        \* samples in it, in order
    decoded      \* samples passed on to the decoder
recorderVars == <<captured, room, handle, file, decoded>>

\* Opening truncates: what an earlier pass left in the workspace is gone.
RecorderInit ==
    /\ captured = 0 /\ room \in 0 .. MaxSamples /\ handle = "open" /\ file = <<>> /\ decoded = 0

Chunk(n) == [k \in 1 .. n |-> captured + k]

WriteChunkBug(n) ==          \* a failed write is only logged
    /\ n <= MaxSamples - captured /\ captured' = captured + n /\ decoded' = decoded + n
    /\ IF n <= room THEN file' = file \o Chunk(n) /\ room' = room - n
                    ELSE file' = file \o SubSeq(Chunk(n), 1, room) /\ room' = 0
    /\ UNCHANGED handle

\* What fits of a chunk that fails is in the file; the handle is closed, and
\* later chunks are dropped even if the disk has room again.
WriteChunk(n) ==
    /\ n <= MaxSamples - captured /\ captured' = captured + n /\ decoded' = decoded + n
    /\ CASE handle = "closed" -> UNCHANGED <<room, handle, file>>
         [] handle = "open" /\ n <= room ->
              file' = file \o Chunk(n) /\ room' = room - n /\ UNCHANGED handle
         [] handle = "open" /\ n > room ->
              file' = file \o SubSeq(Chunk(n), 1, room) /\ room' = 0 /\ handle' = "closed"

\* Something else on the host deletes its files.
DiskFrees == room = 0 /\ room' = MaxChunk /\ UNCHANGED <<captured, handle, file, decoded>>

\* The reader's finally; a second close does nothing.
CloseRecorder == handle' = "closed" /\ UNCHANGED <<captured, room, file, decoded>>

RecorderNext == (\E n \in 1 .. MaxChunk : WriteChunk(n)) \/ DiskFrees \/ CloseRecorder
-----------------------------------------------------------------------------
\* The capture is a prefix of what the device delivered, with no hole in it,
\* and the decoder misses nothing of a pass whose capture failed.
CaptureIsPrefix ==
    /\ Len(file) <= captured /\ \A k \in DOMAIN file : file[k] = k
    /\ decoded = captured
=============================================================================
