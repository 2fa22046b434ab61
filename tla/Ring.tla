--------------------------------- MODULE Ring ---------------------------------
(***************************************************************************)
(* native/src/ring.h: storage for Capacity frames, addressed by absolute   *)
(* frame number.  A frame's samples are abstracted to the number it was    *)
(* written under.  Both loops copy a chunk up to the end of the storage,   *)
(* then wrap around.                                                       *)
(***************************************************************************)
EXTENDS Integers, Sequences

CONSTANTS
    Capacity,     \* capacity_
    Garbage       \* what no write() has put there: data_ is not cleared

Places == 0 .. Capacity - 1
Storages == [Places -> Nat \cup {Garbage}]
Blank == [p \in Places |-> Garbage]

\* slot(): the first frame's place in the storage
Slot(frame) == frame % Capacity

\* Mutant of Chunk: one iteration copies everything, past the storage's end.
WholeChunk(frame, frames) == frames

\* The frames that one iteration copies
Chunk(frame, frames) ==
    IF Capacity - Slot(frame) < frames THEN Capacity - Slot(frame) ELSE frames

\* memcpy() into the storage; what falls past its end is lost.
Store(data, frame, chunk) ==
    [p \in Places |->
        IF p \in Slot(frame) .. Slot(frame) + chunk - 1
        THEN frame + p - Slot(frame) ELSE data[p]]

\* memcpy() out of the storage
Fetch(data, frame, chunk) ==
    [i \in 1 .. chunk |->
        IF Slot(frame) + i - 1 \in Places THEN data[Slot(frame) + i - 1] ELSE Garbage]

\* write(): the frames [frame, frame + frames), chunk by chunk.  The loop makes
\* of storage d, with n frames left to write:
Write(data, frame, frames) ==
    LET end == frame + frames
        write[n \in 0 .. frames] ==
            [d \in Storages |->
                IF n = 0 THEN d
                ELSE LET chunk == Chunk(end - n, n)
                     IN  write[n - chunk][Store(d, end - n, chunk)]]
    IN  write[frames][data]

\* read(): the same frames, in order.  The loop reads, with n frames left:
Read(data, frame, frames) ==
    LET end == frame + frames
        read[n \in 0 .. frames] ==
            IF n = 0 THEN << >>
            ELSE LET chunk == Chunk(end - n, n)
                 IN  Fetch(data, end - n, chunk) \o read[n - chunk]
    IN  read[frames]
=============================================================================
