------------------------------ MODULE RingStorage ------------------------------
(***************************************************************************)
(* RingPipeline on the storage of native/src/ring.h: enqueue() writes the  *)
(* buffer it delivers into it, fill() reads the frames of its spans from   *)
(* it, and nothing else touches it (ring_pipeline.cpp:254, 501-505, 528,   *)
(* 554).  RingPipeline names the frames heard by their absolute numbers;   *)
(* here it is shown that those are the frames the storage gives back.      *)
(***************************************************************************)
EXTENDS RingPipeline

CONSTANT Garbage    \* what the storage holds before anything is written

ASSUME GarbageAssumption == Garbage \notin Nat

VARIABLE slots    \* ring_

Storage == INSTANCE Ring

StorageInit == Init /\ slots = Storage!Blank

StorageNext ==
    /\ Next
    /\ slots' = IF written' > written
                THEN Storage!Write(slots, written, written' - written)
                ELSE slots

StorageSpec == StorageInit /\ [][StorageNext]_<<vars, slots>>

\* Whatever fill() may ask for next comes back as it was delivered, through
\* every wrap and after an overflow: nothing between read_ and written_, where
\* both cursors of a fade are, has been written over, and no copy runs past the
\* end of the storage (ring.h:9-10, 34-55; ring_pipeline.cpp:246-253).
ReadsWhatWasWritten ==
    \A f \in read .. written - 1 :
        LET n == Least(OutFrames, written - f)
        IN  Storage!Read(slots, f, n) = [i \in 1 .. n |-> f + i - 1]

\* Inductive: of what is delivered, the storage still holds one ring, and read_
\* is never further behind than that.
StorageInv ==
    /\ IInv
    /\ slots \in Storage!Storages
    /\ written <= read + Capacity
    /\ \A f \in 0 .. written - 1 : written - Capacity <= f
                                    => slots[Storage!Slot(f)] = f
=============================================================================
