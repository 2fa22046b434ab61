------------------------------ MODULE PcmDumper ------------------------------
(***************************************************************************)
(* native/src/dump.{h,cpp}: the debug dump.  push() runs on the audio      *)
(* thread for every output buffer; trigger() only sets a flag, from any    *)
(* thread.  The dumper numbers the frames it is given by pushed_; what it  *)
(* is given is what the caller's buffer holds.                             *)
(***************************************************************************)
EXTENDS Integers, Sequences

CONSTANTS
    HistoryFrames,   \* kHistorySeconds of output
    TailFrames,      \* kTailSeconds of output
    Silence          \* what setup() fills history_ with

ASSUME DumpAssumption == HistoryFrames \in Nat \ {0} /\ TailFrames \in Nat \ {0}

VARIABLES
    enabled,     \* enabled_
    triggered,   \* triggered_
    slots,       \* history_
    pushed,      \* pushed_
    file,        \* file_ and remaining_, with what was written and pushed_ at the start
    disk,        \* external: the files closed so far, oldest first
    refused      \* ghost: the values of pushed_ at which fopen failed

dumpVars == <<enabled, triggered, slots, pushed, file, disk, refused>>

NoFile == [open |-> FALSE, frames |-> <<>>, remaining |-> 0, at |-> 0]

DumpTypeOK(Frame) ==
    /\ enabled \in BOOLEAN /\ triggered \in BOOLEAN
    /\ slots \in [0 .. HistoryFrames - 1 -> Frame \cup {Silence}]
    /\ pushed \in Nat
    /\ file \in [open : BOOLEAN, frames : Seq(Frame), remaining : 0 .. TailFrames, at : Nat]
    /\ disk \in Seq([frames : Seq(Frame), at : Nat])
    /\ refused \subseteq Nat

\* configure(): on when the property, the directory and the format all say so
DumpInit ==
    /\ enabled \in BOOLEAN
    /\ triggered = FALSE
    /\ slots = [s \in 0 .. HistoryFrames - 1 |-> Silence]
    /\ pushed = 0 /\ file = NoFile
    /\ disk = <<>> /\ refused = {}

Fewest(a, b) == IF a < b THEN a ELSE b
Most(a, b) == IF a > b THEN a ELSE b

\* trigger()
Trigger ==
    /\ triggered' = (triggered \/ enabled)
    /\ UNCHANGED <<enabled, slots, pushed, file, disk, refused>>

-----------------------------------------------------------------------------
\* What a file closed now leaves on disk
Closed(f) == IF f.open THEN Append(disk, [frames |-> f.frames, at |-> f.at]) ELSE disk

\* Mutant of HistoryStart: the history is taken to be full.
HistoryFromFull == pushed - HistoryFrames

HistoryStart == Most(pushed - HistoryFrames, 0)

\* startFile(), when fopen succeeds: the history in order, and all of the tail to come
Started ==
    LET start == HistoryStart
    IN  [open |-> TRUE,
         frames |-> [i \in 1 .. (pushed - start) |-> slots[(start + i - 1) % HistoryFrames]],
         remaining |-> TailFrames, at |-> pushed]

\* The history ring once the frames are in: slot s holds the latest frame
\* whose number is s modulo the ring, if that is one of them.
LatestIn(s, end) == end - 1 - ((end - 1 - s) % HistoryFrames)

Folded(frames) ==
    [s \in 0 .. HistoryFrames - 1 |->
        LET f == LatestIn(s, pushed + Len(frames))
        IN  IF f >= pushed THEN frames[f - pushed + 1] ELSE slots[s]]

\* The file once it has had its share of the frames
Extended(f, frames) ==
    LET w == Fewest(f.remaining, Len(frames))
    IN  [f EXCEPT !.frames = @ \o SubSeq(frames, 1, w), !.remaining = @ - w]

\* The rest of push(), with the file that is open once the flag has been seen to
PushInto(begun, before, frames) ==
    LET now == IF begun.open THEN Extended(begun, frames) ELSE NoFile
        done == now.open /\ now.remaining = 0
    IN  /\ triggered' = FALSE
        /\ slots' = Folded(frames)
        /\ pushed' = pushed + Len(frames)
        /\ file' = IF done THEN NoFile ELSE now
        /\ disk' = IF done THEN Append(before, [frames |-> now.frames, at |-> now.at])
                   ELSE before
        /\ UNCHANGED enabled

\* push(): a trigger ends the file being written and starts another, which
\* fopen may refuse.
Push(frames) ==
    IF ~enabled THEN UNCHANGED dumpVars
    ELSE \/ /\ ~triggered
            /\ PushInto(file, disk, frames) /\ UNCHANGED refused
         \/ /\ triggered
            /\ PushInto(Started, Closed(file), frames) /\ UNCHANGED refused
         \/ /\ triggered
            /\ PushInto(NoFile, Closed(file), frames) /\ refused' = refused \cup {pushed}

\* ~PcmDumper()
DumpClose ==
    /\ disk' = Closed(file)
    /\ file' = NoFile
    /\ UNCHANGED <<enabled, triggered, slots, pushed, refused>>
=============================================================================
