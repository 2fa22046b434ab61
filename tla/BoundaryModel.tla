---------------------------- MODULE BoundaryModel ----------------------------
(***************************************************************************)
(* native/src/boundary.{h,cpp}: turns flushes, metadata and time into      *)
(* None / Cut / Fade decisions.  The C++ class is pure, so this module has *)
(* no Next of its own: it gives the class's state, what each method does   *)
(* to it and what it returns; RingPipeline and TrackChanges compose it.    *)
(*                                                                         *)
(* Frames are absolute positions in the delivered stream.  Time is kept as *)
(* ages in clock units (Second of them make one second), saturated one     *)
(* past the only window each is compared with, so no clock is needed.      *)
(***************************************************************************)
EXTENDS Integers

CONSTANTS
    Tracks,          \* playback ids
    Music,           \* those that are neither ads nor spotify:episode: items
    NoTrack,         \* hasCurrent_ = false
    Rate,            \* frames per second
    Second,          \* clock units per second: 1000 in the code
    FlushWindowMs,   \* kFlushWindowMs
    MinTailMs,       \* kMinTailMs
    SanityWindowMs,  \* kSanityWindowMs
    LateMetadataMs   \* kLateMetadataMs

\* `ms * rate / 1000', the integer conversion the code uses everywhere
Frames(ms) == (ms * Rate) \div Second

ASSUME TracksAssumption == Music \subseteq Tracks /\ NoTrack \notin Tracks
ASSUME ClockAssumption == Rate \in Nat \ {0} /\ Second \in Nat \ {0}
ASSUME WindowAssumption ==
    /\ FlushWindowMs \in Nat
    /\ MinTailMs \in Nat
    /\ SanityWindowMs \in Nat
    /\ LateMetadataMs \in Nat
\* Holds from 5 Hz up; a fade of no frames is not a fade.
ASSUME MinTailAssumption == Frames(MinTailMs) >= 1

VARIABLES
    current,         \* the playback id of current_, or NoTrack
    predicted,       \* frame at which current_ should end, or NoPrediction
    flush,           \* flushPending_, flushFrame_, now - flushTimeMs_
    lateCut          \* lateCutValid_, lateCutFrame_, now - lateCutTimeMs_

boundaryVars == <<current, predicted, flush, lateCut>>

Least(a, b) == IF a <= b THEN a ELSE b
Greatest(a, b) == IF a >= b THEN a ELSE b

NoPrediction == -1
Idle == [pending |-> FALSE, frame |-> 0, age |-> 0]
NoFlush == Idle
NoLateCut == Idle

None == [kind |-> "None", at |-> 0, n |-> 0]
Cut(b) == [kind |-> "Cut", at |-> b, n |-> 0]
Fade(b, len) == [kind |-> "Fade", at |-> b, n |-> len]

BoundaryTypeOK ==
    /\ current \in Tracks \cup {NoTrack}
    /\ predicted \in Nat \cup {NoPrediction}
    /\ flush \in [pending : BOOLEAN, frame : Nat, age : 0 .. FlushWindowMs + 1]
    /\ lateCut \in [pending : BOOLEAN, frame : Nat, age : 0 .. LateMetadataMs + 1]

BoundaryInit ==
    /\ current = NoTrack
    /\ predicted = NoPrediction
    /\ flush = NoFlush
    /\ lateCut = NoLateCut

-----------------------------------------------------------------------------
IsNew(t) == t # current

\* decide(): crossfade is crossfade_, r the playback position
Decide(b, t, r, crossfade) ==
    LET tail == Greatest(0, b - r)
    IN  IF /\ crossfade > 0
           /\ {current, t} \subseteq Music
           /\ tail >= Frames(MinTailMs)
        THEN Fade(b, Least(tail, crossfade))
        ELSE Cut(b)

\* The frame a natural transition announced at w is placed at: the one
\* predicted from the outgoing track's duration when it is plausible.
NaturalBoundary(w) ==
    IF /\ predicted # NoPrediction
       /\ predicted - w <= Frames(SanityWindowMs)
       /\ w - predicted <= Frames(SanityWindowMs)
    THEN predicted ELSE w

\* Mutant of IsLateAnnouncement: the last moment of the window is left out.
IsLateWithinWindow(t) ==
    /\ IsNew(t) /\ current # NoTrack
    /\ lateCut.pending /\ lateCut.age < LateMetadataMs

IsLateAnnouncement(t) ==
    /\ IsNew(t) /\ current # NoTrack
    /\ lateCut.pending /\ lateCut.age <= LateMetadataMs

IsNatural(t) ==
    /\ ~flush.pending
    /\ IsNew(t) /\ current # NoTrack
    /\ ~IsLateAnnouncement(t)

\* What onMetadata returns.  Its three flush branches (aged out, skip, seek)
\* differ only in what they log.
MetadataDecision(t, w, r, crossfade) ==
    CASE flush.pending -> Cut(flush.frame)
      [] IsNatural(t)  -> Decide(NaturalBoundary(w), t, r, crossfade)
      [] OTHER         -> None

\* Mutant of StartFrame: a late announcement starts where it arrives.
StartAtAnnouncement(t, w, d) == IF d.kind # "None" THEN d.at ELSE w

\* Where the announced track starts: startFrame_
StartFrame(t, w, d) ==
    CASE d.kind # "None" -> d.at
      [] d.kind = "None" /\ IsLateAnnouncement(t) -> lateCut.frame
      [] OTHER -> w

Prediction(start, dur, pos) ==
    IF dur > 0 /\ dur >= pos THEN start + Frames(dur - pos) ELSE NoPrediction

\* onMetadata of track t, d being the decision it returns
BoundaryOnMetadata(t, dur, pos, w, d) ==
    /\ current' = t
    /\ predicted' = Prediction(StartFrame(t, w, d), dur, pos)
    /\ flush' = NoFlush
    /\ lateCut' = IF flush.pending \/ (IsNew(t) /\ current # NoTrack)
                  THEN NoLateCut ELSE lateCut

\* onFlush: a burst of Clears collapses into the latest one
BoundaryOnFlush(w) ==
    /\ flush' = [pending |-> TRUE, frame |-> w, age |-> 0]
    /\ lateCut' = NoLateCut
    /\ UNCHANGED <<current, predicted>>

\* Mutant of FlushTimedOut: only the tick at the deadline itself counts.
FlushJustTimedOut == flush.pending /\ flush.age = FlushWindowMs

FlushTimedOut == flush.pending /\ flush.age > FlushWindowMs

TickDecision == IF FlushTimedOut THEN Cut(flush.frame) ELSE None

\* tick: a flush that got no metadata becomes a cut, remembered for a while
BoundaryTick ==
    /\ IF FlushTimedOut
       THEN /\ flush' = NoFlush
            /\ lateCut' = [pending |-> TRUE, frame |-> flush.frame, age |-> 0]
       ELSE UNCHANGED <<flush, lateCut>>
    /\ UNCHANGED <<current, predicted>>

\* One clock unit passes.
Aged(x, window) ==
    IF x.pending THEN [x EXCEPT !.age = Least(@ + 1, window + 1)] ELSE x

BoundaryClock ==
    /\ flush' = Aged(flush, FlushWindowMs)
    /\ lateCut' = Aged(lateCut, LateMetadataMs)
    /\ UNCHANGED <<current, predicted>>
=============================================================================
