----------------------------- MODULE RingPipeline -----------------------------
(***************************************************************************)
(* native/src/ring_pipeline.{h,cpp}: a started pipeline, from publication  *)
(* in start() to stop().  Actors:                                          *)
(*   eSDK         Enqueue, Clear, SetPlayState (also from its callback)    *)
(*   ack thread   AckLoop, CallbackReturns                                 *)
(*   audio thread FillBegin and one action per iteration of fill()'s loop  *)
(*   Java         OnMetadata, SetCrossfadeMs                               *)
(* mu_ is held from FillBegin until the buffer is full: `filling' counts   *)
(* the frames still wanted, and every other action that takes mu_ needs    *)
(* filling = 0.  The other handlers hold mu_ throughout and are one action.*)
(*                                                                         *)
(* Samples are abstracted to the absolute frame they sit at.  The ghosts   *)
(* heard, replayed and overflowed record what reached the real player.     *)
(***************************************************************************)
EXTENDS BoundaryModel, Sequences

CONSTANTS
    Capacity,         \* ring_.capacity(): rate * kRingSeconds frames
    OutFrames,        \* outFrames_
    MinLeadMs,        \* kMinLeadMs
    ArmCapMs,         \* kArmCapSeconds
    MaxZeroDropMs,    \* kMaxZeroDropMs
    ProbeMs,          \* kProbeMs
    AheadMs,          \* kReanchorAheadMs
    BehindMs,         \* kReanchorBehindMs
    Crossfades,       \* values setCrossfadeMs is called with, after its clamp
    PlayStates,       \* setPlayState calls: PLAYING (TRUE) or not
    BufferSizes,      \* frames of an eSDK buffer
    Depth,            \* buffers the eSDK keeps enqueued (its numBuffers)
    Durations,        \* durationMs of an announcement
    Positions,        \* positionMs of an announcement
    MaxWritten,       \* bound: frames the eSDK delivers in a behaviour
    MaxClears         \* bound: Clear calls in a behaviour

ASSUME SizesAssumption ==
    /\ Capacity \in Nat \ {0} /\ OutFrames \in Nat \ {0}
    /\ Depth \in Nat \ {0} /\ MaxWritten \in Nat /\ MaxClears \in Nat
    /\ BufferSizes \subseteq 1 .. Capacity
ASSUME TimesAssumption ==
    /\ MinLeadMs \in Nat /\ ArmCapMs \in Nat /\ MaxZeroDropMs \in Nat
    /\ ProbeMs \in Nat /\ AheadMs \in Nat /\ BehindMs \in Nat
ASSUME InputsAssumption ==
    /\ PlayStates \subseteq BOOLEAN
    /\ Crossfades \subseteq Nat /\ Durations \subseteq Nat /\ Positions \subseteq Nat

VARIABLES
    written, read,    \* written_, read_
    pending,          \* pending_, with notBeforeMs as the time still to wait
    playing,          \* playing_
    sounding,         \* external: the real player is in SL_PLAYSTATE_PLAYING
    crossfadeMs,      \* crossfadeMs_
    fade,             \* fadeScheduled_ .. fadeKB_, NoFade when not scheduled
    arm,              \* armed_ .. armReanchored_
    probeAhead,       \* max(lastProbeMs_ - now, 0)
    inCallback,       \* the ack thread is inside doneFn_, without mu_
    filling,          \* frames fill() has still to produce; 0: mu_ is free
    clears,           \* bound: Clear calls so far
    heard,            \* ghost: frames given to the real player
    replayed,         \* ghost: some frame was given to it twice
    overflowed        \* overflows_ > 0

fillVars == <<read, fade, filling, heard, replayed>>
deliveryVars == <<written, pending, arm, probeAhead, overflowed>>
controlVars == <<playing, sounding, crossfadeMs, inCallback, clears>>
vars == <<fillVars, deliveryVars, controlVars, boundaryVars>>

-----------------------------------------------------------------------------
\* X_ and T_, which recomputeTargets keeps equal to these
X == Frames(crossfadeMs)
MinLead == Frames(MinLeadMs)
T == IF X > 0 THEN Greatest(X + Rate, MinLead) ELSE MinLead

NoFade == [scheduled |-> FALSE, at |-> 0, start |-> 0, n |-> 0, nA |-> 0,
           b |-> 0, kB |-> 0]
Armed(w) == [on |-> TRUE, frame |-> w, dropped |-> 0, sawZero |-> FALSE,
             reanchored |-> FALSE]

FadeRecord == [scheduled : BOOLEAN, at : Nat, start : Nat, n : Nat, nA : Nat,
               b : Nat, kB : Nat]
ArmRecord == [on : BOOLEAN, frame : Nat, dropped : Nat, sawZero : BOOLEAN,
              reanchored : BOOLEAN]
PendingRecord == [end : Nat, dropped : BOOLEAN, wait : Nat]

TypeOK ==
    /\ BoundaryTypeOK
    /\ written \in Nat /\ read \in Nat
    /\ pending \in Seq(PendingRecord)
    /\ playing \in BOOLEAN /\ sounding \in BOOLEAN
    /\ crossfadeMs \in Crossfades
    /\ fade \in FadeRecord
    /\ arm \in ArmRecord
    /\ probeAhead \in Nat
    /\ inCallback \in BOOLEAN
    /\ filling \in 0 .. OutFrames
    /\ clears \in Nat
    /\ heard \subseteq Nat
    /\ replayed \in BOOLEAN /\ overflowed \in BOOLEAN

\* The state start() publishes: the player start is itself a boundary.
Init ==
    /\ BoundaryInit
    /\ written = 0 /\ read = 0
    /\ pending = <<>>
    /\ playing = FALSE /\ sounding = FALSE
    /\ crossfadeMs \in Crossfades
    /\ fade = NoFade
    /\ arm = Armed(0)
    /\ probeAhead = 0
    /\ inCallback = FALSE
    /\ filling = 0
    /\ clears = 0
    /\ heard = {} /\ replayed = FALSE /\ overflowed = FALSE

-----------------------------------------------------------------------------
(* Boundary decisions and acknowledgements *)

\* Mutant of PastMixed: the parked read_ of a fade is forgotten.
NothingMixed == read

\* Where apply() first moves read_ to: past the incoming frames already mixed
PastMixed == IF fade.scheduled /\ fade.kB > 0 THEN Greatest(read, fade.b) ELSE read

ScheduledFade(d) ==
    [scheduled |-> TRUE, at |-> d.at, start |-> d.at - d.n, n |-> d.n,
     nA |-> d.n, b |-> d.at, kB |-> 0]

\* Mutant of Apply: the cut does not check that it moves forward.
ApplyBackwards(d) ==
    \/ d.kind = "None" /\ UNCHANGED <<read, fade>>
    \/ d.kind = "Cut" /\ read' = Least(d.at, written) /\ fade' = NoFade
    \/ d.kind = "Fade" /\ read' = PastMixed /\ fade' = ScheduledFade(d)

\* Mutant of Apply: a cut does not end the fade under way.
ApplyKeepsFade(d) ==
    \/ d.kind = "None" /\ UNCHANGED <<read, fade>>
    \/ /\ d.kind = "Cut"
       /\ read' = Greatest(PastMixed, Least(d.at, written))
       /\ UNCHANGED fade
    \/ d.kind = "Fade" /\ read' = PastMixed /\ fade' = ScheduledFade(d)

\* apply(), and not calling it for None
Apply(d) ==
    \/ /\ d.kind = "None"
       /\ UNCHANGED <<read, fade>>
    \/ /\ d.kind = "Cut"
       /\ read' = Greatest(PastMixed, Least(d.at, written))
       /\ fade' = NoFade
    \/ /\ d.kind = "Fade"
       /\ read' = PastMixed
       /\ fade' = ScheduledFade(d)

\* Mutant of Frontier: both ramps are counted.
FrontierPastBothRamps(r, f) == IF f.scheduled THEN r + f.n + f.nA ELSE r

\* Mutant of Frontier: the gate does not count the length of the fade.
FrontierAtRead(r, f) == r

Frontier(r, f) == IF f.scheduled THEN r + f.n ELSE r

\* Mutant of AckReady: a probe is only released at its exact time.
AckAtProbeTime(r, f) ==
    /\ pending # <<>>
    /\ IF Head(pending).dropped
       THEN playing /\ Head(pending).wait = probeAhead /\ probeAhead > 0
       ELSE Head(pending).end <= Frontier(r, f) + T

\* ackReady() for read_ = r and fade state f
AckReady(r, f) ==
    /\ pending # <<>>
    /\ IF Head(pending).dropped
       THEN playing /\ Head(pending).wait = 0
       ELSE Head(pending).end <= Frontier(r, f) + T

\* One iteration of ackLoop() up to where it gives mu_ up.
AckLoop ==
    /\ filling = 0 /\ ~inCallback
    /\ FlushTimedOut \/ AckReady(read, fade)   \* otherwise nothing changes
    /\ BoundaryTick
    /\ Apply(TickDecision)
    /\ inCallback' = AckReady(read', fade')
    /\ pending' = IF inCallback' THEN Tail(pending) ELSE pending
    /\ UNCHANGED <<filling, heard, replayed, written, arm, probeAhead, overflowed,
                   playing, sounding, crossfadeMs, clears>>

CallbackReturns ==
    /\ inCallback
    /\ inCallback' = FALSE
    /\ UNCHANGED <<fillVars, deliveryVars, playing, sounding, crossfadeMs, clears,
                   boundaryVars>>

\* Time passes (fill() never reads the clock).
ClockTick ==
    /\ filling = 0
    /\ BoundaryClock
    /\ pending' = [i \in DOMAIN pending |->
                     [pending[i] EXCEPT !.wait = Greatest(0, @ - 1)]]
    /\ probeAhead' = Greatest(0, probeAhead - 1)
    /\ UNCHANGED <<fillVars, written, arm, overflowed, controlVars>>

-----------------------------------------------------------------------------
(* Java *)

\* The announced position without the padding dropped in this arm
CorrectedPosition(pos) ==
    pos - Least(pos, (arm.dropped * Second) \div Rate)

OnMetadata(t, dur, pos) ==
    LET d == MetadataDecision(t, written, read, X)
    IN  /\ filling = 0
        /\ BoundaryOnMetadata(t, dur, CorrectedPosition(pos), written, d)
        /\ Apply(d)
        \* lastPlaybackId_ is always the id of the model's current track
        /\ IF IsNew(t)
           THEN arm' = Armed(written) /\ probeAhead' = 0
           ELSE UNCHANGED <<arm, probeAhead>>
        /\ UNCHANGED <<filling, heard, replayed, written, pending, overflowed,
                       controlVars>>

SetCrossfadeMs(ms) ==
    /\ filling = 0
    /\ crossfadeMs' = ms
    /\ UNCHANGED <<fillVars, deliveryVars, playing, sounding, inCallback, clears,
                   boundaryVars>>

-----------------------------------------------------------------------------
(* eSDK *)

\* setPlayState sets playing_ under mu_ and calls the real player after it.
SetPlayState(p) ==
    /\ filling = 0
    /\ sounding = playing            \* the previous call has returned
    /\ playing' = p
    /\ UNCHANGED <<fillVars, deliveryVars, sounding, crossfadeMs, inCallback,
                   clears, boundaryVars>>

ForwardPlayState ==
    /\ sounding # playing
    /\ sounding' = playing
    /\ UNCHANGED <<fillVars, deliveryVars, playing, crossfadeMs, inCallback,
                   clears, boundaryVars>>

\* Cleared buffers get no callback; their audio stays in the ring.
Clear ==
    /\ filling = 0
    /\ sounding = playing            \* same thread as setPlayState
    /\ clears < MaxClears
    /\ clears' = clears + 1
    /\ pending' = <<>>
    /\ BoundaryOnFlush(written)
    /\ arm' = Armed(written)
    /\ probeAhead' = 0
    /\ UNCHANGED <<fillVars, written, overflowed, playing, sounding, crossfadeMs,
                   inCallback>>

\* External: the eSDK never has more than Depth buffers outstanding.
CanEnqueue == filling = 0 /\ Len(pending) < Depth

\* enqueue() of an all-zero buffer while armed: padding, never written
DropPadding(n) ==
    /\ CanEnqueue
    /\ arm.on
    /\ arm' = [arm EXCEPT !.on = arm.dropped + n < Frames(MaxZeroDropMs),
                          !.dropped = @ + n, !.sawZero = TRUE]
    /\ probeAhead' = probeAhead + ProbeMs
    /\ pending' = Append(pending, [end |-> written, dropped |-> TRUE,
                                   wait |-> probeAhead'])
    /\ UNCHANGED <<fillVars, written, overflowed, controlVars, boundaryVars>>

-----------------------------------------------------------------------------
(* enqueue() of anything else: re-anchor, overflow, write, end of the arm *)

FirstAudio == arm.on /\ arm.sawZero /\ ~arm.reanchored

\* Only the fade of this boundary, and only if the audio landed near it
Reanchors ==
    /\ FirstAudio
    /\ fade.scheduled
    /\ fade.at >= arm.frame
    /\ written <= fade.at + Frames(AheadMs)
    /\ written + Frames(BehindMs) >= fade.at

FadeStarted == read >= fade.start

\* Mutant of RefitRamp: k0 restarts at the re-anchored boundary.
FreshRamp(r, k0, nA0) == r

\* Mutant of RefitRamp: the ramp is not capped at the new boundary.
UncappedRamp(r, k0, nA0) ==
    LET den == 2 * nA0 - 2 * k0 - 1
    IN  IF den > 0 THEN (4 * nA0 * r + den) \div (2 * den) ELSE r

\* The cap that keeps fadeNA_ within 32 bits
LongestRamp == 1000000000

\* llround(r / (1 - (k0 + 0.5) / nA0)), the outgoing ramp that has r frames
\* left and keeps the gain reached at k0 of nA0; capped at the new boundary.
RefitRamp(r, k0, nA0) ==
    LET den == 2 * nA0 - 2 * k0 - 1
        num == 2 * nA0 * r
        cap == Least(written, LongestRamp)
        fit == IF den > 0 THEN (2 * num + den) \div (2 * den) ELSE cap
    IN  Greatest(Least(fit, cap), r)

\* Mutant of Reanchored: the incoming cursor stays at the old boundary.
KeepsCursor(r) ==
    LET nA == Least(X, Greatest(0, written - r))
    IN  IF nA < Frames(MinTailMs) THEN NoFade
        ELSE [fade EXCEPT !.at = written, !.nA = nA, !.start = written - nA]

\* reanchorFade(): the fade after it, the read position after it being r
Reanchored(r) ==
    LET left == Greatest(0, written - r)
        nA   == CASE ~FadeStarted -> Least(X, left)
                  [] FadeStarted /\ left = 0 -> 1
                  [] FadeStarted /\ left > 0 ->
                       RefitRamp(left, read - fade.start, Greatest(fade.nA, 1))
    IN  IF ~FadeStarted /\ left < Frames(MinTailMs) THEN NoFade
        ELSE [fade EXCEPT !.at = written, !.b = written, !.kB = 0, !.nA = nA,
                          !.start = IF FadeStarted /\ left = 0
                                    THEN written ELSE written - nA]

\* Still armed with arm state a, having written up to w?
StaysArmed(a, w, r, f) ==
    LET lead   == Greatest(0, w - Greatest(r, a.frame))
        target == T + (IF f.scheduled THEN f.n ELSE 0)
    IN  lead < target /\ w - a.frame < Frames(ArmCapMs)

WriteAudio(n) ==
    LET r == IF Reanchors /\ fade.kB > 0 THEN Greatest(read, fade.b) ELSE read
        w == written + n
        overflow == w > r + Capacity
        a == [arm EXCEPT !.reanchored = @ \/ FirstAudio]
    IN  /\ CanEnqueue
        /\ w <= MaxWritten
        /\ fade' = IF Reanchors THEN Reanchored(r) ELSE fade
        /\ read' = IF overflow THEN w - Capacity ELSE r
        /\ overflowed' = (overflowed \/ overflow)
        /\ written' = w
        /\ pending' = Append(pending, [end |-> w, dropped |-> FALSE, wait |-> 0])
        /\ arm' = [a EXCEPT !.on = @ /\ StaysArmed(a, w, read', fade')]
        /\ UNCHANGED <<filling, heard, replayed, probeAhead, controlVars,
                       boundaryVars>>

Enqueue(n) == DropPadding(n) \/ WriteAudio(n)

-----------------------------------------------------------------------------
(* Audio thread: onBackendDone -> fill *)

FillBegin ==
    /\ filling = 0
    /\ sounding
    /\ filling' = OutFrames
    /\ UNCHANGED <<read, fade, heard, replayed, deliveryVars, controlVars,
                   boundaryVars>>

PastFade == fade.scheduled /\ read > fade.at
InFade == fade.scheduled /\ fade.start <= read /\ read <= fade.at
Outgoing == InFade /\ read < fade.at
IncomingOnly == InFade /\ read = fade.at

Span(from, len) == from .. (from + len - 1)

\* `count' frames go to the output, made of the frames in `played'.
Emit(count, played) ==
    /\ filling' = filling - count
    /\ heard' = heard \cup played
    /\ replayed' = (replayed \/ played \cap heard # {})

\* Mutant of FadeProgress: a completed fade resumes at b + n.
ResumeAfterRamp(r, haveB) ==
    LET kB == fade.kB + haveB
    IN  IF r >= fade.at /\ kB >= fade.n
        THEN read' = fade.at + fade.n /\ fade' = NoFade
        ELSE read' = r /\ fade' = [fade EXCEPT !.b = @ + haveB, !.kB = kB]

\* Mutant of FadeProgress: a fade ends with its incoming ramp, whatever is
\* left of the outgoing tail.
EndWithIncoming(r, haveB) ==
    LET b == fade.b + haveB
        kB == fade.kB + haveB
    IN  IF kB >= fade.n
        THEN read' = b /\ fade' = NoFade
        ELSE read' = r /\ fade' = [fade EXCEPT !.b = b, !.kB = kB]

\* Mutant of FadeProgress: the incoming ramp is waited for one frame too long.
OneFrameMore(r, haveB) ==
    LET b == fade.b + haveB
        kB == fade.kB + haveB
    IN  IF r >= fade.at /\ kB > fade.n
        THEN read' = b /\ fade' = NoFade
        ELSE read' = r /\ fade' = [fade EXCEPT !.b = b, !.kB = kB]

\* The end of an iteration inside the fade: both ramps done, or go on.
FadeProgress(r, haveB) ==
    LET b == fade.b + haveB
        kB == fade.kB + haveB
    IN  IF r >= fade.at /\ kB >= fade.n
        THEN read' = b /\ fade' = NoFade
        ELSE read' = r /\ fade' = [fade EXCEPT !.b = b, !.kB = kB]

Undelivered == UNCHANGED <<deliveryVars, controlVars, boundaryVars>>

\* An overflow or a superseding fade moved read_ past the boundary.
FillCancel ==
    /\ filling > 0
    /\ PastFade
    /\ fade' = NoFade
    /\ UNCHANGED <<read, filling, heard, replayed>> /\ Undelivered

\* The outgoing tail mixed with what has been delivered of the incoming
FillOutgoing ==
    LET k0    == read - fade.start
        left  == IF fade.nA > k0 THEN fade.nA - k0 ELSE 1
        chunk == Least(Least(filling, fade.at - read), Least(written - read, left))
        haveB == Least(Greatest(0, written - fade.b), chunk)
    IN  /\ filling > 0
        /\ Outgoing
        /\ read < written
        /\ Emit(chunk, Span(read, chunk) \cup Span(fade.b, haveB))
        /\ FadeProgress(read + chunk, haveB)
        /\ Undelivered

\* read_ parks at the boundary until the incoming has faded in.  (Nothing is
\* left of it only if an overflow put read_ on the boundary.)
FillIncoming ==
    LET chunk == Least(filling, Greatest(0, fade.n - fade.kB))
        haveB == Least(written - fade.b, chunk)
    IN  /\ filling > 0
        /\ IncomingOnly
        /\ fade.b < written \/ fade.kB >= fade.n
        /\ Emit(haveB, Span(fade.b, haveB))
        /\ FadeProgress(read, haveB)
        /\ Undelivered

CopyLimit == IF fade.scheduled THEN Least(fade.start, written) ELSE written

FillCopy ==
    LET chunk == Least(CopyLimit - read, filling)
    IN  /\ filling > 0
        /\ ~InFade /\ ~PastFade
        /\ read < CopyLimit
        /\ Emit(chunk, Span(read, chunk))
        /\ read' = read + chunk
        /\ UNCHANGED fade /\ Undelivered

\* Supply stall: the rest of the buffer is silence.
FillUnderrun ==
    /\ filling > 0
    /\ \/ Outgoing /\ written <= read
       \/ IncomingOnly /\ written <= fade.b /\ fade.kB < fade.n
       \/ ~InFade /\ ~PastFade /\ CopyLimit <= read
    /\ filling' = 0
    /\ UNCHANGED <<read, fade, heard, replayed>> /\ Undelivered

Fill == FillCancel \/ FillOutgoing \/ FillIncoming \/ FillCopy \/ FillUnderrun

-----------------------------------------------------------------------------
Next ==
    \/ \E n \in BufferSizes : Enqueue(n)
    \/ Clear
    \/ \E p \in PlayStates : SetPlayState(p)
    \/ ForwardPlayState
    \/ AckLoop
    \/ CallbackReturns
    \/ \E t \in Tracks, dur \in Durations, pos \in Positions : OnMetadata(t, dur, pos)
    \/ \E ms \in Crossfades : SetCrossfadeMs(ms)
    \/ FillBegin
    \/ Fill
    \/ ClockTick

Spec == Init /\ [][Next]_vars

-----------------------------------------------------------------------------
(* Safety *)

\* No frame reaches the real player twice: neither the parked read_ of a fade,
\* nor a cut, a re-anchor or a second boundary in the middle of one, makes
\* fill() play again what it already mixed in (ring_pipeline.cpp:442-446).
\* An overflow moves read_ blindly and is excluded.
NoReplay == ~overflowed => ~replayed

\* read_ and the incoming cursor of a fade never run ahead of what the eSDK
\* delivered, whatever frame a boundary was predicted at.
ReadBehindWrite ==
    /\ read <= written
    /\ fade.scheduled /\ fade.kB > 0 => fade.b <= written

\* The two ramps of a fade stay anchored: the incoming is consumed without a
\* gap from the boundary on, and the outgoing ramp ends on the boundary
\* (ring_pipeline.cpp:483-486, 496) through re-anchors and setCrossfadeMs.
FadeAligned ==
    fade.scheduled =>
        /\ fade.n >= 1
        /\ fade.b = fade.at + fade.kB
        /\ read < fade.at => fade.start + fade.nA = fade.at

\* The ring is never outgrown while the eSDK calls no Clear: it only
\* delivers up to the lead target (ring_pipeline.h:28, ring_pipeline.cpp:249).
NoOverflowWithoutClear == clears = 0 => ~overflowed

-----------------------------------------------------------------------------
(* The inductive invariant behind them *)

\* A fade starts no later than its boundary, and what it consumed of the
\* incoming has been heard.
FadeWindow ==
    fade.scheduled =>
        /\ fade.start <= fade.at
        /\ \A f \in fade.at .. (fade.b - 1) : f \in heard

\* Whatever has been heard is behind read_ or in the fade's incoming window,
\* and read_ parks at the boundary once that window has opened.
HeardBehind ==
    ~overflowed =>
        /\ \A f \in heard :
              f < read \/ (fade.scheduled /\ fade.at <= f /\ f < fade.b)
        /\ fade.scheduled /\ fade.kB > 0 => read <= fade.at

FlushDelivered == flush.pending => flush.frame <= written

\* Inductive; NoReplay, ReadBehindWrite and FadeAligned are not on their own.
IInv ==
    /\ TypeOK
    /\ ReadBehindWrite
    /\ FadeAligned
    /\ FadeWindow
    /\ HeardBehind
    /\ NoReplay
    /\ FlushDelivered

-----------------------------------------------------------------------------
(* Why the ring does not overflow *)

\* How far past read_ an acknowledgement reaches, for lengths up to ms
Reach(ms) == Frames(ms) + Greatest(Frames(ms) + Rate, MinLead)

\* The ring has room for that and for the buffers the eSDK may have enqueued
\* beyond it (kRingSeconds; ring_pipeline.h:28).
RingFits(ms, buffer) ==
    /\ Crossfades \subseteq 0 .. ms
    /\ BufferSizes \subseteq 1 .. buffer
    /\ Capacity >= Reach(ms) + Depth * buffer

\* What the pending buffer p may have added to the stream
Growth(p, buffer) == IF p.dropped THEN 0 ELSE buffer

\* Inductive while RingFits: everything acknowledged is within reach of read_,
\* and each pending buffer adds at most its size.
WindowInv(ms, buffer) ==
    /\ fade.scheduled => fade.n <= Frames(ms)
    /\ Len(pending) <= Depth
    /\ clears = 0 =>
        /\ ~overflowed
        /\ pending = <<>> => written <= read + Reach(ms)
        /\ pending # <<>> => pending[1].end <= read + Reach(ms) + Growth(pending[1], buffer)
        /\ \A i \in 1 .. Len(pending) :
              written <= pending[i].end + (Len(pending) - i) * buffer
        /\ \A i \in 2 .. Len(pending) :
              pending[i].end <= pending[i - 1].end + Growth(pending[i], buffer)

-----------------------------------------------------------------------------
(* Action properties *)

\* read_ never goes back, whichever handler moves it.
ReadMonotone == [][read' >= read]_vars

\* fill() loses nothing: every frame it moves read_ past has been heard,
\* including when a fade ends and read_ jumps to the incoming cursor.
FillLosesNothing ==
    [][filling > 0 => \A f \in read .. (read' - 1) : f \in heard']_vars

\* When metadata or the timeout takes a flush, what was delivered before the
\* Clear is left for good and no earlier fade goes on: with ReadMonotone, the
\* listener of a skip or a seek hears none of it afterwards (boundary.cpp:52-54).
FlushedAudioIsLeft ==
    [][flush.pending /\ ~flush'.pending
          => read' >= flush.frame /\ ~fade'.scheduled]_vars

\* theta of the outgoing ramp is (k0 + 0.5) / nA of a quarter turn; `within
\* one sample step' of the new ramp, all multiplied out.
SameGain(k0, nA0, k1, nA1) ==
    LET diff == (2 * k1 + 1) * nA0 - (2 * k0 + 1) * nA1
    IN  -2 * nA0 <= diff /\ diff <= 2 * nA0

\* The ramp reanchorFade() fits is as long as its cap allows.
RampCapped(f) == f.nA >= Least(f.at, LongestRamp)

GainKept ==
    IF FadeStarted
    THEN read' < fade'.at /\ ~RampCapped(fade') =>
            SameGain(read - fade.start, Greatest(fade.nA, 1),
                     read' - fade'.start, fade'.nA)
    ELSE read' <= fade'.start

\* An overflow in the same call, which leaves the ring full, moves read_ on.
Reanchoring ==
    written' > written /\ written' < read' + Capacity /\ Reanchors /\ fade'.scheduled

\* A re-anchor never steps the outgoing track's gain: a fade under way keeps
\* the gain it has reached, one that was not starts from full gain
\* (ring_pipeline.cpp:138-139, 179-181).  Ramps cut short by the cap excepted.
ReanchorKeepsGain == [][Reanchoring => GainKept]_vars

-----------------------------------------------------------------------------
(* Refinement *)

\* The listener's view: the incoming window of a fade is what is heard early.
Early == IF fade.scheduled THEN fade.at .. (fade.b - 1) ELSE {}

Listener == INSTANCE Playout WITH
    delivered <- written,
    head <- read,
    early <- Early,
    overrun <- overflowed

\* Whatever the threads do, the listener gets what Playout promises: every
\* frame at most once and in order, the next track early only from its
\* boundary on and without a gap, nothing passed over but by a boundary.
Implements == Listener!Spec

-----------------------------------------------------------------------------
(* What the documents say and the code does not do *)

\* docs/overview.md:13-14: with crossfade off the tracks follow each other as
\* in the stock app, so without a Clear no delivered frame is passed over.  The
\* cut a natural transition then gets passes the rest of the tail over.
OffPlaysEverything == clears = 0 => \A f \in 0 .. (read - 1) : f \in heard

-----------------------------------------------------------------------------
(* Liveness *)

\* mu_ is held for microseconds of every buffer period, so a thread waiting
\* for it gets it: strong fairness where fill() can disable an action again
\* and again.  The real player completes buffers while it plays.
ThreadFairness ==
    /\ SF_vars(AckLoop)
    /\ SF_vars(ClockTick)
    /\ WF_vars(CallbackReturns)
    /\ WF_vars(ForwardPlayState)
    /\ WF_vars(FillBegin)
    /\ WF_vars(Fill)

\* External: the eSDK refills its queue with audio whenever it can.
DeliveryFairness == SF_vars(\E n \in BufferSizes : WriteAudio(n))

FairSpec == Spec /\ ThreadFairness
DeliveringSpec == FairSpec /\ DeliveryFairness

\* A Clear is always followed by its cut: metadata or the timeout takes it.
FlushResolves == flush.pending ~> ~flush.pending

\* The eSDK is never left waiting for an acknowledgement while it plays: the
\* lead gate, a parked fade and the padding probes do not wait on each other.
AckProgress == (sounding /\ Len(pending) = Depth) ~> (Len(pending) < Depth \/ ~playing)

\* What fill() would need next has not been delivered.
Starved ==
    \/ ~IncomingOnly /\ read >= written
    \/ IncomingOnly /\ fade.b >= written

\* No fade hangs while the audio it needs is there.
FadesEnd == []<>(~fade.scheduled \/ ~playing \/ Starved)

\* While it plays, everything the eSDK has gets delivered.
DeliveryCompletes == <>[]sounding => <>(written = MaxWritten)
=============================================================================
