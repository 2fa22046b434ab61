-------------------------- MODULE RingPipelineProofs --------------------------
(***************************************************************************)
(* Proofs about RingPipeline for every value of its constants.             *)
(***************************************************************************)
EXTENDS RingPipeline, TLAPS

-----------------------------------------------------------------------------
(* Arithmetic *)

\* Integer division of naturals is a natural.
LEMMA DivNat ==
    ASSUME NEW a \in Nat, NEW b \in Nat \ {0}
    PROVE  a \div b \in Nat
BY SMT

\* A frame of an interval lies between its ends (SMT alone misses the second bound).
LEMMA Between ==
    ASSUME NEW a \in Nat, NEW b \in Nat, NEW f \in a .. (b - 1)
    PROVE  f \in Nat /\ a <= f /\ f < b
BY SMT

\* Milliseconds convert to a number of frames.
LEMMA FramesNat ==
    ASSUME NEW ms \in Nat
    PROVE  Frames(ms) \in Nat
<1>1. ms * Rate \in Nat
    BY ClockAssumption, SMT
<1> QED
    BY <1>1, DivNat, ClockAssumption DEF Frames

\* The lead target is a number of frames.
LEMMA LeadNat ==
    ASSUME crossfadeMs \in Nat
    PROVE  X \in Nat /\ T \in Nat
<1>1. Frames(crossfadeMs) \in Nat /\ Frames(MinLeadMs) \in Nat
    BY FramesNat, TimesAssumption
<1> QED
    BY <1>1, ClockAssumption DEF X, T, MinLead, Greatest

\* The corrected position is never negative.
LEMMA CorrectedNat ==
    ASSUME arm.dropped \in Nat, NEW pos \in Nat
    PROVE  CorrectedPosition(pos) \in Nat
<1>1. arm.dropped * Second \in Nat
    BY ClockAssumption, SMT
<1>2. (arm.dropped * Second) \div Rate \in Nat
    BY <1>1, DivNat, ClockAssumption
<1> QED
    BY <1>2 DEF CorrectedPosition, Least

LEMMA LongestRampNat == LongestRamp \in Nat
BY SMT DEF LongestRamp

\* A re-fitted ramp is no shorter than what is left of it and fits before the
\* new boundary.
LEMMA RefitBounds ==
    ASSUME written \in Nat, NEW r \in Nat, r <= written,
           NEW k0 \in Nat, NEW nA0 \in Nat
    PROVE  /\ RefitRamp(r, k0, nA0) \in Nat
           /\ r <= RefitRamp(r, k0, nA0)
           /\ RefitRamp(r, k0, nA0) <= written
<1> DEFINE den == 2 * nA0 - 2 * k0 - 1
           num == 2 * nA0 * r
           cap == Least(written, LongestRamp)
           fit == IF den > 0 THEN (2 * num + den) \div (2 * den) ELSE cap
<1>1. cap \in Nat /\ cap <= written
    BY LongestRampNat DEF Least
<1>2. den \in Int /\ num \in Nat
    BY SMT
<1>3. fit \in Nat
    <2>1. CASE den > 0
        <3>1. 2 * num + den \in Nat /\ 2 * den \in Nat \ {0}
            BY <1>2, <2>1
        <3> QED
            BY <3>1, <2>1, DivNat
    <2>2. CASE ~(den > 0)
        BY <2>2, <1>1
    <2> QED
        BY <2>1, <2>2
<1>4. RefitRamp(r, k0, nA0) = Greatest(Least(fit, cap), r)
    BY DEF RefitRamp
<1> HIDE DEF fit, cap, den, num
<1> QED
    BY <1>1, <1>3, <1>4 DEF Greatest, Least

-----------------------------------------------------------------------------
(* Initial states *)

\* start() publishes a state in which nothing has been delivered or heard.
LEMMA InitIInv == Init => IInv
<1> SUFFICES ASSUME Init PROVE IInv
    OBVIOUS
<1>1. BoundaryTypeOK
    BY WindowAssumption, SMT
       DEF Init, BoundaryInit, BoundaryTypeOK, NoFlush, NoLateCut, Idle, NoPrediction
<1>2. NoFade \in FadeRecord /\ Armed(0) \in ArmRecord
    BY DEF NoFade, FadeRecord, Armed, ArmRecord
<1>3. TypeOK
    <2>1. pending \in Seq(PendingRecord) /\ heard \subseteq Nat
        BY DEF Init
    <2>2. filling \in 0 .. OutFrames
        BY SizesAssumption, SMT DEF Init
    <2>3. /\ written \in Nat /\ read \in Nat /\ probeAhead \in Nat /\ clears \in Nat
          /\ crossfadeMs \in Crossfades
          /\ playing \in BOOLEAN /\ sounding \in BOOLEAN /\ inCallback \in BOOLEAN
          /\ replayed \in BOOLEAN /\ overflowed \in BOOLEAN
        BY DEF Init
    <2>4. arm \in ArmRecord /\ fade \in FadeRecord
        BY <1>2 DEF Init
    <2> QED
        BY <1>1, <2>1, <2>2, <2>3, <2>4 DEF TypeOK
<1>4. ReadBehindWrite /\ FadeAligned /\ FadeWindow /\ HeardBehind /\ NoReplay
    BY SMT DEF Init, NoFade, ReadBehindWrite, FadeAligned, FadeWindow, HeardBehind, NoReplay
<1>5. FlushDelivered
    BY DEF Init, BoundaryInit, NoFlush, Idle, FlushDelivered
<1> QED
    BY <1>3, <1>4, <1>5 DEF IInv

-----------------------------------------------------------------------------
(* fill() *)

\* The frames a span holds
LEMMA SpanFrames ==
    ASSUME NEW from \in Nat, NEW len \in Nat, NEW f
    PROVE  f \in Span(from, len) <=> f \in Nat /\ from <= f /\ f < from + len
BY SMT DEF Span

\* What every step of fill() leaves alone
LEMMA FillKeeps ==
    ASSUME IInv, Undelivered, filling' \in 0 .. OutFrames, read' \in Nat,
           fade' \in FadeRecord, heard' \subseteq Nat, replayed' \in BOOLEAN
    PROVE  TypeOK' /\ FlushDelivered'
<1>1. BoundaryTypeOK'
    BY DEF IInv, TypeOK, BoundaryTypeOK, Undelivered, boundaryVars
<1> QED
    BY <1>1, SMT DEF IInv, TypeOK, FlushDelivered, Undelivered, deliveryVars, controlVars,
       boundaryVars

\* Cancelling a fade that was passed over plays nothing.
LEMMA FillCancelIInv == IInv /\ FillCancel => IInv'
<1> SUFFICES ASSUME IInv, FillCancel PROVE IInv'
    OBVIOUS
<1>1. TypeOK' /\ FlushDelivered'
    <2>1. NoFade \in FadeRecord
        BY DEF NoFade, FadeRecord
    <2> QED
        BY <2>1, FillKeeps DEF FillCancel, IInv, TypeOK
<1>2. ReadBehindWrite' /\ FadeAligned' /\ FadeWindow' /\ NoReplay'
    BY SMT DEF IInv, FillCancel, ReadBehindWrite, FadeAligned, FadeWindow, NoReplay, NoFade,
       Undelivered, deliveryVars
<1>3. HeardBehind'
    BY SMT DEF IInv, FillCancel, PastFade, TypeOK, FadeRecord, HeardBehind, FadeAligned, NoFade,
       Undelivered, deliveryVars
<1> QED
    BY <1>1, <1>2, <1>3 DEF IInv

\* An underrun gives the buffer up and changes nothing else.
LEMMA FillUnderrunIInv == IInv /\ FillUnderrun => IInv'
<1> SUFFICES ASSUME IInv, FillUnderrun PROVE IInv'
    OBVIOUS
<1>1. TypeOK' /\ FlushDelivered'
    BY FillKeeps, SizesAssumption, SMT DEF FillUnderrun, IInv, TypeOK
<1> QED
    BY <1>1, SMT DEF IInv, FillUnderrun, ReadBehindWrite, FadeAligned, FadeWindow,
       HeardBehind, NoReplay, Undelivered, deliveryVars

\* A plain copy plays frames ahead of everything heard so far.
LEMMA FillCopyIInv == IInv /\ FillCopy => IInv'
<1> SUFFICES ASSUME IInv, FillCopy PROVE IInv'
    OBVIOUS
<1> DEFINE chunk == Least(CopyLimit - read, filling)
<1>1. /\ read \in Nat /\ written \in Nat /\ filling \in 1 .. OutFrames
      /\ fade \in FadeRecord /\ heard \subseteq Nat /\ replayed \in BOOLEAN
      /\ overflowed \in BOOLEAN
    BY SMT DEF IInv, TypeOK, FillCopy
<1>2. /\ chunk \in Nat /\ chunk <= filling /\ read + chunk <= written
      /\ fade.scheduled => read + chunk <= fade.start
    BY <1>1, SMT DEF FillCopy, CopyLimit, Least, FadeRecord
<1>3. /\ filling' = filling - chunk /\ heard' = heard \cup Span(read, chunk)
      /\ replayed' = (replayed \/ Span(read, chunk) \cap heard # {})
      /\ read' = read + chunk /\ fade' = fade
      /\ written' = written /\ overflowed' = overflowed
    BY DEF FillCopy, Emit, Undelivered, deliveryVars
<1> HIDE DEF chunk
<1>4. TypeOK' /\ FlushDelivered'
    <2>1. heard' \subseteq Nat /\ replayed' \in BOOLEAN
        BY <1>1, <1>2, <1>3, SpanFrames
    <2>2. filling' \in 0 .. OutFrames /\ read' \in Nat
        BY <1>1, <1>2, <1>3, SizesAssumption, SMT
    <2> QED
        BY <1>1, <1>3, <2>1, <2>2, FillKeeps DEF FillCopy
<1>5. ~overflowed => Span(read, chunk) \cap heard = {}
    <2> SUFFICES ASSUME ~overflowed, NEW f \in Span(read, chunk), f \in heard PROVE FALSE
        OBVIOUS
    <2>1. f \in Nat /\ read <= f /\ f < read + chunk
        BY <1>1, <1>2, SpanFrames
    <2>2. f < read \/ (fade.scheduled /\ fade.at <= f)
        BY DEF IInv, HeardBehind
    <2> QED
        BY <1>1, <1>2, <2>1, <2>2, SMT DEF IInv, FadeWindow, FadeRecord
<1>6. NoReplay'
    BY <1>3, <1>5 DEF IInv, NoReplay
<1>7. ReadBehindWrite' /\ FadeAligned' /\ FadeWindow'
    BY <1>1, <1>2, <1>3, SMT DEF IInv, ReadBehindWrite, FadeAligned, FadeWindow, FadeRecord
<1>8. HeardBehind'
    <2> SUFFICES ASSUME ~overflowed
                 PROVE  /\ \A f \in heard' : f < read' \/
                              (fade'.scheduled /\ fade'.at <= f /\ f < fade'.b)
                        /\ fade'.scheduled /\ fade'.kB > 0 => read' <= fade'.at
        BY <1>3 DEF HeardBehind
    <2>1. fade.scheduled => read + chunk <= fade.at
        BY <1>1, <1>2, SMT DEF IInv, FadeWindow, FadeRecord
    <2>2. ASSUME NEW f \in heard'
          PROVE  f < read' \/ (fade'.scheduled /\ fade'.at <= f /\ f < fade'.b)
        <3>1. CASE f \in heard
            BY <1>1, <1>2, <1>3, <3>1, SMT DEF IInv, HeardBehind
        <3>2. CASE f \in Span(read, chunk)
            BY <1>1, <1>2, <1>3, <3>2, SpanFrames
        <3> QED
            BY <1>3, <3>1, <3>2
    <2> QED
        BY <1>3, <2>1, <2>2
<1> QED
    BY <1>4, <1>6, <1>7, <1>8 DEF IInv

\* An iteration inside the fade that plays the outgoing frames up to r and
\* haveB frames of the incoming.
LEMMA FadeStepIInv ==
    ASSUME IInv, InFade, filling \in 1 .. OutFrames,
           NEW r \in Nat, read <= r, r <= fade.at, r <= written,
           NEW haveB \in Nat, haveB > 0 => fade.b + haveB <= written,
           NEW count \in Nat, count <= filling,
           NEW played, played = Span(read, r - read) \cup Span(fade.b, haveB),
           Emit(count, played), FadeProgress(r, haveB), Undelivered
    PROVE  IInv'
<1>1. /\ read \in Nat /\ written \in Nat /\ fade \in FadeRecord
      /\ heard \subseteq Nat /\ replayed \in BOOLEAN /\ overflowed \in BOOLEAN
      /\ fade.scheduled /\ fade.n >= 1 /\ fade.b = fade.at + fade.kB
      /\ fade.start <= fade.at /\ (fade.kB > 0 => fade.b <= written)
    BY DEF IInv, TypeOK, InFade, FadeAligned, FadeWindow, ReadBehindWrite
<1>2. /\ fade.at \in Nat /\ fade.b \in Nat /\ fade.kB \in Nat /\ fade.n \in Nat
      /\ fade.start \in Nat /\ r - read \in Nat
    BY <1>1, SMT DEF FadeRecord
<1>3. /\ filling' = filling - count /\ heard' = heard \cup played
      /\ replayed' = (replayed \/ played \cap heard # {})
      /\ written' = written /\ overflowed' = overflowed
    BY DEF Emit, Undelivered, deliveryVars
<1>4. ASSUME NEW f
      PROVE  f \in played <=> /\ f \in Nat
                              /\ \/ read <= f /\ f < r
                                 \/ fade.b <= f /\ f < fade.b + haveB
    <2>1. f \in Span(read, r - read) <=> f \in Nat /\ read <= f /\ f < read + (r - read)
        BY <1>1, <1>2, SpanFrames
    <2>2. f \in Span(fade.b, haveB) <=> f \in Nat /\ fade.b <= f /\ f < fade.b + haveB
        BY <1>2, SpanFrames
    <2> QED
        BY <1>1, <2>1, <2>2, SMT
<1>5. \/ /\ fade.kB + haveB >= fade.n /\ r = fade.at
         /\ read' = fade.b + haveB /\ fade' = NoFade
      \/ /\ ~(r = fade.at /\ fade.kB + haveB >= fade.n)
         /\ read' = r
         /\ fade' = [fade EXCEPT !.b = fade.b + haveB, !.kB = fade.kB + haveB]
    BY <1>2, SMT DEF FadeProgress
<1>6. fade' \in FadeRecord /\ read' \in Nat
    <2>1. NoFade \in FadeRecord
        BY DEF NoFade, FadeRecord
    <2>2. fade.b + haveB \in Nat /\ fade.kB + haveB \in Nat /\ r \in Nat
        BY <1>2, SMT
    <2>3. [fade EXCEPT !.b = fade.b + haveB, !.kB = fade.kB + haveB] \in FadeRecord
        BY <1>1, <2>2 DEF FadeRecord
    <2> QED
        BY <1>5, <2>1, <2>2, <2>3
<1>7. TypeOK' /\ FlushDelivered'
    <2>1. heard' \subseteq Nat /\ replayed' \in BOOLEAN
        BY <1>1, <1>3, <1>4
    <2>2. filling' \in 0 .. OutFrames
        BY <1>3, SizesAssumption, SMT
    <2> QED
        BY <1>6, <2>1, <2>2, FillKeeps
<1>8. ~overflowed => played \cap heard = {}
    <2> SUFFICES ASSUME ~overflowed, NEW f \in played, f \in heard PROVE FALSE
        OBVIOUS
    <2>1. f < read \/ (fade.at <= f /\ f < fade.b)
        BY DEF IInv, HeardBehind
    <2> QED
        BY <1>1, <1>2, <1>4, <2>1, SMT
<1>9. NoReplay'
    BY <1>3, <1>8 DEF IInv, NoReplay
<1>10. ReadBehindWrite' /\ FadeAligned'
    <2>1. CASE fade' = NoFade /\ read' = fade.b + haveB /\ fade.kB + haveB >= fade.n
        BY <1>1, <1>2, <1>3, <2>1, SMT DEF ReadBehindWrite, FadeAligned, NoFade
    <2>2. CASE /\ read' = r
               /\ fade' = [fade EXCEPT !.b = fade.b + haveB, !.kB = fade.kB + haveB]
        BY <1>1, <1>2, <1>3, <2>2, SMT
           DEF IInv, ReadBehindWrite, FadeAligned, FadeRecord
    <2> QED
        BY <1>5, <2>1, <2>2
<1>11. FadeWindow'
    <2> SUFFICES ASSUME fade'.scheduled
                 PROVE  /\ fade'.start <= fade'.at
                        /\ \A f \in fade'.at .. (fade'.b - 1) : f \in heard'
        BY DEF FadeWindow
    <2>1. fade' = [fade EXCEPT !.b = fade.b + haveB, !.kB = fade.kB + haveB]
        BY <1>5 DEF NoFade
    <2>2. /\ fade'.start = fade.start /\ fade'.at = fade.at
          /\ fade'.b = fade.b + haveB
        BY <1>1, <2>1 DEF FadeRecord
    <2>3. ASSUME NEW f \in fade'.at .. (fade'.b - 1)
          PROVE  f \in heard'
        <3>1. f \in Nat /\ fade.at <= f /\ f < fade.b + haveB
            BY <1>2, <2>2, SMT
        <3>2. CASE f < fade.b
            <4>1. f \in fade.at .. (fade.b - 1)
                BY <1>2, <3>1, <3>2, SMT
            <4> QED
                BY <1>1, <1>3, <4>1 DEF IInv, FadeWindow
        <3>3. CASE ~(f < fade.b)
            <4>1. fade.b <= f
                BY <1>2, <3>1, <3>3, SMT
            <4> QED
                BY <1>3, <1>4, <3>1, <4>1
        <3> QED
            BY <3>2, <3>3
    <2> QED
        BY <1>1, <2>2, <2>3
<1>12. HeardBehind'
    <2> SUFFICES ASSUME ~overflowed
                 PROVE  /\ \A f \in heard' : f < read' \/
                              (fade'.scheduled /\ fade'.at <= f /\ f < fade'.b)
                        /\ fade'.scheduled /\ fade'.kB > 0 => read' <= fade'.at
        BY <1>3 DEF HeardBehind
    <2>1. ASSUME NEW f \in heard'
          PROVE  f \in Nat /\ (f < r \/ (fade.at <= f /\ f < fade.b + haveB))
        <3>1. CASE f \in heard
            <4>1. f \in Nat /\ (f < read \/ (fade.at <= f /\ f < fade.b))
                BY <1>1, <3>1 DEF IInv, HeardBehind
            <4> QED
                BY <1>1, <1>2, <4>1, SMT
        <3>2. CASE f \in played
            BY <1>1, <1>2, <1>4, <3>2, SMT
        <3> QED
            BY <1>3, <3>1, <3>2
    <2>2. CASE fade' = NoFade /\ read' = fade.b + haveB /\ r = fade.at
        BY <1>1, <1>2, <2>1, <2>2, SMT DEF NoFade
    <2>3. CASE /\ read' = r
               /\ fade' = [fade EXCEPT !.b = fade.b + haveB, !.kB = fade.kB + haveB]
        <3>1. /\ fade'.scheduled /\ fade'.at = fade.at /\ fade'.b = fade.b + haveB
            BY <1>1, <2>3 DEF FadeRecord
        <3> QED
            BY <2>1, <2>3, <3>1
    <2> QED
        BY <1>5, <2>2, <2>3
<1> QED
    BY <1>7, <1>9, <1>10, <1>11, <1>12 DEF IInv

\* The outgoing stage is a fade step that moves read_ towards the boundary.
LEMMA FillOutgoingIInv == IInv /\ FillOutgoing => IInv'
<1> SUFFICES ASSUME IInv, FillOutgoing PROVE IInv'
    OBVIOUS
<1> DEFINE k0    == read - fade.start
           left  == IF fade.nA > k0 THEN fade.nA - k0 ELSE 1
           chunk == Least(Least(filling, fade.at - read), Least(written - read, left))
           haveB == Least(Greatest(0, written - fade.b), chunk)
           played == Span(read, chunk) \cup Span(fade.b, haveB)
<1>1. /\ InFade /\ read < fade.at /\ read < written
      /\ Emit(chunk, played) /\ FadeProgress(read + chunk, haveB) /\ Undelivered
    BY DEF FillOutgoing, Outgoing
<1>2. /\ read \in Nat /\ written \in Nat /\ filling \in 1 .. OutFrames
      /\ fade.at \in Nat /\ fade.b \in Nat /\ fade.nA \in Nat /\ fade.start \in Nat
      /\ fade.start <= read
    BY SMT DEF IInv, TypeOK, FillOutgoing, FadeRecord, InFade, Outgoing
<1>3. left \in Nat \ {0}
    BY <1>2, SMT
<1> HIDE DEF left
<1>4. /\ chunk \in Nat /\ chunk <= filling
      /\ read + chunk <= fade.at /\ read + chunk <= written
    BY <1>1, <1>2, <1>3, SMT DEF Least
<1> HIDE DEF chunk
<1>5. haveB \in Nat /\ (haveB > 0 => fade.b + haveB <= written)
    BY <1>2, <1>4, SMT DEF Least, Greatest
<1>6. (read + chunk) - read = chunk /\ read + chunk \in Nat /\ read <= read + chunk
    BY <1>2, <1>4, SMT
<1> HIDE DEF haveB
<1> QED
    BY <1>1, <1>2, <1>4, <1>5, <1>6, FadeStepIInv

\* The incoming stage is a fade step with read_ parked at the boundary.
LEMMA FillIncomingIInv == IInv /\ FillIncoming => IInv'
<1> SUFFICES ASSUME IInv, FillIncoming PROVE IInv'
    OBVIOUS
<1> DEFINE chunk == Least(filling, Greatest(0, fade.n - fade.kB))
           haveB == Least(written - fade.b, chunk)
           played == Span(read, 0) \cup Span(fade.b, haveB)
<1>1. /\ InFade /\ read = fade.at /\ (fade.b < written \/ fade.kB >= fade.n)
      /\ Emit(haveB, Span(fade.b, haveB)) /\ FadeProgress(read, haveB) /\ Undelivered
    BY DEF FillIncoming, IncomingOnly
<1>2. /\ read \in Nat /\ written \in Nat /\ filling \in 1 .. OutFrames
      /\ fade.at \in Nat /\ fade.b \in Nat /\ fade.n \in Nat /\ fade.kB \in Nat
      /\ fade.n >= 1 /\ (fade.kB > 0 => fade.b <= written)
      /\ read <= written
    BY SMT DEF IInv, TypeOK, FillIncoming, FadeRecord, InFade, IncomingOnly, FadeAligned,
       ReadBehindWrite
<1>3. chunk \in Nat /\ chunk <= filling
    BY <1>2, SMT DEF Least, Greatest
<1> HIDE DEF chunk
<1>4. fade.b <= written
    BY <1>1, <1>2, SMT
<1>5. haveB \in Nat /\ haveB <= filling /\ fade.b + haveB <= written
    BY <1>2, <1>3, <1>4, SMT DEF Least
<1> HIDE DEF haveB
<1>6. Span(read, 0) = {} /\ read - read = 0
    BY <1>2, SMT DEF Span
<1>7. played = Span(read, read - read) \cup Span(fade.b, haveB) /\ Emit(haveB, played)
    BY <1>1, <1>6
<1>8. read <= read /\ read <= fade.at
    BY <1>1, <1>2, SMT
<1> HIDE DEF played
<1> QED
    BY <1>1, <1>2, <1>5, <1>7, <1>8, FadeStepIInv

-----------------------------------------------------------------------------
(* Boundary decisions *)

\* A decision names a frame, and a fade is never empty nor longer than the
\* stream before its boundary.
WellFormed(d) ==
    /\ d.kind \in {"None", "Cut", "Fade"}
    /\ d.at \in Nat /\ d.n \in Nat
    /\ d.kind = "Fade" => 1 <= d.n /\ d.n <= d.at

\* No decision, or a cut at a frame, is well formed.
LEMMA NoneAndCutWellFormed ==
    /\ WellFormed(None)
    /\ \A b \in Nat : WellFormed(Cut(b))
BY DEF WellFormed, None, Cut

\* A fade is at least one frame long and fits before its boundary: its tail was measured.
LEMMA DecideWellFormed ==
    ASSUME NEW b \in Nat, NEW t, NEW r \in Nat, NEW crossfade \in Nat
    PROVE  WellFormed(Decide(b, t, r, crossfade))
<1> DEFINE tail == Greatest(0, b - r)
           len == Least(tail, crossfade)
           fades == /\ crossfade > 0 /\ {current, t} \subseteq Music
                    /\ tail >= Frames(MinTailMs)
<1>1. Decide(b, t, r, crossfade) = IF fades THEN Fade(b, len) ELSE Cut(b)
    BY DEF Decide
<1>2. CASE fades
    <2>1. Frames(MinTailMs) \in Nat
        BY FramesNat, WindowAssumption
    <2>2. len \in Nat /\ 1 <= len /\ len <= b
        BY <1>2, <2>1, MinTailAssumption, SMT DEF Least, Greatest
    <2> QED
        BY <1>1, <1>2, <2>2 DEF Fade, WellFormed
<1>3. CASE ~fades
    BY <1>1, <1>3, NoneAndCutWellFormed
<1> QED
    BY <1>2, <1>3

\* So is whatever an announcement decides.
LEMMA MetadataWellFormed ==
    ASSUME BoundaryTypeOK, NEW t, NEW w \in Nat, NEW r \in Nat, NEW crossfade \in Nat
    PROVE  WellFormed(MetadataDecision(t, w, r, crossfade))
<1>1. flush.frame \in Nat /\ flush.pending \in BOOLEAN
    BY DEF BoundaryTypeOK
<1>2. NaturalBoundary(w) \in Nat
    BY DEF BoundaryTypeOK, NaturalBoundary, NoPrediction
<1>3. MetadataDecision(t, w, r, crossfade) \in
        {Cut(flush.frame), Decide(NaturalBoundary(w), t, r, crossfade), None}
    BY DEF MetadataDecision, IsNatural
<1> QED
    BY <1>1, <1>2, <1>3, NoneAndCutWellFormed, DecideWellFormed

\* So is what the flush timeout decides.
LEMMA TickWellFormed ==
    ASSUME BoundaryTypeOK
    PROVE  WellFormed(TickDecision)
<1>1. flush.frame \in Nat
    BY DEF BoundaryTypeOK
<1> QED
    BY <1>1, NoneAndCutWellFormed DEF TickDecision

\* Announcing a track leaves the model in a legal state with no flush pending.
LEMMA BoundaryOnMetadataType ==
    ASSUME BoundaryTypeOK, NEW t \in Tracks, NEW dur \in Nat, NEW pos \in Nat,
           NEW w \in Nat, NEW d, WellFormed(d), BoundaryOnMetadata(t, dur, pos, w, d)
    PROVE  BoundaryTypeOK' /\ ~flush'.pending
<1>1. StartFrame(t, w, d) \in Nat
    BY DEF StartFrame, WellFormed, BoundaryTypeOK
<1>2. Prediction(StartFrame(t, w, d), dur, pos) \in Nat \cup {NoPrediction}
    <2>1. CASE dur > 0 /\ dur >= pos
        <3>1. dur - pos \in Nat
            BY <2>1
        <3>2. Frames(dur - pos) \in Nat
            BY <3>1, FramesNat
        <3> QED
            BY <1>1, <2>1, <3>2 DEF Prediction
    <2>2. CASE ~(dur > 0 /\ dur >= pos)
        BY <2>2 DEF Prediction
    <2> QED
        BY <2>1, <2>2
<1>3. /\ NoFlush \in [pending : BOOLEAN, frame : Nat, age : 0 .. FlushWindowMs + 1]
      /\ NoLateCut \in [pending : BOOLEAN, frame : Nat, age : 0 .. LateMetadataMs + 1]
      /\ ~NoFlush.pending
    BY WindowAssumption, SMT DEF NoFlush, NoLateCut, Idle
<1> QED
    BY <1>2, <1>3 DEF BoundaryOnMetadata, BoundaryTypeOK

\* tick() keeps a pending flush or leaves none.
LEMMA BoundaryTickType ==
    ASSUME BoundaryTypeOK, BoundaryTick
    PROVE  BoundaryTypeOK' /\ (flush' = flush \/ flush' = NoFlush)
<1>1. /\ NoFlush \in [pending : BOOLEAN, frame : Nat, age : 0 .. FlushWindowMs + 1]
      /\ flush.frame \in Nat
      /\ [pending |-> TRUE, frame |-> flush.frame, age |-> 0]
            \in [pending : BOOLEAN, frame : Nat, age : 0 .. LateMetadataMs + 1]
    BY WindowAssumption, SMT DEF NoFlush, Idle, BoundaryTypeOK
<1> QED
    BY <1>1 DEF BoundaryTick, BoundaryTypeOK

\* What apply() does to the playback state, whatever it is given.
LEMMA ApplyIInv ==
    ASSUME IInv, NEW d, WellFormed(d), Apply(d),
           UNCHANGED <<written, heard, replayed, overflowed>>
    PROVE  /\ read' \in Nat /\ read <= read' /\ fade' \in FadeRecord
           /\ ReadBehindWrite' /\ FadeAligned' /\ FadeWindow' /\ HeardBehind' /\ NoReplay'
<1>1. /\ read \in Nat /\ written \in Nat /\ fade \in FadeRecord /\ heard \subseteq Nat
      /\ overflowed \in BOOLEAN /\ read <= written
      /\ d.at \in Nat /\ d.n \in Nat
    BY DEF IInv, TypeOK, ReadBehindWrite, WellFormed
<1>2. fade.b \in Nat /\ fade.kB \in Nat /\ fade.at \in Nat /\ fade.scheduled \in BOOLEAN
    BY <1>1 DEF FadeRecord
<1>3. /\ PastMixed \in Nat /\ read <= PastMixed /\ PastMixed <= written
      /\ fade.scheduled /\ fade.kB > 0 => fade.b <= PastMixed
    BY <1>1, <1>2, SMT DEF PastMixed, Greatest, IInv, ReadBehindWrite
<1>4. NoReplay'
    BY DEF IInv, NoReplay
<1>5. ASSUME ~overflowed, NEW f \in heard
      PROVE  f < PastMixed
    <2>1. f \in Nat /\ (f < read \/ (fade.scheduled /\ fade.at <= f /\ f < fade.b))
        BY <1>1, <1>5 DEF IInv, HeardBehind
    <2> QED
        BY <1>1, <1>2, <1>3, <2>1, SMT DEF IInv, FadeAligned
<1>6. CASE d.kind = "None"
    BY <1>1, <1>4, <1>6 DEF Apply, IInv, ReadBehindWrite, FadeAligned, FadeWindow, HeardBehind
<1>7. CASE d.kind = "Cut"
    <2>1. /\ read' = Greatest(PastMixed, Least(d.at, written)) /\ fade' = NoFade
          /\ written' = written
        BY <1>7 DEF Apply
    <2>2. read' \in Nat /\ PastMixed <= read' /\ read' <= written
        BY <1>1, <1>3, <2>1, SMT DEF Greatest, Least
    <2>3. fade' \in FadeRecord /\ ~fade'.scheduled
        BY <2>1 DEF NoFade, FadeRecord
    <2>4. HeardBehind'
        BY <1>1, <1>3, <1>5, <2>2, <2>3, SMT DEF HeardBehind
    <2> QED
        BY <1>1, <1>3, <1>4, <2>1, <2>2, <2>3, <2>4, SMT
           DEF ReadBehindWrite, FadeAligned, FadeWindow
<1>8. CASE d.kind = "Fade"
    <2>1. read' = PastMixed /\ fade' = ScheduledFade(d) /\ 1 <= d.n /\ d.n <= d.at
        BY <1>8 DEF Apply, WellFormed
    <2>2. d.at - d.n \in Nat /\ d.at - d.n <= d.at
        BY <1>1, <2>1, SMT
    <2>3. /\ fade' \in FadeRecord
          /\ fade'.at = d.at /\ fade'.b = d.at /\ fade'.kB = 0 /\ fade'.n = d.n
          /\ fade'.nA = d.n /\ fade'.start = d.at - d.n
        BY <1>1, <2>1, <2>2 DEF ScheduledFade, FadeRecord
    <2>4. ReadBehindWrite' /\ FadeAligned'
        BY <1>1, <1>3, <2>1, <2>3, SMT DEF ReadBehindWrite, FadeAligned
    <2>5. FadeWindow'
        BY <1>1, <2>2, <2>3, SMT DEF FadeWindow
    <2>6. HeardBehind'
        BY <1>1, <1>3, <1>5, <2>1, <2>3, SMT DEF HeardBehind
    <2> QED
        BY <1>3, <1>4, <2>1, <2>3, <2>4, <2>5, <2>6
<1> QED
    BY <1>6, <1>7, <1>8 DEF WellFormed

-----------------------------------------------------------------------------
(* The ack thread, Java and the controls of the eSDK *)

\* Handlers that touch neither the stream nor the fade
LEMMA IdleIInv ==
    ASSUME IInv, TypeOK', FlushDelivered',
           UNCHANGED <<written, read, fade, heard, replayed, overflowed>>
    PROVE  IInv'
BY DEF IInv, ReadBehindWrite, FadeAligned, FadeWindow, HeardBehind, NoReplay

\* Acknowledging the head leaves a queue of the same type.
LEMMA PendingTail ==
    ASSUME pending \in Seq(PendingRecord), pending # <<>>
    PROVE  Tail(pending) \in Seq(PendingRecord)
BY SMT

\* An iteration of the ack loop: a timeout's cut, then an acknowledgement.
LEMMA AckLoopIInv == IInv /\ AckLoop => IInv'
<1> SUFFICES ASSUME IInv, AckLoop PROVE IInv'
    OBVIOUS
<1>1. BoundaryTypeOK' /\ (flush' = flush \/ flush' = NoFlush)
    BY BoundaryTickType DEF IInv, TypeOK, AckLoop
<1>2. /\ read' \in Nat /\ fade' \in FadeRecord
      /\ ReadBehindWrite' /\ FadeAligned' /\ FadeWindow' /\ HeardBehind' /\ NoReplay'
    BY TickWellFormed, ApplyIInv DEF IInv, TypeOK, AckLoop
<1>3. inCallback' \in BOOLEAN /\ pending' \in Seq(PendingRecord)
    <2>1. inCallback' \in BOOLEAN /\ (inCallback' => pending # <<>>)
        BY DEF AckLoop, AckReady
    <2> QED
        BY <2>1, PendingTail DEF AckLoop, IInv, TypeOK
<1>4. TypeOK'
    BY <1>1, <1>2, <1>3 DEF AckLoop, IInv, TypeOK
<1>5. FlushDelivered'
    BY <1>1 DEF AckLoop, IInv, FlushDelivered, NoFlush, Idle
<1> QED
    BY <1>2, <1>4, <1>5 DEF IInv

\* An announcement resolves the flush and may schedule a fade in delivered audio.
LEMMA OnMetadataIInv ==
    ASSUME IInv, NEW t \in Tracks, NEW dur \in Durations, NEW pos \in Positions,
           OnMetadata(t, dur, pos)
    PROVE  IInv'
<1> DEFINE d == MetadataDecision(t, written, read, X)
<1>1. /\ BoundaryTypeOK /\ written \in Nat /\ read \in Nat
      /\ crossfadeMs \in Nat /\ arm.dropped \in Nat /\ dur \in Nat /\ pos \in Nat
    BY InputsAssumption DEF IInv, TypeOK, ArmRecord
<1>2. X \in Nat /\ CorrectedPosition(pos) \in Nat
    BY <1>1, LeadNat, CorrectedNat
<1>3. WellFormed(d)
    BY <1>1, <1>2, MetadataWellFormed
<1>4. /\ BoundaryOnMetadata(t, dur, CorrectedPosition(pos), written, d) /\ Apply(d)
      /\ UNCHANGED <<filling, heard, replayed, written, pending, overflowed, controlVars>>
    BY DEF OnMetadata
<1>5. (arm' = Armed(written) /\ probeAhead' = 0) \/ UNCHANGED <<arm, probeAhead>>
    BY DEF OnMetadata
<1> HIDE DEF d
<1>6. BoundaryTypeOK' /\ ~flush'.pending
    BY <1>1, <1>2, <1>3, <1>4, BoundaryOnMetadataType
<1>7. /\ read' \in Nat /\ fade' \in FadeRecord
      /\ ReadBehindWrite' /\ FadeAligned' /\ FadeWindow' /\ HeardBehind' /\ NoReplay'
    BY <1>3, <1>4, ApplyIInv
<1>8. arm' \in ArmRecord /\ probeAhead' \in Nat
    <2>1. Armed(written) \in ArmRecord
        BY <1>1 DEF Armed, ArmRecord
    <2> QED
        BY <1>5, <2>1 DEF IInv, TypeOK
<1>9. TypeOK'
    BY <1>4, <1>6, <1>7, <1>8 DEF IInv, TypeOK, controlVars
<1> QED
    BY <1>6, <1>7, <1>9 DEF IInv, FlushDelivered

\* A Clear is pending at a frame that has been delivered.
LEMMA ClearIInv == IInv /\ Clear => IInv'
<1> SUFFICES ASSUME IInv, Clear PROVE IInv'
    OBVIOUS
<1>1. BoundaryTypeOK' /\ FlushDelivered'
    <2>1. /\ NoLateCut \in [pending : BOOLEAN, frame : Nat, age : 0 .. LateMetadataMs + 1]
          /\ [pending |-> TRUE, frame |-> written, age |-> 0]
                \in [pending : BOOLEAN, frame : Nat, age : 0 .. FlushWindowMs + 1]
        BY WindowAssumption, SMT DEF NoLateCut, Idle, IInv, TypeOK
    <2>2. flush'.frame = written /\ written' = written
        BY DEF Clear, BoundaryOnFlush
    <2> QED
        BY <2>1, <2>2 DEF Clear, BoundaryOnFlush, BoundaryTypeOK, FlushDelivered, IInv, TypeOK
<1>2. arm' \in ArmRecord /\ pending' \in Seq(PendingRecord) /\ clears' \in Nat
    BY DEF Clear, Armed, ArmRecord, IInv, TypeOK
<1>3. TypeOK'
    BY <1>1, <1>2 DEF Clear, IInv, TypeOK, fillVars
<1> QED
    BY <1>1, <1>3, IdleIInv DEF Clear, fillVars

\* Time ages what waits and moves no frame.
LEMMA ClockTickIInv == IInv /\ ClockTick => IInv'
<1> SUFFICES ASSUME IInv, ClockTick PROVE IInv'
    OBVIOUS
<1>1. BoundaryTypeOK' /\ FlushDelivered'
    <2>1. \A x, window : window \in Nat /\ x \in [pending : BOOLEAN, frame : Nat, age : 0 .. window + 1]
            => /\ Aged(x, window) \in [pending : BOOLEAN, frame : Nat, age : 0 .. window + 1]
               /\ Aged(x, window).frame = x.frame /\ Aged(x, window).pending = x.pending
        BY SMT DEF Aged, Least
    <2> QED
        BY <2>1, WindowAssumption
           DEF ClockTick, BoundaryClock, BoundaryTypeOK, IInv, TypeOK, FlushDelivered
<1>2. pending' \in Seq(PendingRecord)
    <2>1. \A p \in PendingRecord :
             [p EXCEPT !.wait = Greatest(0, p.wait - 1)] \in PendingRecord
        BY SMT DEF PendingRecord, Greatest
    <2>2. pending \in Seq(PendingRecord)
        BY DEF IInv, TypeOK
    <2>3. DOMAIN pending = 1 .. Len(pending) /\ Len(pending) \in Nat
        BY <2>2
    <2>4. pending' \in [1 .. Len(pending) -> PendingRecord]
        BY <2>1, <2>2, <2>3 DEF ClockTick
    <2> QED
        BY <2>3, <2>4
<1>3. probeAhead' \in Nat
    BY SMT DEF ClockTick, IInv, TypeOK, Greatest
<1>4. TypeOK'
    BY <1>1, <1>2, <1>3 DEF ClockTick, IInv, TypeOK, fillVars, controlVars
<1> QED
    BY <1>1, <1>4, IdleIInv DEF ClockTick, fillVars

\* setCrossfadeMs, setPlayState and the return of a callback
LEMMA ControlIInv ==
    ASSUME IInv,
           \/ CallbackReturns
           \/ \E p \in PlayStates : SetPlayState(p)
           \/ ForwardPlayState
           \/ \E ms \in Crossfades : SetCrossfadeMs(ms)
    PROVE  IInv'
<1>1. UNCHANGED <<fillVars, deliveryVars, boundaryVars>>
    BY DEF CallbackReturns, SetPlayState, ForwardPlayState, SetCrossfadeMs
<1>2. /\ playing' \in BOOLEAN /\ sounding' \in BOOLEAN /\ inCallback' \in BOOLEAN
      /\ crossfadeMs' \in Crossfades /\ clears' \in Nat
    BY InputsAssumption
       DEF CallbackReturns, SetPlayState, ForwardPlayState, SetCrossfadeMs, IInv, TypeOK
<1>3. TypeOK' /\ FlushDelivered'
    BY <1>1, <1>2
       DEF IInv, TypeOK, BoundaryTypeOK, FlushDelivered, fillVars, deliveryVars, boundaryVars
<1> QED
    BY <1>1, <1>3, IdleIInv DEF fillVars, deliveryVars

\* Taking mu_ for a buffer.
LEMMA FillBeginIInv == IInv /\ FillBegin => IInv'
<1> SUFFICES ASSUME IInv, FillBegin PROVE IInv'
    OBVIOUS
<1>1. filling' \in 0 .. OutFrames
    BY SizesAssumption, SMT DEF FillBegin
<1>2. TypeOK' /\ FlushDelivered'
    BY <1>1 DEF FillBegin, IInv, TypeOK, BoundaryTypeOK, FlushDelivered, deliveryVars,
       controlVars, boundaryVars
<1> QED
    BY <1>2, IdleIInv DEF FillBegin, deliveryVars

-----------------------------------------------------------------------------
(* enqueue() *)

\* Padding is queued, never written.
LEMMA DropPaddingIInv ==
    ASSUME IInv, NEW n \in BufferSizes, DropPadding(n)
    PROVE  IInv'
<1>1. n \in Nat
    BY SizesAssumption
<1>2. arm' \in ArmRecord
    <2>1. arm \in ArmRecord /\ arm.dropped + n \in Nat
        BY <1>1 DEF IInv, TypeOK, ArmRecord
    <2>2. (arm.dropped + n < Frames(MaxZeroDropMs)) \in BOOLEAN
        OBVIOUS
    <2> QED
        BY <2>1, <2>2 DEF DropPadding, ArmRecord
<1>3. probeAhead' \in Nat
    BY TimesAssumption DEF DropPadding, IInv, TypeOK
<1>4. pending' \in Seq(PendingRecord)
    <2>1. [end |-> written, dropped |-> TRUE, wait |-> probeAhead'] \in PendingRecord
        BY <1>3 DEF IInv, TypeOK, PendingRecord
    <2> QED
        BY <2>1 DEF DropPadding, IInv, TypeOK
<1>5. TypeOK' /\ FlushDelivered'
    BY <1>2, <1>3, <1>4 DEF DropPadding, IInv, TypeOK, BoundaryTypeOK, FlushDelivered,
       fillVars, controlVars, boundaryVars
<1> QED
    BY <1>5, IdleIInv DEF DropPadding, fillVars

\* A re-anchored fade starts afresh at the write position, with an outgoing
\* ramp that still ends there.
LEMMA ReanchoredFade ==
    ASSUME IInv, Reanchors, NEW r \in Nat, read <= r, r <= written
    PROVE  /\ Reanchored(r) \in FadeRecord
           /\ Reanchored(r).scheduled =>
                /\ Reanchored(r).at = written /\ Reanchored(r).b = written
                /\ Reanchored(r).kB = 0 /\ Reanchored(r).n = fade.n
                /\ Reanchored(r).start <= written
                /\ r < written => Reanchored(r).start + Reanchored(r).nA = written
<1> DEFINE left == Greatest(0, written - r)
           refit == RefitRamp(left, read - fade.start, Greatest(fade.nA, 1))
           nA == CASE ~FadeStarted -> Least(X, left)
                   [] FadeStarted /\ left = 0 -> 1
                   [] FadeStarted /\ left > 0 -> refit
           start == IF FadeStarted /\ left = 0 THEN written ELSE written - nA
           new == [fade EXCEPT !.at = written, !.b = written, !.kB = 0, !.nA = nA,
                               !.start = start]
<1>1. /\ read \in Nat /\ written \in Nat /\ fade \in FadeRecord /\ fade.scheduled
      /\ fade.start \in Nat /\ fade.nA \in Nat
    BY DEF IInv, TypeOK, Reanchors, FadeRecord
<1>2. X \in Nat
    BY LeadNat, InputsAssumption DEF IInv, TypeOK
<1>3. left \in Nat /\ left <= written /\ (left = 0 <=> r = written)
    BY <1>1, SMT DEF Greatest
<1>4. FadeStarted => refit \in Nat /\ refit <= written
    <2> SUFFICES ASSUME FadeStarted PROVE refit \in Nat /\ refit <= written
        OBVIOUS
    <2>1. read - fade.start \in Nat /\ Greatest(fade.nA, 1) \in Nat
        BY <1>1, SMT DEF FadeStarted, Greatest
    <2> QED
        BY <1>1, <1>3, <2>1, RefitBounds
<1> HIDE DEF left, refit
<1>5. /\ nA \in Nat /\ start \in Nat /\ start <= written
      /\ r < written => start + nA = written
    <2>1. CASE ~FadeStarted
        <3>1. nA = Least(X, left) /\ start = written - nA
            BY <2>1
        <3> QED
            BY <1>1, <1>2, <1>3, <3>1, SMT DEF Least
    <2>2. CASE FadeStarted /\ left = 0
        <3>1. nA = 1 /\ start = written
            BY <2>2
        <3> QED
            BY <1>1, <1>3, <2>2, <3>1, SMT
    <2>3. CASE FadeStarted /\ left > 0
        <3>1. nA = refit /\ start = written - nA
            BY <1>3, <2>3
        <3> QED
            BY <1>1, <1>3, <1>4, <2>3, <3>1, SMT
    <2> QED
        BY <1>3, <2>1, <2>2, <2>3
<1>6. Reanchored(r) = IF ~FadeStarted /\ left < Frames(MinTailMs) THEN NoFade ELSE new
    BY DEF Reanchored, left, refit
<1> HIDE DEF nA, start
<1>7. /\ new \in FadeRecord /\ new.at = written /\ new.b = written /\ new.kB = 0
      /\ new.n = fade.n /\ new.start = start /\ new.nA = nA
    BY <1>1, <1>5 DEF FadeRecord
<1>8. NoFade \in FadeRecord /\ ~NoFade.scheduled
    BY DEF NoFade, FadeRecord
<1> HIDE DEF new
<1> QED
    BY <1>5, <1>6, <1>7, <1>8

\* Writing audio, with the re-anchor and the overflow that may come with it.
LEMMA WriteAudioIInv ==
    ASSUME IInv, NEW n \in BufferSizes, WriteAudio(n)
    PROVE  IInv'
<1> DEFINE r == IF Reanchors /\ fade.kB > 0 THEN Greatest(read, fade.b) ELSE read
           w == written + n
           overflow == w > r + Capacity
           a == [arm EXCEPT !.reanchored = arm.reanchored \/ FirstAudio]
<1>1. /\ fade' = IF Reanchors THEN Reanchored(r) ELSE fade
      /\ read' = IF overflow THEN w - Capacity ELSE r
      /\ overflowed' = (overflowed \/ overflow)
      /\ written' = w
      /\ pending' = Append(pending, [end |-> w, dropped |-> FALSE, wait |-> 0])
      /\ arm' = [a EXCEPT !.on = a.on /\ StaysArmed(a, w, read', fade')]
      /\ UNCHANGED <<filling, heard, replayed, probeAhead, controlVars, boundaryVars>>
    BY DEF WriteAudio
<1>2. /\ read \in Nat /\ written \in Nat /\ fade \in FadeRecord /\ heard \subseteq Nat
      /\ overflowed \in BOOLEAN /\ n \in Nat \ {0} /\ Capacity \in Nat \ {0}
      /\ fade.at \in Nat /\ fade.b \in Nat /\ fade.kB \in Nat /\ fade.scheduled \in BOOLEAN
      /\ read <= written
    BY SizesAssumption DEF IInv, TypeOK, ReadBehindWrite, FadeRecord
<1>3. /\ r \in Nat /\ read <= r /\ r <= written
      /\ Reanchors /\ fade.kB > 0 => fade.b <= r
    BY <1>2, SMT DEF Greatest, Reanchors, IInv, ReadBehindWrite
<1> HIDE DEF r
<1>4. /\ w \in Nat /\ written < w
      /\ read' \in Nat /\ r <= read' /\ read' <= w
      /\ ~overflowed' => ~overflowed /\ read' = r
    <2>1. w \in Nat /\ written < w
        BY <1>2, SMT
    <2>2. CASE overflow
        <3>1. read' = w - Capacity /\ w > r + Capacity /\ overflowed'
            BY <1>1, <2>2
        <3> HIDE DEF w
        <3> QED
            BY <1>2, <1>3, <2>1, <3>1, SMT
    <2>3. CASE ~overflow
        <3>1. read' = r /\ overflowed' = overflowed
            BY <1>1, <1>2, <2>3
        <3> HIDE DEF w
        <3> QED
            BY <1>2, <1>3, <2>1, <3>1, SMT
    <2> QED
        BY <2>2, <2>3
<1>5. Reanchors => /\ Reanchored(r) \in FadeRecord
                   /\ Reanchored(r).scheduled =>
                        /\ Reanchored(r).at = written /\ Reanchored(r).b = written
                        /\ Reanchored(r).kB = 0 /\ Reanchored(r).n = fade.n
                        /\ Reanchored(r).start <= written
                        /\ r < written => Reanchored(r).start + Reanchored(r).nA = written
    BY <1>3, ReanchoredFade
<1> HIDE DEF overflow, w
<1>6. TypeOK'
    <2>1. fade' \in FadeRecord
        BY <1>1, <1>2, <1>5
    <2>2. [end |-> w, dropped |-> FALSE, wait |-> 0] \in PendingRecord
        BY <1>4 DEF PendingRecord
    <2>3. pending' \in Seq(PendingRecord)
        BY <1>1, <2>2 DEF IInv, TypeOK
    <2>4. arm' \in ArmRecord
        <3>1. arm \in ArmRecord /\ FirstAudio \in BOOLEAN
            BY DEF IInv, TypeOK, ArmRecord, FirstAudio
        <3>2. a \in ArmRecord
            BY <3>1 DEF ArmRecord
        <3>3. StaysArmed(a, w, read', fade') \in BOOLEAN
            BY DEF StaysArmed
        <3> HIDE DEF a
        <3> QED
            BY <1>1, <3>2, <3>3 DEF ArmRecord
    <2>5. overflowed' \in BOOLEAN
        BY <1>1, <1>2 DEF overflow
    <2> QED
        BY <1>1, <1>4, <2>1, <2>3, <2>4, <2>5
           DEF IInv, TypeOK, BoundaryTypeOK, controlVars, boundaryVars
<1>7. FlushDelivered'
    <2>1. flush' = flush /\ flush.frame \in Nat
        BY <1>1 DEF boundaryVars, IInv, TypeOK, BoundaryTypeOK
    <2> QED
        BY <1>1, <1>2, <1>4, <2>1, SMT DEF IInv, FlushDelivered
<1>8. NoReplay'
    BY <1>1, <1>4 DEF IInv, NoReplay
<1>9. CASE Reanchors
    <2>1. fade.scheduled /\ fade' = Reanchored(r) /\ fade' \in FadeRecord
        BY <1>1, <1>5, <1>9 DEF Reanchors
    <2>2. fade'.scheduled =>
            /\ fade'.at = written /\ fade'.b = written /\ fade'.kB = 0 /\ fade'.n = fade.n
            /\ fade'.start <= written
            /\ r < written => fade'.start + fade'.nA = written
        BY <1>5, <1>9, <2>1
    <2>3. ReadBehindWrite'
        BY <1>1, <1>4, <2>2, SMT DEF ReadBehindWrite
    <2>4. FadeAligned'
        BY <1>2, <1>3, <1>4, <2>1, <2>2, SMT DEF FadeAligned, IInv
    <2>5. FadeWindow'
        BY <1>2, <2>2, SMT DEF FadeWindow
    <2>6. ASSUME ~overflowed', NEW f \in heard PROVE f < read'
        <3>1. f \in Nat /\ (f < read \/ (fade.at <= f /\ f < fade.b))
            BY <1>2, <1>4, <2>6 DEF IInv, HeardBehind
        <3>2. fade.b = fade.at + fade.kB
            BY <2>1 DEF IInv, FadeAligned
        <3> QED
            BY <1>2, <1>3, <1>4, <1>9, <2>6, <3>1, <3>2, SMT
    <2>7. HeardBehind'
        BY <1>1, <2>2, <2>6, SMT DEF HeardBehind
    <2> QED
        BY <1>6, <1>7, <1>8, <2>3, <2>4, <2>5, <2>7 DEF IInv
<1>10. CASE ~Reanchors
    <2>1. fade' = fade /\ heard' = heard
        BY <1>1, <1>10
    <2>2. r = read
        BY <1>10 DEF r
    <2>3. ReadBehindWrite'
        BY <1>1, <1>2, <1>4, <2>1, SMT DEF IInv, ReadBehindWrite
    <2>4. FadeAligned' /\ FadeWindow'
        BY <1>2, <1>4, <2>1, <2>2, SMT DEF IInv, FadeAligned, FadeWindow
    <2>5. HeardBehind'
        BY <1>4, <2>1, <2>2 DEF IInv, HeardBehind
    <2> QED
        BY <1>6, <1>7, <1>8, <2>3, <2>4, <2>5 DEF IInv
<1> QED
    BY <1>9, <1>10

-----------------------------------------------------------------------------
(* The invariant *)

\* Every step keeps the invariant.
LEMMA StepIInv == IInv /\ [Next]_vars => IInv'
<1> SUFFICES ASSUME IInv, [Next]_vars PROVE IInv'
    OBVIOUS
<1>1. CASE \E n \in BufferSizes : Enqueue(n)
    BY <1>1, DropPaddingIInv, WriteAudioIInv DEF Enqueue
<1>2. CASE Clear
    BY <1>2, ClearIInv
<1>3. CASE \/ CallbackReturns
           \/ \E p \in PlayStates : SetPlayState(p)
           \/ ForwardPlayState
           \/ \E ms \in Crossfades : SetCrossfadeMs(ms)
    BY <1>3, ControlIInv
<1>4. CASE AckLoop
    BY <1>4, AckLoopIInv
<1>5. CASE \E t \in Tracks, dur \in Durations, pos \in Positions : OnMetadata(t, dur, pos)
    BY <1>5, OnMetadataIInv
<1>6. CASE FillBegin
    BY <1>6, FillBeginIInv
<1>7. CASE Fill
    BY <1>7, FillCancelIInv, FillOutgoingIInv, FillIncomingIInv, FillCopyIInv,
       FillUnderrunIInv DEF Fill
<1>8. CASE ClockTick
    BY <1>8, ClockTickIInv
<1>9. CASE UNCHANGED vars
    BY <1>9 DEF vars, fillVars, deliveryVars, controlVars, boundaryVars, IInv, TypeOK,
       BoundaryTypeOK, ReadBehindWrite, FadeAligned, FadeWindow, HeardBehind, NoReplay,
       FlushDelivered
<1> QED
    BY <1>1, <1>2, <1>3, <1>4, <1>5, <1>6, <1>7, <1>8, <1>9 DEF Next

\* Every reachable state of the pipeline satisfies the inductive invariant.
THEOREM Invariance == Spec => []IInv
<1>1. Init => IInv
    BY InitIInv
<1>2. IInv /\ [Next]_vars => IInv'
    BY StepIInv
<1> QED
    BY <1>1, <1>2, PTL DEF Spec

\* Every variable keeps its type: in particular no frame counter, ramp start
\* or ramp length ever becomes negative (they are unsigned in the code).
THEOREM TypeCorrect == Spec => []TypeOK
<1>1. IInv => TypeOK
    BY DEF IInv
<1> QED
    BY <1>1, Invariance, PTL

\* No frame is ever given to the real player twice unless the ring overflowed.
THEOREM PlayedOnce == Spec => []NoReplay
<1>1. IInv => NoReplay
    BY DEF IInv
<1> QED
    BY <1>1, Invariance, PTL

\* The read position and the incoming cursor stay behind the write position.
THEOREM StaysBehindWrite == Spec => []ReadBehindWrite
<1>1. IInv => ReadBehindWrite
    BY DEF IInv
<1> QED
    BY <1>1, Invariance, PTL

\* The ramps of a scheduled fade stay anchored to its boundary.
THEOREM RampsAligned == Spec => []FadeAligned
<1>1. IInv => FadeAligned
    BY DEF IInv
<1> QED
    BY <1>1, Invariance, PTL

-----------------------------------------------------------------------------
(* Action properties *)

\* An iteration of fill() never moves read_ back, nor past a frame unheard.
LEMMA FillMoves ==
    ASSUME IInv, Fill
    PROVE  /\ read' \in Nat /\ read <= read'
           /\ \A f \in read .. (read' - 1) : f \in heard'
<1>1. /\ read \in Nat /\ written \in Nat /\ fade \in FadeRecord /\ filling \in Nat
      /\ fade.at \in Nat /\ fade.b \in Nat /\ fade.kB \in Nat /\ fade.nA \in Nat
      /\ fade.n \in Nat /\ fade.start \in Nat
    BY SizesAssumption DEF IInv, TypeOK, FadeRecord
<1>2. ASSUME FillCancel \/ FillUnderrun PROVE read' = read
    BY <1>2 DEF FillCancel, FillUnderrun
<1>3. ASSUME FillCopy
      PROVE  read' \in Nat /\ read <= read' /\ \A f \in read .. (read' - 1) : f \in heard'
    <2> DEFINE chunk == Least(CopyLimit - read, filling)
    <2>1. CopyLimit \in Nat
        BY <1>1 DEF CopyLimit, Least
    <2>2. chunk \in Nat
        BY <1>1, <1>3, <2>1, SMT DEF FillCopy, Least
    <2>3. read' = read + chunk /\ heard' = heard \cup Span(read, chunk)
        BY <1>3 DEF FillCopy, Emit
    <2> HIDE DEF chunk
    <2> QED
        BY <1>1, <2>2, <2>3, SMT DEF Span
<1>4. ASSUME InFade, NEW r \in Nat, read <= r, r <= fade.at, NEW haveB \in Nat,
             Span(read, r - read) \cup Span(fade.b, haveB) \subseteq heard',
             heard \subseteq heard', FadeProgress(r, haveB)
      PROVE  read' \in Nat /\ read <= read' /\ \A f \in read .. (read' - 1) : f \in heard'
    <2>1. /\ fade.b = fade.at + fade.kB
          /\ \A f \in fade.at .. (fade.b - 1) : f \in heard
        BY <1>4 DEF IInv, FadeAligned, FadeWindow, InFade
    <2>2. read' = r \/ (read' = fade.b + haveB /\ r = fade.at)
        BY <1>1, <1>4, SMT DEF FadeProgress
    <2>3. read' \in Nat /\ read <= read'
        BY <1>1, <1>4, <2>1, <2>2, SMT
    <2>4. ASSUME NEW f \in read .. (read' - 1) PROVE f \in heard'
        <3>1. f \in Nat /\ read <= f /\ f < read'
            BY <1>1, <2>3, Between
        <3>2. CASE f < r
            <4>1. f \in Span(read, r - read)
                BY <1>1, <1>4, <3>1, <3>2, SMT DEF Span
            <4> QED
                BY <1>4, <4>1
        <3>3. CASE ~(f < r) /\ f < fade.b
            <4>1. f \in fade.at .. (fade.b - 1)
                BY <1>1, <1>4, <2>2, <3>1, <3>3, SMT
            <4> QED
                BY <1>4, <2>1, <4>1
        <3>4. CASE ~(f < r) /\ ~(f < fade.b)
            <4>1. f \in Span(fade.b, haveB)
                BY <1>1, <1>4, <2>2, <3>1, <3>4, SMT DEF Span
            <4> QED
                BY <1>4, <4>1
        <3> QED
            BY <3>2, <3>3, <3>4
    <2> QED
        BY <2>3, <2>4
<1>5. CASE FillOutgoing
    <2> DEFINE k0    == read - fade.start
               left  == IF fade.nA > k0 THEN fade.nA - k0 ELSE 1
               chunk == Least(Least(filling, fade.at - read), Least(written - read, left))
               haveB == Least(Greatest(0, written - fade.b), chunk)
    <2>1. /\ InFade /\ read < fade.at /\ read < written /\ filling > 0
          /\ heard' = heard \cup (Span(read, chunk) \cup Span(fade.b, haveB))
          /\ FadeProgress(read + chunk, haveB)
        BY <1>5 DEF FillOutgoing, Outgoing, Emit
    <2>2. left \in Nat \ {0}
        BY <1>1, <2>1, SMT DEF InFade
    <2> HIDE DEF left
    <2>3. chunk \in Nat /\ read + chunk <= fade.at
        BY <1>1, <2>1, <2>2, SMT DEF Least
    <2> HIDE DEF chunk
    <2>4. haveB \in Nat
        BY <1>1, <2>3, SMT DEF Least, Greatest
    <2> HIDE DEF haveB
    <2>5. (read + chunk) - read = chunk /\ read + chunk \in Nat /\ read <= read + chunk
        BY <1>1, <2>3, SMT
    <2> QED
        BY <1>4, <2>1, <2>3, <2>4, <2>5
<1>6. CASE FillIncoming
    <2> DEFINE chunk == Least(filling, Greatest(0, fade.n - fade.kB))
               haveB == Least(written - fade.b, chunk)
    <2>1. /\ InFade /\ read = fade.at /\ (fade.b < written \/ fade.kB >= fade.n)
          /\ heard' = heard \cup Span(fade.b, haveB)
          /\ FadeProgress(read, haveB)
        BY <1>6 DEF FillIncoming, IncomingOnly, Emit
    <2>2. fade.n >= 1 /\ (fade.kB > 0 => fade.b <= written)
        BY <2>1 DEF IInv, FadeAligned, ReadBehindWrite, InFade
    <2>3. chunk \in Nat
        BY <1>1, SMT DEF Least, Greatest
    <2> HIDE DEF chunk
    <2>4. haveB \in Nat
        BY <1>1, <2>1, <2>2, <2>3, SMT DEF Least
    <2> HIDE DEF haveB
    <2>5. Span(read, read - read) = {} /\ read <= read /\ read <= fade.at
        BY <1>1, <2>1, SMT DEF Span
    <2> QED
        BY <1>1, <1>4, <2>1, <2>4, <2>5
<1>7. CASE read' = read
    BY <1>1, <1>7
<1> QED
    BY <1>2, <1>3, <1>5, <1>6, <1>7 DEF Fill

\* No handler moves read_ back.
LEMMA StepReadMonotone == IInv /\ [Next]_vars => read' >= read
<1> SUFFICES ASSUME IInv, [Next]_vars PROVE read' >= read
    OBVIOUS
<1>1. read \in Nat /\ written \in Nat /\ read <= written
    BY DEF IInv, TypeOK, ReadBehindWrite
<1>2. CASE \E n \in BufferSizes : WriteAudio(n)
    <2> PICK n \in BufferSizes : WriteAudio(n)
        BY <1>2
    <2> DEFINE r == IF Reanchors /\ fade.kB > 0 THEN Greatest(read, fade.b) ELSE read
    <2>1. read' = IF written + n > r + Capacity THEN (written + n) - Capacity ELSE r
        BY DEF WriteAudio
    <2>2. r \in Nat /\ read <= r
        BY <1>1, SMT DEF Greatest, IInv, TypeOK, FadeRecord
    <2> HIDE DEF r
    <2>3. n \in Nat /\ Capacity \in Nat
        BY SizesAssumption
    <2> QED
        BY <1>1, <2>1, <2>2, <2>3, SMT
<1>3. CASE AckLoop
    <2>1. read <= read'
        BY <1>3, TickWellFormed, ApplyIInv DEF IInv, TypeOK, AckLoop
    <2>2. read' \in Nat
        BY <1>3, AckLoopIInv DEF IInv, TypeOK
    <2> QED
        BY <1>1, <2>1, <2>2
<1>4. CASE \E t \in Tracks, dur \in Durations, pos \in Positions : OnMetadata(t, dur, pos)
    <2> PICK t \in Tracks, dur \in Durations, pos \in Positions : OnMetadata(t, dur, pos)
        BY <1>4
    <2>1. X \in Nat
        BY LeadNat, InputsAssumption DEF IInv, TypeOK
    <2>2. WellFormed(MetadataDecision(t, written, read, X))
        BY <1>1, <2>1, MetadataWellFormed DEF IInv, TypeOK
    <2>3. read <= read' /\ read' \in Nat
        BY <2>2, ApplyIInv DEF OnMetadata
    <2> QED
        BY <1>1, <2>3
<1>5. CASE Fill
    BY <1>1, <1>5, FillMoves
<1>6. CASE \/ \E n \in BufferSizes : DropPadding(n)
           \/ Clear
           \/ \E p \in PlayStates : SetPlayState(p)
           \/ ForwardPlayState
           \/ CallbackReturns
           \/ \E ms \in Crossfades : SetCrossfadeMs(ms)
           \/ FillBegin
           \/ ClockTick
           \/ UNCHANGED vars
    <2>1. read' = read
        BY <1>6 DEF DropPadding, Clear, SetPlayState, ForwardPlayState, CallbackReturns,
           SetCrossfadeMs, FillBegin, ClockTick, vars, fillVars
    <2> QED
        BY <1>1, <2>1
<1> QED
    BY <1>2, <1>3, <1>4, <1>5, <1>6 DEF Next, Enqueue

\* The read position never goes back, whichever handler moves it.
THEOREM NeverRewinds == Spec => ReadMonotone
<1>1. IInv /\ [Next]_vars => [read' >= read]_vars
    BY StepReadMonotone
<1> QED
    BY <1>1, Invariance, PTL DEF Spec, ReadMonotone

\* What fill() moves read_ past it has played.
LEMMA StepFillLosesNothing ==
    IInv /\ [Next]_vars =>
        [filling > 0 => \A f \in read .. (read' - 1) : f \in heard']_vars
<1> SUFFICES ASSUME IInv, Next, filling > 0
             PROVE  \A f \in read .. (read' - 1) : f \in heard'
    OBVIOUS
<1>1. read \in Nat /\ filling \in Nat /\ filling # 0
    BY SizesAssumption, SMT DEF IInv, TypeOK
<1>2. CASE Fill
    BY <1>2, FillMoves
<1>3. CASE CallbackReturns \/ ForwardPlayState
    <2>1. read' = read
        BY <1>3 DEF CallbackReturns, ForwardPlayState, fillVars
    <2> QED
        BY <1>1, <2>1
<1>4. Fill \/ CallbackReturns \/ ForwardPlayState
    BY <1>1 DEF Next, Enqueue, DropPadding, WriteAudio, CanEnqueue, Clear, SetPlayState,
       AckLoop, OnMetadata, SetCrossfadeMs, FillBegin, ClockTick
<1> QED
    BY <1>2, <1>3, <1>4

\* fill() moves read_ only past frames that have been heard.
THEOREM NothingLostInFill == Spec => FillLosesNothing
<1> QED
    BY StepFillLosesNothing, Invariance, PTL DEF Spec, FillLosesNothing

\* A flush is only taken by a cut, which applies at the delivered frame of the Clear.
LEMMA StepFlushedAudioIsLeft ==
    IInv /\ [Next]_vars =>
        [flush.pending /\ ~flush'.pending
            => read' >= flush.frame /\ ~fade'.scheduled]_vars
<1> SUFFICES ASSUME IInv, Next, flush.pending, ~flush'.pending
             PROVE  read' >= flush.frame /\ ~fade'.scheduled
    OBVIOUS
<1>1. /\ read \in Nat /\ written \in Nat /\ flush.frame \in Nat /\ flush.frame <= written
      /\ fade \in FadeRecord
    BY DEF IInv, TypeOK, BoundaryTypeOK, FlushDelivered
<1>2. ASSUME Apply(Cut(flush.frame))
      PROVE  read' >= flush.frame /\ ~fade'.scheduled
    <2>1. read' = Greatest(PastMixed, Least(flush.frame, written)) /\ fade' = NoFade
        BY <1>2 DEF Apply, Cut
    <2>2. PastMixed \in Nat
        BY <1>1, SMT DEF PastMixed, Greatest, FadeRecord
    <2> QED
        BY <1>1, <2>1, <2>2, SMT DEF Greatest, Least, NoFade
<1>3. CASE \E t \in Tracks, dur \in Durations, pos \in Positions : OnMetadata(t, dur, pos)
    <2> PICK t \in Tracks, dur \in Durations, pos \in Positions : OnMetadata(t, dur, pos)
        BY <1>3
    <2>1. MetadataDecision(t, written, read, X) = Cut(flush.frame)
        BY DEF MetadataDecision, IsNatural
    <2> QED
        BY <1>2, <2>1 DEF OnMetadata
<1>4. CASE AckLoop
    <2>1. FlushTimedOut
        BY <1>4 DEF AckLoop, BoundaryTick
    <2> QED
        BY <1>2, <1>4, <2>1 DEF AckLoop, TickDecision
<1>5. CASE Clear
    BY <1>5 DEF Clear, BoundaryOnFlush
<1>6. CASE ClockTick
    BY <1>6 DEF ClockTick, BoundaryClock, Aged, IInv, TypeOK, BoundaryTypeOK
<1>7. CASE \/ \E n \in BufferSizes : Enqueue(n)
           \/ \E p \in PlayStates : SetPlayState(p)
           \/ ForwardPlayState
           \/ CallbackReturns
           \/ \E ms \in Crossfades : SetCrossfadeMs(ms)
           \/ FillBegin
           \/ Fill
    <2>1. flush' = flush
        BY <1>7 DEF Enqueue, DropPadding, WriteAudio, SetPlayState, ForwardPlayState,
           CallbackReturns, SetCrossfadeMs, FillBegin, Fill, FillCancel, FillOutgoing,
           FillIncoming, FillCopy, FillUnderrun, Undelivered, boundaryVars
    <2> QED
        BY <2>1
<1> QED
    BY <1>3, <1>4, <1>5, <1>6, <1>7 DEF Next

\* Resolving a flush leaves what was delivered before it behind for good.
THEOREM FlushLeavesOldAudio == Spec => FlushedAudioIsLeft
<1> QED
    BY StepFlushedAudioIsLeft, Invariance, PTL DEF Spec, FlushedAudioIsLeft
=============================================================================
