--------------------------- MODULE RingWindowProofs ---------------------------
(***************************************************************************)
(* The ring of RingPipeline never overflows while the eSDK calls no Clear, *)
(* provided it is sized for the longest crossfade.                         *)
(***************************************************************************)
EXTENDS RingPipelineProofs

-----------------------------------------------------------------------------
(* Arithmetic *)

\* Integer division is monotonic.
LEMMA DivMonotone ==
    ASSUME NEW a \in Nat, NEW b \in Nat, a <= b, NEW d \in Nat \ {0}
    PROVE  a \div d <= b \div d
BY SMT

\* A longer time is no fewer frames.
LEMMA FramesMonotone ==
    ASSUME NEW a \in Nat, NEW b \in Nat, a <= b
    PROVE  Frames(a) <= Frames(b)
<1>1. a * Rate \in Nat /\ b * Rate \in Nat /\ a * Rate <= b * Rate
    BY ClockAssumption, SMT
<1> QED
    BY <1>1, DivMonotone, ClockAssumption DEF Frames

\* A fade of the current length and the lead target are within reach.
LEMMA TargetWithinReach ==
    ASSUME NEW ms \in Nat, NEW buffer \in Nat, RingFits(ms, buffer), TypeOK
    PROVE  /\ X \in Nat /\ T \in Nat /\ Frames(ms) \in Nat /\ Reach(ms) \in Nat
           /\ X <= Frames(ms) /\ Frames(ms) + T <= Reach(ms)
<1>1. crossfadeMs \in Nat /\ crossfadeMs <= ms
    BY DEF RingFits, TypeOK
<1>2. X \in Nat /\ T \in Nat
    BY <1>1, LeadNat
<1>3. Frames(ms) \in Nat /\ X <= Frames(ms) /\ MinLead \in Nat
    BY <1>1, FramesNat, FramesMonotone, TimesAssumption DEF X, MinLead
<1> QED
    BY <1>2, <1>3, ClockAssumption, SMT DEF T, Reach, Greatest

\* Adding nothing
LEMMA AddNothing ==
    ASSUME NEW a \in Nat, NEW m, m = 0
    PROVE  a <= a + m
BY SMT

\* One more buffer on top of k of them
LEMMA OneMore ==
    ASSUME NEW k \in Nat, NEW buffer \in Nat
    PROVE  k * buffer \in Nat /\ (k + 1) * buffer = k * buffer + buffer
BY SMT

\* Fewer buffers hold no more.
LEMMA FewerBuffers ==
    ASSUME NEW k \in Nat, NEW m \in Nat, k <= m, NEW buffer \in Nat
    PROVE  k * buffer <= m * buffer
BY SMT

-----------------------------------------------------------------------------
(* Handlers that enqueue and acknowledge nothing *)

\* Only the empty sequence has no element.
LEMMA EmptyLength ==
    ASSUME NEW S, NEW s \in Seq(S)
    PROVE  s = <<>> <=> Len(s) = 0
OBVIOUS

\* The hypotheses of every step lemma, and their types
LEMMA WindowTypes ==
    ASSUME NEW ms \in Nat, NEW buffer \in Nat, RingFits(ms, buffer), TypeOK
    PROVE  /\ read \in Nat /\ written \in Nat /\ clears \in Nat /\ Depth \in Nat \ {0}
           /\ pending \in Seq(PendingRecord) /\ Len(pending) \in Nat
           /\ fade \in FadeRecord
           /\ \A i \in 1 .. Len(pending) :
                 /\ pending[i].end \in Nat /\ pending[i].dropped \in BOOLEAN
                 /\ Growth(pending[i], buffer) \in Nat /\ Growth(pending[i], buffer) <= buffer
           /\ pending = <<>> <=> Len(pending) = 0
<1>1. /\ read \in Nat /\ written \in Nat /\ clears \in Nat /\ Depth \in Nat \ {0}
      /\ pending \in Seq(PendingRecord) /\ fade \in FadeRecord
    BY SizesAssumption DEF TypeOK
<1>2. Len(pending) \in Nat /\ (pending = <<>> <=> Len(pending) = 0)
    BY <1>1
<1>3. ASSUME NEW i \in 1 .. Len(pending)
      PROVE  pending[i].end \in Nat /\ pending[i].dropped \in BOOLEAN
    <2>1. pending[i] \in PendingRecord
        BY <1>1
    <2> QED
        BY <2>1 DEF PendingRecord
<1> QED
    BY <1>1, <1>2, <1>3 DEF Growth

\* What waits may only get older, read_ may only advance, and a fade may only
\* end or be one of a length within reach.
LEMMA QuietWindow ==
    ASSUME NEW ms \in Nat, NEW buffer \in Nat, RingFits(ms, buffer), TypeOK, TypeOK',
           WindowInv(ms, buffer), UNCHANGED <<written, clears, overflowed>>,
           read <= read', Len(pending') = Len(pending),
           \A i \in 1 .. Len(pending) : /\ pending'[i].end = pending[i].end
                                        /\ pending'[i].dropped = pending[i].dropped,
           fade'.scheduled => fade'.n <= Frames(ms)
    PROVE  WindowInv(ms, buffer)'
<1>1. /\ read \in Nat /\ read' \in Nat /\ written \in Nat /\ Reach(ms) \in Nat
      /\ Len(pending) \in Nat /\ (pending = <<>> <=> Len(pending) = 0)
      /\ \A i \in 1 .. Len(pending) : pending[i].end \in Nat /\ Growth(pending[i], buffer) \in Nat
    BY WindowTypes, TargetWithinReach DEF TypeOK
<1>2. pending' = <<>> <=> pending = <<>>
    <2>1. pending' = <<>> <=> Len(pending') = 0
        BY DEF TypeOK
    <2> QED
        BY <1>1, <2>1
<1>3. Len(pending') <= Depth
    BY DEF WindowInv
<1>4. \A i \in 1 .. Len(pending) : Growth(pending'[i], buffer) = Growth(pending[i], buffer)
    BY DEF Growth
<1>5. ASSUME clears' = 0
      PROVE  /\ ~overflowed'
             /\ pending' = <<>> => written' <= read' + Reach(ms)
             /\ pending' # <<>> =>
                   pending'[1].end <= read' + Reach(ms) + Growth(pending'[1], buffer)
             /\ \A i \in 1 .. Len(pending') :
                   written' <= pending'[i].end + (Len(pending') - i) * buffer
             /\ \A i \in 2 .. Len(pending') :
                   pending'[i].end <= pending'[i - 1].end + Growth(pending'[i], buffer)
    <2>1. /\ ~overflowed
          /\ pending = <<>> => written <= read + Reach(ms)
          /\ pending # <<>> => pending[1].end <= read + Reach(ms) + Growth(pending[1], buffer)
          /\ \A i \in 1 .. Len(pending) :
                written <= pending[i].end + (Len(pending) - i) * buffer
          /\ \A i \in 2 .. Len(pending) :
                pending[i].end <= pending[i - 1].end + Growth(pending[i], buffer)
        BY <1>5 DEF WindowInv
    <2>2. pending' = <<>> => written' <= read' + Reach(ms)
        BY <1>1, <1>2, <2>1, SMT
    <2>3. pending' # <<>> => pending'[1].end <= read' + Reach(ms) + Growth(pending'[1], buffer)
        <3> SUFFICES ASSUME pending' # <<>>
                     PROVE  pending'[1].end <= read' + Reach(ms) + Growth(pending'[1], buffer)
            OBVIOUS
        <3>1. 1 \in 1 .. Len(pending) /\ pending # <<>>
            BY <1>1, <1>2, SMT
        <3>2. /\ pending'[1].end = pending[1].end
              /\ Growth(pending'[1], buffer) = Growth(pending[1], buffer)
              /\ pending[1].end \in Nat /\ Growth(pending[1], buffer) \in Nat
              /\ pending[1].end <= read + Reach(ms) + Growth(pending[1], buffer)
            BY <1>1, <1>4, <2>1, <3>1
        <3> QED
            BY <1>1, <3>2, SMTT(30)
    <2>4. \A i \in 1 .. Len(pending') :
             written' <= pending'[i].end + (Len(pending') - i) * buffer
        BY <2>1
    <2>5. ASSUME NEW i \in 2 .. Len(pending')
          PROVE  pending'[i].end <= pending'[i - 1].end + Growth(pending'[i], buffer)
        <3>1. i \in 1 .. Len(pending) /\ i - 1 \in 1 .. Len(pending)
            BY <1>1, SMT
        <3> QED
            BY <1>4, <2>1, <3>1
    <2> QED
        BY <2>1, <2>2, <2>3, <2>4, <2>5
<1> QED
    BY <1>3, <1>5 DEF WindowInv

\* A decision schedules a fade no longer than the crossfade length it was
\* decided with.
LEMMA ApplyLength ==
    ASSUME NEW ms \in Nat, fade.scheduled => fade.n <= Frames(ms), NEW d, WellFormed(d),
           Apply(d), d.kind = "Fade" => d.n <= Frames(ms)
    PROVE  fade'.scheduled => fade'.n <= Frames(ms)
BY DEF Apply, WellFormed, ScheduledFade, NoFade

\* An announcement asks for a fade of at most the current length.
LEMMA MetadataLength ==
    ASSUME NEW ms \in Nat, NEW w \in Nat, NEW r \in Nat, NEW crossfade \in Nat, NEW t,
           BoundaryTypeOK, Frames(ms) \in Nat, crossfade <= Frames(ms),
           MetadataDecision(t, w, r, crossfade).kind = "Fade"
    PROVE  MetadataDecision(t, w, r, crossfade).n <= Frames(ms)
<1> DEFINE b == NaturalBoundary(w)
           tail == Greatest(0, b - r)
<1>1. b \in Nat
    BY DEF BoundaryTypeOK, NaturalBoundary, NoPrediction
<1> HIDE DEF b
<1>2. tail \in Nat
    BY <1>1, SMT DEF Greatest
<1>3. MetadataDecision(t, w, r, crossfade) = Decide(b, t, r, crossfade)
    BY DEF MetadataDecision, Cut, None, IsNatural, b
<1>4. Decide(b, t, r, crossfade) = Fade(b, Least(tail, crossfade))
    BY <1>3 DEF Decide, Cut
<1> HIDE DEF tail
<1> QED
    BY <1>2, <1>3, <1>4, SMT DEF Fade, Least

\* fill() never lengthens a fade.
LEMMA FillLength ==
    ASSUME IInv, Fill, fade'.scheduled
    PROVE  fade.scheduled /\ fade'.n = fade.n
<1>1. ASSUME NEW r, NEW haveB, FadeProgress(r, haveB)
      PROVE  fade.scheduled /\ fade'.n = fade.n
    <2>1. fade' # NoFade
        BY DEF NoFade
    <2>2. fade' = [fade EXCEPT !.b = fade.b + haveB, !.kB = fade.kB + haveB]
        BY <1>1, <2>1 DEF FadeProgress
    <2> QED
        BY <2>2 DEF IInv, TypeOK, FadeRecord
<1>2. CASE FillCancel \/ FillCopy \/ FillUnderrun
    BY <1>2 DEF FillCancel, FillCopy, FillUnderrun, NoFade
<1>3. CASE FillOutgoing \/ FillIncoming
    BY <1>1, <1>3 DEF FillOutgoing, FillIncoming
<1> QED
    BY <1>2, <1>3 DEF Fill

-----------------------------------------------------------------------------
(* Enqueueing and acknowledging *)

\* An accepted buffer e adds at most its growth to the stream.
LEMMA AppendWindow ==
    ASSUME NEW ms \in Nat, NEW buffer \in Nat, RingFits(ms, buffer), TypeOK, TypeOK',
           WindowInv(ms, buffer), Len(pending) < Depth,
           NEW e \in PendingRecord, pending' = Append(pending, e), e.end = written',
           written' <= written + Growth(e, buffer),
           UNCHANGED <<clears, overflowed>>, read <= read',
           fade'.scheduled => fade'.n <= Frames(ms)
    PROVE  WindowInv(ms, buffer)'
<1> DEFINE k == Len(pending)
           g == Growth(e, buffer)
<1>0. /\ read \in Nat /\ read' \in Nat /\ written \in Nat /\ written' \in Nat
      /\ Reach(ms) \in Nat /\ read <= read'
    BY WindowTypes, TargetWithinReach DEF TypeOK
<1>1. /\ read \in Nat /\ read' \in Nat /\ written \in Nat /\ written' \in Nat
      /\ Reach(ms) \in Nat /\ k \in Nat /\ Depth \in Nat
      /\ (pending = <<>> <=> k = 0)
      /\ \A i \in 1 .. k : /\ pending[i].end \in Nat /\ Growth(pending[i], buffer) \in Nat
      /\ pending \in Seq(PendingRecord)
    BY WindowTypes, TargetWithinReach DEF TypeOK
<1>2. /\ Len(pending') = k + 1 /\ pending' # <<>> /\ pending'[k + 1] = e
      /\ \A i \in 1 .. k : pending'[i] = pending[i]
    BY <1>1, SMT
<1>3. g \in Nat /\ g <= buffer /\ written' <= written + g
    BY <1>1 DEF Growth
<1>4. /\ Growth(pending'[k + 1], buffer) = g
      /\ \A i \in 1 .. k : Growth(pending'[i], buffer) = Growth(pending[i], buffer)
    BY <1>1, <1>2
<1> HIDE DEF k, g
<1>5. Len(pending') <= Depth
    BY <1>1, <1>2, SMT DEF k
<1>6. ASSUME clears' = 0
      PROVE  /\ ~overflowed'
             /\ pending' = <<>> => written' <= read' + Reach(ms)
             /\ pending' # <<>> =>
                   pending'[1].end <= read' + Reach(ms) + Growth(pending'[1], buffer)
             /\ \A i \in 1 .. Len(pending') :
                   written' <= pending'[i].end + (Len(pending') - i) * buffer
             /\ \A i \in 2 .. Len(pending') :
                   pending'[i].end <= pending'[i - 1].end + Growth(pending'[i], buffer)
    <2>1. /\ ~overflowed
          /\ k = 0 => written <= read + Reach(ms)
          /\ k # 0 => pending[1].end <= read + Reach(ms) + Growth(pending[1], buffer)
          /\ \A i \in 1 .. k : written <= pending[i].end + (k - i) * buffer
          /\ \A i \in 2 .. k : pending[i].end <= pending[i - 1].end + Growth(pending[i], buffer)
        BY <1>1, <1>6 DEF WindowInv, k
    <2>2. pending'[1].end <= read' + Reach(ms) + Growth(pending'[1], buffer)
        <3>1. CASE k = 0
            <4>1. pending'[1].end = written' /\ Growth(pending'[1], buffer) = g
                BY <1>2, <1>4, <3>1
            <4> QED
                BY <1>1, <1>3, <2>1, <3>1, <4>1, SMT
        <3>2. CASE k # 0
            <4>1. 1 \in 1 .. k
                BY <1>1, <3>2, SMT
            <4>2. pending'[1] = pending[1]
                BY <1>2, <4>1
            <4>3. pending[1].end \in Nat /\ Growth(pending[1], buffer) \in Nat
                BY <1>1, <4>1
            <4>4. pending[1].end <= read + Reach(ms) + Growth(pending[1], buffer)
                BY <2>1, <3>2
            <4>5. read + Reach(ms) + Growth(pending[1], buffer)
                     <= read' + Reach(ms) + Growth(pending[1], buffer)
                BY <1>0, <4>3, SMT
            <4>6. pending[1].end <= read' + Reach(ms) + Growth(pending[1], buffer)
                BY <1>0, <4>3, <4>4, <4>5, SMTT(30)
            <4> QED
                BY <4>2, <4>6
        <3> QED
            BY <3>1, <3>2
    <2>3. ASSUME NEW i \in 1 .. (k + 1)
          PROVE  written' <= pending'[i].end + ((k + 1) - i) * buffer
        <3>1. CASE i = k + 1
            <4> DEFINE m == ((k + 1) - i) * buffer
            <4>1. m = 0
                BY <1>1, <3>1, SMT
            <4>2. pending'[i].end = written'
                BY <1>2, <3>1
            <4> HIDE DEF m
            <4>3. written' <= written' + m
                BY <1>0, <4>1, AddNothing, Zenon
            <4>4. written' <= pending'[i].end + m
                BY <4>2, <4>3, Zenon
            <4> QED
                BY <4>4, Zenon DEF m
        <3>2. CASE i # k + 1
            <4>1. i \in 1 .. k /\ k - i \in Nat /\ (k + 1) - i = (k - i) + 1
                BY <1>1, <3>2, SMT
            <4>2. /\ (k - i) * buffer \in Nat
                  /\ ((k - i) + 1) * buffer = (k - i) * buffer + buffer
                BY <4>1, OneMore
            <4>3. /\ pending'[i].end = pending[i].end /\ pending[i].end \in Nat
                  /\ written <= pending[i].end + (k - i) * buffer
                BY <1>1, <1>2, <2>1, <4>1
            <4> DEFINE q == (k - i) * buffer
            <4>4. /\ q \in Nat /\ ((k + 1) - i) * buffer = q + buffer
                  /\ written <= pending[i].end + q
                BY <4>1, <4>2, <4>3
            <4> DEFINE m == ((k + 1) - i) * buffer
                       x == pending[i].end
            <4>5. x \in Nat /\ q \in Nat /\ m = q + buffer /\ written <= x + q
                BY <4>3, <4>4
            <4> HIDE DEF q, m, x
            <4>6. written' <= x + m
                BY <1>0, <1>3, <4>5, SMTT(30)
            <4>7. pending'[i].end = x
                BY <4>3 DEF x
            <4> QED
                BY <4>6, <4>7 DEF m
        <3> QED
            BY <3>1, <3>2
    <2>4. ASSUME NEW i \in 2 .. (k + 1)
          PROVE  pending'[i].end <= pending'[i - 1].end + Growth(pending'[i], buffer)
        <3>1. CASE i = k + 1
            <4>1. k \in 1 .. k /\ i - 1 = k
                BY <1>1, <3>1, SMT
            <4>2. /\ pending'[i].end = written' /\ pending'[i - 1].end = pending[k].end
                  /\ Growth(pending'[i], buffer) = g /\ pending[k].end \in Nat
                BY <1>1, <1>2, <1>4, <3>1, <4>1
            <4>3. written <= pending[k].end + (k - k) * buffer
                BY <2>1, <4>1
            <4>4. (k - k) * buffer = 0
                BY <1>1, SMT
            <4>5. written <= pending[k].end
                BY <4>2, <4>3, <4>4
            <4> QED
                BY <1>0, <1>3, <4>2, <4>5, SMTT(30)
        <3>2. CASE i # k + 1
            <4>1. i \in 2 .. k /\ i \in 1 .. k /\ i - 1 \in 1 .. k
                BY <1>1, <3>2, SMT
            <4> QED
                BY <1>2, <1>4, <2>1, <4>1
        <3> QED
            BY <3>1, <3>2
    <2> QED
        BY <1>2, <2>1, <2>2, <2>3, <2>4
<1> QED
    BY <1>5, <1>6 DEF WindowInv

\* Acknowledging the head: it was padding, or its end had come within reach.
LEMMA AckWindow ==
    ASSUME NEW ms \in Nat, NEW buffer \in Nat, RingFits(ms, buffer), TypeOK, TypeOK',
           WindowInv(ms, buffer), pending # <<>>, pending' = Tail(pending),
           pending[1].dropped \/ pending[1].end <= read' + Reach(ms),
           UNCHANGED <<written, clears, overflowed>>, read <= read',
           fade'.scheduled => fade'.n <= Frames(ms)
    PROVE  WindowInv(ms, buffer)'
<1> DEFINE k == Len(pending)
<1>0. read \in Nat /\ read' \in Nat /\ written \in Nat /\ Reach(ms) \in Nat
    BY WindowTypes, TargetWithinReach DEF TypeOK
<1>1. /\ read \in Nat /\ read' \in Nat /\ written \in Nat /\ Depth \in Nat
      /\ Reach(ms) \in Nat /\ k \in Nat \ {0} /\ 1 \in 1 .. k
      /\ \A i \in 1 .. k : /\ pending[i].end \in Nat /\ Growth(pending[i], buffer) \in Nat
      /\ pending \in Seq(PendingRecord)
    <2>1. k \in Nat \ {0}
        BY WindowTypes
    <2> QED
        BY <2>1, WindowTypes, TargetWithinReach, SMTT(30) DEF TypeOK
<1>2. /\ Len(pending') = k - 1
      /\ \A i \in 1 .. (k - 1) : pending'[i] = pending[i + 1]
      /\ pending' = <<>> <=> k - 1 = 0
    <2>1. pending' \in Seq(PendingRecord) /\ pending' = Tail(pending)
        BY <1>1, PendingTail
    <2>2. Len(pending') = k - 1
        BY <1>1, SMT
    <2>3. \A i \in 1 .. (k - 1) : pending'[i] = pending[i + 1]
        BY <1>1, SMT
    <2>4. pending' = <<>> <=> Len(pending') = 0
        BY <2>1, EmptyLength
    <2>5. pending' = <<>> <=> k - 1 = 0
        <3>1. CASE pending' = <<>>
            BY <2>2, <2>4, <3>1
        <3>2. CASE pending' # <<>>
            BY <2>2, <2>4, <3>2
        <3> QED
            BY <3>1, <3>2
    <2> HIDE DEF k
    <2> QED
        BY <2>2, <2>3, <2>5
<1>3. \A i \in 1 .. (k - 1) : Growth(pending'[i], buffer) = Growth(pending[i + 1], buffer)
    BY <1>2 DEF Growth
<1>4. Len(pending') <= Depth
    BY <1>1, <1>2, SMT DEF WindowInv
<1> HIDE DEF k
<1>5. ASSUME clears' = 0
      PROVE  /\ ~overflowed'
             /\ pending' = <<>> => written' <= read' + Reach(ms)
             /\ pending' # <<>> =>
                   pending'[1].end <= read' + Reach(ms) + Growth(pending'[1], buffer)
             /\ \A i \in 1 .. Len(pending') :
                   written' <= pending'[i].end + (Len(pending') - i) * buffer
             /\ \A i \in 2 .. Len(pending') :
                   pending'[i].end <= pending'[i - 1].end + Growth(pending'[i], buffer)
    <2>1. /\ ~overflowed
          /\ pending[1].end <= read + Reach(ms) + Growth(pending[1], buffer)
          /\ \A i \in 1 .. k : written <= pending[i].end + (k - i) * buffer
          /\ \A i \in 2 .. k : pending[i].end <= pending[i - 1].end + Growth(pending[i], buffer)
        BY <1>5 DEF WindowInv, k
    <2>2. pending[1].end <= read' + Reach(ms)
        <3>1. CASE pending[1].dropped
            <4>1. Growth(pending[1], buffer) = 0 /\ pending[1].end \in Nat
                BY <1>1, <3>1 DEF Growth
            <4> QED
                BY <1>1, <2>1, <4>1, SMTT(30)
        <3> QED
            BY <3>1
    <2>3. k = 1 => written <= read' + Reach(ms)
        <3>1. (1 - 1) * buffer = 0 /\ pending[1].end \in Nat
            BY <1>1, SMT
        <3>2. k = 1 => written <= pending[1].end + (1 - 1) * buffer
            BY <1>1, <2>1
        <3> QED
            BY <1>1, <2>2, <3>1, <3>2, SMT
    <2>4. k # 1 => pending'[1].end <= read' + Reach(ms) + Growth(pending'[1], buffer)
        <3> SUFFICES ASSUME k # 1
                     PROVE  pending'[1].end <= read' + Reach(ms) + Growth(pending'[1], buffer)
            OBVIOUS
        <3>1. 1 \in 1 .. (k - 1) /\ 2 \in 2 .. k /\ 2 \in 1 .. k /\ 1 + 1 = 2 /\ 2 - 1 = 1
            BY <1>1, SMT
        <3>2. pending'[1] = pending[2] /\ Growth(pending'[1], buffer) = Growth(pending[2], buffer)
            BY <1>2, <1>3, <3>1
        <3>3. /\ pending[2].end <= pending[1].end + Growth(pending[2], buffer)
              /\ pending[2].end \in Nat /\ pending[1].end \in Nat
              /\ Growth(pending[2], buffer) \in Nat
            BY <1>1, <2>1, <3>1
        <3>4. pending[2].end <= read' + Reach(ms) + Growth(pending[2], buffer)
            BY <1>0, <2>2, <3>3, SMTT(30)
        <3> QED
            BY <3>2, <3>4
    <2>5. ASSUME NEW i \in 1 .. (k - 1)
          PROVE  written' <= pending'[i].end + ((k - 1) - i) * buffer
        <3>1. i + 1 \in 1 .. k /\ k - (i + 1) = (k - 1) - i
            BY <1>1, SMT
        <3> QED
            BY <1>2, <2>1, <3>1
    <2>6. ASSUME NEW i \in 2 .. (k - 1)
          PROVE  pending'[i].end <= pending'[i - 1].end + Growth(pending'[i], buffer)
        <3>1. /\ i \in 1 .. (k - 1) /\ i - 1 \in 1 .. (k - 1) /\ i + 1 \in 2 .. k
              /\ (i - 1) + 1 = i /\ (i + 1) - 1 = i
            BY <1>1, SMT
        <3> QED
            BY <1>2, <1>3, <2>1, <3>1
    <2>7. pending' = <<>> <=> k = 1
        BY <1>1, <1>2, SMT
    <2> QED
        BY <1>2, <2>1, <2>3, <2>4, <2>5, <2>6, <2>7
<1> QED
    BY <1>4, <1>5 DEF WindowInv

\* Everything delivered, and one more buffer, fits the ring.
LEMMA RoomForOneMore ==
    ASSUME NEW ms \in Nat, NEW buffer \in Nat, RingFits(ms, buffer), TypeOK,
           WindowInv(ms, buffer), clears = 0, Len(pending) < Depth,
           NEW n \in BufferSizes
    PROVE  written + n <= read + Capacity
<1> DEFINE k == Len(pending)
<1>1. /\ read \in Nat /\ written \in Nat /\ k \in Nat /\ Depth \in Nat /\ Reach(ms) \in Nat
      /\ Capacity \in Nat /\ n \in Nat /\ n <= buffer
      /\ Capacity >= Reach(ms) + Depth * buffer
      /\ (pending = <<>> <=> k = 0)
    <2>1. n \in 1 .. buffer /\ n \in Nat /\ Capacity \in Nat
        BY SizesAssumption DEF RingFits
    <2>2. n <= buffer
        BY <2>1, SMT
    <2> QED
        BY <2>1, <2>2, WindowTypes, TargetWithinReach DEF RingFits
<1>2. k * buffer \in Nat /\ (k + 1) * buffer = k * buffer + buffer
    BY <1>1, OneMore
<1>3. (k + 1) * buffer <= Depth * buffer /\ Depth * buffer \in Nat
    BY <1>1, FewerBuffers, OneMore
<1>4. written <= read + Reach(ms) + k * buffer
    <2>1. CASE k = 0
        <3>1. written <= read + Reach(ms) /\ 0 * buffer = 0
            BY <1>1, <2>1, SMT DEF WindowInv
        <3> QED
            BY <1>1, <2>1, <3>1, SMT
    <2>2. CASE k # 0
        <3>1. 1 \in 1 .. k /\ pending # <<>> /\ k - 1 \in Nat /\ (k - 1) + 1 = k
            BY <1>1, <2>2, SMT
        <3>2. /\ written <= pending[1].end + (k - 1) * buffer
              /\ pending[1].end <= read + Reach(ms) + Growth(pending[1], buffer)
              /\ pending[1].end \in Nat /\ Growth(pending[1], buffer) \in Nat
              /\ Growth(pending[1], buffer) <= buffer
            BY <3>1, WindowTypes DEF WindowInv
        <3>3. (k - 1) * buffer \in Nat /\ k * buffer = (k - 1) * buffer + buffer
            BY <3>1, OneMore
        <3> DEFINE q == (k - 1) * buffer
                   p == k * buffer
        <3>4. /\ q \in Nat /\ p = q + buffer /\ written <= pending[1].end + q
            BY <3>2, <3>3
        <3> HIDE DEF q, p
        <3> DEFINE x == pending[1].end
                   g == Growth(pending[1], buffer)
        <3>5. /\ x \in Nat /\ g \in Nat /\ written <= x + q /\ g <= buffer
              /\ x <= read + Reach(ms) + g
            BY <3>2, <3>4
        <3> HIDE DEF x, g
        <3>6. written <= read + Reach(ms) + p
            BY <1>1, <3>4, <3>5, SMTT(30)
        <3> QED
            BY <3>6 DEF p
    <2> QED
        BY <2>1, <2>2
<1> DEFINE q == k * buffer
           all == Depth * buffer
<1>5. /\ q \in Nat /\ all \in Nat /\ q + buffer <= all /\ Capacity >= Reach(ms) + all
      /\ written <= read + Reach(ms) + q
    BY <1>1, <1>2, <1>3, <1>4
<1> HIDE DEF q, all, k
<1> QED
    BY <1>1, <1>5, SMTT(30)

-----------------------------------------------------------------------------
(* The theorem *)

\* start() publishes an empty ring and no pending buffer.
LEMMA InitWindow ==
    ASSUME NEW ms \in Nat, NEW buffer \in Nat, RingFits(ms, buffer), Init, TypeOK
    PROVE  WindowInv(ms, buffer)
<1>1. Reach(ms) \in Nat /\ Depth \in Nat
    BY TargetWithinReach, WindowTypes
<1> QED
    BY <1>1, SMT DEF Init, NoFade, WindowInv

\* What is past a frame no further than the fade is no further than the fade.
LEMMA FrontierReach ==
    ASSUME NEW r \in Nat, NEW f, f.n \in Nat, NEW m \in Nat, NEW t \in Nat,
           NEW c \in Nat, f.scheduled => f.n <= m, m + t <= c
    PROVE  Frontier(r, f) + t <= r + c
<1> DEFINE n == f.n
<1>1. n \in Nat
    OBVIOUS
<1>2. CASE f.scheduled
    <2>1. Frontier(r, f) = r + n /\ n <= m
        BY <1>2 DEF Frontier
    <2> HIDE DEF n
    <2>2. r + n + t <= r + c
        BY <1>1, <2>1, SMT
    <2> QED
        BY <2>1, <2>2
<1>3. CASE ~f.scheduled
    <2>1. Frontier(r, f) = r
        BY <1>3 DEF Frontier
    <2>2. r + t <= r + c
        BY SMT
    <2> QED
        BY <2>1, <2>2
<1> QED
    BY <1>2, <1>3

\* An iteration of the ack loop acknowledges only what is within reach.
LEMMA AckLoopWindow ==
    ASSUME NEW ms \in Nat, NEW buffer \in Nat, RingFits(ms, buffer), IInv, IInv',
           WindowInv(ms, buffer), read <= read', AckLoop
    PROVE  WindowInv(ms, buffer)'
<1>1. TypeOK /\ TypeOK'
    BY DEF IInv
<1>2. fade'.scheduled => fade'.n <= Frames(ms)
    <2>1. TickDecision.kind # "Fade"
        BY DEF TickDecision, Cut, None
    <2> QED
        BY <1>1, <2>1, TickWellFormed, ApplyLength DEF AckLoop, WindowInv, TypeOK
<1>3. CASE inCallback'
    <2>1. pending # <<>> /\ pending' = Tail(pending) /\ Head(pending) = pending[1]
        <3>1. AckReady(read', fade') /\ pending' = Tail(pending)
            BY <1>3 DEF AckLoop
        <3>2. pending # <<>>
            BY <3>1 DEF AckReady
        <3> QED
            BY <3>1, <3>2
    <2>2. pending[1].dropped \/ pending[1].end <= Frontier(read', fade') + T
        <3>1. AckReady(read', fade')
            BY <1>3 DEF AckLoop
        <3>2. CASE pending[1].dropped
            BY <3>2
        <3>3. CASE ~pending[1].dropped
            BY <2>1, <3>1, <3>3 DEF AckReady
        <3> QED
            BY <3>2, <3>3
    <2>3. Frontier(read', fade') + T <= read' + Reach(ms)
        <3>1. /\ T \in Nat /\ Frames(ms) \in Nat /\ Reach(ms) \in Nat
              /\ Frames(ms) + T <= Reach(ms)
            BY <1>1, TargetWithinReach
        <3>2. read' \in Nat /\ fade'.n \in Nat
            BY <1>1 DEF TypeOK, FadeRecord
        <3> QED
            BY <1>2, <3>1, <3>2, FrontierReach
    <2>4. pending[1].dropped \/ pending[1].end <= read' + Reach(ms)
        <3>1. pending[1].end \in Nat
            BY <1>1, <2>1, WindowTypes
        <3>2. Frontier(read', fade') + T \in Nat /\ read' + Reach(ms) \in Nat
            <4>1. T \in Nat /\ Reach(ms) \in Nat /\ read' \in Nat /\ fade'.n \in Nat
                BY <1>1, TargetWithinReach DEF TypeOK, FadeRecord
            <4>2. Frontier(read', fade') \in Nat
                BY <4>1 DEF Frontier
            <4> QED
                BY <4>1, <4>2
        <3> DEFINE x == pending[1].end
                   y == Frontier(read', fade') + T
                   z == read' + Reach(ms)
        <3>3. x \in Nat /\ y \in Nat /\ z \in Nat /\ y <= z
            BY <2>3, <3>1, <3>2
        <3>4. pending[1].dropped \/ x <= y
            BY <2>2
        <3> HIDE DEF x, y, z
        <3>5. pending[1].dropped \/ x <= z
            BY <3>3, <3>4
        <3> QED
            BY <3>5 DEF x, z
    <2> QED
        BY <1>1, <1>2, <2>1, <2>4, AckWindow DEF AckLoop
<1>4. CASE ~inCallback'
    <2>1. pending' = pending
        BY <1>4 DEF AckLoop
    <2> QED
        BY <1>1, <1>2, <2>1, QuietWindow DEF AckLoop
<1> QED
    BY <1>3, <1>4

\* A Clear ends the promise: the eSDK may deliver what is already in the ring
\* a second time.
LEMMA ClearWindow ==
    ASSUME NEW ms \in Nat, NEW buffer \in Nat, RingFits(ms, buffer), TypeOK,
           WindowInv(ms, buffer), Clear
    PROVE  WindowInv(ms, buffer)'
<1>1. clears' # 0 /\ Len(pending') = 0 /\ fade' = fade /\ Depth \in Nat
    BY WindowTypes, SMT DEF Clear, fillVars
<1> QED
    BY <1>1, SMT DEF WindowInv

\* Enqueueing, padding or audio
LEMMA EnqueueWindow ==
    ASSUME NEW ms \in Nat, NEW buffer \in Nat, RingFits(ms, buffer), IInv, IInv',
           WindowInv(ms, buffer), read <= read', NEW n \in BufferSizes, Enqueue(n)
    PROVE  WindowInv(ms, buffer)'
<1>1. /\ TypeOK /\ TypeOK' /\ n \in Nat /\ written \in Nat /\ Len(pending) < Depth
      /\ n <= buffer
    <2>1. n \in 1 .. buffer
        BY DEF RingFits
    <2> QED
        BY <2>1, SMTT(30) DEF IInv, TypeOK, Enqueue, DropPadding, WriteAudio, CanEnqueue
<1>2. CASE DropPadding(n)
    <2> DEFINE e == [end |-> written, dropped |-> TRUE, wait |-> probeAhead']
    <2>1. /\ e \in PendingRecord /\ pending' = Append(pending, e) /\ e.end = written'
          /\ Growth(e, buffer) = 0 /\ written' = written
          /\ clears' = clears /\ overflowed' = overflowed /\ fade' = fade
        BY <1>1, <1>2 DEF DropPadding, PendingRecord, fillVars, controlVars, Growth, TypeOK
    <2> HIDE DEF e
    <2>2. written' <= written + Growth(e, buffer)
        BY <1>1, <2>1, SMT
    <2> QED
        BY <1>1, <2>1, <2>2, AppendWindow DEF WindowInv
<1>3. CASE WriteAudio(n)
    <2> DEFINE e == [end |-> written + n, dropped |-> FALSE, wait |-> 0]
               r == IF Reanchors /\ fade.kB > 0 THEN Greatest(read, fade.b) ELSE read
    <2>1. /\ pending' = Append(pending, e) /\ written' = written + n /\ clears' = clears
          /\ fade' = (IF Reanchors THEN Reanchored(r) ELSE fade)
          /\ overflowed' = (overflowed \/ written + n > r + Capacity)
        BY <1>3 DEF WriteAudio, controlVars
    <2>2. e \in PendingRecord /\ e.end = written' /\ Growth(e, buffer) = buffer
        BY <1>1, <2>1 DEF PendingRecord, Growth
    <2>3. r \in Nat /\ read \in Nat /\ read <= r /\ r <= written
        <3>1. /\ read \in Nat /\ fade.b \in Nat /\ read <= written
              /\ fade.scheduled /\ fade.kB > 0 => fade.b <= written
            BY DEF IInv, TypeOK, FadeRecord, ReadBehindWrite
        <3> QED
            BY <1>1, <3>1, SMT DEF Greatest, Reanchors
    <2> HIDE DEF e, r
    <2>4. fade'.scheduled => fade'.n <= Frames(ms)
        <3>1. CASE Reanchors
            BY <2>1, <2>3, <3>1, ReanchoredFade DEF WindowInv, Reanchors
        <3>2. CASE ~Reanchors
            BY <2>1, <3>2 DEF WindowInv
        <3> QED
            BY <3>1, <3>2
    <2>5. CASE clears = 0
        <3>1. written + n <= read + Capacity
            BY <1>1, <2>5, RoomForOneMore
        <3>2. ~(written + n > r + Capacity) /\ ~overflowed
            BY <1>1, <2>3, <2>5, <3>1, SizesAssumption, SMT DEF WindowInv
        <3>3. overflowed' = overflowed
            <4>1. overflowed \in BOOLEAN /\ overflowed' \in BOOLEAN
                BY <1>1 DEF TypeOK
            <4> QED
                BY <2>1, <3>2, <4>1
        <3>4. written' <= written + Growth(e, buffer)
            BY <1>1, <2>1, <2>2, SMT
        <3> QED
            BY <1>1, <2>1, <2>2, <2>4, <3>3, <3>4, AppendWindow
    <2>6. CASE clears # 0
        <3>1. Len(pending') = Len(pending) + 1 /\ Len(pending) \in Nat /\ Depth \in Nat
            BY <1>1, <2>1, <2>2, WindowTypes
        <3>2. Len(pending') <= Depth
            BY <1>1, <3>1, SMT
        <3> QED
            BY <2>1, <2>4, <2>6, <3>2 DEF WindowInv
    <2> QED
        BY <2>5, <2>6
<1> QED
    BY <1>2, <1>3 DEF Enqueue

\* Every step keeps the window.
LEMMA StepWindow ==
    ASSUME NEW ms \in Nat, NEW buffer \in Nat, RingFits(ms, buffer), IInv, IInv',
           WindowInv(ms, buffer), [Next]_vars
    PROVE  WindowInv(ms, buffer)'
<1>1. TypeOK /\ TypeOK' /\ read <= read'
    <2>1. read' >= read /\ read \in Nat /\ read' \in Nat
        BY StepReadMonotone DEF IInv, TypeOK
    <2> QED
        BY <2>1 DEF IInv
<1>2. CASE \E n \in BufferSizes : Enqueue(n)
    BY <1>1, <1>2, EnqueueWindow
<1>3. CASE Clear
    BY <1>1, <1>3, ClearWindow
<1>4. CASE AckLoop
    BY <1>1, <1>4, AckLoopWindow
<1>5. CASE \E t \in Tracks, dur \in Durations, pos \in Positions : OnMetadata(t, dur, pos)
    <2> PICK t \in Tracks, dur \in Durations, pos \in Positions : OnMetadata(t, dur, pos)
        BY <1>5
    <2> DEFINE d == MetadataDecision(t, written, read, X)
    <2>1. /\ BoundaryTypeOK /\ read \in Nat /\ written \in Nat
          /\ X \in Nat /\ X <= Frames(ms) /\ Frames(ms) \in Nat
        BY <1>1, TargetWithinReach DEF TypeOK
    <2>2. WellFormed(d) /\ (d.kind = "Fade" => d.n <= Frames(ms))
        BY <2>1, MetadataWellFormed, MetadataLength
    <2>3. Apply(d) /\ UNCHANGED <<written, pending, overflowed, controlVars>>
        BY DEF OnMetadata
    <2> HIDE DEF d
    <2>4. fade'.scheduled => fade'.n <= Frames(ms)
        BY <2>2, <2>3, ApplyLength DEF WindowInv
    <2> QED
        BY <1>1, <2>3, <2>4, QuietWindow DEF controlVars
<1>6. CASE Fill
    <2>1. fade'.scheduled => fade'.n <= Frames(ms)
        BY <1>6, FillLength DEF WindowInv
    <2>2. UNCHANGED <<written, pending, overflowed, clears>>
        BY <1>6 DEF Fill, FillCancel, FillOutgoing, FillIncoming, FillCopy, FillUnderrun,
           Undelivered, deliveryVars, controlVars
    <2> QED
        BY <1>1, <2>1, <2>2, QuietWindow
<1>7. CASE ClockTick
    <2>1. /\ UNCHANGED <<written, clears, overflowed>> /\ fade' = fade
          /\ pending' = [i \in DOMAIN pending |->
                            [pending[i] EXCEPT !.wait = Greatest(0, pending[i].wait - 1)]]
        BY <1>7 DEF ClockTick, fillVars, controlVars
    <2>2. /\ DOMAIN pending = 1 .. Len(pending) /\ Len(pending') = Len(pending)
          /\ \A i \in 1 .. Len(pending) : pending[i] \in PendingRecord
        <3>1. pending \in Seq(PendingRecord) /\ Len(pending) \in Nat
            BY <1>1 DEF TypeOK
        <3>2. DOMAIN pending = 1 .. Len(pending)
            BY <3>1
        <3>3. DOMAIN pending' = 1 .. Len(pending) /\ pending' \in Seq(PendingRecord)
            BY <1>1, <2>1, <3>2 DEF TypeOK
        <3>4. Len(pending') = Len(pending)
            BY <3>1, <3>3
        <3> QED
            BY <3>1, <3>2, <3>4
    <2>3. \A i \in 1 .. Len(pending) : /\ pending'[i].end = pending[i].end
                                       /\ pending'[i].dropped = pending[i].dropped
        BY <2>1, <2>2 DEF PendingRecord
    <2> QED
        BY <1>1, <2>1, <2>2, <2>3, QuietWindow DEF WindowInv
<1>8. CASE \/ \E p \in PlayStates : SetPlayState(p)
           \/ ForwardPlayState
           \/ CallbackReturns
           \/ \E len \in Crossfades : SetCrossfadeMs(len)
           \/ FillBegin
           \/ UNCHANGED vars
    <2>1. UNCHANGED <<written, pending, overflowed, clears, fade>>
        BY <1>8 DEF SetPlayState, ForwardPlayState, CallbackReturns, SetCrossfadeMs,
           FillBegin, vars, fillVars, deliveryVars, controlVars
    <2> QED
        BY <1>1, <2>1, QuietWindow DEF WindowInv
<1> QED
    BY <1>2, <1>3, <1>4, <1>5, <1>6, <1>7, <1>8 DEF Next

\* A ring sized for the longest crossfade `ms' and the largest buffer never
\* overflows without a Clear, whatever is announced and set.
THEOREM RingNeverOutgrown ==
    ASSUME NEW ms \in Nat, NEW buffer \in Nat, RingFits(ms, buffer)
    PROVE  Spec => []NoOverflowWithoutClear
<1>1. Init /\ IInv => WindowInv(ms, buffer)
    BY InitWindow DEF IInv
<1>2. IInv /\ IInv' /\ WindowInv(ms, buffer) /\ [Next]_vars => WindowInv(ms, buffer)'
    BY StepWindow
<1>3. WindowInv(ms, buffer) => NoOverflowWithoutClear
    BY DEF WindowInv, NoOverflowWithoutClear
<1> QED
    BY <1>1, <1>2, <1>3, Invariance, PTL DEF Spec
=============================================================================
