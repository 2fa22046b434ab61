-------------------------- MODULE TrackChangesProofs --------------------------
(***************************************************************************)
(* Changes made one at a time: each manual one is one cut, anchored where  *)
(* its Clear was, for any windows, tracks and numbers of changes.          *)
(***************************************************************************)
EXTENDS TrackChanges, TLAPS

-----------------------------------------------------------------------------
(* BoundaryModel's operators *)

\* Milliseconds convert to a number of frames.
LEMMA FramesNat ==
    ASSUME NEW ms \in Nat
    PROVE  Frames(ms) \in Nat
<1>1. ms * Rate \in Nat
    BY ClockAssumption, SMT
<1>2. \A a \in Nat, b \in Nat \ {0} : a \div b \in Nat
    BY SMT
<1> QED
    BY <1>1, <1>2, ClockAssumption DEF Frames

\* A decision is None or names a frame.
LEMMA DecisionNat ==
    ASSUME BoundaryTypeOK, NEW t, NEW w \in Nat, NEW r \in Nat, NEW x \in Nat
    PROVE  LET d == MetadataDecision(t, w, r, x)
           IN  d.kind = "None" \/ d.at \in Nat
<1>1. flush.frame \in Nat
    BY DEF BoundaryTypeOK
<1>2. NaturalBoundary(w) \in Nat
    <2>1. NaturalBoundary(w) = w \/ (NaturalBoundary(w) = predicted /\ predicted # NoPrediction)
        BY DEF NaturalBoundary
    <2>2. predicted \in Nat \cup {NoPrediction}
        BY DEF BoundaryTypeOK
    <2> QED
        BY <2>1, <2>2
<1>3. CASE flush.pending
    <2>1. MetadataDecision(t, w, r, x) = Cut(flush.frame)
        BY <1>3 DEF MetadataDecision, IsNatural
    <2> QED
        BY <1>1, <2>1 DEF Cut
<1>4. CASE ~flush.pending /\ IsNatural(t)
    <2>1. MetadataDecision(t, w, r, x) = Decide(NaturalBoundary(w), t, r, x)
        BY <1>4 DEF MetadataDecision
    <2> QED
        BY <1>2, <2>1 DEF Decide, Cut, Fade
<1>5. CASE ~flush.pending /\ ~IsNatural(t)
    BY <1>5 DEF MetadataDecision, None
<1> QED
    BY <1>3, <1>4, <1>5

\* An announced track starts at a frame, and so ends at one, if at all.
LEMMA PredictionNat ==
    ASSUME BoundaryTypeOK, NEW t, NEW w \in Nat, NEW d,
           d.kind = "None" \/ d.at \in Nat, NEW dur \in Nat
    PROVE  Prediction(StartFrame(t, w, d), dur, 0) \in Nat \cup {NoPrediction}
<1>1. StartFrame(t, w, d) \in Nat
    BY DEF StartFrame, BoundaryTypeOK
<1>2. dur - 0 = dur /\ Frames(dur) \in Nat
    BY FramesNat
<1> HIDE DEF StartFrame
<1> QED
    BY <1>1, <1>2 DEF Prediction

\* Time keeps the types, and moves an age up to its window's end.
LEMMA AgedKeeps ==
    ASSUME NEW window \in Nat,
           NEW x \in [pending : BOOLEAN, frame : Nat, age : 0 .. window + 1]
    PROVE  /\ Aged(x, window) \in [pending : BOOLEAN, frame : Nat, age : 0 .. window + 1]
           /\ Aged(x, window).pending = x.pending
           /\ Aged(x, window).frame = x.frame
           /\ x.pending => Aged(x, window).age = Least(x.age + 1, window + 1)
BY DEF Aged, Least

\* The longest delay told apart is a number, beyond both windows.
LEMMA DelayNat ==
    /\ FlushWindowMs \in Nat /\ LateMetadataMs \in Nat /\ MaxDelay \in Nat
    /\ MaxDelay = FlushWindowMs + 1 + LateMetadataMs
BY WindowAssumption DEF MaxDelay

-----------------------------------------------------------------------------
(* The invariant *)

\* The first announcement is on its way, and nothing has been cleared.
LEMMA InitChangesInv == Init => ChangesInv
<1> SUFFICES ASSUME Init PROVE ChangesInv
    OBVIOUS
<1> DEFINE a == [track |-> latest, clear |-> 0, age |-> 0]
<1>1. announcements = <<a>> /\ clearedAt = <<>> /\ done = {} /\ latest \in Tracks
    BY DEF Init
<1>2. a \in Announcement
    BY <1>1, DelayNat DEF Announcement
<1>3. BoundaryTypeOK /\ ~flush.pending
    BY WindowAssumption
       DEF Init, BoundaryInit, BoundaryTypeOK, NoFlush, NoLateCut, Idle, NoPrediction
<1>4. announcements \in Seq(Announcement) /\ Len(announcements) = 1 /\ announcements[1] = a
    BY <1>1, <1>2
<1>5. clearedAt \in Seq(Nat) /\ DOMAIN clearedAt = {}
    BY <1>1
<1>6. TypeOK
    BY <1>1, <1>3, <1>4, <1>5 DEF TypeOK, Init
<1>7. a.clear = 0
    OBVIOUS
<1> QED
    BY <1>1, <1>3, <1>4, <1>6, <1>7 DEF ChangesInv

\* What a step that leaves the announcements, the Clears and BoundaryModel
\* alone keeps.
LEMMA DeliverKeeps == ChangesInv /\ Deliver => ChangesInv'
BY DEF ChangesInv, Deliver, TypeOK, BoundaryTypeOK, boundaryVars, Outstanding

\* The announcement of a change made in turn is the only one.
LEMMA AnnouncedAlone ==
    ASSUME TypeOK, announcements = <<>>, NEW t \in Tracks, NEW clear \in Nat,
           Announced(t, clear)
    PROVE  /\ announcements' \in Seq(Announcement)
           /\ Len(announcements') = 1 /\ DOMAIN announcements' = {1}
           /\ announcements'[1] = [track |-> t, clear |-> clear, age |-> 0]
<1> DEFINE a == [track |-> t, clear |-> clear, age |-> 0]
<1>1. a \in Announcement
    BY DelayNat DEF Announcement
<1>2. announcements' = <<a>>
    BY DEF Announced
<1> QED
    BY <1>1, <1>2

LEMMA NaturalEndKeeps ==
    ASSUME ~Overlapping, ChangesInv, NaturalEnd PROVE ChangesInv'
<1>1. announcements = <<>> /\ ~flush.pending /\ latest + 1 \in Tracks
    BY DEF NaturalEnd, MayChange, Settled
<1>2. TypeOK /\ current # NoTrack
    BY <1>1 DEF ChangesInv
<1>3. /\ announcements' \in Seq(Announcement)
      /\ Len(announcements') = 1 /\ DOMAIN announcements' = {1}
      /\ announcements'[1] = [track |-> latest + 1, clear |-> 0, age |-> 0]
    BY <1>1, <1>2, AnnouncedAlone DEF NaturalEnd
<1>4. TypeOK'
    BY <1>1, <1>2, <1>3 DEF NaturalEnd, TypeOK, BoundaryTypeOK, boundaryVars
<1>5. ~flush'.pending /\ current' # NoTrack
    BY <1>1, <1>2 DEF NaturalEnd, boundaryVars
<1>6. ~(announcements'[1].clear > 0)
    BY <1>3
<1> QED
    BY <1>3, <1>4, <1>5, <1>6 DEF ChangesInv

\* A Clear made in turn is the last, and has not been decided.
LEMMA ClearRecorded ==
    ASSUME ChangesInv, BoundaryOnFlush(written), clearedAt' = Append(clearedAt, written),
           done' = done
    PROVE  /\ BoundaryTypeOK' /\ clearedAt' \in Seq(Nat)
           /\ done' \subseteq DOMAIN clearedAt'
           /\ flush'.pending /\ flush'.age = 0
           /\ Len(clearedAt') = Len(clearedAt) + 1 /\ clearedAt' # <<>>
           /\ Len(clearedAt') \notin done'
           /\ flush'.frame = clearedAt'[Len(clearedAt')]
<1>1. /\ written \in Nat /\ clearedAt \in Seq(Nat) /\ done \subseteq DOMAIN clearedAt
      /\ BoundaryTypeOK
    BY DEF ChangesInv, TypeOK
<1>2. flush' = [pending |-> TRUE, frame |-> written, age |-> 0]
    BY DEF BoundaryOnFlush
<1>3. BoundaryTypeOK'
    BY <1>1, <1>2, WindowAssumption DEF BoundaryOnFlush, BoundaryTypeOK, NoLateCut, Idle
<1>4. /\ clearedAt' \in Seq(Nat) /\ Len(clearedAt') = Len(clearedAt) + 1
      /\ clearedAt'[Len(clearedAt) + 1] = written
      /\ DOMAIN clearedAt' = 1 .. (Len(clearedAt) + 1)
      /\ DOMAIN clearedAt = 1 .. Len(clearedAt) /\ Len(clearedAt) \in Nat
    BY <1>1
<1>5. clearedAt' # <<>>
    BY <1>4
<1> QED
    BY <1>1, <1>2, <1>3, <1>4, <1>5

LEMMA ManualChangeKeeps ==
    ASSUME ~Overlapping, ChangesInv, NEW t \in Tracks, ManualChange(t)
    PROVE  ChangesInv'
<1>1. announcements = <<>> /\ t \in Tracks
    BY DEF ManualChange, MayChange, Settled
<1>2. TypeOK /\ current # NoTrack /\ Len(clearedAt) + 1 \in Nat
    BY <1>1 DEF ChangesInv, TypeOK
<1>3. /\ BoundaryTypeOK' /\ clearedAt' \in Seq(Nat) /\ done' \subseteq DOMAIN clearedAt'
      /\ flush'.pending /\ flush'.age = 0
      /\ Len(clearedAt') = Len(clearedAt) + 1 /\ clearedAt' # <<>>
      /\ Len(clearedAt') \notin done'
      /\ flush'.frame = clearedAt'[Len(clearedAt')]
    BY ClearRecorded DEF ManualChange
<1>4. /\ announcements' \in Seq(Announcement)
      /\ Len(announcements') = 1 /\ DOMAIN announcements' = {1}
      /\ announcements'[1] = [track |-> t, clear |-> Len(clearedAt) + 1, age |-> 0]
    BY <1>1, <1>2, AnnouncedAlone DEF ManualChange
<1>5. TypeOK'
    BY <1>1, <1>2, <1>3, <1>4 DEF ManualChange, TypeOK
<1>6. current' # NoTrack
    BY <1>2 DEF ManualChange, BoundaryOnFlush
<1>7. Outstanding(announcements[1])'
    BY <1>3, <1>4, WindowAssumption DEF Outstanding, Least
<1> QED
    BY <1>3, <1>4, <1>5, <1>6, <1>7 DEF ChangesInv

LEMMA PlayPressKeeps ==
    ASSUME ~Overlapping, ChangesInv, PlayPress PROVE ChangesInv'
<1>1. announcements = <<>> /\ announcements' = <<>>
    BY DEF PlayPress, MayChange, Settled
<1>2. TypeOK /\ current # NoTrack
    BY <1>1 DEF ChangesInv
<1>3. /\ BoundaryTypeOK' /\ clearedAt' \in Seq(Nat) /\ done' \subseteq DOMAIN clearedAt'
      /\ flush'.pending /\ clearedAt' # <<>>
      /\ Len(clearedAt') \notin done'
      /\ flush'.frame = clearedAt'[Len(clearedAt')]
    BY ClearRecorded DEF PlayPress
<1>4. TypeOK'
    BY <1>1, <1>2, <1>3 DEF PlayPress, TypeOK
<1>5. current' # NoTrack
    BY <1>2 DEF PlayPress, BoundaryOnFlush
<1>6. Len(announcements') <= 1 /\ DOMAIN announcements' = {}
    BY <1>1
<1> QED
    BY <1>3, <1>4, <1>5, <1>6 DEF ChangesInv

\* What an announcement makes of BoundaryModel is well-typed.
LEMMA AnnounceTyped ==
    ASSUME TypeOK, announcements # <<>>, NEW r \in Nat, Announce(r)
    PROVE  BoundaryTypeOK' /\ Head(announcements) \in Announcement
<1> DEFINE t == Head(announcements).track
           d == MetadataDecision(t, written, r, Crossfade)
<1>1. BoundaryTypeOK /\ written \in Nat /\ Head(announcements) \in Announcement
    BY DEF TypeOK
<1>2. t \in Tracks
    BY <1>1 DEF Announcement
<1>3. d.kind = "None" \/ d.at \in Nat
    BY <1>1, DecisionNat, ChangesAssumption
<1>4. Prediction(StartFrame(t, written, d), Duration, 0) \in Nat \cup {NoPrediction}
    BY <1>1, <1>3, PredictionNat, ChangesAssumption
<1>5. BoundaryOnMetadata(t, Duration, 0, written, d)
    BY DEF Announce
<1> HIDE DEF t, d
<1>6. current' \in Tracks \cup {NoTrack} /\ predicted' \in Nat \cup {NoPrediction}
    BY <1>2, <1>4, <1>5 DEF BoundaryOnMetadata
<1>7. flush' \in [pending : BOOLEAN, frame : Nat, age : 0 .. FlushWindowMs + 1]
    BY <1>5, WindowAssumption DEF BoundaryOnMetadata, NoFlush, Idle
<1>8. lateCut' \in [pending : BOOLEAN, frame : Nat, age : 0 .. LateMetadataMs + 1]
    BY <1>1, <1>5, WindowAssumption DEF BoundaryOnMetadata, NoLateCut, Idle, BoundaryTypeOK
<1> QED
    BY <1>1, <1>6, <1>7, <1>8 DEF BoundaryTypeOK

\* A Clear that is decided is one of those made.
LEMMA DecidedIsMade ==
    ASSUME ChangesInv, NEW resolved \in BOOLEAN, resolved => flush.pending,
           DecidedBy(resolved)
    PROVE  done' \subseteq DOMAIN clearedAt
<1>1. clearedAt \in Seq(Nat) /\ done \subseteq DOMAIN clearedAt
    BY DEF ChangesInv, TypeOK
<1>2. flush.pending => Len(clearedAt) \in DOMAIN clearedAt
    BY <1>1 DEF ChangesInv
<1> QED
    BY <1>1, <1>2 DEF DecidedBy

LEMMA AnnounceKeeps ==
    ASSUME ChangesInv, NEW r \in Nat, Announce(r)
    PROVE  ChangesInv'
<1>1. /\ TypeOK /\ announcements # <<>> /\ announcements \in Seq(Announcement)
      /\ Len(announcements) <= 1
    BY DEF ChangesInv, TypeOK, Announce
<1>2. BoundaryTypeOK' /\ Head(announcements) \in Announcement
    BY <1>1, AnnounceTyped
<1>3. announcements' = Tail(announcements)
    BY DEF Announce
<1>4. announcements' \in Seq(Announcement) /\ Len(announcements') = 0
    <2>1. Len(announcements) = 1
        <3>1. announcements = <<>> \/ Len(announcements) > 0
            BY <1>1
        <3>2. Len(announcements) \in Nat
            BY <1>1
        <3> QED
            BY <1>1, <3>1, <3>2
    <2>2. Tail(announcements) \in Seq(Announcement)
          /\ Len(Tail(announcements)) = Len(announcements) - 1
        BY <1>1
    <2> QED
        BY <1>3, <2>1, <2>2
<1>5. done' \subseteq DOMAIN clearedAt
    BY DecidedIsMade DEF Announce, ChangesInv, TypeOK, BoundaryTypeOK
<1>6. TypeOK'
    BY <1>1, <1>2, <1>4, <1>5 DEF Announce, TypeOK
<1>7. current' = Head(announcements).track /\ flush' = NoFlush
    BY DEF Announce, BoundaryOnMetadata
<1>8. current' # NoTrack /\ ~flush'.pending
    BY <1>2, <1>7, TracksAssumption DEF Announcement, NoFlush, Idle
<1>9. DOMAIN announcements' = {} /\ Len(announcements') <= 1
    BY <1>4
<1> QED
    BY <1>6, <1>8, <1>9 DEF ChangesInv

\* A Clear that times out is remembered from then on, and the change it came
\* with is decided.
LEMMA TickKeeps ==
    ASSUME ChangesInv, Tick PROVE ChangesInv'
<1>1. /\ TypeOK /\ flush.pending /\ flush.age > FlushWindowMs
      /\ flush' = NoFlush
      /\ lateCut' = [pending |-> TRUE, frame |-> flush.frame, age |-> 0]
      /\ UNCHANGED <<current, predicted, written, latest, announcements, clearedAt>>
      /\ done' = done \cup {Len(clearedAt)}
    BY DEF ChangesInv, Tick, FlushTimedOut, BoundaryTick, DecidedBy
<1>2. BoundaryTypeOK'
    BY <1>1, WindowAssumption DEF TypeOK, BoundaryTypeOK, NoFlush, Idle
<1>3. done' \subseteq DOMAIN clearedAt
    BY <1>1, DecidedIsMade DEF Tick
<1>4. TypeOK'
    BY <1>1, <1>2, <1>3 DEF TypeOK
<1>5. ~flush'.pending
    BY <1>1 DEF NoFlush, Idle
<1>6. ASSUME NEW i \in DOMAIN announcements, announcements[i].clear > 0
      PROVE  Outstanding(announcements[i])'
    <2> DEFINE a == announcements[i]
    <2>1. a \in Announcement /\ Outstanding(a)
        BY <1>1, <1>6 DEF ChangesInv, TypeOK
    <2>2. a.age \in Nat /\ flush.age = Least(a.age, FlushWindowMs + 1)
        BY <1>1, <2>1 DEF Announcement, Outstanding
    <2>3. a.age >= FlushWindowMs + 1
        BY <1>1, <2>2, WindowAssumption DEF Least
    <2>4. a.clear = Len(clearedAt) /\ flush.frame = clearedAt[a.clear]
        BY <1>1, <2>1 DEF ChangesInv, Outstanding
    <2>5. a' = a
        BY <1>1
    <2>6. lateCut'.pending /\ lateCut'.frame = clearedAt[a.clear] /\ lateCut'.age = 0
        BY <1>1, <2>4
    <2>7. 0 + FlushWindowMs + 1 <= a.age
        BY <2>2, <2>3, WindowAssumption
    <2> HIDE DEF a
    <2>8. Outstanding(a)'
        BY <1>1, <1>5, <2>4, <2>5, <2>6, <2>7 DEF Outstanding
    <2> QED
        BY <2>8 DEF a
<1>7. UNCHANGED <<current, announcements, clearedAt>>
    BY <1>1
<1> QED
    BY <1>4, <1>5, <1>6, <1>7 DEF ChangesInv

\* An announcement's age saturates after those of its Clear and of the cut
\* remembered for it.
LEMMA AgesSaturate ==
    ASSUME NEW x \in 0 .. MaxDelay + 1
    PROVE  LET y == Least(x + 1, MaxDelay + 1)
           IN  /\ Least(Least(x, FlushWindowMs + 1) + 1, FlushWindowMs + 1)
                      = Least(y, FlushWindowMs + 1)
               /\ \A l \in Nat :
                      l + FlushWindowMs + 1 <= x
                          => Least(l + 1, LateMetadataMs + 1) + FlushWindowMs + 1 <= y
BY DelayNat DEF Least

\* The Clear and its announcement, or the timed-out cut and its announcement,
\* age together.
LEMMA ClockTickKeeps ==
    ASSUME ChangesInv, ClockTick PROVE ChangesInv'
<1>1. /\ TypeOK /\ announcements \in Seq(Announcement)
      /\ flush' = Aged(flush, FlushWindowMs) /\ lateCut' = Aged(lateCut, LateMetadataMs)
      /\ UNCHANGED <<current, predicted, written, latest, clearedAt, done>>
      /\ announcements' = [i \in DOMAIN announcements |->
                             [announcements[i] EXCEPT !.age = Least(@ + 1, MaxDelay + 1)]]
    BY DEF ChangesInv, TypeOK, ClockTick, BoundaryClock
<1>2. /\ flush \in [pending : BOOLEAN, frame : Nat, age : 0 .. FlushWindowMs + 1]
      /\ lateCut \in [pending : BOOLEAN, frame : Nat, age : 0 .. LateMetadataMs + 1]
    BY <1>1 DEF TypeOK, BoundaryTypeOK
<1>3. /\ flush' \in [pending : BOOLEAN, frame : Nat, age : 0 .. FlushWindowMs + 1]
      /\ flush'.pending = flush.pending /\ flush'.frame = flush.frame
      /\ flush.pending => flush'.age = Least(flush.age + 1, FlushWindowMs + 1)
    <2>1. flush' = Aged(flush, FlushWindowMs) /\ FlushWindowMs \in Nat
        BY <1>1, WindowAssumption
    <2> QED
        BY <1>2, <2>1, AgedKeeps
<1>4. /\ lateCut' \in [pending : BOOLEAN, frame : Nat, age : 0 .. LateMetadataMs + 1]
      /\ lateCut'.pending = lateCut.pending /\ lateCut'.frame = lateCut.frame
      /\ lateCut.pending => lateCut'.age = Least(lateCut.age + 1, LateMetadataMs + 1)
    <2>1. lateCut' = Aged(lateCut, LateMetadataMs) /\ LateMetadataMs \in Nat
        BY <1>1, WindowAssumption
    <2> QED
        BY <1>2, <2>1, AgedKeeps
<1>5. BoundaryTypeOK'
    BY <1>1, <1>3, <1>4 DEF TypeOK, BoundaryTypeOK
<1>6. /\ announcements' \in Seq(Announcement)
      /\ DOMAIN announcements' = DOMAIN announcements
      /\ Len(announcements') = Len(announcements)
    <2>1. DOMAIN announcements = 1 .. Len(announcements) /\ Len(announcements) \in Nat
        BY <1>1
    <2>2. \A i \in DOMAIN announcements :
              [announcements[i] EXCEPT !.age = Least(@ + 1, MaxDelay + 1)] \in Announcement
        <3>1. \A a \in Announcement : [a EXCEPT !.age = Least(@ + 1, MaxDelay + 1)] \in Announcement
            BY DelayNat DEF Announcement, Least
        <3>2. \A i \in DOMAIN announcements : announcements[i] \in Announcement
            BY <1>1
        <3> QED
            BY <3>1, <3>2
    <2> QED
        BY <1>1, <2>1, <2>2
<1>7. TypeOK'
    BY <1>1, <1>5, <1>6 DEF TypeOK
<1>8. ASSUME NEW i \in DOMAIN announcements
      PROVE  announcements'[i].clear > 0 => Outstanding(announcements[i])'
    <2> DEFINE a == announcements[i]
               b == announcements'[i]
    <2>1. a \in Announcement
        BY <1>1
    <2>2. b = [a EXCEPT !.age = Least(@ + 1, MaxDelay + 1)]
        BY <1>1
    <2>3. /\ b.age = Least(a.age + 1, MaxDelay + 1) /\ b.clear = a.clear
          /\ a.age \in 0 .. MaxDelay + 1 /\ MaxDelay \in Nat
        BY <2>1, <2>2, DelayNat DEF Announcement
    <2>4. ASSUME b.clear > 0 PROVE Outstanding(announcements[i])'
        <3>1. Outstanding(a)
            BY <1>1, <2>3, <2>4 DEF ChangesInv
        <3>2. CASE flush.pending
            <4>1. flush'.age = Least(b.age, FlushWindowMs + 1)
                <5>1. flush.age = Least(a.age, FlushWindowMs + 1)
                    BY <3>1, <3>2 DEF Outstanding
                <5>2. flush'.age = Least(flush.age + 1, FlushWindowMs + 1)
                    BY <1>3, <3>2
                <5> HIDE DEF a, b
                <5> QED
                    BY <2>3, <5>1, <5>2, AgesSaturate
            <4> QED
                BY <1>1, <1>3, <2>3, <3>1, <3>2, <4>1 DEF Outstanding
        <3>3. CASE ~flush.pending
            <4>1. lateCut'.age + FlushWindowMs + 1 <= b.age
                <5>1. lateCut.pending /\ lateCut.age + FlushWindowMs + 1 <= a.age
                    BY <3>1, <3>3 DEF Outstanding
                <5>2. /\ lateCut.age \in Nat /\ FlushWindowMs \in Nat /\ LateMetadataMs \in Nat
                      /\ lateCut'.age = Least(lateCut.age + 1, LateMetadataMs + 1)
                    BY <1>2, <1>4, <5>1, WindowAssumption
                <5> HIDE DEF a, b
                <5> QED
                    BY <2>3, <5>1, <5>2, AgesSaturate
            <4> QED
                BY <1>1, <1>3, <1>4, <2>3, <3>1, <3>3, <4>1 DEF Outstanding
        <3> QED
            BY <3>2, <3>3
    <2> QED
        BY <2>4
<1>9. ASSUME flush'.pending
      PROVE  /\ clearedAt' # <<>> /\ Len(clearedAt') \notin done'
             /\ flush'.frame = clearedAt'[Len(clearedAt')]
    BY <1>1, <1>3, <1>9 DEF ChangesInv
<1>10. (current' = NoTrack) => (announcements' # <<>> /\ clearedAt' = <<>>)
    <2>1. announcements # <<>> => Len(announcements') # 0
        BY <1>1, <1>6
    <2> QED
        BY <1>1, <1>6, <2>1 DEF ChangesInv
<1> QED
    BY <1>6, <1>7, <1>8, <1>9, <1>10 DEF ChangesInv

LEMMA NextKeeps ==
    ASSUME ~Overlapping, ChangesInv, [Next]_vars
    PROVE  ChangesInv'
<1>1. CASE Deliver
    BY <1>1, DeliverKeeps
<1>2. CASE NaturalEnd
    BY <1>2, NaturalEndKeeps
<1>3. CASE \E t \in Tracks : ManualChange(t)
    BY <1>3, ManualChangeKeeps
<1>4. CASE PlayPress
    BY <1>4, PlayPressKeeps
<1>5. CASE \E r \in 0 .. written : Announce(r)
    <2>1. \A r \in 0 .. written : r \in Nat
        BY DEF ChangesInv, TypeOK
    <2> QED
        BY <1>5, <2>1, AnnounceKeeps
<1>6. CASE Tick
    BY <1>6, TickKeeps
<1>7. CASE ClockTick
    BY <1>7, ClockTickKeeps
<1>8. CASE UNCHANGED vars
    BY <1>8 DEF vars, boundaryVars, ChangesInv, TypeOK, BoundaryTypeOK, Outstanding
<1> QED
    BY <1>1, <1>2, <1>3, <1>4, <1>5, <1>6, <1>7, <1>8 DEF Next

-----------------------------------------------------------------------------
(* What an announcement finds *)

\* Only an announcement takes an announcement away.
LEMMA AnnouncingAnnounces ==
    ASSUME ~Overlapping, ChangesInv, [Next]_vars, Announcing
    PROVE  \E r \in 0 .. written : Announce(r)
<1>1. /\ announcements # <<>> /\ announcements \in Seq(Announcement)
      /\ announcements' = Tail(announcements)
    BY DEF Announcing, ChangesInv, TypeOK
<1>2. Len(announcements) \in Nat /\ Len(announcements') = Len(announcements) - 1
    BY <1>1
<1>3. Len(announcements') # Len(announcements)
    BY <1>2
<1>4. CASE Deliver \/ Tick \/ UNCHANGED vars
    BY <1>3, <1>4 DEF Deliver, Tick, vars
<1>5. CASE NaturalEnd \/ (\E t \in Tracks : ManualChange(t)) \/ PlayPress
    BY <1>1, <1>5 DEF NaturalEnd, ManualChange, PlayPress, MayChange, Settled
<1>6. CASE ClockTick
    <2>1. announcements' = [i \in 1 .. Len(announcements) |->
                              [announcements[i] EXCEPT !.age = Least(@ + 1, MaxDelay + 1)]]
        BY <1>1, <1>6 DEF ClockTick
    <2>2. Len(announcements') = Len(announcements)
        BY <1>2, <2>1
    <2> QED
        BY <1>3, <2>2
<1> QED
    BY <1>4, <1>5, <1>6 DEF Next

\* The announcement of a manual change at most MaxDelay old finds its Clear
\* waiting, and is a cut there, or finds the cut it was given, not older than
\* kLateMetadataMs.
LEMMA ManualDecision ==
    ASSUME ChangesInv, announcements # <<>>, Head(announcements).clear > 0,
           Head(announcements).age <= MaxDelay, NEW r
    PROVE  LET a == Head(announcements)
               d == MetadataDecision(a.track, written, r, Crossfade)
           IN  IF a.clear \in done
               THEN /\ d = None
                    /\ IsNew(a.track) => /\ IsLateAnnouncement(a.track)
                                         /\ lateCut.frame = clearedAt[a.clear]
               ELSE d = Cut(clearedAt[a.clear])
<1> DEFINE a == Head(announcements)
           d == MetadataDecision(a.track, written, r, Crossfade)
<1>1. TypeOK /\ announcements \in Seq(Announcement)
    BY DEF ChangesInv, TypeOK
<1>2. a = announcements[1] /\ 1 \in DOMAIN announcements /\ a \in Announcement
    BY <1>1
<1>3. a.age \in Nat /\ a.clear > 0 /\ a.age <= MaxDelay /\ Outstanding(a)
    BY <1>2, DelayNat DEF Announcement, ChangesInv
<1>4. a.clear = Len(clearedAt)
    BY <1>3 DEF Outstanding
<1>5. clearedAt # <<>>
    BY <1>1, <1>3, <1>4 DEF TypeOK
<1>6. current # NoTrack
    BY <1>5 DEF ChangesInv
<1> HIDE DEF a
<1>7. CASE flush.pending
    <2>1. a.clear \notin done /\ flush.frame = clearedAt[a.clear]
        BY <1>4, <1>7 DEF ChangesInv
    <2>2. d = Cut(flush.frame)
        BY <1>7 DEF MetadataDecision, IsNatural
    <2> QED
        BY <2>1, <2>2 DEF a
<1>8. CASE ~flush.pending
    <2>1. /\ a.clear \in done /\ lateCut.pending /\ lateCut.frame = clearedAt[a.clear]
          /\ lateCut.age + FlushWindowMs + 1 <= a.age
        BY <1>3, <1>8 DEF Outstanding
    <2>2. lateCut.age \in Nat
        BY <1>1, WindowAssumption DEF TypeOK, BoundaryTypeOK
    <2>3. lateCut.age <= LateMetadataMs
        BY <1>3, <2>1, <2>2, WindowAssumption DEF MaxDelay
    <2>4. IsNew(a.track) => IsLateAnnouncement(a.track)
        BY <1>6, <2>1, <2>3 DEF IsLateAnnouncement
    <2>5. d = None
        BY <1>8, <2>4 DEF MetadataDecision, IsNatural
    <2> QED
        BY <2>1, <2>4, <2>5 DEF a
<1> QED
    BY <1>7, <1>8

-----------------------------------------------------------------------------
(* Theorems *)

\* While changes are made in turn, at most one announcement is on its way, and
\* what BoundaryModel remembers of the last Clear is what happened to it.
THEOREM ChangesInvariant ==
    ASSUME ~Overlapping
    PROVE  Spec => []ChangesInv
<1>1. Init => ChangesInv
    BY InitChangesInv
<1>2. ChangesInv /\ [Next]_vars => ChangesInv'
    BY NextKeeps
<1> QED
    BY <1>1, <1>2, PTL DEF Spec

\* Changes made in turn keep the variables' types.
THEOREM ChangesTyped ==
    ASSUME ~Overlapping
    PROVE  Spec => []TypeOK
<1>1. Spec => []ChangesInv
    BY ChangesInvariant
<1>2. ChangesInv => TypeOK
    BY DEF ChangesInv
<1> QED
    BY <1>1, <1>2, PTL

\* Each manual change announced at most MaxDelay after it, in time, after the
\* window or after the timeout cut, is one cut at its Clear, and never a second
\* boundary (boundary.cpp:48-51, 62-70).  A later announcement is one the code
\* cannot tell from a natural change's, and nothing is said of it.
THEOREM ManualChangeIsOneCut ==
    ASSUME ~Overlapping
    PROVE  Spec => ManualIsOneCut
<1> DEFINE a == Head(announcements)
           d == MetadataDecision(a.track, written, written, Crossfade)
           P == ManualAnnounced =>
                  IF a.clear \in done THEN d = None ELSE d = Cut(clearedAt[a.clear])
<1>1. Spec => []ChangesInv
    BY ChangesInvariant
<1>2. ChangesInv /\ [Next]_vars => [P]_vars
    BY ManualDecision DEF ManualAnnounced, Announcing
<1>3. ManualIsOneCut <=> [][P]_vars
    BY DEF ManualIsOneCut
<1> HIDE DEF P
<1> QED
    BY <1>1, <1>2, <1>3, PTL DEF Spec

\* The end of a track skipped to, announced at most MaxDelay later, is predicted
\* from its Clear (boundary.cpp:85).
THEOREM SkipIsAnchored ==
    ASSUME ~Overlapping
    PROVE  Spec => SkipAnchored
<1> DEFINE a == Head(announcements)
           P == ManualAnnounced /\ IsNew(a.track) =>
                  predicted' = Prediction(clearedAt[a.clear], Duration, 0)
<1>1. Spec => []ChangesInv
    BY ChangesInvariant
<1>2. ASSUME ChangesInv, [Next]_vars, ManualAnnounced, IsNew(a.track)
      PROVE  predicted' = Prediction(clearedAt[a.clear], Duration, 0)
    <2>1. PICK r \in 0 .. written : Announce(r)
        BY <1>2, AnnouncingAnnounces DEF ManualAnnounced
    <2> DEFINE d == MetadataDecision(a.track, written, r, Crossfade)
    <2>2. predicted' = Prediction(StartFrame(a.track, written, d), Duration, 0)
        BY <2>1 DEF Announce, BoundaryOnMetadata
    <2>3. IF a.clear \in done
          THEN /\ d = None /\ IsLateAnnouncement(a.track)
               /\ lateCut.frame = clearedAt[a.clear]
          ELSE d = Cut(clearedAt[a.clear])
        BY <1>2, ManualDecision DEF ManualAnnounced, Announcing
    <2> HIDE DEF a, d
    <2>4. StartFrame(a.track, written, d) = clearedAt[a.clear]
        <3>1. CASE a.clear \in done
            BY <2>3, <3>1 DEF StartFrame, None
        <3>2. CASE a.clear \notin done
            <4>1. d.kind = "Cut" /\ d.at = clearedAt[a.clear]
                BY <2>3, <3>2 DEF Cut
            <4> QED
                BY <4>1 DEF StartFrame
        <3> QED
            BY <3>1, <3>2
    <2> QED
        BY <2>2, <2>4
<1>3. ChangesInv /\ [Next]_vars => [P]_vars
    BY <1>2
<1>4. SkipAnchored <=> [][P]_vars
    BY DEF SkipAnchored
<1> HIDE DEF P
<1> QED
    BY <1>1, <1>3, <1>4, PTL DEF Spec
=============================================================================
