-------------------------- MODULE RingListenerProofs --------------------------
(***************************************************************************)
(* RingPipeline implements Playout, for every value of its constants: the  *)
(* refinement mapping is Listener's, and RingPipelineProofs' invariant     *)
(* supplies what each step needs.  At the end, that a re-anchor keeps the  *)
(* outgoing track's gain.                                                  *)
(***************************************************************************)
EXTENDS RingPipelineProofs

\* What the mapping says of a state that satisfies the invariant: the
\* incoming window is empty, or delivered and starts at the boundary.
LEMMA EarlyWindow ==
    ASSUME IInv
    PROVE  /\ read \in Nat /\ written \in Nat /\ read <= written
           /\ overflowed \in BOOLEAN /\ heard \subseteq Nat
           /\ Early = {} \/ /\ fade.scheduled /\ fade.kB > 0
                            /\ Early = fade.at .. (fade.b - 1)
           /\ fade.scheduled /\ fade.kB = 0 => Early = {}
           /\ fade.scheduled => /\ fade.at \in Nat /\ fade.b \in Nat /\ fade.kB \in Nat
                                /\ fade.b = fade.at + fade.kB /\ fade.n \in Nat
                                /\ fade.n >= 1
                                /\ fade.kB > 0 => fade.b <= written
<1>1. /\ read \in Nat /\ written \in Nat /\ read <= written
      /\ overflowed \in BOOLEAN /\ heard \subseteq Nat
    BY DEF IInv, TypeOK, ReadBehindWrite
<1>2. fade.scheduled => /\ fade.at \in Nat /\ fade.b \in Nat /\ fade.kB \in Nat
                        /\ fade.b = fade.at + fade.kB /\ fade.n \in Nat /\ fade.n >= 1
                        /\ fade.kB > 0 => fade.b <= written
    BY DEF IInv, TypeOK, FadeRecord, FadeAligned, ReadBehindWrite
<1>3. CASE ~fade.scheduled
    BY <1>1, <1>3 DEF Early
<1>4. CASE fade.scheduled /\ fade.kB = 0
    <2>1. fade.at .. (fade.b - 1) = {}
        BY <1>2, <1>4, SMT
    <2> QED
        BY <1>1, <1>2, <1>4, <2>1 DEF Early
<1>5. CASE fade.scheduled /\ fade.kB # 0
    <2>1. fade.kB > 0
        BY <1>2, <1>5, SMT
    <2> QED
        BY <1>1, <1>2, <1>5, <2>1 DEF Early
<1> QED
    BY <1>3, <1>4, <1>5

\* start() publishes a state in which the listener has heard nothing.
LEMMA InitListener == Init => Listener!Init
BY DEF Init, Listener!Init, Early, NoFade

\* After an overrun nothing is promised.
LEMMA LostListener ==
    ASSUME overflowed, overflowed'
    PROVE  Listener!Next
BY DEF Listener!Next

\* A boundary decision is a Skip, or nothing when it only schedules a fade.
LEMMA ApplyListener ==
    ASSUME IInv, IInv', NEW d, WellFormed(d), Apply(d),
           UNCHANGED <<written, heard, overflowed>>
    PROVE  [Listener!Next]_(Listener!vars)
<1>1. CASE overflowed
    BY <1>1, LostListener
<1>2. CASE ~overflowed /\ d.kind = "None"
    BY <1>2 DEF Apply, Early, Listener!vars
<1>3. CASE ~overflowed /\ d.kind # "None"
    <2>1. read' \in Nat /\ read <= read' /\ PastMixed <= read' /\ read' <= written
        <3>1. /\ read \in Nat /\ written \in Nat /\ read <= written /\ d.at \in Nat
              /\ PastMixed \in Nat /\ read <= PastMixed
            BY EarlyWindow, SMT DEF WellFormed, PastMixed, Greatest
        <3>2. read' = PastMixed \/ read' = Greatest(PastMixed, Least(d.at, written))
            BY <1>3 DEF Apply, WellFormed
        <3>3. read' <= written'
            BY DEF IInv, ReadBehindWrite
        <3> QED
            BY <3>1, <3>2, <3>3, SMT DEF Greatest, Least
    <2>2. Early' = {}
        <3>1. CASE fade' = NoFade
            BY <3>1 DEF Early, NoFade
        <3>2. CASE fade' = ScheduledFade(d)
            <4>1. fade'.at = d.at /\ fade'.b = d.at /\ d.at \in Nat
                BY <3>2 DEF ScheduledFade, WellFormed
            <4>2. d.at .. (d.at - 1) = {}
                BY <4>1, SMT
            <4> QED
                BY <4>1, <4>2 DEF Early
        <3> QED
            BY <1>3, <3>1, <3>2 DEF Apply, WellFormed
    <2>3. \A f \in Early : f < read'
        <3>1. CASE Early = {}
            BY <3>1
        <3>2. CASE Early # {}
            <4>1. /\ fade.scheduled /\ fade.kB > 0 /\ Early = fade.at .. (fade.b - 1)
                  /\ fade.at \in Nat /\ fade.b \in Nat
                BY <3>2, EarlyWindow
            <4>2. fade.b <= PastMixed /\ PastMixed \in Nat
                BY <4>1, EarlyWindow, SMT DEF PastMixed, Greatest
            <4> QED
                BY <2>1, <4>1, <4>2, Between
        <3> QED
            BY <3>1, <3>2
    <2>4. Listener!Skip
        BY <2>1, <2>2, <2>3, EarlyWindow DEF Listener!Skip, Listener!Ahead
    <2> QED
        BY <1>3, <2>4 DEF Listener!Next
<1> QED
    BY <1>1, <1>2, <1>3, EarlyWindow

-----------------------------------------------------------------------------
(* fill() *)

\* Frames given to the player are new ones.
LEMMA EmitFresh ==
    ASSUME IInv, IInv', ~overflowed, ~overflowed', NEW count, NEW played, Emit(count, played)
    PROVE  played \cap heard = {}
<1>1. ~replayed'
    BY DEF IInv, NoReplay
<1> QED
    BY <1>1 DEF Emit

\* A plain copy plays the outgoing track.
LEMMA CopyListener ==
    ASSUME IInv, IInv', FillCopy, ~overflowed
    PROVE  Listener!Play
<1> DEFINE chunk == Least(CopyLimit - read, filling)
           at == IF Early = {} THEN read + chunk ELSE fade.at
           b  == IF Early = {} THEN read + chunk ELSE fade.b
<1>1. /\ read \in Nat /\ written \in Nat /\ filling \in Nat /\ filling > 0
      /\ fade \in FadeRecord
    BY SizesAssumption DEF FillCopy, IInv, TypeOK
<1>2. /\ chunk \in Nat \ {0} /\ read + chunk <= written
      /\ fade.scheduled => read + chunk <= fade.start
    BY <1>1, SMT DEF FillCopy, CopyLimit, Least, FadeRecord
<1>3. /\ heard' = heard \cup Span(read, chunk) /\ Span(read, chunk) \cap heard = {}
      /\ read' = read + chunk /\ Early' = Early
      /\ written' = written /\ overflowed' = overflowed
    <2>1. /\ Emit(chunk, Span(read, chunk)) /\ read' = read + chunk /\ fade' = fade
          /\ written' = written /\ overflowed' = overflowed
        BY DEF FillCopy, Undelivered, deliveryVars
    <2>2. Span(read, chunk) \cap heard = {}
        BY <2>1, EmitFresh
    <2> QED
        BY <2>1, <2>2 DEF Emit, Early
<1> HIDE DEF chunk
<1>4. /\ Early = at .. (b - 1) /\ at \in (read + chunk) .. written /\ b \in at .. written
      /\ b \in Nat /\ at \in Nat
    <2>1. CASE Early = {}
        BY <1>1, <1>2, <2>1, SMT
    <2>2. CASE Early # {}
        <3>1. /\ fade.scheduled /\ fade.at \in Nat /\ fade.b \in Nat /\ fade.kB \in Nat
              /\ fade.b = fade.at + fade.kB /\ fade.b <= written
              /\ Early = fade.at .. (fade.b - 1) /\ fade.kB > 0
            BY <2>2, EarlyWindow
        <3>2. fade.start \in Nat /\ fade.start <= fade.at
            BY <1>1, <3>1 DEF IInv, FadeWindow, FadeRecord
        <3>3. /\ fade.at \in (read + chunk) .. written /\ fade.b \in fade.at .. written
            BY <1>1, <1>2, <3>1, <3>2, SMT
        <3> QED
            BY <2>2, <3>1, <3>3
    <2> QED
        BY <2>1, <2>2
<1> HIDE DEF at, b
<1>5. heard' # heard
    <2>1. read \in Span(read, chunk)
        BY <1>1, <1>2, SpanFrames
    <2> QED
        BY <1>3, <2>1
<1>6. chunk \in 0 .. (written - read)
    BY <1>1, <1>2, SMT
<1>7. Span(read, chunk) = (read .. (read + chunk - 1)) \cup (b .. (b - 1))
    <2>1. b .. (b - 1) = {}
        BY <1>4, SMT
    <2> QED
        BY <2>1 DEF Span
<1>8. b - b <= chunk /\ b \in b .. written
    BY <1>1, <1>2, <1>4, SMT
<1> QED
    BY <1>3, <1>4, <1>5, <1>6, <1>7, <1>8 DEF Listener!Play

\* An iteration inside the fade plays the outgoing frames up to r and haveB of
\* the incoming, or ends a fade of which nothing is left.
LEMMA FadeStepListener ==
    ASSUME IInv, IInv', ~overflowed, InFade,
           NEW r \in Nat, read <= r, r <= fade.at, r <= written,
           NEW haveB \in Nat, haveB > 0 => fade.b + haveB <= written,
           haveB <= r - read \/ r = fade.at,
           NEW count, NEW played, played = Span(read, r - read) \cup Span(fade.b, haveB),
           Emit(count, played), FadeProgress(r, haveB), Undelivered
    PROVE  [Listener!Next]_(Listener!vars)
<1>1. /\ read \in Nat /\ written \in Nat /\ read <= written /\ heard \subseteq Nat
      /\ fade.scheduled /\ fade.at \in Nat /\ fade.b \in Nat /\ fade.kB \in Nat
      /\ fade.b = fade.at + fade.kB /\ fade.n \in Nat /\ fade.n >= 1
      /\ fade.kB > 0 => fade.b <= written
      /\ Early = fade.at .. (fade.b - 1)
      /\ fade.kB = 0 => Early = {}
      /\ fade \in FadeRecord
    BY EarlyWindow DEF InFade, Early, IInv, TypeOK
<1>2. /\ heard' = heard \cup played /\ played \cap heard = {}
      /\ written' = written /\ overflowed' = overflowed
    BY EmitFresh DEF Emit, Undelivered, deliveryVars
<1>3. \/ /\ fade.kB + haveB >= fade.n /\ r = fade.at
         /\ read' = fade.b + haveB /\ Early' = {}
      \/ /\ ~(r = fade.at /\ fade.kB + haveB >= fade.n)
         /\ read' = r /\ Early' = fade.at .. (fade.b + haveB - 1)
    <2>1. CASE r >= fade.at /\ fade.kB + haveB >= fade.n
        <3>1. r = fade.at /\ read' = fade.b + haveB /\ fade' = NoFade
            BY <1>1, <2>1, SMT DEF FadeProgress
        <3> QED
            BY <2>1, <3>1 DEF Early, NoFade
    <2>2. CASE ~(r >= fade.at /\ fade.kB + haveB >= fade.n)
        <3>1. /\ read' = r
              /\ fade' = [fade EXCEPT !.b = fade.b + haveB, !.kB = fade.kB + haveB]
            BY <2>2 DEF FadeProgress
        <3>2. /\ fade'.scheduled = fade.scheduled /\ fade'.at = fade.at
              /\ fade'.b = fade.b + haveB
            BY <1>1, <3>1 DEF FadeRecord
        <3>3. Early' = fade.at .. (fade.b + haveB - 1)
            BY <1>1, <3>2 DEF Early
        <3> QED
            BY <1>1, <2>2, <3>1, <3>3, SMT
    <2> QED
        BY <2>1, <2>2
<1> DEFINE n  == r - read
           at == IF fade.kB + haveB = 0 THEN r ELSE fade.at
           b  == IF fade.kB + haveB = 0 THEN r ELSE fade.b
           c  == b + haveB
<1>4. n \in 0 .. (written - read) /\ n \in Nat /\ read + n = r
    BY <1>1, SMT
<1>5. /\ at \in Nat /\ b \in Nat /\ c \in Nat /\ r <= at /\ at <= b /\ b <= c /\ c <= written
      /\ c - b = haveB
    <2>1. CASE fade.kB + haveB = 0
        <3>1. at = r /\ b = r /\ c = r + haveB /\ haveB = 0
            BY <1>1, <2>1, SMT
        <3> HIDE DEF at, b, c
        <3> QED
            BY <1>1, <3>1, SMT
    <2>2. CASE fade.kB + haveB # 0
        <3>1. at = fade.at /\ b = fade.b /\ c = fade.b + haveB
            BY <2>2
        <3>2. /\ fade.b + haveB <= written /\ fade.at \in Nat /\ fade.b \in Nat
              /\ fade.at <= fade.b /\ r <= fade.at
            BY <1>1, <2>2, SMT
        <3> HIDE DEF at, b, c
        <3>3. at \in Nat /\ b \in Nat /\ c \in Nat
            BY <3>1, <3>2
        <3> QED
            BY <3>1, <3>2, <3>3, SMT
    <2> QED
        BY <2>1, <2>2
<1>6. /\ Early = at .. (b - 1)
      /\ \/ read' = r /\ Early' = at .. (c - 1)
         \/ r = at /\ read' = c /\ Early' = {}
    <2>1. CASE fade.kB + haveB = 0
        <3>1. fade.kB = 0 /\ haveB = 0
            BY <1>1, <2>1, SMT
        <3>2. read' = r /\ Early' = fade.at .. (fade.b + haveB - 1)
            BY <1>1, <1>3, <3>1, SMT
        <3>3. fade.at .. (fade.b + haveB - 1) = {} /\ r .. (r - 1) = {} /\ r .. (r + 0 - 1) = {}
            BY <1>1, <3>1, SMT
        <3> QED
            BY <1>1, <2>1, <3>1, <3>2, <3>3
    <2>2. CASE fade.kB + haveB # 0
        BY <1>1, <1>3, <2>2
    <2> QED
        BY <2>1, <2>2
<1>7. haveB <= n \/ r = at
    BY <1>1, SMT
<1>8. played = (read .. (read + n - 1)) \cup (b .. (c - 1))
    <2>1. Span(read, n) = read .. (read + n - 1)
        BY DEF Span
    <2>2. Span(fade.b, haveB) = b .. (c - 1)
        <3>1. CASE haveB = 0
            <4>1. Span(fade.b, haveB) = {} /\ b .. (c - 1) = {}
                BY <1>1, <1>5, <3>1, SMT DEF Span
            <4> QED
                BY <4>1
        <3>2. CASE haveB # 0
            <4>1. b = fade.b /\ c = fade.b + haveB
                BY <1>1, <3>2, SMT
            <4> HIDE DEF b, c
            <4>2. Span(b, haveB) = b .. (c - 1)
                BY <1>1, <4>1, SMT DEF Span
            <4> QED
                BY <4>1, <4>2
        <3> QED
            BY <3>1, <3>2
    <2> QED
        BY <2>1, <2>2
<1> HIDE DEF at, b, c, n
<1>9. CASE heard' # heard
    <2>1. at \in (read + n) .. written /\ b \in at .. written /\ c \in b .. written
        BY <1>1, <1>4, <1>5, SMT
    <2>2. c - b <= n \/ read + n = at
        BY <1>4, <1>5, <1>7
    <2>3. \/ read' = read + n /\ Early' = at .. (c - 1)
          \/ read + n = at /\ read' = c /\ Early' = {}
        BY <1>4, <1>6
    <2>4. Listener!Play
        BY <1>2, <1>4, <1>6, <1>8, <1>9, <2>1, <2>2, <2>3 DEF Listener!Play
    <2> QED
        BY <2>4 DEF Listener!Next
<1>10. CASE heard' = heard
    <2>1. played = {}
        BY <1>2, <1>10
    <2>2. n = 0 /\ haveB = 0
        <3>1. CASE n # 0
            <4>1. read \in read .. (read + n - 1)
                BY <1>1, <1>4, <3>1, SMT
            <4> QED
                BY <1>8, <2>1, <4>1
        <3>2. CASE haveB # 0
            <4>1. b \in b .. (c - 1)
                BY <1>5, <3>2, SMT
            <4> QED
                BY <1>8, <2>1, <4>1
        <3> QED
            BY <3>1, <3>2
    <2>3. r = read /\ c = b
        BY <1>1, <1>4, <1>5, <2>2, SMT
    <2>4. CASE read' = r /\ Early' = at .. (c - 1)
        BY <1>2, <1>6, <1>10, <2>3, <2>4 DEF Listener!vars
    <2>5. CASE r = at /\ read' = c /\ Early' = {}
        <3>1. \A f \in Early : f < c
            BY <1>5, <1>6, <2>3, Between
        <3>2. read' >= read /\ read' <= written
            BY <1>1, <1>5, <2>3, <2>5, SMT
        <3>3. Listener!Skip
            BY <1>2, <1>10, <2>5, <3>1, <3>2 DEF Listener!Skip, Listener!Ahead
        <3> QED
            BY <3>3 DEF Listener!Next
    <2> QED
        BY <1>6, <2>4, <2>5
<1> QED
    BY <1>9, <1>10

\* The outgoing stage is a fade step in which the incoming is no faster.
LEMMA OutgoingListener ==
    ASSUME IInv, IInv', FillOutgoing, ~overflowed
    PROVE  [Listener!Next]_(Listener!vars)
<1> DEFINE k0    == read - fade.start
           left  == IF fade.nA > k0 THEN fade.nA - k0 ELSE 1
           chunk == Least(Least(filling, fade.at - read), Least(written - read, left))
           haveB == Least(Greatest(0, written - fade.b), chunk)
           played == Span(read, chunk) \cup Span(fade.b, haveB)
<1>1. /\ InFade /\ read < fade.at /\ read < written /\ filling > 0
      /\ Emit(chunk, played) /\ FadeProgress(read + chunk, haveB) /\ Undelivered
    BY DEF FillOutgoing, Outgoing
<1>2. /\ read \in Nat /\ written \in Nat /\ filling \in Nat
      /\ fade.at \in Nat /\ fade.b \in Nat /\ fade.nA \in Nat /\ fade.start \in Nat
      /\ fade.start <= read
    BY <1>1, SizesAssumption, SMT DEF IInv, TypeOK, FadeRecord, InFade
<1>3. left \in Nat \ {0}
    BY <1>2, SMT
<1> HIDE DEF left
<1>4. chunk \in Nat /\ read + chunk <= fade.at /\ read + chunk <= written
    BY <1>1, <1>2, <1>3, SMT DEF Least
<1> HIDE DEF chunk
<1>5. haveB \in Nat /\ haveB <= chunk /\ (haveB > 0 => fade.b + haveB <= written)
    BY <1>2, <1>4, SMT DEF Least, Greatest
<1>6. (read + chunk) - read = chunk /\ read + chunk \in Nat /\ read <= read + chunk
    BY <1>2, <1>4, SMT
<1> HIDE DEF haveB
<1> QED
    BY <1>1, <1>2, <1>4, <1>5, <1>6, FadeStepListener

\* The incoming stage is a fade step at the boundary.
LEMMA IncomingListener ==
    ASSUME IInv, IInv', FillIncoming, ~overflowed
    PROVE  [Listener!Next]_(Listener!vars)
<1> DEFINE chunk == Least(filling, Greatest(0, fade.n - fade.kB))
           haveB == Least(written - fade.b, chunk)
           played == Span(read, 0) \cup Span(fade.b, haveB)
<1>1. /\ InFade /\ read = fade.at /\ (fade.b < written \/ fade.kB >= fade.n)
      /\ Emit(haveB, Span(fade.b, haveB)) /\ FadeProgress(read, haveB) /\ Undelivered
    BY DEF FillIncoming, IncomingOnly
<1>2. /\ read \in Nat /\ written \in Nat /\ filling \in Nat
      /\ fade.at \in Nat /\ fade.b \in Nat /\ fade.n \in Nat /\ fade.kB \in Nat
      /\ fade.n >= 1 /\ (fade.kB > 0 => fade.b <= written)
      /\ read <= written
    BY <1>1, SizesAssumption, SMT DEF IInv, TypeOK, FadeRecord, InFade, FadeAligned,
       ReadBehindWrite
<1>3. chunk \in Nat
    BY <1>2, SMT DEF Least, Greatest
<1> HIDE DEF chunk
<1>4. fade.b <= written
    BY <1>1, <1>2, SMT
<1>5. haveB \in Nat /\ fade.b + haveB <= written
    BY <1>2, <1>3, <1>4, SMT DEF Least
<1> HIDE DEF haveB
<1>6. Span(read, 0) = {} /\ read - read = 0
    BY <1>2, SMT DEF Span
<1>7. played = Span(read, read - read) \cup Span(fade.b, haveB) /\ Emit(haveB, played)
    BY <1>1, <1>6
<1>8. read <= read /\ read <= fade.at
    BY <1>1, <1>2, SMT
<1> HIDE DEF played
<1> QED
    BY <1>1, <1>2, <1>5, <1>7, <1>8, FadeStepListener

\* Cancelling a fade that was passed over and an underrun are not noticed.
LEMMA QuietFillListener ==
    ASSUME IInv, FillCancel \/ FillUnderrun, ~overflowed
    PROVE  UNCHANGED Listener!vars
<1>1. CASE FillCancel
    <2>1. fade.scheduled /\ fade.kB = 0
        <3>1. fade.scheduled /\ read > fade.at /\ fade.kB \in Nat /\ fade.at \in Nat
              /\ read \in Nat
            BY <1>1, EarlyWindow DEF FillCancel, PastFade
        <3> QED
            BY <3>1, SMT DEF IInv, HeardBehind
    <2>2. Early = {} /\ Early' = {}
        BY <1>1, <2>1, EarlyWindow DEF FillCancel, Early, NoFade
    <2> QED
        BY <1>1, <2>2 DEF FillCancel, Undelivered, deliveryVars, Listener!vars
<1>2. CASE FillUnderrun
    BY <1>2 DEF FillUnderrun, Undelivered, deliveryVars, Listener!vars, Early
<1> QED
    BY <1>1, <1>2

-----------------------------------------------------------------------------
(* enqueue() *)

\* Writing audio delivers it; a re-anchor puts the listener behind what was
\* mixed in; an overflow is an overrun.
LEMMA WriteListener ==
    ASSUME IInv, IInv', ~overflowed, NEW n \in BufferSizes, WriteAudio(n)
    PROVE  Listener!Next
<1> DEFINE r == IF Reanchors /\ fade.kB > 0 THEN Greatest(read, fade.b) ELSE read
<1>1. /\ fade' = IF Reanchors THEN Reanchored(r) ELSE fade
      /\ read' = IF written + n > r + Capacity THEN (written + n) - Capacity ELSE r
      /\ overflowed' = (overflowed \/ written + n > r + Capacity)
      /\ written' = written + n /\ heard' = heard
    BY DEF WriteAudio
<1>2. /\ read \in Nat /\ written \in Nat /\ n \in Nat \ {0} /\ read <= written
      /\ written' > written
    <2>1. read \in Nat /\ written \in Nat /\ n \in Nat \ {0} /\ read <= written
        BY EarlyWindow, SizesAssumption
    <2> QED
        BY <1>1, <2>1, SMT
<1>3. CASE overflowed'
    BY <1>2, <1>3 DEF Listener!Next, Listener!Overrun
<1>4. CASE ~overflowed'
    <2>1. read' = r /\ overflowed' = overflowed
        <3>1. overflowed \in BOOLEAN /\ overflowed' \in BOOLEAN
            BY DEF IInv, TypeOK
        <3> QED
            BY <1>1, <1>4, <3>1
    <2>2. CASE ~Reanchors
        <3>1. fade' = fade /\ read' = read
            BY <1>1, <2>1, <2>2
        <3> QED
            BY <1>1, <1>2, <2>1, <3>1 DEF Listener!Next, Listener!Deliver, Early
    <2>3. CASE Reanchors
        <3>1. /\ fade.scheduled /\ fade.at \in Nat /\ fade.b \in Nat /\ fade.kB \in Nat
              /\ fade.b = fade.at + fade.kB /\ (fade.kB > 0 => fade.b <= written)
              /\ Early = fade.at .. (fade.b - 1)
            BY <2>3, EarlyWindow DEF Reanchors, Early
        <3>2. r \in Nat /\ read <= r /\ r <= written /\ (fade.kB > 0 => fade.b <= r)
            BY <1>2, <2>3, <3>1, SMT DEF Greatest
        <3>3. r = read \/ r - 1 \in Early
            <4>1. CASE fade.kB > 0 /\ fade.b > read
                <5>1. r = fade.b
                    BY <1>2, <2>3, <3>1, <4>1, SMT DEF Greatest
                <5>2. fade.b - 1 \in fade.at .. (fade.b - 1)
                    BY <3>1, <4>1, SMT
                <5> QED
                    BY <3>1, <5>1, <5>2
            <4>2. CASE ~(fade.kB > 0 /\ fade.b > read)
                BY <1>2, <2>3, <3>1, <4>2, SMT DEF Greatest
            <4> QED
                BY <4>1, <4>2
        <3> HIDE DEF r
        <3>4. \A f \in Early : f < r
            <4>1. CASE fade.kB > 0
                BY <3>1, <3>2, <4>1, Between
            <4>2. CASE ~(fade.kB > 0)
                BY <3>1, <4>2, EarlyWindow, SMT
            <4> QED
                BY <4>1, <4>2
        <3>5. Early' = {}
            <4>1. CASE ~fade'.scheduled
                BY <4>1 DEF Early
            <4>2. CASE fade'.scheduled
                <5>1. fade'.at = written /\ fade'.b = written
                    BY <1>1, <2>3, <3>2, <4>2, ReanchoredFade
                <5>2. written .. (written - 1) = {}
                    BY <1>2, SMT
                <5> QED
                    BY <4>2, <5>1, <5>2 DEF Early
            <4> QED
                BY <4>1, <4>2
        <3>6. Listener!Deliver
            BY <1>1, <1>2, <2>1, <3>2, <3>3, <3>4, <3>5, SMT
               DEF Listener!Deliver, Listener!Ahead
        <3> QED
            BY <3>6 DEF Listener!Next
    <2> QED
        BY <2>2, <2>3
<1> QED
    BY <1>3, <1>4

-----------------------------------------------------------------------------
(* The refinement *)

\* overflows_ never goes back to 0.
LEMMA OverflowStays ==
    ASSUME [Next]_vars, overflowed
    PROVE  overflowed'
BY DEF Next, Enqueue, DropPadding, WriteAudio, Clear, SetPlayState, ForwardPlayState, AckLoop,
   CallbackReturns, OnMetadata, SetCrossfadeMs, FillBegin, Fill, FillCancel, FillOutgoing,
   FillIncoming, FillCopy, FillUnderrun, Undelivered, ClockTick, vars, deliveryVars

\* Every step of the pipeline is one of the listener's, or none.
LEMMA StepListener ==
    IInv /\ IInv' /\ [Next]_vars => [Listener!Next]_(Listener!vars)
<1> SUFFICES ASSUME IInv, IInv', [Next]_vars
             PROVE  [Listener!Next]_(Listener!vars)
    OBVIOUS
<1>1. CASE overflowed
    BY <1>1, OverflowStays, LostListener
<1>2. CASE ~overflowed
    <2>1. CASE \E n \in BufferSizes : WriteAudio(n)
        BY <1>2, <2>1, WriteListener
    <2>2. CASE AckLoop
        BY <2>2, TickWellFormed, ApplyListener DEF IInv, TypeOK, AckLoop
    <2>3. CASE \E t \in Tracks, dur \in Durations, pos \in Positions : OnMetadata(t, dur, pos)
        <3> PICK t \in Tracks, dur \in Durations, pos \in Positions : OnMetadata(t, dur, pos)
            BY <2>3
        <3>1. X \in Nat
            BY LeadNat, InputsAssumption DEF IInv, TypeOK
        <3>2. WellFormed(MetadataDecision(t, written, read, X))
            BY <3>1, MetadataWellFormed DEF IInv, TypeOK
        <3> QED
            BY <3>2, ApplyListener DEF OnMetadata
    <2>4. CASE Fill
        <3>1. CASE FillCopy
            BY <1>2, <3>1, CopyListener DEF Listener!Next
        <3> QED
            BY <1>2, <2>4, <3>1, OutgoingListener, IncomingListener, QuietFillListener
               DEF Fill
    <2>5. CASE \/ \E n \in BufferSizes : DropPadding(n)
               \/ Clear
               \/ \E p \in PlayStates : SetPlayState(p)
               \/ ForwardPlayState
               \/ CallbackReturns
               \/ \E ms \in Crossfades : SetCrossfadeMs(ms)
               \/ FillBegin
               \/ ClockTick
               \/ UNCHANGED vars
        <3>1. UNCHANGED <<written, read, fade, heard, overflowed>>
            BY <2>5 DEF DropPadding, Clear, SetPlayState, ForwardPlayState, CallbackReturns,
               SetCrossfadeMs, FillBegin, ClockTick, vars, fillVars, deliveryVars
        <3> QED
            BY <3>1 DEF Listener!vars, Early
    <2> QED
        BY <2>1, <2>2, <2>3, <2>4, <2>5 DEF Next, Enqueue
<1> QED
    BY <1>1, <1>2, EarlyWindow

\* Whatever tracks, buffers, lengths and timings: the pipeline gives its
\* listener what Playout promises.
THEOREM ListenerServed == Spec => Implements
<1>1. Init => Listener!Init
    BY InitListener
<1>2. IInv /\ IInv' /\ [Next]_vars => [Listener!Next]_(Listener!vars)
    BY StepListener
<1> QED
    BY <1>1, <1>2, Invariance, PTL DEF Spec, Implements, Listener!Spec

-----------------------------------------------------------------------------
(* The outgoing track's gain *)

\* Rounding: q is a / b to the nearest, halves up.
LEMMA NearestQuotient ==
    ASSUME NEW a \in Nat, NEW b \in Nat \ {0}
    PROVE  LET q == (2 * a + b) \div (2 * b)
           IN  q \in Nat /\ 2 * (b * q) <= 2 * a + b /\ 2 * a + b < 2 * (b * q) + 2 * b
<1> DEFINE m == 2 * a + b
           d == 2 * b
           q == m \div d
<1>1. m \in Nat /\ d \in Nat \ {0}
    BY SMT
<1>2. \A x \in Nat, y \in Nat \ {0} :
         x \div y \in Nat /\ y * (x \div y) <= x /\ x < y * (x \div y) + y
    BY SMT
<1>3. q \in Nat /\ d * q <= m /\ m < d * q + d
    BY <1>1, <1>2
<1> HIDE DEF q
<1>4. d * q = 2 * (b * q)
    BY <1>3, SMT
<1> QED
    BY <1>3, <1>4 DEF q

\* A ramp of nA0 at k0, left frames before its new end: what is left over when
\* it is re-fitted to q frames is at most one sample step.
LEMMA RefitStep ==
    ASSUME NEW nA0 \in Nat \ {0}, NEW k0 \in Nat, NEW left \in Nat \ {0}, NEW q \in Nat,
           NEW den \in Nat \ {0}, den = 2 * nA0 - 2 * k0 - 1,
           2 * (den * q) <= 2 * (2 * nA0 * left) + den,
           2 * (2 * nA0 * left) + den < 2 * (den * q) + 2 * den
    PROVE  left <= q /\ SameGain(k0, nA0, q - left, q)
<1>1. den < 2 * nA0
    BY SMT
<1>2. left <= q
    <2> SUFFICES ASSUME q + 1 <= left PROVE FALSE
        BY SMT
    <2>1. den * (q + 1) <= den * left /\ den * left <= 2 * nA0 * left
        BY <1>1, SMT
    <2>2. den * (q + 1) = den * q + den
        BY SMT
    <2> QED
        BY <2>1, <2>2, SMT
<1> DEFINE diff == (2 * (q - left) + 1) * nA0 - (2 * k0 + 1) * q
<1>3. diff = den * q - 2 * nA0 * left + nA0
    BY SMT
<1>4. den * q \in Nat /\ 2 * nA0 * left \in Nat
    BY SMT
<1> DEFINE P == den * q
           Q == 2 * nA0 * left
<1> HIDE DEF diff, P, Q
<1>5. -2 * nA0 <= diff /\ diff <= 2 * nA0
    BY <1>1, <1>3, <1>4, SMT DEF P, Q
<1> QED
    BY <1>2, <1>5 DEF SameGain, diff

\* Unless its cap makes the ramp longer, reanchorFade() refits it exactly.
LEMMA RefitKeepsGain ==
    ASSUME written \in Nat, NEW k0 \in Nat, NEW nA0 \in Nat \ {0},
           NEW left \in Nat \ {0},
           RefitRamp(left, k0, nA0) < Least(written, LongestRamp)
    PROVE  SameGain(k0, nA0, RefitRamp(left, k0, nA0) - left, RefitRamp(left, k0, nA0))
<1> DEFINE den == 2 * nA0 - 2 * k0 - 1
           num == 2 * nA0 * left
           cap == Least(written, LongestRamp)
           fit == IF den > 0 THEN (2 * num + den) \div (2 * den) ELSE cap
           q == RefitRamp(left, k0, nA0)
<1>1. cap \in Nat
    BY LongestRampNat DEF Least
<1>2. den \in Int /\ num \in Nat
    BY SMT
<1>3. q = Greatest(Least(fit, cap), left)
    BY DEF RefitRamp
<1> HIDE DEF q
<1>4. den > 0
    <2> SUFFICES ASSUME ~(den > 0) PROVE FALSE
        OBVIOUS
    <2>1. fit = cap
        OBVIOUS
    <2> HIDE DEF fit, cap
    <2>2. cap <= q
        BY <1>1, <1>3, <2>1 DEF Least, Greatest
    <2>3. q < cap
        BY DEF q, cap
    <2> QED
        BY <1>1, <1>3, <2>1, <2>2, <2>3 DEF Least, Greatest
<1>5. fit = (2 * num + den) \div (2 * den)
    BY <1>4
<1> HIDE DEF fit
<1>6. den \in Nat \ {0}
    BY <1>2, <1>4
<1>7. /\ fit \in Nat /\ 2 * (den * fit) <= 2 * num + den
      /\ 2 * num + den < 2 * (den * fit) + 2 * den
    <2> HIDE DEF num, den
    <2> QED
        BY <1>2, <1>5, <1>6, NearestQuotient
<1>8. left <= fit /\ SameGain(k0, nA0, fit - left, fit)
    <2> HIDE DEF den
    <2>1. den = 2 * nA0 - 2 * k0 - 1
        BY DEF den
    <2> QED
        BY <1>6, <1>7, <2>1, RefitStep
<1> HIDE DEF den, cap, num
<1>9. q < cap
    BY DEF q, cap
<1>10. q = fit
    BY <1>1, <1>3, <1>7, <1>8, <1>9 DEF Least, Greatest
<1> QED
    BY <1>8, <1>10 DEF q

\* Only audio makes the delivered stream longer.
LEMMA OnlyAudioDelivers ==
    ASSUME IInv, [Next]_vars, written' > written
    PROVE  \E n \in BufferSizes : WriteAudio(n)
<1>1. written' # written
    BY DEF IInv, TypeOK
<1> QED
    BY <1>1
       DEF Next, Enqueue, DropPadding, Clear, SetPlayState, ForwardPlayState, AckLoop,
           CallbackReturns, OnMetadata, SetCrossfadeMs, FillBegin, Fill, FillCancel,
           FillOutgoing, FillIncoming, FillCopy, FillUnderrun, Undelivered, ClockTick, vars,
           fillVars, deliveryVars, controlVars

LEMMA StepKeepsGain ==
    ASSUME IInv, [Next]_vars, Reanchoring
    PROVE  GainKept
<1>1. PICK n \in BufferSizes : WriteAudio(n)
    BY OnlyAudioDelivers DEF Reanchoring
<1> DEFINE r == IF Reanchors /\ fade.kB > 0 THEN Greatest(read, fade.b) ELSE read
           left == Greatest(0, written - r)
           refit == RefitRamp(left, read - fade.start, Greatest(fade.nA, 1))
<1>2. /\ read \in Nat /\ written \in Nat /\ n \in Nat \ {0} /\ Capacity \in Nat
      /\ read <= written /\ fade \in FadeRecord /\ fade.scheduled
      /\ fade.start \in Nat /\ fade.nA \in Nat /\ fade.b \in Nat
      /\ fade.kB > 0 => fade.b <= written
    BY SizesAssumption
       DEF IInv, TypeOK, ReadBehindWrite, FadeRecord, Reanchoring, Reanchors
<1>3. r \in Nat /\ read <= r /\ r <= written
    BY <1>2, SMT DEF Greatest
<1>4. /\ fade' = Reanchored(r) /\ written' = written + n
      /\ read' = IF written + n > r + Capacity THEN (written + n) - Capacity ELSE r
    <2>1. Reanchors
        BY DEF Reanchoring
    <2>2. fade' = IF Reanchors THEN Reanchored(r) ELSE fade
        BY <1>1 DEF WriteAudio
    <2>3. written' = written + n
        BY <1>1 DEF WriteAudio
    <2>4. read' = IF written + n > r + Capacity THEN (written + n) - Capacity ELSE r
        BY <1>1 DEF WriteAudio
    <2> QED
        BY <2>1, <2>2, <2>3, <2>4
<1> HIDE DEF r
<1>5. read' = r
    BY <1>2, <1>3, <1>4, SMT DEF Reanchoring
<1>6. left = written - r /\ left \in Nat
    BY <1>2, <1>3, SMT DEF Greatest
<1>7. X \in Nat /\ Frames(MinTailMs) \in Nat
    BY LeadNat, FramesNat, InputsAssumption, WindowAssumption DEF IInv, TypeOK
<1> HIDE DEF left
<1>8. fade'.scheduled
    BY DEF Reanchoring
<1>9. CASE ~FadeStarted
    <2>1. fade' = [fade EXCEPT !.at = written, !.b = written, !.kB = 0,
                               !.nA = Least(X, left), !.start = written - Least(X, left)]
        BY <1>4, <1>8, <1>9 DEF Reanchored, left, NoFade
    <2>2. fade'.start = written - Least(X, left)
        BY <1>2, <2>1 DEF FadeRecord
    <2>3. r <= fade'.start
        BY <1>2, <1>3, <1>6, <1>7, <2>2, SMT DEF Least
    <2> QED
        BY <1>5, <1>9, <2>3 DEF GainKept
<1>10. CASE FadeStarted
    <2> SUFFICES ASSUME read' < fade'.at, ~RampCapped(fade')
                 PROVE  SameGain(read - fade.start, Greatest(fade.nA, 1),
                                 read' - fade'.start, fade'.nA)
        BY <1>10 DEF GainKept
    <2>1. fade'.at = written
        BY <1>2, <1>3, <1>4, <1>8, ReanchoredFade DEF Reanchoring
    <2>2. left > 0
        BY <1>2, <1>3, <1>5, <1>6, <2>1
    <2>3. fade' = [fade EXCEPT !.at = written, !.b = written, !.kB = 0,
                               !.nA = refit, !.start = written - refit]
        <3> DEFINE nA == CASE ~FadeStarted -> Least(X, left)
                           [] FadeStarted /\ left = 0 -> 1
                           [] FadeStarted /\ left > 0 -> refit
        <3>1. left # 0
            BY <1>6, <2>2
        <3>2. nA = refit
            BY <1>10, <2>2, <3>1
        <3>3. fade' = IF ~FadeStarted /\ left < Frames(MinTailMs) THEN NoFade
                      ELSE [fade EXCEPT !.at = written, !.b = written, !.kB = 0, !.nA = nA,
                                        !.start = IF FadeStarted /\ left = 0
                                                  THEN written ELSE written - nA]
            BY <1>4 DEF Reanchored, left
        <3> HIDE DEF nA, refit
        <3> QED
            BY <1>10, <3>1, <3>2, <3>3
    <2>4. fade'.nA = refit /\ fade'.start = written - refit
        BY <1>2, <2>3 DEF FadeRecord
    <2>5. read - fade.start \in Nat /\ Greatest(fade.nA, 1) \in Nat \ {0}
        BY <1>2, <1>10, SMT DEF FadeStarted, Greatest
    <2>6. refit \in Nat
        <3>1. left <= written
            BY <1>2, <1>3, <1>6
        <3> QED
            BY <1>2, <1>6, <2>5, <3>1, RefitBounds
    <2> HIDE DEF refit
    <2>7. refit < Least(written, LongestRamp)
        BY <1>2, <2>1, <2>4, <2>6, LongestRampNat DEF RampCapped, Least
    <2>8. SameGain(read - fade.start, Greatest(fade.nA, 1), refit - left, refit)
        BY <1>2, <1>6, <2>2, <2>5, <2>7, RefitKeepsGain DEF refit
    <2>9. read' - fade'.start = refit - left
        BY <1>2, <1>3, <1>5, <1>6, <2>4, <2>6
    <2> QED
        BY <2>4, <2>8, <2>9
<1> QED
    BY <1>9, <1>10

\* The outgoing track's gain never steps at a re-anchor (ring_pipeline.cpp:138-
\* 139, 179-181), whatever the ramp, the tail that is left of it and the sizes.
THEOREM GainNeverSteps == Spec => ReanchorKeepsGain
<1>1. IInv /\ [Next]_vars => [Reanchoring => GainKept]_vars
    BY StepKeepsGain
<1> QED
    BY <1>1, Invariance, PTL DEF Spec, ReanchorKeepsGain
=============================================================================
