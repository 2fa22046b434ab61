--------------------------- MODULE OutputPathProofs ---------------------------
(***************************************************************************)
(* Proofs about the output side of the pipeline: its buffers go round in   *)
(* order, and the output is played in the order it was produced.           *)
(***************************************************************************)
EXTENDS OutputPath, FiniteSetTheorems, TLAPS

\* The part of TypeOK that is about the output buffers.
OutTypeOK ==
    /\ phase \in {"priming", "started", "closed", "failed"}
    /\ out \in [Buffers -> 0 .. MaxFills]
    /\ outHead \in Buffers
    /\ queue \in Seq(Buffers)
    /\ audio \in {"idle", "called", "push", "enqueue"}
    /\ buf \in Buffers
    /\ fills \in 0 .. MaxFills /\ played \in 0 .. MaxFills

-----------------------------------------------------------------------------
(* Going round the output buffers *)

LEMMA ModSmall ==
    ASSUME NEW K \in Nat \ {0}, NEW x \in 0 .. K - 1
    PROVE  x % K = x
BY SMT

LEMMA ModOver ==
    ASSUME NEW K \in Nat \ {0}, NEW x \in K .. 2 * K - 1
    PROVE  x % K = x - K
BY SMT

\* Rotated goes to the next buffer, and from the last to the first.
LEMMA RotatedIs ==
    ASSUME NEW h \in Buffers
    PROVE  /\ Rotated(h) \in Buffers
           /\ h + 1 < OutBuffers => Rotated(h) = h + 1
           /\ h + 1 = OutBuffers => Rotated(h) = 0
<1>1. CASE h + 1 < OutBuffers
  <2>1. (h + 1) % OutBuffers = h + 1
    BY <1>1, OutputAssumption, ModSmall DEF Buffers
  <2> QED BY <1>1, <2>1, OutputAssumption DEF Rotated, Buffers
<1>2. CASE h + 1 = OutBuffers
  <2>1. (h + 1) % OutBuffers = 0
    BY <1>2, OutputAssumption, ModOver DEF Buffers
  <2> QED BY <1>2, <2>1, OutputAssumption DEF Rotated, Buffers
<1> QED BY <1>1, <1>2, OutputAssumption DEF Buffers

LEMMA AroundIs ==
    ASSUME NEW b \in Buffers, NEW h \in Buffers
    PROVE  Around(b, h) = IF b >= h THEN b - h ELSE b - h + OutBuffers
<1>1. CASE b >= h
  <2>1. (b - h + OutBuffers) % OutBuffers = b - h
    BY <1>1, OutputAssumption, ModOver DEF Buffers
  <2> QED BY <1>1, <2>1, OutputAssumption DEF Around, Buffers
<1>2. CASE b < h
  <2>1. (b - h + OutBuffers) % OutBuffers = b - h + OutBuffers
    BY <1>2, OutputAssumption, ModSmall DEF Buffers
  <2> QED BY <1>2, <2>1, OutputAssumption DEF Around, Buffers
<1> QED BY <1>1, <1>2, OutputAssumption DEF Buffers

\* Moving the head on brings every buffer one nearer, and its own to the end.
LEMMA AroundMoves ==
    ASSUME NEW b \in Buffers, NEW h \in Buffers
    PROVE  /\ Around(b, h) \in 0 .. OutBuffers - 1
           /\ Around(b, h) = 0 <=> b = h
           /\ b = h => Around(b, Rotated(h)) = OutBuffers - 1
           /\ b # h => Around(b, Rotated(h)) = Around(b, h) - 1
<1>1. CASE h + 1 < OutBuffers
  <2>1. Rotated(h) = h + 1 /\ h + 1 \in Buffers
    BY <1>1, RotatedIs, OutputAssumption DEF Buffers
  <2>2. Around(b, h + 1) = IF b >= h + 1 THEN b - (h + 1) ELSE b - (h + 1) + OutBuffers
    BY <2>1, AroundIs
  <2> QED BY <1>1, <2>1, <2>2, AroundIs, OutputAssumption, SMTT(30) DEF Buffers
<1>2. CASE h + 1 = OutBuffers
  <2>1. Rotated(h) = 0 /\ 0 \in Buffers
    BY <1>2, RotatedIs, OutputAssumption DEF Buffers
  <2>2. Around(b, 0) = b
    BY <2>1, AroundIs, OutputAssumption DEF Buffers
  <2> QED BY <1>2, <2>1, <2>2, AroundIs, OutputAssumption DEF Buffers
<1> QED BY <1>1, <1>2, OutputAssumption DEF Buffers

LEMMA AroundInjective ==
    ASSUME NEW a \in Buffers, NEW b \in Buffers, NEW h \in Buffers, Around(a, h) = Around(b, h)
    PROVE  a = b
BY AroundIs, OutputAssumption DEF Buffers

-----------------------------------------------------------------------------
(* Types *)

\* The steps that matter to the output buffers, and all others.
LEMMA OutputSteps ==
    ASSUME [Next]_vars
    PROVE  \/ Prime \/ PrimingFails \/ Publish
           \/ Complete \/ RefillOldest \/ PushBuffer \/ EnqueueBuffer
           \/ Stop
           \/ UNCHANGED outVars
<1>1. CASE CutApplied BY <1>1 DEF CutApplied
<1>2. CASE ScheduleFade BY <1>2 DEF ScheduleFade
<1>3. CASE Reanchor BY <1>3 DEF Reanchor
<1>4. CASE Overflow BY <1>4 DEF Overflow
<1>5. CASE UNCHANGED vars BY <1>5 DEF vars
<1> QED BY <1>1, <1>2, <1>3, <1>4, <1>5 DEF Next

LEMMA OutTypeInit == ASSUME Init PROVE OutTypeOK
BY OutputAssumption DEF Init, OutTypeOK, Buffers

LEMMA OutTypeNext == ASSUME OutTypeOK, [Next]_vars PROVE OutTypeOK'
<1> USE OutputAssumption DEF OutTypeOK
<1>1. CASE Prime BY <1>1, RotatedIs DEF Prime
<1>2. CASE PrimingFails BY <1>2 DEF PrimingFails
<1>3. CASE Publish BY <1>3 DEF Publish
<1>4. CASE Complete
  <2>1. queue # <<>> /\ Head(queue) \in Buffers /\ Tail(queue) \in Seq(Buffers)
    BY <1>4 DEF Complete
  <2>2. out[Head(queue)] \in 0 .. MaxFills
    BY <2>1
  <2>3. Most(played, out[Head(queue)]) \in 0 .. MaxFills
    BY <2>2 DEF Most
  <2> QED BY <1>4, <2>1, <2>3 DEF Complete
<1>5. CASE RefillOldest
  <2>1. fills' \in 0 .. MaxFills /\ fills' = fills + 1
    BY <1>5 DEF RefillOldest
  <2>2. out' \in [Buffers -> 0 .. MaxFills]
    BY <1>5, <2>1 DEF RefillOldest
  <2>3. outHead' \in Buffers
    BY <1>5, RotatedIs DEF RefillOldest
  <2> QED BY <1>5, <2>1, <2>2, <2>3 DEF RefillOldest
<1>6. CASE PushBuffer BY <1>6 DEF PushBuffer
<1>7. CASE EnqueueBuffer BY <1>7, SMTT(30) DEF EnqueueBuffer
<1>8. CASE UNCHANGED outVars BY <1>8 DEF outVars
<1>9. CASE Stop BY <1>9 DEF Stop
<1> QED
  BY <1>1, <1>2, <1>3, <1>4, <1>5, <1>6, <1>7, <1>8, <1>9, OutputSteps

-----------------------------------------------------------------------------
(* The rotation *)

LEMMA RotationInit == ASSUME Init PROVE InRotation
<1>1. Len(queue) = 0 /\ queue = <<>> /\ outHead = 0 /\ phase = "priming" /\ audio = "idle"
  BY DEF Init
<1>2. 0 % OutBuffers = 0
  BY OutputAssumption, ModSmall
<1>3. queue = [i \in 1 .. Len(queue) |-> i - 1]
  BY <1>1
<1> QED BY <1>1, <1>2, <1>3, OutputAssumption DEF InRotation

\* A started player's queue, entry by entry.
LEMMA QueueIsInBuffers ==
    ASSUME OutTypeOK, NEW i \in 1 .. Len(queue)
    PROVE  queue[i] \in Buffers
BY DEF OutTypeOK

LEMMA RotationPrime ==
    ASSUME OutTypeOK, InRotation, Prime PROVE InRotation'
<1>1. /\ phase = "priming" /\ phase' = "priming" /\ audio' = audio
      /\ Len(queue) < OutBuffers /\ queue' = Append(queue, outHead)
      /\ outHead' = Rotated(outHead)
  BY DEF Prime
<1>2. /\ queue = [i \in 1 .. Len(queue) |-> i - 1] /\ audio = "idle"
      /\ outHead = Len(queue) % OutBuffers
  BY <1>1 DEF InRotation
<1>3. outHead = Len(queue) /\ Len(queue) \in 0 .. OutBuffers - 1
  <2>1. Len(queue) \in 0 .. OutBuffers - 1
    BY <1>1, OutputAssumption DEF OutTypeOK
  <2>2. outHead = Len(queue) % OutBuffers
    BY <1>2
  <2> QED BY <2>1, <2>2, ModSmall, OutputAssumption
<1>4. /\ queue' \in Seq(Int) /\ Len(queue') = Len(queue) + 1
      /\ \A i \in 1 .. Len(queue') : queue'[i] = i - 1
  <2>1. \A i \in 1 .. Len(queue) : queue[i] = i - 1
    BY <1>2
  <2>2. queue \in Seq(Int) /\ outHead \in Int /\ Len(queue) \in Nat
    BY OutputAssumption DEF OutTypeOK, Buffers
  <2>3. /\ queue' \in Seq(Int) /\ Len(queue') = Len(queue) + 1
        /\ \A i \in 1 .. Len(queue) : queue'[i] = queue[i]
        /\ queue'[Len(queue) + 1] = outHead
    BY <1>1, <2>2
  <2>4. \A i \in 1 .. Len(queue') : i \in 1 .. Len(queue) \/ i = Len(queue) + 1
    BY <2>2, <2>3
  <2>5. queue'[Len(queue) + 1] = (Len(queue) + 1) - 1
    BY <1>3, <2>2, <2>3
  <2> QED BY <2>1, <2>3, <2>4, <2>5
<1>5. queue' = [i \in 1 .. Len(queue') |-> i - 1]
  BY <1>4
<1>6. outHead' = Len(queue') % OutBuffers
  BY <1>1, <1>3, <1>4 DEF Rotated
<1> QED BY <1>1, <1>2, <1>3, <1>4, <1>5, <1>6, OutputAssumption DEF InRotation

LEMMA RotationPublish ==
    ASSUME OutTypeOK, InRotation, Publish PROVE InRotation'
<1>1. /\ phase = "priming" /\ phase' = "started" /\ audio' = audio /\ queue' = queue
      /\ Len(queue) = OutBuffers /\ outHead' = outHead
  BY DEF Publish
<1>2. /\ queue = [i \in 1 .. Len(queue) |-> i - 1] /\ audio = "idle"
      /\ outHead = Len(queue) % OutBuffers
  BY <1>1 DEF InRotation
<1>3. outHead = 0
  BY <1>1, <1>2, ModOver, OutputAssumption
<1>4. \A i \in 1 .. Len(queue) : queue[i] = i - 1 /\ queue[i] \in Buffers
  <2>1. \A i \in 1 .. Len(queue) : queue[i] = i - 1
    BY <1>2
  <2> QED BY <2>1, QueueIsInBuffers
<1>5. \A i \in 1 .. Len(queue) : Around(queue[i], 0) = i - 1
  <2> TAKE i \in 1 .. Len(queue)
  <2>1. /\ queue[i] \in Buffers /\ 0 \in Buffers /\ queue[i] = i - 1
        /\ queue[i] >= 0
    BY <1>4, OutputAssumption DEF Buffers
  <2>2. Around(queue[i], 0) = queue[i] - 0
    BY <2>1, AroundIs
  <2> QED BY <2>1, <2>2 DEF Buffers
<1>6. \A i, j \in 1 .. Len(queue') : i < j => Offset(queue[i])' < Offset(queue[j])'
  BY <1>1, <1>3, <1>5 DEF Offset
<1> QED BY <1>1, <1>2, <1>6 DEF InRotation, InHand

LEMMA RotationComplete ==
    ASSUME OutTypeOK, InRotation, Complete PROVE InRotation'
<1>1. /\ phase = "started" /\ phase' = "started" /\ audio = "idle" /\ audio' = "called"
      /\ queue # <<>> /\ queue' = Tail(queue) /\ outHead' = outHead
  BY DEF Complete
<1>2. /\ Len(queue') = Len(queue) - 1 /\ Len(queue) >= 1
      /\ \A i \in 1 .. Len(queue') : queue'[i] = queue[i + 1]
  BY <1>1 DEF OutTypeOK
<1>3. \A i, j \in 1 .. Len(queue) : i < j => Offset(queue[i]) < Offset(queue[j])
  BY <1>1 DEF InRotation
<1>4. \A i \in 1 .. Len(queue) : Offset(queue[i]) \in 0 .. OutBuffers - 1
  BY QueueIsInBuffers, AroundMoves DEF OutTypeOK, Offset
<1>6. \A i, j \in 1 .. Len(queue') : i < j => Offset(queue'[i]) < Offset(queue'[j])
  <2> TAKE i, j \in 1 .. Len(queue')
  <2>1. i + 1 \in 1 .. Len(queue) /\ j + 1 \in 1 .. Len(queue) /\ (i < j => i + 1 < j + 1)
    BY <1>2, SMTT(30) DEF OutTypeOK
  <2>2. i + 1 < j + 1 => Offset(queue[i + 1]) < Offset(queue[j + 1])
    BY <1>3, <2>1
  <2>3. queue'[i] = queue[i + 1] /\ queue'[j] = queue[j + 1]
    BY <1>2
  <2> QED BY <2>1, <2>2, <2>3
<1>7. \A i \in 1 .. Len(queue') : Offset(queue'[i]) > 0
  <2> TAKE i \in 1 .. Len(queue')
  <2>1. i + 1 \in 1 .. Len(queue) /\ 1 \in 1 .. Len(queue) /\ 1 < i + 1
    BY <1>2 DEF OutTypeOK
  <2>2. Offset(queue[1]) < Offset(queue[i + 1]) /\ Offset(queue[1]) >= 0
    BY <1>3, <1>4, <2>1
  <2>3. Offset(queue[1]) \in Int /\ Offset(queue[i + 1]) \in Int
    BY <1>4, <2>1, OutputAssumption
  <2> QED BY <1>2, <2>2, <2>3
<1>8. /\ \A i, j \in 1 .. Len(queue') : i < j => Offset(queue[i])' < Offset(queue[j])'
      /\ \A i \in 1 .. Len(queue') : Offset(queue[i])' > 0
  BY <1>1, <1>6, <1>7 DEF Offset
<1> QED BY <1>1, <1>8 DEF InRotation, InHand

LEMMA RotationRefill ==
    ASSUME OutTypeOK, InRotation, RefillOldest PROVE InRotation'
<1>1. /\ audio = "called" /\ audio' = "push" /\ phase' = phase /\ queue' = queue
      /\ outHead' = Rotated(outHead) /\ buf' = outHead /\ outHead \in Buffers
  BY DEF RefillOldest, OutTypeOK
<1>2. phase = "started"
  BY <1>1 DEF InRotation, OutTypeOK
<1>3. /\ \A i, j \in 1 .. Len(queue) : i < j => Offset(queue[i]) < Offset(queue[j])
      /\ \A i \in 1 .. Len(queue) : Offset(queue[i]) > 0
  BY <1>1, <1>2 DEF InRotation
<1>4. \A i \in 1 .. Len(queue) : /\ Offset(queue[i]) \in 1 .. OutBuffers - 1
                                 /\ Offset(queue[i])' = Offset(queue[i]) - 1
  <2> TAKE i \in 1 .. Len(queue)
  <2>1. queue[i] \in Buffers
    BY QueueIsInBuffers
  <2>2. Offset(queue[i]) \in 0 .. OutBuffers - 1 /\ Offset(queue[i]) > 0
    BY <1>1, <1>3, <2>1, AroundMoves DEF Offset
  <2>3. queue[i] # outHead
    BY <1>1, <2>1, <2>2, AroundMoves DEF Offset
  <2> QED BY <1>1, <2>1, <2>2, <2>3, AroundMoves, OutputAssumption DEF Offset
<1>5. Offset(buf)' = OutBuffers - 1
  BY <1>1, AroundMoves DEF Offset
<1>6. /\ \A i, j \in 1 .. Len(queue') : i < j => Offset(queue[i])' < Offset(queue[j])'
      /\ \A i \in 1 .. Len(queue') : Offset(queue[i])' < OutBuffers - 1
  BY <1>1, <1>3, <1>4, OutputAssumption
<1> QED BY <1>1, <1>2, <1>5, <1>6 DEF InRotation, InHand

LEMMA RotationEnqueue ==
    ASSUME OutTypeOK, InRotation, EnqueueBuffer PROVE InRotation'
<1>1. /\ audio = "enqueue" /\ audio' = "idle" /\ phase' = phase
      /\ outHead' = outHead /\ buf' = buf
      /\ queue' = queue \/ queue' = Append(queue, buf)
  BY DEF EnqueueBuffer
<1>2. phase = "started" /\ InHand
  BY <1>1 DEF InRotation, OutTypeOK, InHand
<1>3. /\ \A i, j \in 1 .. Len(queue) : i < j => Offset(queue[i]) < Offset(queue[j])
      /\ \A i \in 1 .. Len(queue) : Offset(queue[i]) < OutBuffers - 1
      /\ Offset(buf) = OutBuffers - 1
  BY <1>2 DEF InRotation
<1>4. CASE queue' = queue
  <2>1. \A i, j \in 1 .. Len(queue') : i < j => Offset(queue[i])' < Offset(queue[j])'
    BY <1>1, <1>3, <1>4 DEF Offset
  <2> QED BY <1>1, <1>2, <2>1 DEF InRotation, InHand
<1>5. CASE queue' = Append(queue, buf)
  <2>1. /\ Len(queue') = Len(queue) + 1 /\ Len(queue) \in Nat
        /\ \A i \in 1 .. Len(queue) : queue'[i] = queue[i]
        /\ queue'[Len(queue) + 1] = buf
    BY <1>5 DEF OutTypeOK
  <2>2. \A i, j \in 1 .. Len(queue') : i < j => Offset(queue'[i]) < Offset(queue'[j])
    <3> SUFFICES ASSUME NEW i \in 1 .. Len(queue'), NEW j \in 1 .. Len(queue'), i < j
                 PROVE  Offset(queue'[i]) < Offset(queue'[j])
      OBVIOUS
    <3>1. i \in 1 .. Len(queue)
      BY <2>1
    <3>2. CASE j \in 1 .. Len(queue)
      BY <1>3, <2>1, <3>1, <3>2
    <3>3. CASE j = Len(queue) + 1
      BY <1>3, <2>1, <3>1, <3>3
    <3> QED BY <2>1, <3>2, <3>3
  <2>3. \A i, j \in 1 .. Len(queue') : i < j => Offset(queue[i])' < Offset(queue[j])'
    BY <1>1, <2>2 DEF Offset
  <2> QED BY <1>1, <1>2, <2>3 DEF InRotation, InHand
<1> QED BY <1>1, <1>4, <1>5

LEMMA RotationNext ==
    ASSUME OutTypeOK, InRotation, [Next]_vars PROVE InRotation'
<1>1. CASE Prime BY <1>1, RotationPrime
<1>2. CASE PrimingFails
  <2>1. phase' = "failed" /\ queue' = <<>> /\ audio' = "idle"
    BY <1>2 DEF PrimingFails, InRotation
  <2> QED BY <2>1 DEF InRotation
<1>3. CASE Publish BY <1>3, RotationPublish
<1>4. CASE Complete BY <1>4, RotationComplete
<1>5. CASE RefillOldest BY <1>5, RotationRefill
<1>6. CASE PushBuffer
  <2>1. /\ audio = "push" /\ audio' = "enqueue"
        /\ phase' = phase /\ queue' = queue /\ outHead' = outHead /\ buf' = buf
    BY <1>6 DEF PushBuffer
  <2>2. phase = "started" /\ phase' = "started" /\ InHand /\ InHand'
    BY <2>1 DEF InRotation, InHand, OutTypeOK
  <2> QED BY <2>1, <2>2 DEF InRotation, Offset
<1>7. CASE EnqueueBuffer BY <1>7, RotationEnqueue
<1>8. CASE UNCHANGED outVars
  BY <1>8 DEF outVars, InRotation, InHand, Offset
<1>9. CASE Stop
  <2>1. phase' = "closed" /\ queue' = <<>> /\ audio' = "idle"
    BY <1>9 DEF Stop
  <2> QED BY <2>1 DEF InRotation
<1> QED
  BY <1>1, <1>2, <1>3, <1>4, <1>5, <1>6, <1>7, <1>8, <1>9, OutputSteps

-----------------------------------------------------------------------------
(* A queued buffer is never refilled *)

LEMMA RotationSuffices == ASSUME OutTypeOK, InRotation PROVE NeverRefillQueued
<1>1. CASE phase = "priming"
  <2>1. audio = "idle" /\ queue = [i \in 1 .. Len(queue) |-> i - 1]
    BY <1>1 DEF InRotation
  <2>2. \A i \in 1 .. Len(queue) : queue[i] = i - 1
    BY <2>1
  <2>3. \A i, j \in 1 .. Len(queue) : i # j => queue[i] # queue[j]
    BY <2>2
  <2> QED BY <1>1, <2>1, <2>3 DEF NeverRefillQueued, InHand
<1>2. CASE phase = "started"
  <2>1. /\ \A i, j \in 1 .. Len(queue) : i < j => Offset(queue[i]) < Offset(queue[j])
        /\ audio = "called" => \A i \in 1 .. Len(queue) : Offset(queue[i]) > 0
        /\ InHand => Offset(buf) = OutBuffers - 1
        /\ InHand => \A i \in 1 .. Len(queue) : Offset(queue[i]) < OutBuffers - 1
    BY <1>2 DEF InRotation
  <2>2. \A i \in 1 .. Len(queue) : Offset(queue[i]) \in 0 .. OutBuffers - 1
    BY QueueIsInBuffers, AroundMoves DEF OutTypeOK, Offset
  <2>3. \A i, j \in 1 .. Len(queue) : i # j => queue[i] # queue[j]
    <3> TAKE i, j \in 1 .. Len(queue)
    <3>1. Offset(queue[i]) \in Int /\ Offset(queue[j]) \in Int
      BY <2>2, OutputAssumption
    <3>2. i # j => i < j \/ j < i
      OBVIOUS
    <3>3. i < j => Offset(queue[i]) < Offset(queue[j])
      BY <2>1
    <3>4. j < i => Offset(queue[j]) < Offset(queue[i])
      BY <2>1
    <3> QED BY <3>1, <3>2, <3>3, <3>4
  <2>4. InHand => \A i \in 1 .. Len(queue) : queue[i] # buf
    <3> SUFFICES ASSUME InHand, NEW i \in 1 .. Len(queue) PROVE queue[i] # buf
      OBVIOUS
    <3>1. Offset(queue[i]) < OutBuffers - 1 /\ Offset(queue[i]) \in Int /\ Offset(buf) = OutBuffers - 1
      BY <2>1, <2>2, OutputAssumption
    <3> QED BY <3>1, OutputAssumption
  <2>5. audio = "called" => \A i \in 1 .. Len(queue) : queue[i] # outHead
    <3> SUFFICES ASSUME audio = "called", NEW i \in 1 .. Len(queue) PROVE queue[i] # outHead
      OBVIOUS
    <3>1. Offset(queue[i]) > 0
      BY <2>1
    <3>2. outHead \in Buffers /\ Offset(outHead) = 0
      BY AroundMoves DEF OutTypeOK, Offset
    <3> QED BY <3>1, <3>2
  <2> QED BY <2>3, <2>4, <2>5 DEF NeverRefillQueued
<1>3. CASE phase \in {"closed", "failed"}
  <2>1. queue = <<>> /\ audio = "idle"
    BY <1>3 DEF InRotation
  <2> QED BY <2>1 DEF NeverRefillQueued, InHand
<1> QED BY <1>1, <1>2, <1>3 DEF OutTypeOK

\* The completion callback, which trusts its own rotation of the output
\* buffers, never writes into or offers a buffer the real player still holds,
\* whatever the number of buffers and however many the player has refused.
THEOREM RotationIsSafe == Spec => []NeverRefillQueued
<1>1. Init => OutTypeOK /\ InRotation
  BY OutTypeInit, RotationInit
<1>2. OutTypeOK /\ InRotation /\ [Next]_vars => (OutTypeOK /\ InRotation)'
  BY OutTypeNext, RotationNext
<1>3. OutTypeOK /\ InRotation => NeverRefillQueued
  BY RotationSuffices
<1> QED BY <1>1, <1>2, <1>3, PTL DEF Spec

-----------------------------------------------------------------------------
(* Output is played in the order it was produced *)

LEMMA FillInit == ASSUME Init PROVE FillInv
BY DEF Init, FillInv, PlayedInOrder, InHand

\* Steps that leave the buffers, the queue and the counts alone.
LEMMA FillUnmoved ==
    ASSUME FillInv, OutTypeOK,
           UNCHANGED <<out, queue, fills, played, lost, buf>>,
           phase' # "priming" \/ phase = "priming",
           phase' = "started" => phase \in {"priming", "started"},
           InHand' <=> InHand
    PROVE  FillInv'
<1>1. PlayedInOrder'
  BY DEF FillInv, PlayedInOrder, OutTypeOK
<1> QED BY <1>1 DEF FillInv

LEMMA FillPrime == ASSUME FillInv, OutTypeOK, InRotation, Prime PROVE FillInv'
<1>1. /\ phase = "priming" /\ phase' = "priming" /\ fills' = 0 /\ played' = 0 /\ audio' = audio
      /\ out' = [b \in Buffers |-> 0] /\ out' = out /\ queue' = Append(queue, outHead)
      /\ buf' = buf /\ fills = 0 /\ played = 0
  BY DEF Prime, FillInv
<1>2. audio = "idle"
  BY <1>1 DEF InRotation
<1>3. queue' \in Seq(Buffers)
  BY <1>1 DEF OutTypeOK
<1>4. \A i \in 1 .. Len(queue') : out'[queue'[i]] = 0
  BY <1>1, <1>3
<1>5. PlayedInOrder'
  BY <1>1, <1>4 DEF PlayedInOrder
<1> QED BY <1>1, <1>2, <1>5 DEF FillInv, InHand

LEMMA Beyond ==
    ASSUME NEW a \in Int, NEW b \in Int, NEW c \in Int, NEW f \in Int, c >= a, c >= b,
           NEW n \in Int, c < n, n <= f
    PROVE  n \in (a + 1) .. f /\ n # b
OBVIOUS

\* And back.
LEMMA Between ==
    ASSUME NEW a \in Int, NEW f \in Int, NEW n \in (a + 1) .. f
    PROVE  n \in Int /\ a < n /\ n <= f
OBVIOUS

LEMMA FillComplete == ASSUME FillInv, OutTypeOK, InRotation, Complete PROVE FillInv'
<1>1. /\ phase = "started" /\ phase' = "started" /\ audio = "idle" /\ audio' = "called"
      /\ queue # <<>> /\ queue' = Tail(queue)
      /\ played' = Most(played, out[Head(queue)])
      /\ out' = out /\ fills' = fills /\ lost' = lost
  BY DEF Complete
<1>2. /\ Len(queue') = Len(queue) - 1 /\ Len(queue) \in Nat /\ Len(queue) >= 1
      /\ \A i \in 1 .. Len(queue') : queue'[i] = queue[i + 1]
      /\ Head(queue) = queue[1]
  BY <1>1 DEF OutTypeOK
<1>3. /\ \A i \in 1 .. Len(queue) : out[queue[i]] \in 0 .. MaxFills /\ out[queue[i]] <= fills
  BY QueueIsInBuffers DEF OutTypeOK, FillInv
<1>4. /\ \A i, j \in 1 .. Len(queue) :
            i < j /\ out[queue[i]] # 0 => out[queue[i]] < out[queue[j]]
      /\ \A i \in 1 .. Len(queue) : out[queue[i]] # 0 => out[queue[i]] > played
      /\ \A n \in (played + 1) .. fills :
            n \in lost \/ \E i \in 1 .. Len(queue) : out[queue[i]] = n
  BY <1>1 DEF FillInv, PlayedInOrder, InHand
<1>5. /\ played' \in 0 .. MaxFills /\ played' >= played /\ played' >= out[queue[1]]
      /\ played' <= fills /\ (played' = played \/ played' = out[queue[1]])
      /\ (out[queue[1]] # 0 => played' = out[queue[1]]) /\ fills \in Int
  <2>1. out[queue[1]] \in 0 .. MaxFills /\ out[queue[1]] <= fills
    BY <1>2, <1>3
  <2>2. out[queue[1]] # 0 => out[queue[1]] > played
    BY <1>2, <1>4
  <2>3. played \in 0 .. MaxFills /\ played <= fills /\ fills \in Int
    BY OutputAssumption DEF OutTypeOK, FillInv
  <2> QED BY <1>1, <1>2, <2>1, <2>2, <2>3 DEF Most
<1>6. \A i, j \in 1 .. Len(queue') :
          i < j /\ out[queue'[i]] # 0 => out[queue'[i]] < out[queue'[j]]
  <2> TAKE i, j \in 1 .. Len(queue')
  <2>1. i + 1 \in 1 .. Len(queue) /\ j + 1 \in 1 .. Len(queue) /\ (i < j => i + 1 < j + 1)
    BY <1>2
  <2>2. queue'[i] = queue[i + 1] /\ queue'[j] = queue[j + 1]
    BY <1>2
  <2> QED BY <1>4, <2>1, <2>2
<1>7. \A i \in 1 .. Len(queue') : out[queue'[i]] # 0 => out[queue'[i]] > played'
  <2> TAKE i \in 1 .. Len(queue')
  <2>1. 1 \in 1 .. Len(queue) /\ i + 1 \in 1 .. Len(queue) /\ 1 < i + 1 /\ queue'[i] = queue[i + 1]
    BY <1>2
  <2>2. /\ out[queue[1]] # 0 => out[queue[1]] < out[queue[i + 1]]
        /\ out[queue[i + 1]] # 0 => out[queue[i + 1]] > played
    BY <1>4, <2>1
  <2>3. out[queue[1]] = 0 => played' = played
    BY <1>1, <1>2 DEF Most, OutTypeOK
  <2> QED BY <1>5, <2>1, <2>2, <2>3
<1>8. \A n \in (played' + 1) .. fills :
          n \in lost \/ \E i \in 1 .. Len(queue') : out[queue'[i]] = n
  <2> SUFFICES ASSUME NEW n \in (played' + 1) .. fills, n \notin lost
               PROVE  \E i \in 1 .. Len(queue') : out[queue'[i]] = n
    OBVIOUS
  <2>1. n \in (played + 1) .. fills /\ n # out[queue[1]]
    <3>1. played \in Int /\ played' \in Int /\ played' >= played /\ played' >= out[queue[1]]
      BY <1>5, OutputAssumption DEF OutTypeOK
    <3>2. out[queue[1]] \in 0 .. MaxFills /\ fills \in Int
      <4>1. 1 \in 1 .. Len(queue)
        BY <1>2
      <4> QED BY <1>3, <1>5, <4>1
    <3>3. out[queue[1]] \in Int
      <4> DEFINE o == out[queue[1]]
      <4>1. o \in 0 .. MaxFills
        BY <3>2
      <4> HIDE DEF o
      <4>2. o \in Int
        BY <4>1, OutputAssumption
      <4> QED BY <4>2 DEF o
    <3>4. fills \in Int
      BY <3>2
    <3>5. n \in Int /\ played' < n /\ n <= fills
      BY <3>1, <3>4, Between
    <3>6. played \in Int /\ played' \in Int /\ played' >= played /\ played' >= out[queue[1]]
      BY <3>1
    <3> QED BY <3>3, <3>4, <3>5, <3>6, Beyond
  <2>2. PICK j \in 1 .. Len(queue) : out[queue[j]] = n
    BY <1>4, <2>1
  <2>3. j # 1 /\ j - 1 \in 1 .. Len(queue')
    BY <1>2, <2>1, <2>2
  <2>4. queue'[j - 1] = queue[j]
    BY <1>2, <2>3
  <2> QED BY <2>2, <2>3, <2>4
<1>9. PlayedInOrder'
  BY <1>1, <1>6, <1>7, <1>8 DEF PlayedInOrder
<1> QED BY <1>1, <1>5, <1>9 DEF FillInv, InHand

LEMMA FillRefill == ASSUME FillInv, OutTypeOK, InRotation, RefillOldest PROVE FillInv'
<1>1. /\ audio = "called" /\ audio' = "push" /\ phase' = phase /\ queue' = queue
      /\ buf' = outHead /\ outHead \in Buffers /\ fills' = fills + 1
      /\ out' = [out EXCEPT ![outHead] = fills + 1] /\ played' = played /\ lost' = lost
  BY DEF RefillOldest, OutTypeOK
<1>2. phase = "started"
  BY <1>1 DEF InRotation, OutTypeOK
<1>3. \A i \in 1 .. Len(queue) : queue[i] \in Buffers /\ queue[i] # outHead
  BY <1>1, <1>2, RotationSuffices, QueueIsInBuffers DEF NeverRefillQueued
<1>4. \A i \in 1 .. Len(queue) : out'[queue[i]] = out[queue[i]]
  BY <1>1, <1>3 DEF OutTypeOK
<1>5. out'[outHead] = fills + 1
  BY <1>1 DEF OutTypeOK
<1>6. played \in Int /\ fills \in Int /\ played <= fills /\ \A b \in Buffers : out[b] \in Int /\ out[b] <= fills
  BY OutputAssumption DEF OutTypeOK, FillInv
<1>7. /\ \A i, j \in 1 .. Len(queue) :
            i < j /\ out[queue[i]] # 0 => out[queue[i]] < out[queue[j]]
      /\ \A i \in 1 .. Len(queue) : out[queue[i]] # 0 => out[queue[i]] > played
      /\ \A n \in (played + 1) .. fills :
            n \in lost \/ \E i \in 1 .. Len(queue) : out[queue[i]] = n
  BY <1>1, <1>2 DEF FillInv, PlayedInOrder, InHand
<1>8. \A n \in (played' + 1) .. fills' :
          \/ n \in lost'
          \/ \E i \in 1 .. Len(queue') : out'[queue'[i]] = n
          \/ out'[buf'] = n
  <2> TAKE n \in (played' + 1) .. fills'
  <2>1. n = fills + 1 \/ n \in (played + 1) .. fills
    BY <1>1, <1>6
  <2>2. CASE n = fills + 1
    BY <1>1, <1>5, <2>2
  <2>3. CASE n \in (played + 1) .. fills
    BY <1>1, <1>4, <1>7, <2>3
  <2> QED BY <2>1, <2>2, <2>3
<1>9. PlayedInOrder'
  BY <1>1, <1>4, <1>7, <1>8 DEF PlayedInOrder, InHand
<1>10. \A b \in Buffers : out'[b] <= fills'
  BY <1>1, <1>6 DEF OutTypeOK
<1>11. played' < fills' /\ \A i \in 1 .. Len(queue') : out'[queue'[i]] < fills'
  BY <1>1, <1>3, <1>4, <1>6
<1> QED BY <1>1, <1>2, <1>5, <1>6, <1>9, <1>10, <1>11 DEF FillInv, InHand

LEMMA FillEnqueue == ASSUME FillInv, OutTypeOK, InRotation, EnqueueBuffer PROVE FillInv'
<1>1. /\ audio = "enqueue" /\ audio' = "idle" /\ phase' = phase /\ out' = out
      /\ fills' = fills /\ played' = played /\ buf' = buf
      /\ \/ queue' = Append(queue, buf) /\ lost' = lost
         \/ queue' = queue /\ lost' = lost \cup {out[buf]}
  BY DEF EnqueueBuffer
<1>2. phase = "started" /\ InHand /\ ~InHand'
  BY <1>1 DEF InRotation, OutTypeOK, InHand
<1>3. /\ out[buf] = fills /\ played < fills
      /\ \A i \in 1 .. Len(queue) : out[queue[i]] < fills
  BY <1>2 DEF FillInv
<1>4. /\ \A i, j \in 1 .. Len(queue) :
            i < j /\ out[queue[i]] # 0 => out[queue[i]] < out[queue[j]]
      /\ \A i \in 1 .. Len(queue) : out[queue[i]] # 0 => out[queue[i]] > played
      /\ \A n \in (played + 1) .. fills :
            n \in lost \/ (\E i \in 1 .. Len(queue) : out[queue[i]] = n) \/ out[buf] = n
  BY <1>2 DEF FillInv, PlayedInOrder
<1>5. CASE queue' = queue /\ lost' = lost \cup {out[buf]}
  <2>1. PlayedInOrder'
    BY <1>1, <1>4, <1>5 DEF PlayedInOrder
  <2> QED BY <1>1, <1>2, <2>1 DEF FillInv
<1>6. CASE queue' = Append(queue, buf) /\ lost' = lost
  <2>1. /\ Len(queue') = Len(queue) + 1 /\ Len(queue) \in Nat
        /\ \A i \in 1 .. Len(queue) : queue'[i] = queue[i]
        /\ queue'[Len(queue) + 1] = buf
    BY <1>6 DEF OutTypeOK
  <2>2. \A i \in 1 .. Len(queue') : i \in 1 .. Len(queue) \/ i = Len(queue) + 1
    BY <2>1
  <2>3. \A i, j \in 1 .. Len(queue') :
            i < j /\ out[queue'[i]] # 0 => out[queue'[i]] < out[queue'[j]]
    <3> TAKE i, j \in 1 .. Len(queue')
    <3>1. CASE j \in 1 .. Len(queue)
      <4>1. i < j => i \in 1 .. Len(queue)
        BY <2>1, <3>1
      <4> QED BY <1>4, <2>1, <3>1, <4>1
    <3>2. CASE j = Len(queue) + 1
      <4>1. i < j => i \in 1 .. Len(queue)
        BY <2>1, <3>2
      <4> QED BY <1>3, <2>1, <3>2, <4>1
    <3> QED BY <2>2, <3>1, <3>2
  <2>4. \A i \in 1 .. Len(queue') : out[queue'[i]] # 0 => out[queue'[i]] > played
    BY <1>3, <1>4, <2>1, <2>2
  <2>5. \A n \in (played + 1) .. fills :
            n \in lost \/ \E i \in 1 .. Len(queue') : out[queue'[i]] = n
    <3> SUFFICES ASSUME NEW n \in (played + 1) .. fills, n \notin lost
                 PROVE  \E i \in 1 .. Len(queue') : out[queue'[i]] = n
      OBVIOUS
    <3>1. CASE out[buf] = n
      <4>1. Len(queue) + 1 \in 1 .. Len(queue') /\ out[queue'[Len(queue) + 1]] = n
        BY <2>1, <3>1
      <4> QED BY <4>1
    <3>2. CASE \E i \in 1 .. Len(queue) : out[queue[i]] = n
      <4>1. PICK i \in 1 .. Len(queue) : out[queue[i]] = n
        BY <3>2
      <4>2. i \in 1 .. Len(queue') /\ out[queue'[i]] = n
        BY <2>1, <4>1
      <4> QED BY <4>2
    <3> QED BY <1>4, <3>1, <3>2
  <2>6. PlayedInOrder'
    BY <1>1, <1>6, <2>3, <2>4, <2>5 DEF PlayedInOrder
  <2> QED BY <1>1, <1>2, <2>6 DEF FillInv
<1> QED BY <1>1, <1>5, <1>6

LEMMA FillNext ==
    ASSUME FillInv, OutTypeOK, InRotation, [Next]_vars PROVE FillInv'
<1>1. CASE Prime BY <1>1, FillPrime
<1>2. CASE PrimingFails
  <2>1. /\ phase' = "failed" /\ queue' = <<>> /\ audio' = "idle"
        /\ UNCHANGED <<out, fills, played>>
    BY <1>2 DEF PrimingFails, InRotation
  <2>2. PlayedInOrder'
    BY <2>1 DEF PlayedInOrder
  <2> QED BY <2>1, <2>2 DEF FillInv, InHand
<1>3. CASE Publish
  BY <1>3, FillUnmoved DEF Publish, InHand
<1>4. CASE Complete BY <1>4, FillComplete
<1>5. CASE RefillOldest BY <1>5, FillRefill
<1>6. CASE PushBuffer
  BY <1>6, FillUnmoved DEF PushBuffer, InHand, OutTypeOK
<1>7. CASE EnqueueBuffer BY <1>7, FillEnqueue
<1>8. CASE UNCHANGED outVars
  BY <1>8, FillUnmoved DEF outVars, InHand
<1>9. CASE Stop
  <2>1. /\ phase' = "closed" /\ queue' = <<>> /\ audio' = "idle"
        /\ UNCHANGED <<out, fills, played>>
    BY <1>9 DEF Stop
  <2>2. PlayedInOrder'
    BY <2>1 DEF PlayedInOrder
  <2> QED BY <2>1, <2>2 DEF FillInv, InHand
<1> QED
  BY <1>1, <1>2, <1>3, <1>4, <1>5, <1>6, <1>7, <1>8, <1>9, OutputSteps

\* What fill() produced is played in order, at most once and never overwritten
\* before it is; only a buffer the real player refused can be missing.
THEOREM OutputInOrder == Spec => []PlayedInOrder
<1>1. Init => OutTypeOK /\ InRotation /\ FillInv
  BY OutTypeInit, RotationInit, FillInit
<1>2. OutTypeOK /\ InRotation /\ FillInv /\ [Next]_vars => (OutTypeOK /\ InRotation /\ FillInv)'
  BY OutTypeNext, RotationNext, FillNext
<1>3. FillInv => PlayedInOrder
  BY DEF FillInv
<1> QED BY <1>1, <1>2, <1>3, PTL DEF Spec

-----------------------------------------------------------------------------
(* The dump's history ring *)

LEMMA ModShift ==
    ASSUME NEW K \in Nat \ {0}, NEW x \in 0 .. K - 1, NEW q \in Int
    PROVE  (x + K * q) % K = x
<1> DEFINE y == x + K * q
<1>1. y \in Int
  OBVIOUS
<1>2. y = K * (y \div K) + (y % K) /\ (y % K) \in 0 .. K - 1 /\ (y \div K) \in Int
  BY <1>1, SMT
<1> DEFINE d == y \div K
           r == y % K
<1>3. x - r = K * (d - q) /\ d \in Int /\ r \in 0 .. K - 1
  BY <1>2, SMT
<1> HIDE DEF d, r
<1>4. d - q = 0
  <2>1. CASE d - q >= 1
    <3>1. K * (d - q) >= K
      BY <1>3, <2>1, SMT
    <3> QED BY <1>3, <3>1
  <2>2. CASE d - q <= -1
    <3>1. K * (d - q) <= -K
      BY <1>3, <2>2, SMT
    <3> QED BY <1>3, <3>1
  <2> QED BY <1>3, <2>1, <2>2
<1>5. r = x
  BY <1>3, <1>4, SMT
<1> QED BY <1>5 DEF r, y

\* The slot of a frame that is at most one ring behind the end holds it.
LEMMA LatestIsIt ==
    ASSUME NEW end \in Nat, NEW f \in Nat, f < end, end - HistoryFrames <= f
    PROVE  LatestIn(f % HistoryFrames, end) = f
<1> DEFINE H == HistoryFrames
           q == f \div H
           s == f % H
<1>1. H \in Nat \ {0}
  BY DumpAssumption
<1>2. f = H * q + s /\ s \in 0 .. H - 1 /\ q \in Int
  BY <1>1, SMT
<1>3. end - 1 - f \in 0 .. H - 1
  BY <1>1
<1> HIDE DEF H, q, s
<1>4. end - 1 - s = (end - 1 - f) + H * q
  BY <1>1, <1>2, SMT
<1>5. (end - 1 - s) % H = end - 1 - f
  BY <1>1, <1>2, <1>3, <1>4, ModShift, ZenonT(60)
<1>6. end - 1 - ((end - 1 - s) % H) = f
  BY <1>5
<1> QED BY <1>6 DEF LatestIn, H, s

\* LatestIn is never past the end, nor a ring or more behind it.
LEMMA LatestRange ==
    ASSUME NEW end \in Nat, NEW s \in 0 .. HistoryFrames - 1
    PROVE  LatestIn(s, end) \in Int /\ LatestIn(s, end) < end
<1>1. (end - 1 - s) % HistoryFrames \in 0 .. HistoryFrames - 1
  BY DumpAssumption, SMT
<1> QED BY <1>1, DumpAssumption DEF LatestIn

Frame == Nat \ {0}
FileType == [open : BOOLEAN, frames : Seq(Frame), remaining : 0 .. TailFrames, at : Nat]
PieceType == [frames : Seq(Frame), at : Nat]

\* A file with what is left of its tail, when the output has come to `end'.
Reaches(f, end) ==
    /\ \A i \in 1 .. Len(f.frames) : f.frames[i] = FirstOf(f) + i
    /\ EndOf(f) = end /\ f.remaining > 0
    /\ end + f.remaining = f.at + TailFrames

\* The dumper's own variables, as the two proofs below need them.
DumperOK ==
    /\ DumpTypeOK(Frame)
    /\ HistoryHolds
    /\ file.open => Reaches(file, pushed)

\* The next n frames of the output
NextFrames(n) == [i \in 1 .. n |-> pushed + i]

LEMMA FoldedHolds ==
    ASSUME DumperOK, NEW n \in Nat
    PROVE  /\ Folded(NextFrames(n)) \in [0 .. HistoryFrames - 1 -> (Nat \ {0}) \cup {Silence}]
           /\ \A f \in Most(pushed + n - HistoryFrames, 0) .. (pushed + n - 1) :
                 Folded(NextFrames(n))[f % HistoryFrames] = f + 1
<1>1. /\ NextFrames(n) \in Seq(Nat \ {0}) /\ Len(NextFrames(n)) = n
      /\ \A i \in 1 .. n : NextFrames(n)[i] = pushed + i
      /\ pushed \in Nat /\ slots \in [0 .. HistoryFrames - 1 -> (Nat \ {0}) \cup {Silence}]
  BY DEF DumperOK, DumpTypeOK, NextFrames, Frame
<1>2. \A s \in 0 .. HistoryFrames - 1 :
          /\ LatestIn(s, pushed + n) \in Int /\ LatestIn(s, pushed + n) < pushed + n
          /\ LatestIn(s, pushed + n) >= pushed =>
                NextFrames(n)[LatestIn(s, pushed + n) - pushed + 1] = LatestIn(s, pushed + n) + 1
  <2> TAKE s \in 0 .. HistoryFrames - 1
  <2>1. LatestIn(s, pushed + n) \in Int /\ LatestIn(s, pushed + n) < pushed + n
    BY <1>1, LatestRange
  <2> DEFINE f == LatestIn(s, pushed + n)
  <2> HIDE DEF f
  <2>2. f \in Int /\ f < pushed + n
    BY <2>1 DEF f
  <2>3. ASSUME f >= pushed PROVE NextFrames(n)[f - pushed + 1] = f + 1
    <3>1. f - pushed + 1 \in 1 .. n
      BY <1>1, <2>2, <2>3
    <3>2. NextFrames(n)[f - pushed + 1] = pushed + (f - pushed + 1)
      BY <1>1, <3>1
    <3> QED BY <1>1, <2>2, <3>2
  <2> QED BY <2>1, <2>3 DEF f
<1>3. \A s \in 0 .. HistoryFrames - 1 :
          Folded(NextFrames(n))[s] =
              IF LatestIn(s, pushed + n) >= pushed THEN LatestIn(s, pushed + n) + 1 ELSE slots[s]
  BY <1>1, <1>2 DEF Folded
<1>4. Folded(NextFrames(n)) \in [0 .. HistoryFrames - 1 -> (Nat \ {0}) \cup {Silence}]
  <2>1. \A s \in 0 .. HistoryFrames - 1 : Folded(NextFrames(n))[s] \in (Nat \ {0}) \cup {Silence}
    <3> TAKE s \in 0 .. HistoryFrames - 1
    <3>1. CASE LatestIn(s, pushed + n) >= pushed
      BY <1>1, <1>2, <1>3, <3>1
    <3>2. CASE ~(LatestIn(s, pushed + n) >= pushed)
      BY <1>1, <1>3, <3>2
    <3> QED BY <3>1, <3>2
  <2>2. Folded(NextFrames(n)) = [s \in 0 .. HistoryFrames - 1 |-> Folded(NextFrames(n))[s]]
    BY DEF Folded
  <2> QED BY <2>1, <2>2
<1>5. \A f \in Most(pushed + n - HistoryFrames, 0) .. (pushed + n - 1) :
          Folded(NextFrames(n))[f % HistoryFrames] = f + 1
  <2> TAKE f \in Most(pushed + n - HistoryFrames, 0) .. (pushed + n - 1)
  <2>1. f \in Nat /\ f < pushed + n /\ pushed + n - HistoryFrames <= f
    BY <1>1, DumpAssumption DEF Most
  <2>2. f % HistoryFrames \in 0 .. HistoryFrames - 1
    BY <2>1, DumpAssumption, SMT
  <2>3. LatestIn(f % HistoryFrames, pushed + n) = f
    <3>1. pushed + n \in Nat
      BY <1>1
    <3> DEFINE e == pushed + n
    <3> HIDE DEF e
    <3>2. e \in Nat /\ f \in Nat /\ f < e /\ e - HistoryFrames <= f
      <4>1. pushed \in Nat /\ HistoryFrames \in Nat
        BY <1>1, DumpAssumption
      <4> QED BY <2>1, <3>1, <4>1 DEF e
    <3>3. LatestIn(f % HistoryFrames, e) = f
      BY <3>2, LatestIsIt
    <3> QED BY <3>3 DEF e
  <2>4. CASE f >= pushed
    BY <1>3, <2>2, <2>3, <2>4
  <2>5. CASE f < pushed
    <3>1. f \in Most(pushed - HistoryFrames, 0) .. (pushed - 1)
      BY <1>1, <2>1, <2>5, DumpAssumption DEF Most
    <3>2. slots[f % HistoryFrames] = f + 1
      BY <3>1 DEF DumperOK, HistoryHolds
    <3>3. ~(f >= pushed)
      BY <1>1, <2>1, <2>5
    <3> QED BY <1>3, <2>2, <2>3, <3>2, <3>3
  <2> QED BY <1>1, <2>1, <2>4, <2>5
<1> QED BY <1>4, <1>5

-----------------------------------------------------------------------------
(* The dump's files *)

LEMMA FirstOfNat == ASSUME NEW f, f.at \in Nat PROVE FirstOf(f) \in Nat
BY DumpAssumption DEF FirstOf, Most

LEMMA StartedReaches ==
    ASSUME DumperOK
    PROVE  Started \in FileType /\ Started.open /\ Started.at = pushed /\ Reaches(Started, pushed)
<1> DEFINE start == HistoryStart
           fr == [i \in 1 .. (pushed - start) |-> slots[(start + i - 1) % HistoryFrames]]
<1>1. /\ pushed \in Nat /\ start \in Nat /\ start <= pushed
      /\ start = Most(pushed - HistoryFrames, 0)
  BY DumpAssumption DEF DumperOK, DumpTypeOK, HistoryStart, Most
<1>2. \A i \in 1 .. (pushed - start) : slots[(start + i - 1) % HistoryFrames] = start + i
  <2> TAKE i \in 1 .. (pushed - start)
  <2> HIDE DEF start
  <2>1. start + i - 1 \in Most(pushed - HistoryFrames, 0) .. (pushed - 1)
    <3>1. start + i - 1 \in start .. (pushed - 1)
      BY <1>1
    <3> QED BY <1>1, <3>1
  <2>2. slots[(start + i - 1) % HistoryFrames] = (start + i - 1) + 1
    BY <2>1 DEF DumperOK, HistoryHolds
  <2> QED BY <1>1, <2>2
<1> HIDE DEF start
<1>3. /\ Len(fr) = pushed - start
      /\ \A i \in 1 .. Len(fr) : fr[i] = start + i
  <2>1. pushed - start \in Nat
    BY <1>1
  <2>2. Len(fr) = pushed - start
    BY <2>1
  <2>3. \A i \in 1 .. (pushed - start) : fr[i] = slots[(start + i - 1) % HistoryFrames]
    OBVIOUS
  <2> HIDE DEF fr
  <2> QED BY <1>2, <2>2, <2>3
<1>4. fr \in Seq(Frame)
  <2>1. \A i \in 1 .. (pushed - start) : slots[(start + i - 1) % HistoryFrames] \in Frame
    BY <1>1, <1>2 DEF Frame
  <2> QED BY <1>1, <2>1
<1> HIDE DEF fr
<1>5. Started = [open |-> TRUE, frames |-> fr, remaining |-> TailFrames, at |-> pushed]
  BY DEF Started, fr, start
<1>6. FirstOf(Started) = start
  BY <1>1, <1>5 DEF FirstOf
<1>7. EndOf(Started) = pushed
  BY <1>1, <1>3, <1>5, <1>6 DEF EndOf
<1> QED
  BY <1>1, <1>3, <1>4, <1>5, <1>6, <1>7, DumpAssumption DEF Reaches, FileType

LEMMA ExtendedReaches ==
    ASSUME NEW f \in FileType, f.open, pushed \in Nat, NEW n \in Nat \ {0},
           Reaches(f, pushed)
    PROVE  LET g == Extended(f, NextFrames(n))
           IN  /\ g \in FileType /\ g.open /\ g.at = f.at
               /\ \A i \in 1 .. Len(g.frames) : g.frames[i] = FirstOf(g) + i
               /\ g.remaining = 0 => EndOf(g) = g.at + TailFrames
               /\ g.remaining # 0 => Reaches(g, pushed + n)
<1> DEFINE next == NextFrames(n)
           w == Fewest(f.remaining, Len(next))
           g == Extended(f, next)
<1>1. next \in Seq(Frame) /\ Len(next) = n /\ \A i \in 1 .. n : next[i] = pushed + i
  BY DEF NextFrames, Frame
<1>2. /\ f.frames \in Seq(Frame) /\ f.remaining \in 1 .. TailFrames /\ f.at \in Nat
      /\ FirstOf(f) + Len(f.frames) = pushed /\ FirstOf(f) \in Nat
      /\ \A i \in 1 .. Len(f.frames) : f.frames[i] = FirstOf(f) + i
      /\ pushed + f.remaining = f.at + TailFrames
  BY FirstOfNat DEF FileType, Reaches, EndOf
<1>3. w \in 0 .. n /\ w <= f.remaining /\ (w = n \/ w = f.remaining)
  BY <1>1, <1>2 DEF Fewest
<1>4. g = [f EXCEPT !.frames = f.frames \o SubSeq(next, 1, w), !.remaining = f.remaining - w]
  BY DEF Extended
<1> HIDE DEF next, w, g
<1>5. /\ SubSeq(next, 1, w) \in Seq(Frame) /\ Len(SubSeq(next, 1, w)) = w
      /\ \A i \in 1 .. w : SubSeq(next, 1, w)[i] = next[i]
  BY <1>1, <1>3
<1>6. /\ g.frames = f.frames \o SubSeq(next, 1, w) /\ g.remaining = f.remaining - w
      /\ g.at = f.at /\ g.open = f.open
  BY <1>4 DEF FileType
<1>7. g \in FileType
  <2>1. f.frames \o SubSeq(next, 1, w) \in Seq(Frame)
    BY <1>2, <1>5
  <2>2. f.remaining - w \in 0 .. TailFrames
    BY <1>2, <1>3, DumpAssumption, SMTT(30)
  <2> QED BY <1>4, <2>1, <2>2 DEF FileType
<1>8. Len(g.frames) = Len(f.frames) + w /\ Len(f.frames) \in Nat
  BY <1>2, <1>5, <1>6
<1>9. FirstOf(g) = FirstOf(f)
  BY <1>6 DEF FirstOf
<1>10. \A i \in 1 .. Len(g.frames) : g.frames[i] = FirstOf(g) + i
  <2> TAKE i \in 1 .. Len(g.frames)
  <2>1. CASE i <= Len(f.frames)
    <3>1. i \in 1 .. Len(f.frames) /\ g.frames[i] = f.frames[i]
      BY <1>2, <1>5, <1>6, <1>8, <2>1
    <3> QED BY <1>2, <1>9, <3>1
  <2>2. CASE i > Len(f.frames)
    <3>1. i - Len(f.frames) \in 1 .. w /\ i - Len(f.frames) \in 1 .. n
      BY <1>3, <1>8, <2>2
    <3>2. g.frames[i] = SubSeq(next, 1, w)[i - Len(f.frames)]
      BY <1>2, <1>5, <1>6, <1>8, <2>2, SMTT(30)
    <3>3. g.frames[i] = pushed + (i - Len(f.frames))
      BY <1>1, <1>5, <3>1, <3>2
    <3> QED BY <1>2, <1>8, <1>9, <3>3
  <2> QED BY <1>8, <2>1, <2>2
<1>11. EndOf(g) = pushed + w
  <2>1. /\ FirstOf(f) \in Int /\ Len(f.frames) \in Int /\ w \in Int
        /\ FirstOf(f) + Len(f.frames) = pushed
    BY <1>2, <1>3, <1>8
  <2> QED BY <1>8, <1>9, <2>1 DEF EndOf
<1>12. g.remaining = 0 => EndOf(g) = g.at + TailFrames
  <2>1. /\ f.remaining \in Int /\ w \in Int /\ f.at \in Int
        /\ pushed + f.remaining = f.at + TailFrames
    BY <1>2, <1>3, DumpAssumption
  <2> QED BY <1>6, <1>11, <2>1, DumpAssumption
<1>13. g.remaining # 0 => Reaches(g, pushed + n)
  <2> SUFFICES ASSUME g.remaining # 0 PROVE Reaches(g, pushed + n)
    OBVIOUS
  <2>1. w = n
    BY <1>2, <1>3, <1>6
  <2>2. g.remaining > 0 /\ pushed + n + g.remaining = g.at + TailFrames
    BY <1>2, <1>3, <1>6, <2>1, DumpAssumption, SMTT(30)
  <2> QED BY <1>10, <1>11, <2>1, <2>2 DEF Reaches
<1> QED BY <1>6, <1>7, <1>10, <1>12, <1>13 DEF g, next

\* A file on disk: one piece of the output, complete or cut short at a start.
PieceOK(f, starts) ==
    /\ \A i \in 1 .. Len(f.frames) : f.frames[i] = FirstOf(f) + i
    /\ EndOf(f) = f.at + TailFrames \/ EndOf(f) \in starts

DiskOK == \A i \in 1 .. Len(disk) : PieceOK(disk[i], Starts)

LEMMA StartsAre ==
    ASSUME NEW s \in Nat
    PROVE  /\ s \in Starts <=>
              \/ \E i \in 1 .. Len(disk) : disk[i].at = s
              \/ file.open /\ file.at = s
              \/ s \in refused
           /\ s \in Starts' <=>
              \/ \E i \in 1 .. Len(disk') : disk'[i].at = s
              \/ file'.open /\ file'.at = s
              \/ s \in refused'
<1>1. (\E f \in Files : f.at = s)
      <=> (\E i \in 1 .. Len(disk) : disk[i].at = s) \/ (file.open /\ file.at = s)
  <2>1. \A f : f \in Files <=>
             \/ \E i \in 1 .. Len(disk) : f = disk[i]
             \/ file.open /\ f = [frames |-> file.frames, at |-> file.at]
    BY DEF Files
  <2> DEFINE r == [frames |-> file.frames, at |-> file.at]
  <2>2. r.at = file.at
    OBVIOUS
  <2>3. \A f : f \in Files <=> (\E i \in 1 .. Len(disk) : f = disk[i]) \/ (file.open /\ f = r)
    BY <2>1
  <2> HIDE DEF r
  <2> QED BY <2>2, <2>3, Zenon
<1>2. (\E f \in Files' : f.at = s)
      <=> (\E i \in 1 .. Len(disk') : disk'[i].at = s) \/ (file'.open /\ file'.at = s)
  <2>1. \A f : f \in Files' <=>
             \/ \E i \in 1 .. Len(disk') : f = disk'[i]
             \/ file'.open /\ f = [frames |-> file'.frames, at |-> file'.at]
    BY DEF Files
  <2> DEFINE r == [frames |-> file'.frames, at |-> file'.at]
  <2>2. r.at = file'.at
    OBVIOUS
  <2>3. \A f : f \in Files' <=> (\E i \in 1 .. Len(disk') : f = disk'[i]) \/ (file'.open /\ f = r)
    BY <2>1
  <2> HIDE DEF r
  <2> QED BY <2>2, <2>3, Zenon
<1>3. s \in Starts <=> s \in refused \/ \E f \in Files : f.at = s
  BY DEF Starts
<1>4. s \in Starts' <=> s \in refused' \/ \E f \in Files' : f.at = s
  BY DEF Starts
<1> QED BY <1>1, <1>2, <1>3, <1>4

LEMMA PushIntoHolds ==
    ASSUME DumperOK, NEW n \in Nat \ {0}, NEW b \in FileType, b.open => Reaches(b, pushed),
           NEW before \in Seq(PieceType), PushInto(b, before, NextFrames(n))
    PROVE  /\ enabled' = enabled /\ triggered' = FALSE /\ pushed' = pushed + n
           /\ slots' \in [0 .. HistoryFrames - 1 -> Frame \cup {Silence}]
           /\ HistoryHolds'
           /\ file' \in FileType /\ (file'.open => Reaches(file', pushed'))
           /\ disk' \in Seq(PieceType)
           /\ \A i \in 1 .. Len(before) : i \in 1 .. Len(disk') /\ disk'[i] = before[i]
           /\ \A i \in 1 .. Len(disk') : i \in 1 .. Len(before) \/ PieceOK(disk'[i], {})
           /\ b.open => (\E i \in 1 .. Len(disk') : disk'[i].at = b.at) \/ (file'.open /\ file'.at = b.at)
<1> DEFINE now == IF b.open THEN Extended(b, NextFrames(n)) ELSE NoFile
           done == now.open /\ now.remaining = 0
           piece == [frames |-> now.frames, at |-> now.at]
<1>1. /\ slots' = Folded(NextFrames(n)) /\ pushed' = pushed + Len(NextFrames(n))
      /\ file' = (IF done THEN NoFile ELSE now)
      /\ disk' = (IF done THEN Append(before, piece) ELSE before)
      /\ enabled' = enabled /\ triggered' = FALSE
  BY DEF PushInto
<1>2. pushed \in Nat /\ Len(NextFrames(n)) = n
  BY DEF DumperOK, DumpTypeOK, NextFrames
<1>3. pushed' = pushed + n
  BY <1>1, <1>2
<1>4. /\ slots' \in [0 .. HistoryFrames - 1 -> Frame \cup {Silence}]
      /\ HistoryHolds'
  <2>1. /\ Folded(NextFrames(n)) \in [0 .. HistoryFrames - 1 -> (Nat \ {0}) \cup {Silence}]
        /\ \A f \in Most(pushed + n - HistoryFrames, 0) .. (pushed + n - 1) :
              Folded(NextFrames(n))[f % HistoryFrames] = f + 1
    BY FoldedHolds
  <2>2. slots' = Folded(NextFrames(n))
    BY <1>1
  <2>3. slots' \in [0 .. HistoryFrames - 1 -> Frame \cup {Silence}]
    BY <2>1, <2>2 DEF Frame
  <2>4. \A f \in Most(pushed' - HistoryFrames, 0) .. (pushed' - 1) :
            slots'[f % HistoryFrames] = f + 1
    <3> TAKE f \in Most(pushed' - HistoryFrames, 0) .. (pushed' - 1)
    <3>1. f \in Most(pushed + n - HistoryFrames, 0) .. (pushed + n - 1)
      BY <1>2, <1>3, DumpAssumption DEF Most
    <3>2. Folded(NextFrames(n))[f % HistoryFrames] = f + 1
      BY <2>1, <3>1, Zenon
    <3> QED BY <2>2, <3>2, Zenon
  <2> QED BY <2>3, <2>4 DEF HistoryHolds
<1>5. NoFile \in FileType /\ ~NoFile.open
  BY DumpAssumption DEF NoFile, FileType
<1>6. CASE b.open
  <2>1. /\ now \in FileType /\ now.open /\ now.at = b.at
        /\ \A i \in 1 .. Len(now.frames) : now.frames[i] = FirstOf(now) + i
        /\ now.remaining = 0 => EndOf(now) = now.at + TailFrames
        /\ now.remaining # 0 => Reaches(now, pushed + n)
    BY <1>2, <1>6, ExtendedReaches
  <2>2. piece \in PieceType /\ piece.at = b.at
    BY <2>1 DEF FileType, PieceType
  <2> HIDE DEF now
  <2>3. CASE done
    <3>1. file' = NoFile /\ disk' = Append(before, piece)
      BY <1>1, <2>3
    <3>2. PieceOK(piece, {})
      BY <2>1, <2>3 DEF PieceOK, FirstOf, EndOf
    <3> HIDE DEF piece
    <3>3. /\ disk' \in Seq(PieceType) /\ Len(disk') = Len(before) + 1 /\ Len(before) \in Nat
          /\ \A i \in 1 .. Len(before) : disk'[i] = before[i]
          /\ disk'[Len(before) + 1] = piece
      BY <2>2, <3>1
    <3>4. \A i \in 1 .. Len(disk') : i \in 1 .. Len(before) \/ i = Len(before) + 1
      BY <3>3
    <3>5. Len(before) + 1 \in 1 .. Len(disk')
      BY <3>3
    <3> QED BY <1>1, <1>3, <1>4, <1>5, <2>2, <3>1, <3>2, <3>3, <3>4, <3>5
  <2>4. CASE ~done
    <3>1. file' = now /\ disk' = before /\ now.remaining # 0
      BY <1>1, <2>1, <2>4
    <3> QED BY <1>1, <1>3, <1>4, <2>1, <3>1
  <2> QED BY <2>3, <2>4
<1>7. CASE ~b.open
  <2>1. now = NoFile /\ ~done
    BY <1>5, <1>7
  <2>2. file' = NoFile /\ disk' = before
    BY <1>1, <2>1
  <2> QED BY <1>1, <1>3, <1>4, <1>5, <1>7, <2>2
<1> QED BY <1>6, <1>7

LEMMA PieceOKMore ==
    ASSUME NEW f, NEW s, NEW t, PieceOK(f, s), s \subseteq t PROVE PieceOK(f, t)
BY DEF PieceOK

\* The pieces Closed leaves: those on disk, and the file that ends here.
LEMMA ClosedHolds ==
    ASSUME DumperOK, DiskOK
    PROVE  /\ Closed(file) \in Seq(PieceType)
           /\ \A i \in 1 .. Len(disk) : i \in 1 .. Len(Closed(file)) /\ Closed(file)[i] = disk[i]
           /\ \A i \in 1 .. Len(Closed(file)) : PieceOK(Closed(file)[i], Starts \cup {pushed})
           /\ \A i \in 1 .. Len(Closed(file)) :
                 PieceOK(Closed(file)[i], Starts) \/ (file.open /\ i = Len(Closed(file)))
           /\ file.open => \E i \in 1 .. Len(Closed(file)) : Closed(file)[i].at = file.at
<1>1. disk \in Seq(PieceType) /\ file \in FileType
  BY DEF DumperOK, DumpTypeOK, PieceType, FileType
<1>2. \A i \in 1 .. Len(disk) : PieceOK(disk[i], Starts) /\ PieceOK(disk[i], Starts \cup {pushed})
  BY PieceOKMore DEF DiskOK
<1>3. CASE ~file.open
  BY <1>1, <1>2, <1>3 DEF Closed
<1>4. CASE file.open
  <2> DEFINE piece == [frames |-> file.frames, at |-> file.at]
  <2>1. Closed(file) = Append(disk, piece)
    BY <1>4 DEF Closed
  <2>2. piece \in PieceType /\ piece.at = file.at
    BY <1>1 DEF FileType, PieceType
  <2>3. PieceOK(piece, Starts \cup {pushed})
    BY <1>4 DEF DumperOK, Reaches, PieceOK, FirstOf, EndOf
  <2> HIDE DEF piece
  <2>4. /\ Closed(file) \in Seq(PieceType) /\ Len(Closed(file)) = Len(disk) + 1 /\ Len(disk) \in Nat
        /\ \A i \in 1 .. Len(disk) : Closed(file)[i] = disk[i]
        /\ Closed(file)[Len(disk) + 1] = piece
    BY <1>1, <2>1, <2>2
  <2>5. \A i \in 1 .. Len(Closed(file)) : i \in 1 .. Len(disk) \/ i = Len(disk) + 1
    BY <2>4
  <2>6. /\ \A i \in 1 .. Len(disk) : i \in 1 .. Len(Closed(file))
        /\ Len(disk) + 1 \in 1 .. Len(Closed(file))
    BY <2>4
  <2> QED BY <1>2, <1>4, <2>2, <2>3, <2>4, <2>5, <2>6
<1> QED BY <1>3, <1>4

\* push() of the next frames keeps the dumper's invariants, and a trigger that
\* was up has begun a file here.
LEMMA PushHolds ==
    ASSUME DumperOK, DiskOK, enabled, NEW n \in Nat \ {0}, Push(NextFrames(n))
    PROVE  /\ DumperOK' /\ DiskOK' /\ enabled' = enabled /\ pushed' = pushed + n
           /\ Starts \subseteq Starts'
           /\ triggered => pushed \in Starts'
<1>1. /\ pushed \in Nat /\ file \in FileType /\ (file.open => Reaches(file, pushed))
      /\ disk \in Seq(PieceType) /\ refused \subseteq Nat /\ enabled \in BOOLEAN
  BY DEF DumperOK, DumpTypeOK, FileType, PieceType
<1> DEFINE Result(b, before) ==
        /\ enabled' = enabled /\ triggered' = FALSE /\ pushed' = pushed + n
        /\ slots' \in [0 .. HistoryFrames - 1 -> Frame \cup {Silence}]
        /\ HistoryHolds'
        /\ file' \in FileType /\ (file'.open => Reaches(file', pushed'))
        /\ disk' \in Seq(PieceType)
        /\ \A i \in 1 .. Len(before) : i \in 1 .. Len(disk') /\ disk'[i] = before[i]
        /\ \A i \in 1 .. Len(disk') : i \in 1 .. Len(before) \/ PieceOK(disk'[i], {})
        /\ b.open => (\E i \in 1 .. Len(disk') : disk'[i].at = b.at) \/ (file'.open /\ file'.at = b.at)
<1>2. ASSUME NEW b \in FileType, b.open => Reaches(b, pushed), NEW before \in Seq(PieceType),
             PushInto(b, before, NextFrames(n))
      PROVE  Result(b, before)
  BY <1>2, PushIntoHolds
<1>3. ASSUME NEW b, NEW before, Result(b, before), refused' \subseteq Nat PROVE DumperOK'
  <2>1. /\ enabled' \in BOOLEAN /\ triggered' \in BOOLEAN /\ pushed' \in Nat
        /\ slots' \in [0 .. HistoryFrames - 1 -> Frame \cup {Silence}]
    <3>1. enabled' \in BOOLEAN /\ triggered' \in BOOLEAN
      BY <1>1, <1>3
    <3>2. pushed' = pushed + n
      BY <1>3
    <3>3. pushed' \in Nat
      BY <1>1, <3>2
    <3>4. slots' \in [0 .. HistoryFrames - 1 -> Frame \cup {Silence}]
      BY <1>3
    <3> QED BY <3>1, <3>3, <3>4
  <2>2. file' \in FileType /\ disk' \in Seq(PieceType)
    BY <1>3
  <2>3. DumpTypeOK(Frame)'
    BY <1>3, <2>1, <2>2 DEF DumpTypeOK, FileType, PieceType
  <2> QED BY <1>3, <2>3 DEF DumperOK
<1>4. CASE ~triggered /\ PushInto(file, disk, NextFrames(n)) /\ UNCHANGED refused
  <2>1. Result(file, disk)
    BY <1>1, <1>2, <1>4
  <2>2. DumperOK'
    BY <1>1, <1>3, <1>4, <2>1
  <2>3. \A s : (\E i \in 1 .. Len(disk) : disk[i].at = s) => (\E i \in 1 .. Len(disk') : disk'[i].at = s)
    BY <2>1
  <2>4. Starts \subseteq Starts'
    <3> SUFFICES ASSUME NEW s \in Nat, s \in Starts PROVE s \in Starts'
      BY DEF Starts
    <3>1. s \in Starts' <=>
              \/ \E i \in 1 .. Len(disk') : disk'[i].at = s
              \/ file'.open /\ file'.at = s
              \/ s \in refused'
      BY StartsAre
    <3>2. \/ \E i \in 1 .. Len(disk) : disk[i].at = s
          \/ file.open /\ file.at = s
          \/ s \in refused
      BY StartsAre
    <3> QED BY <1>4, <2>1, <2>3, <3>1, <3>2
  <2>5. DiskOK'
    <3> SUFFICES ASSUME NEW i \in 1 .. Len(disk') PROVE PieceOK(disk'[i], Starts')
      BY DEF DiskOK
    <3>1. CASE i \in 1 .. Len(disk)
      BY <2>1, <2>4, <3>1, PieceOKMore DEF DiskOK
    <3>2. CASE PieceOK(disk'[i], {})
      BY <3>2, PieceOKMore
    <3> QED BY <2>1, <3>1, <3>2
  <2> QED BY <1>4, <2>1, <2>2, <2>4, <2>5
<1>5. ASSUME NEW b \in FileType, Result(b, Closed(file)), refused' \subseteq Nat,
             refused \subseteq refused', (b.open /\ b.at = pushed) \/ pushed \in refused'
      PROVE  DumperOK' /\ DiskOK' /\ Starts \subseteq Starts' /\ pushed \in Starts'
  <2>1. DumperOK'
    BY <1>3, <1>5
  <2>2. pushed \in Starts'
    <3>1. pushed \in Starts' <=>
              \/ \E i \in 1 .. Len(disk') : disk'[i].at = pushed
              \/ file'.open /\ file'.at = pushed
              \/ pushed \in refused'
      BY <1>1, StartsAre
    <3> QED BY <1>5, <3>1
  <2>3. Starts \subseteq Starts'
    <3> SUFFICES ASSUME NEW s \in Nat, s \in Starts PROVE s \in Starts'
      BY DEF Starts
    <3>1. s \in Starts' <=>
              \/ \E i \in 1 .. Len(disk') : disk'[i].at = s
              \/ file'.open /\ file'.at = s
              \/ s \in refused'
      BY StartsAre
    <3>2. \/ \E i \in 1 .. Len(disk) : disk[i].at = s
          \/ file.open /\ file.at = s
          \/ s \in refused
      BY StartsAre
    <3>3. (\E i \in 1 .. Len(Closed(file)) : Closed(file)[i].at = s)
              => (\E i \in 1 .. Len(disk') : disk'[i].at = s)
      BY <1>5
    <3>4. CASE \E i \in 1 .. Len(disk) : disk[i].at = s
      BY <3>1, <3>3, <3>4, ClosedHolds
    <3>5. CASE file.open /\ file.at = s
      BY <3>1, <3>3, <3>5, ClosedHolds
    <3>6. CASE s \in refused
      BY <1>5, <3>1, <3>6
    <3> QED BY <3>2, <3>4, <3>5, <3>6
  <2>4. DiskOK'
    <3> SUFFICES ASSUME NEW i \in 1 .. Len(disk') PROVE PieceOK(disk'[i], Starts')
      BY DEF DiskOK
    <3>1. CASE i \in 1 .. Len(Closed(file))
      <4>1. PieceOK(Closed(file)[i], Starts \cup {pushed})
        BY <3>1, ClosedHolds
      <4>2. Starts \cup {pushed} \subseteq Starts'
        BY <2>2, <2>3
      <4>3. disk'[i] = Closed(file)[i]
        BY <1>5, <3>1
      <4> QED BY <4>1, <4>2, <4>3, PieceOKMore
    <3>2. CASE PieceOK(disk'[i], {})
      BY <3>2, PieceOKMore
    <3> QED BY <1>5, <3>1, <3>2
  <2> QED BY <2>1, <2>2, <2>3, <2>4
<1>6. CASE triggered /\ PushInto(Started, Closed(file), NextFrames(n)) /\ UNCHANGED refused
  <2>1. /\ Started \in FileType /\ Started.open /\ Started.at = pushed /\ Reaches(Started, pushed)
        /\ Closed(file) \in Seq(PieceType)
    BY StartedReaches, ClosedHolds
  <2>2. Result(Started, Closed(file))
    BY <1>2, <1>6, <2>1
  <2>3. DumperOK' /\ DiskOK' /\ Starts \subseteq Starts' /\ pushed \in Starts'
    BY <1>1, <1>5, <1>6, <2>1, <2>2
  <2> QED BY <2>2, <2>3
<1>7. CASE triggered /\ PushInto(NoFile, Closed(file), NextFrames(n)) /\ refused' = refused \cup {pushed}
  <2>1. /\ NoFile \in FileType /\ ~NoFile.open /\ Closed(file) \in Seq(PieceType)
    BY ClosedHolds, DumpAssumption DEF NoFile, FileType
  <2>2. Result(NoFile, Closed(file))
    BY <1>2, <1>7, <2>1
  <2>3. DumperOK' /\ DiskOK' /\ Starts \subseteq Starts' /\ pushed \in Starts'
    BY <1>1, <1>5, <1>7, <2>1, <2>2
  <2> QED BY <2>2, <2>3
<1> QED BY <1>4, <1>6, <1>7 DEF Push

-----------------------------------------------------------------------------
(* The scheduled fade *)

FadeOK ==
    /\ fade \in Fades /\ fadeDumped \in BOOLEAN /\ cuts \in Nat /\ placed \in Nat
    /\ fade \in {"ahead", "start"} => ~fadeDumped
    /\ fade = "stalled" => fadeDumped

LEMMA FadeInit == ASSUME Init PROVE FadeOK
BY DEF Init, FadeOK, Fades

\* fadeDumped_ tells the start that has been seen from the one that has not, so
\* fill() triggers exactly where a fade begins.
LEMMA FadeMovesOnOK ==
    ASSUME FadeOK, NEW next \in MovesOn[fade], FadeMovesOn(next)
    PROVE  /\ FadeOK'
           /\ \/ fades' = fades /\ UNCHANGED dumpVars
              \/ fades' = fades \cup {fills + 1} /\ Trigger
<1>1. next \in Fades
  BY DEF FadeOK, Fades, MovesOn
<1>2. FadeOK'
  <2>1. /\ fade' = next /\ cuts' = cuts /\ placed' = placed
        /\ fadeDumped' = (fadeDumped \/ AtStart(next))
    BY DEF FadeMovesOn
  <2>2. fadeDumped' \in BOOLEAN /\ (fadeDumped' <=> fadeDumped \/ AtStart(next))
    BY <2>1, Zenon DEF FadeOK
  <2>3. next \in {"ahead", "start"} => fade = "ahead" /\ ~AtStart(next)
    BY DEF FadeOK, Fades, MovesOn, AtStart
  <2>4. next = "stalled" => AtStart(next)
    BY DEF FadeOK, Fades, MovesOn, AtStart
  <2>5. fade = "ahead" => ~fadeDumped
    BY DEF FadeOK
  <2>6. /\ fade' \in {"ahead", "start"} => ~fadeDumped'
        /\ fade' = "stalled" => fadeDumped'
    BY <2>1, <2>2, <2>3, <2>4, <2>5, Zenon
  <2> QED BY <1>1, <2>1, <2>2, <2>6, Zenon DEF FadeOK
<1>3. Begins(next) <=> AtStart(next) /\ ~fadeDumped
  BY DEF FadeOK, Begins, AtStart
<1> QED BY <1>2, <1>3 DEF FadeMovesOn

LEMMA FadeNext == ASSUME FadeOK, [Next]_vars PROVE FadeOK'
<1>1. CASE RefillOldest
  BY <1>1, FadeMovesOnOK DEF RefillOldest
<1>2. CASE CutApplied BY <1>2 DEF CutApplied, FadeOK, Fades
<1>3. CASE ScheduleFade
  <2>1. fade' \in {"ahead", "start", "partway"}
    BY <1>3 DEF ScheduleFade, ScheduledAt
  <2>2. fadeDumped' \in BOOLEAN /\ ~fadeDumped'
    BY <1>3, Zenon DEF ScheduleFade
  <2>3. fade' \in Fades /\ fade' # "stalled"
    BY <2>1 DEF Fades
  <2>4. cuts' \in Nat /\ placed' \in Nat
    BY <1>3 DEF ScheduleFade, FadeOK
  <2> QED BY <2>2, <2>3, <2>4 DEF FadeOK
<1>4. CASE Reanchor
  <2>1. fade' \in {"none", "ahead", "start", "partway"}
    BY <1>4 DEF Reanchor
  <2>2. fadeDumped' \in BOOLEAN /\ ~fadeDumped'
    BY <1>4, Zenon DEF Reanchor
  <2>3. fade' \in Fades /\ fade' # "stalled"
    BY <2>1 DEF Fades
  <2>4. cuts' \in Nat /\ placed' \in Nat
    BY <1>4 DEF Reanchor, FadeOK
  <2> QED BY <2>2, <2>3, <2>4 DEF FadeOK
<1>5. CASE Overflow BY <1>5 DEF Overflow, FadeOK, Fades
<1>6. CASE UNCHANGED fadeVars BY <1>6 DEF fadeVars, FadeOK
<1>7. CASE Prime \/ PrimingFails \/ Publish \/ Complete
  BY <1>6, <1>7 DEF Prime, PrimingFails, Publish, Complete
<1>8. CASE PushBuffer \/ EnqueueBuffer \/ Stop
  BY <1>6, <1>8 DEF PushBuffer, EnqueueBuffer, Stop
<1>9. CASE UNCHANGED vars
  BY <1>6, <1>9 DEF vars
<1> QED
  BY <1>1, <1>2, <1>3, <1>4, <1>5, <1>7, <1>8, <1>9 DEF Next

-----------------------------------------------------------------------------
(* The dump as part of the output side *)

DumpAll ==
    /\ DumperOK
    /\ phase # "closed" => DiskOK
    /\ DumpHolds /\ FadeStartsDumped
    /\ phase = "priming" => ~file.open
    /\ enabled => pushed = PushedFills * BufferFrames
    /\ fades \subseteq 1 .. fills
    /\ lost \subseteq 1 .. MaxFills
    /\ enabled /\ audio = "push" /\ fills \in fades => triggered

LEMMA PiecesHold == DumperOK /\ DiskOK => DumpHolds
<1> SUFFICES ASSUME DumperOK, DiskOK PROVE DumpHolds
  OBVIOUS
<1>1. \A f \in Files : \A i \in 1 .. Len(f.frames) : f.frames[i] = FirstOf(f) + i
  <2> TAKE f \in Files
  <2>1. CASE \E i \in 1 .. Len(disk) : f = disk[i]
    BY <2>1 DEF DiskOK, PieceOK
  <2>2. CASE file.open /\ f = [frames |-> file.frames, at |-> file.at]
    BY <2>2 DEF DumperOK, Reaches, FirstOf
  <2>3. \/ \E i \in 1 .. Len(disk) : f = disk[i]
        \/ file.open /\ f = [frames |-> file.frames, at |-> file.at]
    BY DEF Files
  <2> QED BY <2>1, <2>2, <2>3
<1>2. \A i \in 1 .. Len(disk) : EndOf(disk[i]) = disk[i].at + TailFrames \/ EndOf(disk[i]) \in Starts
  BY DEF DiskOK, PieceOK
<1> QED BY <1>1, <1>2 DEF DumpHolds

LEMMA PiecesHoldNext == DumperOK' /\ DiskOK' => DumpHolds'
BY PiecesHold, PTL

LEMMA DumpAllInit == ASSUME Init PROVE DumpAll
<1>1. /\ enabled \in BOOLEAN /\ triggered = FALSE /\ pushed = 0 /\ file = NoFile /\ disk = <<>>
      /\ refused = {} /\ slots = [s \in 0 .. HistoryFrames - 1 |-> Silence]
      /\ phase = "priming" /\ audio = "idle" /\ fills = 0 /\ lost = {} /\ fades = {}
  BY DEF Init, DumpInit
<1>2. DumpTypeOK(Frame)
  <2>1. NoFile \in [open : BOOLEAN, frames : Seq(Frame), remaining : 0 .. TailFrames, at : Nat]
    BY DumpAssumption DEF NoFile
  <2>2. slots \in [0 .. HistoryFrames - 1 -> Frame \cup {Silence}]
    BY <1>1
  <2>3. <<>> \in Seq([frames : Seq(Frame), at : Nat])
    OBVIOUS
  <2> QED BY <1>1, <2>1, <2>2, <2>3 DEF DumpTypeOK
<1>3. HistoryHolds
  BY <1>1, DumpAssumption DEF HistoryHolds, Most
<1>4. DumperOK
  BY <1>1, <1>2, <1>3 DEF DumperOK, NoFile
<1>5. DiskOK
  BY <1>1 DEF DiskOK
<1>6. pushed = PushedFills * BufferFrames
  BY <1>1, OutputAssumption DEF PushedFills
<1>7. FadeStartsDumped
  BY <1>1 DEF FadeStartsDumped
<1> QED
  BY <1>1, <1>4, <1>5, <1>6, <1>7, PiecesHold, OutputAssumption DEF DumpAll, NoFile

\* A step that leaves the dumper alone, except perhaps for the flag.
LEMMA DumpUnmoved ==
    ASSUME DumpAll, UNCHANGED <<enabled, slots, pushed, file, disk, refused>>,
           triggered' \in BOOLEAN, triggered => triggered'
    PROVE  /\ DumperOK' /\ (DiskOK => DiskOK') /\ Starts' = Starts
           /\ (phase' = phase \/ phase \in {"priming", "started"} => DumpHolds')
           /\ (fades' = fades => FadeStartsDumped')
<1>1. DumpTypeOK(Frame)'
  BY DEF DumpAll, DumperOK, DumpTypeOK
<1>2. HistoryHolds'
  BY DEF DumpAll, DumperOK, HistoryHolds
<1>3. DumperOK'
  BY <1>1, <1>2 DEF DumpAll, DumperOK
<1>4. Starts' = Starts /\ Files' = Files
  BY DEF Starts, Files
<1>5. DiskOK => DiskOK'
  BY <1>4 DEF DiskOK
<1>6. phase' = phase => DumpHolds'
  BY <1>4 DEF DumpAll, DumpHolds
<1>7. phase \in {"priming", "started"} => DumpHolds'
  BY <1>4 DEF DumpAll, DumpHolds
<1>8. fades' = fades => FadeStartsDumped'
  BY <1>4 DEF DumpAll, FadeStartsDumped
<1> QED BY <1>3, <1>4, <1>5, <1>6, <1>7, <1>8

LEMMA DumpAllPush ==
    ASSUME OutTypeOK, InRotation, FillInv, DumpAll, PushBuffer PROVE DumpAll'
<1>1. /\ audio = "push" /\ audio' = "enqueue" /\ Push(FramesOf(buf))
      /\ UNCHANGED <<phase, out, fills, lost, fades>>
  BY DEF PushBuffer, fadeVars
<1>2. phase = "started" /\ InHand /\ out[buf] = fills
  BY <1>1 DEF InRotation, OutTypeOK, InHand, FillInv
<1>3. fills \in Nat /\ BufferFrames \in Nat \ {0}
  BY OutputAssumption DEF OutTypeOK
<1>4. CASE ~enabled
  <2>1. UNCHANGED dumpVars
    BY <1>1, <1>4 DEF Push
  <2>2. triggered \in BOOLEAN
    BY DEF DumpAll, DumperOK, DumpTypeOK
  <2>3. /\ DumperOK' /\ DiskOK' /\ DumpHolds' /\ FadeStartsDumped'
    BY <1>1, <1>2, <2>1, <2>2, DumpUnmoved DEF dumpVars, DumpAll
  <2>4. ~enabled' /\ phase' = "started" /\ fades' \subseteq 1 .. fills' /\ lost' \subseteq 1 .. MaxFills
    BY <1>1, <1>2, <1>4, <2>1 DEF DumpAll, dumpVars
  <2> QED BY <2>3, <2>4 DEF DumpAll
<1>5. CASE enabled
  <2>1. pushed = (fills - 1) * BufferFrames
    BY <1>1, <1>5 DEF DumpAll, PushedFills
  <2>2. FramesOf(buf) = NextFrames(BufferFrames)
    BY <1>2, <2>1 DEF FramesOf, NextFrames
  <2>3. /\ DumperOK' /\ DiskOK' /\ enabled' = enabled /\ pushed' = pushed + BufferFrames
        /\ Starts \subseteq Starts'
        /\ triggered => pushed \in Starts'
    BY <1>1, <1>2, <1>3, <1>5, <2>2, PushHolds DEF DumpAll
  <2>4. pushed' = fills * BufferFrames
    BY <1>3, <2>1, <2>3, SMT
  <2>5. FadeStartsDumped'
    <3> SUFFICES ASSUME NEW k \in fades, pushed' >= k * BufferFrames
                 PROVE  (k - 1) * BufferFrames \in Starts'
      BY <1>1 DEF FadeStartsDumped
    <3>1. k \in Nat /\ k <= fills
      BY <1>3 DEF DumpAll
    <3>2. CASE k = fills
      BY <1>1, <1>5, <2>1, <2>3, <3>2 DEF DumpAll
    <3>3. CASE k < fills
      <4>1. k * BufferFrames <= (fills - 1) * BufferFrames
        BY <1>3, <3>1, <3>3, SMT
      <4>2. pushed >= k * BufferFrames
        BY <1>3, <2>1, <3>1, <4>1, SMT
      <4> QED BY <1>5, <2>3, <4>2 DEF DumpAll, FadeStartsDumped
    <3> QED BY <1>3, <3>1, <3>2, <3>3
  <2>6. DumpHolds'
    BY <2>3, PiecesHoldNext
  <2> QED BY <1>1, <1>2, <1>5, <2>3, <2>4, <2>5, <2>6 DEF DumpAll, PushedFills
<1> QED BY <1>4, <1>5

\* A step in which no frames are pushed and no file is closed.
LEMMA DumpAllSame ==
    ASSUME DumpAll, UNCHANGED <<enabled, slots, pushed, file, disk, refused, fills, fades>>,
           triggered' \in BOOLEAN, triggered => triggered',
           phase' = phase \/ (phase = "priming" /\ phase' = "started"),
           PushedFills' = PushedFills, audio' = "push" => audio = "push",
           lost' \subseteq 1 .. MaxFills
    PROVE  DumpAll'
<1>1. /\ DumperOK' /\ (DiskOK => DiskOK') /\ FadeStartsDumped' /\ DumpHolds'
  BY DumpUnmoved
<1>2. phase' # "closed" => phase # "closed"
  OBVIOUS
<1> QED BY <1>1, <1>2 DEF DumpAll

LEMMA OneMore ==
    ASSUME NEW a \in Nat, NEW b \in Nat \ {0}
    PROVE  a * b \in Int /\ (a + 1) * b \in Int /\ a * b < (a + 1) * b
<1>1. (a + 1) * b = a * b + b
  BY SMT
<1>2. a * b \in Int
  OBVIOUS
<1> QED BY <1>1, <1>2

LEMMA DumpAllRefill ==
    ASSUME OutTypeOK, InRotation, FillInv, FadeOK, DumpAll, RefillOldest PROVE DumpAll'
<1>1. /\ audio = "called" /\ audio' = "push" /\ fills' = fills + 1 /\ fills \in Nat
      /\ phase' = phase /\ lost' = lost
  BY OutputAssumption DEF RefillOldest, OutTypeOK
<1>2. phase = "started"
  BY <1>1 DEF InRotation, OutTypeOK
<1>3. /\ UNCHANGED <<enabled, slots, pushed, file, disk, refused>>
      /\ triggered' \in BOOLEAN /\ (triggered => triggered')
      /\ fades' = fades \/ (fades' = fades \cup {fills + 1} /\ triggered' = (triggered \/ enabled))
  <2>1. \/ fades' = fades /\ UNCHANGED dumpVars
        \/ fades' = fades \cup {fills + 1} /\ Trigger
    BY FadeMovesOnOK DEF RefillOldest
  <2> QED BY <2>1 DEF Trigger, dumpVars, DumpAll, DumperOK, DumpTypeOK
<1>4. DumperOK' /\ DiskOK' /\ Starts' = Starts /\ DumpHolds'
  BY <1>2, <1>3, DumpUnmoved DEF DumpAll
<1>5. enabled => pushed' = PushedFills' * BufferFrames
  <2>1. PushedFills = fills /\ PushedFills' = fills
    BY <1>1 DEF PushedFills
  <2> QED BY <1>3, <2>1 DEF DumpAll
<1>6. FadeStartsDumped'
  <2> SUFFICES ASSUME enabled', NEW k \in fades', pushed' >= k * BufferFrames
               PROVE  (k - 1) * BufferFrames \in Starts'
    BY DEF FadeStartsDumped
  <2>1. CASE k \in fades
    BY <1>3, <1>4, <2>1 DEF DumpAll, FadeStartsDumped
  <2>2. CASE k = fills + 1
    <3>1. pushed = fills * BufferFrames
      BY <1>1, <1>3 DEF DumpAll, PushedFills
    <3>2. /\ fills * BufferFrames < (fills + 1) * BufferFrames
          /\ (fills + 1) * BufferFrames \in Int /\ fills * BufferFrames \in Int
      BY <1>1, OutputAssumption, OneMore
    <3>3. pushed >= (fills + 1) * BufferFrames
      BY <1>3, <2>2
    <3> DEFINE x == fills * BufferFrames
               y == (fills + 1) * BufferFrames
    <3> HIDE DEF x, y
    <3>4. x \in Int /\ y \in Int /\ x < y /\ x >= y
      BY <3>1, <3>2, <3>3 DEF x, y
    <3> QED BY <3>4
  <2> QED BY <1>3, <2>1, <2>2
<1>7. fades' \subseteq 1 .. fills' /\ (fills + 1 \notin fades)
  <2>1. fades \subseteq 1 .. fills
    BY DEF DumpAll
  <2>2. fills + 1 \in 1 .. fills' /\ 1 .. fills \subseteq 1 .. fills' /\ fills + 1 \notin 1 .. fills
    BY <1>1
  <2> QED BY <1>3, <2>1, <2>2
<1>8. enabled' /\ fills' \in fades' => triggered'
  BY <1>1, <1>3, <1>7
<1> QED BY <1>1, <1>2, <1>3, <1>4, <1>5, <1>6, <1>7, <1>8 DEF DumpAll

LEMMA DumpAllClose ==
    ASSUME DumpAll, InRotation, OutTypeOK, DumpClose, phase' = "closed", phase = "started", audio = "idle",
           audio' = "idle", UNCHANGED <<fills, fades, lost>>
    PROVE  DumpAll'
<1>1. /\ disk' = Closed(file) /\ file' = NoFile
      /\ UNCHANGED <<enabled, triggered, slots, pushed, refused>>
  BY DEF DumpClose
<1>2. DumperOK /\ DiskOK /\ ~NoFile.open
  BY DEF DumpAll, NoFile
<1>3. NoFile \in FileType /\ file \in FileType /\ disk \in Seq(PieceType)
  BY <1>2, DumpAssumption DEF NoFile, FileType, PieceType, DumperOK, DumpTypeOK
<1>4. DumperOK'
  <2>1. disk' \in Seq(PieceType) /\ file' \in FileType
    BY <1>1, <1>2, <1>3, ClosedHolds
  <2>2. DumpTypeOK(Frame)'
    BY <1>1, <1>2, <2>1 DEF DumperOK, DumpTypeOK, FileType, PieceType
  <2>3. HistoryHolds'
    BY <1>1, <1>2 DEF DumperOK, HistoryHolds
  <2> QED BY <1>1, <1>2, <2>2, <2>3 DEF DumperOK
<1>5. Starts \subseteq Starts'
  <2> SUFFICES ASSUME NEW s \in Nat, s \in Starts PROVE s \in Starts'
    BY DEF Starts
  <2>1. s \in Starts' <=>
              \/ \E i \in 1 .. Len(disk') : disk'[i].at = s
              \/ file'.open /\ file'.at = s
              \/ s \in refused'
    BY StartsAre
  <2>2. \/ \E i \in 1 .. Len(disk) : disk[i].at = s
        \/ file.open /\ file.at = s
        \/ s \in refused
    BY StartsAre
  <2>3. CASE \E i \in 1 .. Len(disk) : disk[i].at = s
    BY <1>1, <1>2, <2>1, <2>3, ClosedHolds
  <2>4. CASE file.open /\ file.at = s
    BY <1>1, <1>2, <2>1, <2>4, ClosedHolds
  <2> QED BY <1>1, <2>1, <2>2, <2>3, <2>4
<1>6. \A i \in 1 .. Len(disk') :
          /\ \A k \in 1 .. Len(disk'[i].frames) : disk'[i].frames[k] = FirstOf(disk'[i]) + k
          /\ \/ EndOf(disk'[i]) = disk'[i].at + TailFrames
             \/ EndOf(disk'[i]) \in Starts'
             \/ i = Len(disk')
  <2> TAKE i \in 1 .. Len(disk')
  <2>1. /\ PieceOK(disk'[i], Starts \cup {pushed})
        /\ PieceOK(disk'[i], Starts) \/ i = Len(disk')
    BY <1>1, <1>2, ClosedHolds
  <2> QED BY <1>5, <2>1 DEF PieceOK
<1>7. DumpHolds'
  <2>1. \A f \in Files' : \E i \in 1 .. Len(disk') : f = disk'[i]
    BY <1>1, <1>2 DEF Files
  <2> QED BY <1>6, <2>1 DEF DumpHolds
<1>8. FadeStartsDumped'
  BY <1>1, <1>5 DEF DumpAll, FadeStartsDumped
<1>9. PushedFills' = PushedFills
  BY DEF PushedFills
<1> QED BY <1>1, <1>4, <1>7, <1>8, <1>9 DEF DumpAll

LEMMA DumpAllNext ==
    ASSUME OutTypeOK, InRotation, FillInv, FadeOK, DumpAll, [Next]_vars PROVE DumpAll'
<1>0. /\ triggered \in BOOLEAN /\ enabled \in BOOLEAN
      /\ lost \subseteq 1 .. MaxFills
  BY DEF DumpAll, DumperOK, DumpTypeOK
<1>1. CASE Prime
  BY <1>0, <1>1, DumpAllSame DEF Prime, fadeVars, dumpVars, PushedFills
<1>2. CASE PrimingFails
  <2>1. /\ phase = "priming" /\ phase' = "failed" /\ disk' = Closed(file) /\ file' = NoFile
        /\ UNCHANGED <<enabled, triggered, slots, pushed, refused, fills, fades, audio, lost>>
    BY <1>2 DEF PrimingFails, fadeVars, DumpClose
  <2>2. ~file.open /\ disk' = disk /\ ~file'.open /\ DiskOK
    BY <2>1 DEF DumpAll, Closed, NoFile
  <2>3. DumpTypeOK(Frame)'
    <3>1. NoFile \in [open : BOOLEAN, frames : Seq(Frame), remaining : 0 .. TailFrames, at : Nat]
      BY DumpAssumption DEF NoFile
    <3> QED BY <2>1, <2>2, <3>1 DEF DumpAll, DumperOK, DumpTypeOK
  <2>4. HistoryHolds'
    BY <2>1 DEF DumpAll, DumperOK, HistoryHolds
  <2>5. DumperOK'
    BY <2>2, <2>3, <2>4 DEF DumperOK
  <2>6. Files' = Files /\ Starts' = Starts
    BY <2>1, <2>2 DEF Files, Starts
  <2>7. DiskOK' /\ FadeStartsDumped'
    BY <2>1, <2>2, <2>6 DEF DiskOK, DumpAll, FadeStartsDumped
  <2>8. DumpHolds'
    BY <2>5, <2>7, PiecesHoldNext
  <2> QED BY <2>1, <2>5, <2>7, <2>8 DEF DumpAll, PushedFills
<1>3. CASE Publish
  BY <1>0, <1>3, DumpAllSame DEF Publish, fadeVars, dumpVars, PushedFills
<1>4. CASE Complete
  BY <1>0, <1>4, DumpAllSame DEF Complete, fadeVars, dumpVars, PushedFills
<1>5. CASE RefillOldest BY <1>5, DumpAllRefill
<1>6. CASE PushBuffer BY <1>6, DumpAllPush
<1>7. CASE EnqueueBuffer
  <2>1. /\ audio = "enqueue" /\ audio' = "idle" /\ UNCHANGED <<phase, fills, fades, dumpVars>>
        /\ lost' = lost \/ lost' = lost \cup {out[buf]}
    BY <1>7 DEF EnqueueBuffer, fadeVars
  <2>2. out[buf] = fills /\ played < fills /\ fills \in 0 .. MaxFills /\ played \in Nat
    BY <2>1, OutputAssumption DEF FillInv, InHand, OutTypeOK
  <2>3. fills \in 1 .. MaxFills
    BY <2>2, OutputAssumption
  <2>4. lost' \subseteq 1 .. MaxFills
    BY <1>0, <2>1, <2>2, <2>3
  <2> QED BY <1>0, <2>1, <2>4, DumpAllSame DEF dumpVars, PushedFills
<1>8. CASE CutApplied
  <2>1. /\ UNCHANGED <<enabled, slots, pushed, file, disk, refused, fills, fades, phase, audio, lost>>
        /\ triggered' \in BOOLEAN /\ (triggered => triggered')
    BY <1>0, <1>8 DEF CutApplied, outVars, Trigger
  <2> QED BY <1>0, <2>1, DumpAllSame DEF PushedFills
<1>9. CASE Stop
  BY <1>9, DumpAllClose DEF Stop, fadeVars
<1>10. CASE ScheduleFade \/ Reanchor \/ Overflow
  <2>1. UNCHANGED <<outVars, fades, dumpVars>>
    BY <1>10 DEF ScheduleFade, Reanchor, Overflow
  <2> QED BY <1>0, <2>1, DumpAllSame DEF outVars, dumpVars, PushedFills
<1>11. CASE UNCHANGED vars
  BY <1>0, <1>11, DumpAllSame DEF vars, outVars, fadeVars, dumpVars, PushedFills
<1> QED
  BY <1>1, <1>2, <1>3, <1>4, <1>5, <1>6, <1>7, <1>8, <1>9, <1>10, <1>11 DEF Next

-----------------------------------------------------------------------------
(* Counting dumps *)

CountInv == OneDumpPerStart /\ IsFiniteSet(refused) /\ IsFiniteSet(fades)

Piece == [frames : Seq(Frame), at : Nat]
One(b) == IF b THEN 1 ELSE 0

CountTypes ==
    /\ triggered \in BOOLEAN /\ file.open \in BOOLEAN
    /\ disk \in Seq(Piece) /\ cuts \in Nat

LEMMA LenAppend ==
    ASSUME NEW S, NEW s \in Seq(S), NEW e
    PROVE  Len(Append(s, e)) = Len(s) + 1
<1>1. s \in Seq(S \cup {e})
  OBVIOUS
<1> QED BY <1>1

LEMMA CountTyped == ASSUME DumpAll, FadeOK PROVE CountTypes
BY DEF DumpAll, DumperOK, DumpTypeOK, FadeOK, CountTypes, Piece

LEMMA CountInit == ASSUME Init PROVE CountInv
<1>1. disk = <<>> /\ refused = {} /\ fades = {} /\ ~file.open /\ ~triggered /\ cuts = 0
  BY DEF Init, DumpInit, NoFile
<1>2. Len(disk) = 0
  BY <1>1
<1> QED BY <1>1, <1>2, FS_EmptySet DEF CountInv, OneDumpPerStart, Dumps, Coming

\* What is compared are numbers.
LEMMA CountNat ==
    ASSUME CountInv, CountTypes
    PROVE  /\ Len(disk) \in Nat /\ Cardinality(refused) \in Nat /\ Cardinality(fades) \in Nat
           /\ cuts \in Nat
           /\ Coming = One(file.open) + One(triggered) /\ Coming \in Nat
           /\ One(file.open) \in Nat /\ One(triggered) \in Nat
           /\ Len(disk) + Cardinality(refused) + Coming <= cuts + Cardinality(fades)
BY FS_CardinalityType DEF CountInv, CountTypes, OneDumpPerStart, Dumps, Coming, One

\* What a step that counts nothing keeps.
LEMMA CountUnmoved ==
    ASSUME CountInv, UNCHANGED <<disk, refused, fades, triggered, cuts>>, file'.open = file.open
    PROVE  CountInv'
BY DEF CountInv, OneDumpPerStart, Dumps, Coming

\* A trigger adds at most one dump to come.
LEMMA CountTrigger ==
    ASSUME CountInv, CountTypes, Trigger, IsFiniteSet(fades'),
           cuts' \in Nat, cuts' + Cardinality(fades') = cuts + Cardinality(fades) + 1
    PROVE  CountInv'
<1>1. disk' = disk /\ refused' = refused /\ file' = file
  BY DEF Trigger
<1>2. Coming' = One(file.open) + One(triggered')
  BY <1>1 DEF Coming, One
<1>3. One(triggered') <= One(triggered) + 1 /\ One(triggered') \in Nat /\ One(file.open) \in Nat
      /\ One(triggered) \in Nat
  BY DEF One
<1>4. Len(disk') + Cardinality(refused') + Coming' <= cuts' + Cardinality(fades')
  BY <1>1, <1>2, <1>3, CountNat
<1> QED BY <1>1, <1>4, SMTT(30) DEF CountInv, OneDumpPerStart, Dumps

\* The file that is closed is one on disk.
LEMMA CountClosed ==
    ASSUME CountTypes
    PROVE  Len(Closed(file)) = Len(disk) + One(file.open)
<1>1. CASE file.open
  BY <1>1, LenAppend DEF CountTypes, Closed, One
<1>2. CASE ~file.open
  BY <1>2 DEF CountTypes, Closed, One
<1> QED BY <1>1, <1>2

\* push() ends with the dumps there were and the one it was told to begin.
LEMMA CountPushInto ==
    ASSUME NEW begun, NEW before, before \in Seq(PieceType), NEW frames, begun.open \in BOOLEAN,
           begun.open => Extended(begun, frames).open,
           PushInto(begun, before, frames)
    PROVE  /\ Len(disk') \in Nat /\ Coming' \in Nat
           /\ Len(disk') + Coming' = Len(before) + One(begun.open)
<1> DEFINE now == IF begun.open THEN Extended(begun, frames) ELSE NoFile
           done == now.open /\ now.remaining = 0
           piece == [frames |-> now.frames, at |-> now.at]
<1>1. /\ triggered' = FALSE
      /\ file' = IF done THEN NoFile ELSE now
      /\ disk' = IF done THEN Append(before, piece) ELSE before
  BY DEF PushInto
<1>2. now.open = begun.open /\ NoFile.open = FALSE
  BY DEF NoFile
<1> HIDE DEF now, piece
<1>4. CASE done
  <2>1. Coming' = 0 /\ begun.open
    BY <1>1, <1>2, <1>4 DEF Coming
  <2>2. Len(disk') = Len(before) + 1
    BY <1>1, <1>4, LenAppend
  <2> QED BY <2>1, <2>2 DEF One
<1>5. CASE ~done
  <2>1. Coming' = One(begun.open) /\ disk' = before
    BY <1>1, <1>2, <1>5 DEF Coming, One
  <2> QED BY <2>1 DEF One
<1> QED BY <1>4, <1>5

LEMMA CountRegrouped ==
    ASSUME NEW l \in Nat, NEW c \in Nat, NEW k \in Nat,
           NEW m \in Nat, NEW d \in Nat, NEW j \in Nat,
           \/ m + j = l + k /\ d = c
           \/ m + j + 1 = l + k /\ d <= c + 1
    PROVE  m + d + j <= l + c + k
OBVIOUS

LEMMA CountPush ==
    ASSUME CountInv, CountTypes, DumperOK, DiskOK, NEW n \in Nat \ {0}, Push(NextFrames(n)),
           UNCHANGED <<fades, cuts>>
    PROVE  CountInv'
<1> DEFINE frames == NextFrames(n)
<1>1. /\ disk \in Seq(PieceType) /\ Closed(file) \in Seq(PieceType)
      /\ file \in FileType /\ (file.open => Reaches(file, pushed)) /\ pushed \in Nat
  BY ClosedHolds DEF DumperOK, DumpTypeOK, PieceType, FileType
<1>2. /\ Started \in FileType /\ Started.open /\ Reaches(Started, pushed)
      /\ NoFile.open = FALSE /\ Started.open \in BOOLEAN /\ NoFile.open \in BOOLEAN
  <2>1. /\ Started \in FileType /\ Started.open /\ Reaches(Started, pushed)
        /\ NoFile.open = FALSE
    BY StartedReaches DEF NoFile, DumperOK, DumpTypeOK
  <2> QED BY <2>1 DEF FileType
<1>3. /\ file.open => Extended(file, frames).open
      /\ Extended(Started, frames).open
  BY <1>1, <1>2, ExtendedReaches
<1> HIDE DEF frames
<1>4. /\ Cardinality(refused') \in Nat /\ Len(disk') \in Nat /\ Coming' \in Nat
      /\ Len(disk') + Cardinality(refused') + Coming' <= Len(disk) + Cardinality(refused) + Coming
      /\ IsFiniteSet(refused')
  <2>1. One(TRUE) = 1 /\ One(FALSE) = 0 /\ IsFiniteSet(refused)
    BY DEF One, CountInv
  <2>2. CASE UNCHANGED dumpVars
    <3>1. Coming' = Coming
      BY <2>2 DEF Coming, dumpVars
    <3> QED BY <2>1, <2>2, <3>1, CountNat DEF dumpVars, One
  <2>3. CASE ~triggered /\ PushInto(file, disk, frames) /\ UNCHANGED refused
    <3>1. /\ Len(disk') \in Nat /\ Coming' \in Nat
          /\ Len(disk') + Coming' = Len(disk) + One(file.open)
      BY <1>1, <1>3, <2>3, CountPushInto DEF CountTypes
    <3>2. One(triggered) = 0 /\ One(file.open) \in Nat
      BY <2>3 DEF One
    <3> QED BY <2>1, <2>3, <3>1, <3>2, CountNat
  <2>4. CASE triggered /\ PushInto(Started, Closed(file), frames) /\ UNCHANGED refused
    <3>1. /\ Len(disk') \in Nat /\ Coming' \in Nat
          /\ Len(disk') + Coming' = Len(Closed(file)) + One(Started.open)
      <4>1. /\ Closed(file) \in Seq(PieceType) /\ Started.open \in BOOLEAN
            /\ Started.open => Extended(Started, frames).open
            /\ PushInto(Started, Closed(file), frames)
        BY <1>1, <1>2, <1>3, <2>4
      <4> QED BY ONLY <4>1, CountPushInto
    <3>2. One(triggered) = 1 /\ One(Started.open) = 1
      BY <1>2, <2>4 DEF One
    <3>3. Len(disk') + Coming' = Len(disk) + Coming
      BY <3>1, <3>2, CountNat, CountClosed, SMTT(30)
    <3>4. Cardinality(refused') = Cardinality(refused) /\ IsFiniteSet(refused')
      BY <2>1, <2>4
    <3>5. Cardinality(refused) \in Nat /\ Len(disk) \in Nat /\ Coming \in Nat
      BY CountNat
    <3> QED BY <3>1, <3>3, <3>4, <3>5, CountRegrouped
  <2>5. CASE triggered /\ PushInto(NoFile, Closed(file), frames) /\ refused' = refused \cup {pushed}
    <3>1. /\ Len(disk') \in Nat /\ Coming' \in Nat
          /\ Len(disk') + Coming' = Len(Closed(file)) + One(NoFile.open)
      BY <1>1, <1>2, <2>5, CountPushInto
    <3>2. One(triggered) = 1 /\ One(NoFile.open) = 0
      BY <1>2, <2>5 DEF One
    <3>3. IsFiniteSet(refused') /\ Cardinality(refused') \in Nat
          /\ Cardinality(refused') <= Cardinality(refused) + 1
      <4>1. /\ IsFiniteSet(refused \cup {pushed})
            /\ \/ Cardinality(refused \cup {pushed}) = Cardinality(refused)
               \/ Cardinality(refused \cup {pushed}) = Cardinality(refused) + 1
        BY <2>1, FS_AddElement
      <4> QED BY <2>5, <4>1, CountNat
    <3>4. Len(disk') + Coming' + 1 = Len(disk) + Coming
      BY <3>1, <3>2, CountNat, CountClosed, SMTT(30)
    <3>5. Cardinality(refused) \in Nat /\ Len(disk) \in Nat /\ Coming \in Nat
      BY CountNat
    <3> QED BY <3>1, <3>3, <3>4, <3>5, CountRegrouped
  <2> QED BY <2>2, <2>3, <2>4, <2>5 DEF Push, frames
<1>5. Dumps' + Coming' <= cuts' + Cardinality(fades')
  <2>1. Len(disk') + Cardinality(refused') + Coming' <= cuts + Cardinality(fades)
    BY <1>4, CountNat
  <2> QED BY <2>1 DEF Dumps
<1> QED BY <1>4, <1>5 DEF CountInv, OneDumpPerStart

LEMMA CountClose ==
    ASSUME CountInv, CountTypes, DumpClose, UNCHANGED <<fades, cuts>>
    PROVE  CountInv'
<1>1. /\ Len(disk') = Len(disk) + One(file.open) /\ Coming' = One(triggered)
      /\ refused' = refused
  BY CountClosed DEF DumpClose, Coming, NoFile, One
<1>2. One(file.open) \in Nat /\ One(triggered) \in Nat
  BY DEF One
<1>3. Len(disk') + Cardinality(refused') + Coming' <= cuts' + Cardinality(fades')
  BY <1>1, <1>2, CountNat
<1> QED BY <1>1, <1>3 DEF CountInv, OneDumpPerStart, Dumps

LEMMA CountNext ==
    ASSUME OutTypeOK, InRotation, FillInv, FadeOK, DumpAll, CountInv, [Next]_vars PROVE CountInv'
<1>0. CountTypes
  BY CountTyped
<1>1. CASE Prime \/ Publish \/ Complete \/ EnqueueBuffer
  BY <1>1, CountUnmoved DEF Prime, Publish, Complete, EnqueueBuffer, fadeVars, dumpVars
<1>2. CASE PrimingFails
  BY <1>0, <1>2, CountClose DEF PrimingFails, fadeVars
<1>3. CASE Stop
  BY <1>0, <1>3, CountClose DEF Stop, fadeVars
<1>4. CASE ScheduleFade \/ Reanchor \/ Overflow
  BY <1>4, CountUnmoved DEF ScheduleFade, Reanchor, Overflow, dumpVars
<1>5. CASE RefillOldest
  <2>1. \/ fades' = fades /\ UNCHANGED dumpVars
        \/ fades' = fades \cup {fills + 1} /\ Trigger
    BY <1>5, FadeMovesOnOK DEF RefillOldest
  <2>2. cuts' = cuts
    BY <1>5 DEF RefillOldest, FadeMovesOn
  <2>3. CASE fades' = fades /\ UNCHANGED dumpVars
    BY <2>2, <2>3, CountUnmoved DEF dumpVars
  <2>4. CASE fades' = fades \cup {fills + 1} /\ Trigger
    <3>1. fills + 1 \notin fades /\ IsFiniteSet(fades)
      BY OutputAssumption DEF DumpAll, CountInv, OutTypeOK
    <3>2. IsFiniteSet(fades') /\ Cardinality(fades') = Cardinality(fades) + 1
      BY <2>4, <3>1, FS_AddElement
    <3>3. cuts' + Cardinality(fades') = cuts + Cardinality(fades) + 1
      BY <1>0, <2>2, <3>2, CountNat
    <3> QED BY <1>0, <2>2, <2>4, <3>2, <3>3, CountTrigger DEF CountTypes
  <2> QED BY <2>1, <2>3, <2>4
<1>6. CASE PushBuffer
  <2>1. /\ audio = "push" /\ Push(FramesOf(buf)) /\ UNCHANGED <<fades, cuts>>
    BY <1>6 DEF PushBuffer, fadeVars
  <2>2. phase = "started" /\ out[buf] = fills
    BY <2>1 DEF InRotation, OutTypeOK, InHand, FillInv
  <2>3. CASE ~enabled
    <3>1. UNCHANGED dumpVars
      BY <2>1, <2>3 DEF Push
    <3> QED BY <2>1, <3>1, CountUnmoved DEF dumpVars
  <2>4. CASE enabled
    <3>1. pushed = (fills - 1) * BufferFrames
      BY <2>1, <2>4 DEF DumpAll, PushedFills
    <3>2. FramesOf(buf) = NextFrames(BufferFrames)
      BY <2>2, <3>1 DEF FramesOf, NextFrames
    <3> QED BY <1>0, <2>1, <2>2, <3>2, CountPush, OutputAssumption DEF DumpAll
  <2> QED BY <2>3, <2>4
<1>7. CASE CutApplied
  <2>1. cuts' = cuts + 1 /\ fades' = fades /\ Trigger
    BY <1>7 DEF CutApplied
  <2>2. cuts' \in Nat /\ cuts' + Cardinality(fades') = cuts + Cardinality(fades) + 1
    BY <1>0, <2>1, CountNat
  <2> QED BY <1>0, <2>1, <2>2, CountTrigger DEF CountInv
<1>8. CASE UNCHANGED vars
  BY <1>8, CountUnmoved DEF vars, fadeVars, dumpVars
<1> QED
  BY <1>1, <1>2, <1>3, <1>4, <1>5, <1>6, <1>7, <1>8 DEF Next

-----------------------------------------------------------------------------
(* The invariant of the output side *)

OutputInv == OutTypeOK /\ InRotation /\ FillInv /\ FadeOK /\ DumpAll /\ CountInv

LEMMA OutputInvariant == Spec => []OutputInv
<1>1. Init => OutputInv
  BY OutTypeInit, RotationInit, FillInit, FadeInit, DumpAllInit, CountInit DEF OutputInv
<1>2. OutputInv /\ [Next]_vars => OutputInv'
  BY OutTypeNext, RotationNext, FillNext, FadeNext, DumpAllNext, CountNext DEF OutputInv
<1> QED BY <1>1, <1>2, PTL DEF Spec

\* Every variable of the output side and of the dumper has its type.
THEOREM OutputTypes == Spec => []TypeOK
<1>1. OutputInv => TypeOK
  BY OutputAssumption DEF OutputInv, DumpAll, DumperOK, OutTypeOK, FadeOK, TypeOK, Frame
<1> QED BY <1>1, OutputInvariant, PTL

\* A dump is an uninterrupted piece of the output around its trigger, and only
\* a later trigger or the end of the pipeline cuts its tail short.
THEOREM DumpsAreWhole == Spec => []DumpHolds
<1>1. OutputInv => DumpHolds
  BY DEF OutputInv, DumpAll
<1> QED BY <1>1, OutputInvariant, PTL

\* Wherever a fade is put, superseded, re-anchored or stalled, the first fill that
\* renders it from its start finds fadeDumped_ down, and the flag it raises under
\* mu_ is read by push() for that very buffer, whatever is applied in between.
THEOREM FadesAreDumped == Spec => []FadeStartsDumped
<1>1. OutputInv => FadeStartsDumped
  BY DEF OutputInv, DumpAll
<1> QED BY <1>1, OutputInvariant, PTL

\* A stalled fade triggers one dump: there are never more of them, made, refused,
\* open or asked for, than cuts and fades that began.
THEOREM DumpsAreCounted == Spec => []OneDumpPerStart
<1>1. OutputInv => OneDumpPerStart
  BY DEF OutputInv, CountInv
<1> QED BY <1>1, OutputInvariant, PTL
=============================================================================
