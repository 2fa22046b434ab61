-------------------------- MODULE PlayerObjectProofs --------------------------
(***************************************************************************)
(* Proofs about PassthroughPipeline and about PlayerObject, which composes *)
(* it with the object around it, for every Depth and Width.  The queue     *)
(* keeps QueueInv; PlayerInv says what the real player is at each step of  *)
(* Realize and Destroy; the queue inside a player object is shown to take  *)
(* the steps of PassthroughPipeline only, so that what is proved of the    *)
(* one holds in the other.                                                 *)
(***************************************************************************)
EXTENDS PlayerObject, TLAPS

-----------------------------------------------------------------------------
(* The queue *)

\* The pipeline starts with nothing queued.
LEMMA QueueInit == Init => QueueInv
<1> SUFFICES ASSUME Init PROVE QueueInv
  OBVIOUS
<1>1. TypeOK
  BY DepthAssumption, WidthAssumption DEF Init, TypeOK
<1>2. InFlight = 0 /\ Entering = 0
  BY DEF Init, InFlight, Entering, EnteringBy, Callers
<1>3. \A c \in Callers : call[c] = "clearing" => history # "none"
  BY DEF Init
<1>4. ExactWithoutClear /\ NoPhantomBuffers
  BY <1>2 DEF Init, ExactWithoutClear, NoPhantomBuffers
<1> QED
  BY <1>1, <1>3, <1>4 DEF QueueInv

\* Every step of enqueue() by either caller keeps the count's relation to what
\* the real player holds.
LEMMA EnqueueKeepsQueueInv ==
    ASSUME QueueInv, NEW c \in Callers,
           EnqueueCount(c) \/ EnqueueBackend(c) \/ EnqueueFailed(c)
    PROVE  QueueInv'
<1> USE DepthAssumption, WidthAssumption DEF QueueInv, TypeOK, Callers, ExactWithoutClear, NoPhantomBuffers,
            InFlight, Entering, EnteringBy
<1>1. CASE EnqueueCount(c)
  BY <1>1 DEF EnqueueCount, MayCall, Raised
<1>2. CASE EnqueueBackend(c)
  BY <1>2 DEF EnqueueBackend
<1>3. CASE EnqueueFailed(c)
  BY <1>3 DEF EnqueueFailed, Lowered
<1> QED
  BY <1>1, <1>2, <1>3

\* So do both steps of clear().
LEMMA ClearKeepsQueueInv ==
    ASSUME QueueInv, NEW c \in Callers, ClearBackend(c) \/ ClearCount(c)
    PROVE  QueueInv'
<1> USE DepthAssumption, WidthAssumption DEF QueueInv, TypeOK, Callers, ExactWithoutClear, NoPhantomBuffers,
            InFlight, Entering, EnteringBy
<1>1. CASE ClearBackend(c)
  BY <1>1 DEF ClearBackend, MayCall
<1>2. CASE ClearCount(c)
  BY <1>2 DEF ClearCount
<1> QED
  BY <1>1, <1>2

\* And a completion, from the player's queue to the return of the callback.
LEMMA CompletionKeepsQueueInv ==
    ASSUME QueueInv, Complete \/ CountDone \/ CallbackReturns
    PROVE  QueueInv'
<1> USE DepthAssumption, WidthAssumption DEF QueueInv, TypeOK, Callers, ExactWithoutClear, NoPhantomBuffers,
            InFlight, Entering, EnteringBy
<1>1. CASE Complete
  BY <1>1 DEF Complete
<1>2. CASE CountDone
  BY <1>2 DEF CountDone
<1>3. CASE CallbackReturns
  BY <1>3 DEF CallbackReturns
<1> QED
  BY <1>1, <1>2, <1>3

\* The count of queued buffers keeps its relation to the player's queue in
\* every interleaving of the eSDK's two sides with completions.
THEOREM QueueInvariance == Spec => []QueueInv
<1>1. Init => QueueInv
  BY QueueInit
<1>2. QueueInv /\ [Next]_vars => QueueInv'
  <2> SUFFICES ASSUME QueueInv, [Next]_vars PROVE QueueInv'
    OBVIOUS
  <2>1. CASE Next
    BY <2>1, EnqueueKeepsQueueInv, ClearKeepsQueueInv, CompletionKeepsQueueInv
       DEF Next
  <2>2. CASE UNCHANGED vars
    BY <2>2 DEF vars, QueueInv, TypeOK, ExactWithoutClear, NoPhantomBuffers,
                InFlight, Entering, EnteringBy
  <2> QED
    BY <2>1, <2>2
<1> QED
  BY <1>1, <1>2, PTL DEF Spec

\* Until the first Clear the count is exact.
THEOREM CountExact == Spec => []ExactWithoutClear
<1>1. QueueInv => ExactWithoutClear
  BY DEF QueueInv
<1> QED
  BY <1>1, QueueInvariance, PTL

\* After it, the count never claims a buffer that is not there, and never wraps.
THEOREM NoPhantoms == Spec => []NoPhantomBuffers
<1>1. QueueInv => NoPhantomBuffers
  BY DEF QueueInv
<1> QED
  BY <1>1, QueueInvariance, PTL

-----------------------------------------------------------------------------
(* The object *)

LEMMA PlayerInitial == PlayerInit => PlayerInv
<1> SUFFICES ASSUME PlayerInit PROVE PlayerInv
  OBVIOUS
<1>1. PlayerTypeOK
  BY DEF PlayerInit, PlayerTypeOK, NoReal, Pipelines
<1>2. at = "idle" /\ object = "unrealized" /\ done = "idle"
  BY DEF PlayerInit, Init
<1> QED
  BY <1>1, <1>2 DEF PlayerInit, PlayerInv, RealizeSteps, NoReal, Shut

\* No step of Realize moves the queue, and each leaves the real player as the
\* next one expects it.
LEMMA RealizeKeepsPlayerInv ==
    ASSUME PlayerInv, RealizeNext, UNCHANGED vars
    PROVE  PlayerInv'
<1> USE DEF PlayerInv, PlayerTypeOK, NoReal, Closed, Pipelines, RealizeSteps, DestroySteps, InUse, Shut, vars
<1>1. CASE Realize
  <2>1. /\ at' = "start" /\ object' = "unrealized" /\ done' = "idle"
        /\ pipeline' \in {"ring", "passthrough"} /\ backend' /\ Shut'
    BY <1>1 DEF Realize, MakePipeline
  <2>2. PlayerTypeOK'
    BY <1>1 DEF Realize, MakePipeline
  <2> QED
    BY <2>1, <2>2
<1>2. CASE StartPipeline
  BY <1>2 DEF StartPipeline
<1>3. CASE OpenLoads
  BY <1>3 DEF OpenLoads
<1>4. CASE OpenCreates
  <2>1. at = "create" /\ Shut /\ UNCHANGED <<object, sixteen, pipeline, second, backend, loaded>>
    BY <1>4 DEF OpenCreates
  <2>2. CASE real' = [real EXCEPT !.made = FALSE, !.target = pipeline] /\ at' = "refused"
    BY <2>1, <2>2
  <2>3. CASE real' = [real EXCEPT !.made = TRUE, !.target = pipeline] /\ at' = "interfaces"
    BY <2>1, <2>3
  <2> QED
    BY <1>4, <2>2, <2>3 DEF OpenCreates
<1>5. CASE OpenFindsInterfaces
  BY <1>5 DEF OpenFindsInterfaces
<1>6. CASE OpenFails
  BY <1>6 DEF OpenFails
<1>7. CASE OpenRegisters
  BY <1>7 DEF OpenRegisters
<1>8. CASE PrimingEnds
  BY <1>8 DEF PrimingEnds
<1>9. CASE PrimingFails
  BY <1>9 DEF PrimingFails
<1>10. CASE FallBack
  BY <1>10 DEF FallBack
<1>11. CASE GiveUp
  BY <1>11 DEF GiveUp
<1>12. CASE Publish
  BY <1>12 DEF Publish
<1> QED
  BY <1>1, <1>2, <1>3, <1>4, <1>5, <1>6, <1>7, <1>8, <1>9, <1>10, <1>11, <1>12
  DEF RealizeNext

\* SetPlayState and Destroy.  Close waits for the completion in flight.
LEMMA CallsKeepPlayerInv ==
    ASSUME PlayerInv, UNCHANGED vars,
           (\E playing \in BOOLEAN : SetPlayState(playing)) \/ Destroy \/ Close \/ Delete
    PROVE  PlayerInv'
<1> USE DEF PlayerInv, PlayerTypeOK, NoReal, Closed, Pipelines, RealizeSteps, DestroySteps, InUse, Shut, vars
<1>1. CASE \E playing \in BOOLEAN : SetPlayState(playing)
  BY <1>1 DEF SetPlayState
<1>2. CASE Destroy
  BY <1>2 DEF Destroy
<1>3. CASE Close
  BY <1>3 DEF Close
<1>4. CASE Delete
  BY <1>4, ZenonT(30) DEF Delete
<1> QED
  BY <1>1, <1>2, <1>3, <1>4

\* A completion starts only on a player in use, and moves nothing else.
LEMMA QueueKeepsPlayerInv ==
    ASSUME PlayerInv, QueueNext
    PROVE  PlayerInv'
<1> USE DEF PlayerInv, PlayerTypeOK, NoReal, Closed, Pipelines, RealizeSteps, DestroySteps, InUse, Shut, objectVars
<1>1. ASSUME NEW c \in Callers, Enqueues(c) \/ Clears(c) PROVE PlayerInv'
  <2>1. UNCHANGED <<done, objectVars>>
    BY <1>1 DEF Enqueues, Clears, EnqueueCount, EnqueueBackend, EnqueueFailed,
                ClearBackend, ClearCount
  <2> QED
    BY <2>1
<1>2. CASE Plays
  BY <1>2 DEF Plays, Complete
<1>3. CASE Counts
  BY <1>3 DEF Counts, CountDone
<1>4. CASE Returns
  BY <1>4 DEF Returns, CallbackReturns
<1> QED
  BY <1>1, <1>2, <1>3, <1>4 DEF QueueNext

\* The real player at every step of Realize and Destroy.
THEOREM PlayerInvariance == PlayerSpec => []PlayerInv
<1>1. PlayerInit => PlayerInv
  BY PlayerInitial
<1>2. PlayerInv /\ [PlayerNext]_playerVars => PlayerInv'
  <2> SUFFICES ASSUME PlayerInv, [PlayerNext]_playerVars PROVE PlayerInv'
    OBVIOUS
  <2>1. CASE ObjectNext /\ UNCHANGED vars
    BY <2>1, RealizeKeepsPlayerInv, CallsKeepPlayerInv DEF ObjectNext
  <2>2. CASE QueueNext
    BY <2>2, QueueKeepsPlayerInv
  <2>3. CASE UNCHANGED playerVars
    BY <2>3 DEF playerVars, objectVars, vars, PlayerInv, PlayerTypeOK, InUse, Shut
  <2> QED
    BY <2>1, <2>2, <2>3 DEF PlayerNext
<1> QED
  BY <1>1, <1>2, PTL DEF PlayerSpec

\* No completion, running or to come, reaches a pipeline that has been deleted
\* or replaced, in Realize's fallback or in Destroy (fake_sl.cpp:127-143,
\* 157-158; ring_pipeline.cpp:94-98).
THEOREM CallbackFindsPipeline == PlayerSpec => []CallbackHasItsPipeline
<1>1. PlayerInv => CallbackHasItsPipeline
  <2> SUFFICES ASSUME PlayerInv PROVE CallbackHasItsPipeline
    OBVIOUS
  <2> USE DEF PlayerInv, Shut, RealizeSteps, DestroySteps, InUse
  <2>1. done # "idle" => pipeline = "passthrough"
    OBVIOUS
  <2>2. at \in {"start", "open", "create", "refused", "delete", "interfaces", "register"}
            => ~real.registered
    <3>1. at = "interfaces" => ~real.registered
      OBVIOUS
    <3>2. at = "register" => ~real.registered
      OBVIOUS
    <3>3. at \in {"start", "open", "create", "refused", "delete"} => ~real.registered
      OBVIOUS
    <3> QED
      BY <3>1, <3>2, <3>3
  <2>3. at \in {"prime", "publish", "close", "idle"} /\ real.registered
            => real.target = pipeline
    OBVIOUS
  <2>4. at \in {"start", "open", "create", "refused", "delete", "interfaces", "register"}
            \cup {"prime", "publish", "close", "idle"}
    BY DEF PlayerTypeOK
  <2> QED
    BY <2>1, <2>2, <2>3, <2>4 DEF CallbackHasItsPipeline
<1> QED
  BY <1>1, PlayerInvariance, PTL

\* Whatever fails, no real player is left without the back end that could close
\* it (fake_sl.cpp:134-139, real_backend.cpp:65-69, ring_pipeline.cpp:93-98).
THEOREM NothingLeaks == PlayerSpec => []NothingLeftOpen
<1>1. PlayerInv => NothingLeftOpen
  BY DEF PlayerInv, PlayerTypeOK, NothingLeftOpen, InUse, Shut, RealizeSteps, DestroySteps
<1> QED
  BY <1>1, PlayerInvariance, PTL

\* A realized object has a real player, with its callback, under whichever
\* pipeline was started (fake_sl.cpp:127-144).
THEOREM RealizedPlays == PlayerSpec => []RealizedCanPlay
<1>1. PlayerInv => RealizedCanPlay
  BY DEF PlayerInv, PlayerTypeOK, RealizedCanPlay, InUse, Shut, RealizeSteps, DestroySteps
<1> QED
  BY <1>1, PlayerInvariance, PTL

\* Inside a player object, through its failures, fallback and Destroy, the
\* queue behaves as PassthroughPipeline says: the composition implements it.
THEOREM ObjectKeepsQueue == PlayerSpec => Spec
<1>1. PlayerInit => Init
  BY DEF PlayerInit
<1>2. [PlayerNext]_playerVars => [Next]_vars
  <2> SUFFICES ASSUME [PlayerNext]_playerVars PROVE [Next]_vars
    OBVIOUS
  <2>1. CASE ObjectNext /\ UNCHANGED vars
    BY <2>1
  <2>2. CASE QueueNext
    BY <2>2 DEF QueueNext, Enqueues, Clears, Plays, Counts, Returns, Next
  <2>3. CASE UNCHANGED playerVars
    BY <2>3 DEF playerVars
  <2> QED
    BY <2>1, <2>2, <2>3 DEF PlayerNext
<1> QED
  BY <1>1, <1>2, PTL DEF PlayerSpec, Spec

\* The passthrough count is exact in a player object until the first Clear
\* (passthrough_pipeline.cpp:12-24, 57-60).
THEOREM ObjectCountExact == PlayerSpec => []ExactWithoutClear
BY ObjectKeepsQueue, CountExact, PTL

\* And it never claims buffers that are not there
\* (passthrough_pipeline.cpp:26-31, 59).
THEOREM ObjectNoPhantoms == PlayerSpec => []NoPhantomBuffers
BY ObjectKeepsQueue, NoPhantoms, PTL
=============================================================================
