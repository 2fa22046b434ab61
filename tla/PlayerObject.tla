----------------------------- MODULE PlayerObject -----------------------------
(***************************************************************************)
(* One player object of the fake engine and the real player it drives:     *)
(* Realize, SetPlayState and Destroy of native/src/fake_sl.cpp,            *)
(* RealBackend::open and close of native/src/real_backend.cpp, and the     *)
(* queue of PassthroughPipeline while that is the object's pipeline.  Any  *)
(* step of open() may be refused; the pipeline then falls back or the      *)
(* object stays unrealized, and Realize may be called again.               *)
(* The eSDK makes its calls on one thread, and none but the buffer queue's *)
(* from inside its callback.  What a ring pipeline does once it is started *)
(* is RingPipeline's, and its teardown step by step is Lifecycle's.        *)
(***************************************************************************)
EXTENDS PassthroughPipeline

VARIABLES
    at,         \* the step Realize or Destroy is about to make, or "idle"
    object,     \* p->state, or that the object has been deleted
    sixteen,    \* p->fmt is 16-bit PCM
    pipeline,   \* p->pipeline: which class it is of
    second,     \* Realize is at its second pipeline
    backend,    \* p->backend # nullptr
    loaded,     \* g_loaded, and whether loadLibrary() has run
    real        \* the back end and its real player: see NoReal

objectVars == <<at, object, sixteen, pipeline, second, backend, loaded, real>>
playerVars == <<vars, objectVars>>

RealizeSteps == {"start", "open", "create", "interfaces", "register", "prime",
                 "publish", "refused"}
DestroySteps == {"close", "delete"}
Pipelines == {"none", "ring", "passthrough"}

PlayerTypeOK ==
    /\ at \in {"idle"} \cup RealizeSteps \cup DestroySteps
    /\ object \in {"unrealized", "realized", "deleted"}
    /\ sixteen \in BOOLEAN /\ second \in BOOLEAN /\ backend \in BOOLEAN
    /\ pipeline \in Pipelines
    /\ loaded \in {"untried", "yes", "no"}
    /\ real \in [made       : BOOLEAN,      \* playerObj_ # nullptr
                 queue      : BOOLEAN,      \* play_ and bq_ # nullptr
                 target     : Pipelines,    \* whose onBackendDone done_ names
                 registered : BOOLEAN,      \* bqCallback is registered
                 playing    : BOOLEAN]      \* external: its play state

NoReal == [made |-> FALSE, queue |-> FALSE, target |-> "none",
           registered |-> FALSE, playing |-> FALSE]

\* RealBackend::close() leaves done_ as it was.
Closed == [NoReal EXCEPT !.target = real.target]

PlayerInit ==
    /\ Init
    /\ at = "idle" /\ object = "unrealized"
    /\ sixteen \in BOOLEAN
    /\ pipeline = "none" /\ second = FALSE /\ backend = FALSE
    /\ loaded = "untried"
    /\ real = NoReal

-----------------------------------------------------------------------------
(* Realize, with no pipeline yet: a call on a realized object does nothing *)

\* The pipeline factory: the ring for 16-bit PCM
MakePipeline == IF sixteen THEN "ring" ELSE "passthrough"

\* When either factory returns null the other's object is deleted, and nothing
\* has changed.
Realize ==
    /\ at = "idle" /\ object = "unrealized"
    /\ backend' = TRUE /\ real' = [real EXCEPT !.target = "none"]
    /\ pipeline' = MakePipeline
    /\ second' = FALSE
    /\ at' = "start"
    /\ UNCHANGED <<object, sixteen, loaded>>

\* A ring pipeline may refuse the format, or find no memory for its ring.
StartPipeline ==
    /\ at = "start"
    /\ at' \in IF pipeline = "ring" THEN {"open", "refused"} ELSE {"open"}
    /\ UNCHANGED <<object, sixteen, pipeline, second, backend, loaded, real>>

\* RealBackend::open(): a player left open is closed; the library is loaded by
\* the first open() of the process and never tried again.
OpenLoads ==
    /\ at = "open"
    /\ real' = Closed
    /\ loaded' \in IF loaded = "untried" THEN {"yes", "no"} ELSE {loaded}
    /\ at' = IF loaded' = "yes" THEN "create" ELSE "refused"
    /\ UNCHANGED <<object, sixteen, pipeline, second, backend>>

\* done_ names the pipeline; CreateAudioPlayer makes the player or refuses.
OpenCreates ==
    /\ at = "create"
    /\ \E made \in BOOLEAN :
          /\ real' = [real EXCEPT !.made = made, !.target = pipeline]
          /\ at' = IF made THEN "interfaces" ELSE "refused"
    /\ UNCHANGED <<object, sixteen, pipeline, second, backend, loaded>>

OpenFindsInterfaces ==
    /\ at = "interfaces"
    /\ real' = [real EXCEPT !.queue = TRUE]
    /\ at' = "register"
    /\ UNCHANGED <<object, sixteen, pipeline, second, backend, loaded>>

\* Mutant of OpenFails: the player is left open.
OpenFailsOpen ==
    /\ at = "interfaces"
    /\ at' = "refused"
    /\ UNCHANGED <<object, sixteen, pipeline, second, backend, loaded, real>>

\* The player cannot be realized, or it has no PLAY or BUFFERQUEUE: close().
OpenFails ==
    /\ at = "interfaces"
    /\ real' = Closed
    /\ at' = "refused"
    /\ UNCHANGED <<object, sixteen, pipeline, second, backend, loaded>>

\* Assumed: RegisterCallback succeeds.  Its result is not looked at, and a
\* player whose callback was refused would be realized and never call back.
OpenRegisters ==
    /\ at = "register"
    /\ real' = [real EXCEPT !.registered = TRUE]
    /\ at' = IF pipeline = "ring" THEN "prime" ELSE "publish"
    /\ UNCHANGED <<object, sixteen, pipeline, second, backend, loaded>>

PrimingEnds ==
    /\ at = "prime"
    /\ at' = "publish"
    /\ UNCHANGED <<object, sixteen, pipeline, second, backend, loaded, real>>

\* Mutant of PrimingFails: the ring gives up without closing.
PrimingFailsOpen ==
    /\ at = "prime"
    /\ at' = "refused"
    /\ UNCHANGED <<object, sixteen, pipeline, second, backend, loaded, real>>

\* A silent buffer is refused, or there is no thread for the ack loop: close().
PrimingFails ==
    /\ at = "prime"
    /\ real' = Closed
    /\ at' = "refused"
    /\ UNCHANGED <<object, sixteen, pipeline, second, backend, loaded>>

\* Mutant of FallBack: the passthrough pipeline is not started.
FallBackUnstarted ==
    /\ at = "refused" /\ ~second
    /\ pipeline' = "passthrough" /\ second' = TRUE
    /\ at' = "publish"
    /\ UNCHANGED <<object, sixteen, backend, loaded, real>>

\* The first pipeline's start() returned false: it is deleted, and a new
\* passthrough pipeline is started on the same back end.
FallBack ==
    /\ at = "refused" /\ ~second
    /\ pipeline' = "passthrough" /\ second' = TRUE
    /\ at' = "start"
    /\ UNCHANGED <<object, sixteen, backend, loaded, real>>

\* Its start() failed too, or there was no memory for it.
GiveUp ==
    /\ at = "refused"
    /\ pipeline' = "none" /\ backend' = FALSE
    /\ at' = "idle"
    /\ UNCHANGED <<object, sixteen, second, loaded, real>>

Publish ==
    /\ at = "publish"
    /\ object' = "realized"
    /\ at' = "idle"
    /\ UNCHANGED <<sixteen, pipeline, second, backend, loaded, real>>

-----------------------------------------------------------------------------
(* SetPlayState and Destroy *)

\* The real player is told through the pipeline, and may refuse.  The state
\* GetPlayState returns is what was set last, and is left out.
SetPlayState(playing) ==
    /\ at = "idle" /\ object = "realized" /\ call["esdk"] = "idle"
    /\ real' = [real EXCEPT !.playing = playing]
    /\ UNCHANGED <<at, object, sixteen, pipeline, second, backend, loaded>>

Destroy ==
    /\ at = "idle" /\ object # "deleted" /\ call["esdk"] = "idle"
    /\ at' = IF pipeline = "none" THEN "delete" ELSE "close"
    /\ UNCHANGED <<object, sixteen, pipeline, second, backend, loaded, real>>

\* Mutant of Close: the player is let go while its callback runs.
CloseAtOnce ==
    /\ at = "close"
    /\ real' = Closed
    /\ at' = "delete"
    /\ UNCHANGED <<object, sixteen, pipeline, second, backend, loaded>>

\* stop() and RealBackend::close().  External: the real player's Destroy waits
\* for the callback in flight.  The queue's state is left as it was.
Close ==
    /\ at = "close" /\ done = "idle"
    /\ real' = Closed
    /\ at' = "delete"
    /\ UNCHANGED <<object, sixteen, pipeline, second, backend, loaded>>

Delete ==
    /\ at = "delete"
    /\ pipeline' = "none" /\ backend' = FALSE
    /\ object' = "deleted"
    /\ at' = "idle"
    /\ UNCHANGED <<sixteen, second, loaded, real>>

-----------------------------------------------------------------------------
(* The buffer queue, while the pipeline is passthrough *)

\* The callback's own calls, and the one call in progress of the eSDK.  A
\* failed object has no pipeline, and its queue calls do nothing.
InQueue(c) == pipeline = "passthrough" /\ (c = "esdk" => at = "idle" /\ object = "realized")

Enqueues(c) ==
    /\ InQueue(c)
    /\ EnqueueCount(c) \/ EnqueueBackend(c) \/ EnqueueFailed(c)
    /\ UNCHANGED objectVars

Clears(c) ==
    /\ InQueue(c)
    /\ ClearBackend(c) \/ ClearCount(c)
    /\ UNCHANGED objectVars

\* External: a registered player that plays completes its buffers, until it is
\* being destroyed.
Plays ==
    /\ at # "close"
    /\ real.registered /\ real.playing /\ real.target = "passthrough"
    /\ Complete
    /\ UNCHANGED objectVars

\* Mutant of Counts: stop() holds mu_ while it waits for the callback.
CountsUnlessStopping == at # "close" /\ CountDone /\ UNCHANGED objectVars

Counts == CountDone /\ UNCHANGED objectVars

Returns == CallbackReturns /\ UNCHANGED objectVars

RealizeNext ==
    \/ Realize \/ StartPipeline
    \/ OpenLoads \/ OpenCreates \/ OpenFindsInterfaces \/ OpenFails \/ OpenRegisters
    \/ PrimingEnds \/ PrimingFails
    \/ FallBack \/ GiveUp \/ Publish

ObjectNext ==
    \/ RealizeNext
    \/ \E playing \in BOOLEAN : SetPlayState(playing)
    \/ Destroy \/ Close \/ Delete

QueueNext ==
    \/ \E c \in Callers : Enqueues(c) \/ Clears(c)
    \/ Plays \/ Counts \/ Returns

PlayerNext ==
    \/ ObjectNext /\ UNCHANGED vars
    \/ QueueNext

PlayerSpec == PlayerInit /\ [][PlayerNext]_playerVars

\* The eSDK's thread, and the real player's, finish the call they are in, and
\* the eSDK's callback returns after any number of calls.  No fairness for the
\* calls the eSDK starts, of itself or in its callback.
FairPlayerSpec ==
    /\ PlayerSpec
    /\ WF_playerVars(Close /\ UNCHANGED vars)
    /\ WF_playerVars(Delete /\ UNCHANGED vars)
    /\ WF_playerVars(Counts)
    /\ SF_playerVars(Returns)
    /\ WF_playerVars(call["callback"] # "idle" /\ (Enqueues("callback") \/ Clears("callback")))

-----------------------------------------------------------------------------
(* Properties *)

\* A completion, running or still to come, calls the object's own pipeline: the
\* one that was started, and never one that has been deleted, while Realize
\* falls back and Destroy stops the player (fake_sl.cpp:127-143, 157-158;
\* real_backend.cpp:67-69, 99-104; ring_pipeline.cpp:94-98).
CallbackHasItsPipeline ==
    /\ real.registered => real.target = pipeline
    /\ done # "idle" => pipeline = "passthrough"

\* A real player never outlives its back end, which does not close it: whatever
\* fails in open() and start(), nothing is left open (fake_sl.cpp:134-139,
\* real_backend.cpp:65-69, ring_pipeline.cpp:93-98).
NothingLeftOpen == real.made => backend

\* An object the eSDK may play to has a real player that takes its buffers and
\* calls back, whichever of the pipelines was started (fake_sl.cpp:127-144);
\* the real player's own refusal of the callback apart (see OpenRegisters).
RealizedCanPlay ==
    object = "realized" /\ at \notin DestroySteps
        => backend /\ real.made /\ real.queue /\ real.registered

\* Inductive: what the real player is at every step of Realize and Destroy.
InUse == real.made /\ real.queue /\ real.registered /\ real.target = pipeline
Shut == ~real.made /\ ~real.queue /\ ~real.registered /\ ~real.playing

PlayerInv ==
    /\ PlayerTypeOK
    /\ at \in RealizeSteps => object = "unrealized" /\ ~real.playing
    /\ at \in RealizeSteps \cup {"close"} => backend /\ pipeline # "none"
    /\ at \in {"start", "open", "create", "refused", "delete"} => Shut
    /\ at \in {"interfaces", "register"} =>
          /\ real.made /\ real.queue = (at = "register") /\ ~real.registered
          /\ real.target = pipeline
    /\ at \in {"prime", "publish", "close"} => InUse
    /\ at = "idle" => IF object = "realized"
                      THEN InUse /\ backend /\ pipeline # "none"
                      ELSE Shut /\ pipeline = "none"
    /\ at = "close" => object = "realized"
    /\ done # "idle" => /\ pipeline = "passthrough" /\ object = "realized"
                       /\ at \in {"idle", "close"}

\* Destroy returns: the callback it waits for never waits for Destroy, whatever
\* it calls on the queue (passthrough_pipeline.cpp:48-64, fake_sl.cpp:155-162).
DestroyReturns == (at = "close") ~> (object = "deleted")
=============================================================================
