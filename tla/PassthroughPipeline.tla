-------------------------- MODULE PassthroughPipeline --------------------------
(***************************************************************************)
(* native/src/passthrough_pipeline.cpp: audio the ring cannot process goes *)
(* straight to the real player; the pipeline keeps only the number of      *)
(* buffers queued, for GetState.  The eSDK calls it from a thread of its   *)
(* own and from inside its buffer callback, while the real player          *)
(* completes buffers; mu_ covers the count but never a call to the back    *)
(* end, so every method is several steps.  completed_, which nothing in    *)
(* the library reads, is left out.                                         *)
(***************************************************************************)
EXTENDS Integers

CONSTANTS
    Depth,    \* buffers the real player holds at most
    Width     \* values of the unsigned count: 2^32 in the code

ASSUME DepthAssumption == Depth \in Nat \ {0}
ASSUME WidthAssumption == Width \in Nat /\ Width > Depth + 3

Callers == {"esdk", "callback"}

VARIABLES
    queued,   \* queued_
    held,     \* external: buffers in the real player's queue
    call,     \* per caller: where its enqueue() or clear() stands
    done,     \* where onBackendDone stands
    history   \* ghost: no Clear yet, a Clear, or a failed enqueue() since one

vars == <<queued, held, call, done, history>>

TypeOK ==
    /\ queued \in 0 .. Width - 1
    /\ held \in 0 .. Depth
    /\ call \in [Callers -> {"idle", "counted", "failed", "clearing"}]
    /\ done \in {"idle", "dispatched", "calling"}
    /\ history \in {"none", "cleared", "spoiled"}

Init ==
    /\ queued = 0 /\ held = 0
    /\ call = [c \in Callers |-> "idle"]
    /\ done = "idle"
    /\ history = "none"

\* External: one call at a time on each side, the callback's while it runs.
MayCall(c) == call[c] = "idle" /\ (c = "callback" => done = "calling")

\* ++queued_ and --queued_ of an unsigned count
Raised == IF queued = Width - 1 THEN 0 ELSE queued + 1
Lowered == IF queued = 0 THEN Width - 1 ELSE queued - 1

-----------------------------------------------------------------------------
(* enqueue(): count, hand over, take the count back if that failed *)

EnqueueCount(c) ==
    /\ MayCall(c)
    /\ queued' = Raised
    /\ call' = [call EXCEPT ![c] = "counted"]
    /\ UNCHANGED <<held, done, history>>

EnqueueBackend(c) ==
    /\ call[c] = "counted"
    /\ \/ held < Depth /\ held' = held + 1 /\ call' = [call EXCEPT ![c] = "idle"]
       \/ UNCHANGED held /\ call' = [call EXCEPT ![c] = "failed"]
    /\ UNCHANGED <<queued, done, history>>

\* Mutant of EnqueueFailed: the count is not taken back.
FailedKeepsCount(c) ==
    /\ call[c] = "failed"
    /\ call' = [call EXCEPT ![c] = "idle"]
    /\ history' = IF history = "none" THEN history ELSE "spoiled"
    /\ UNCHANGED <<queued, held, done>>

EnqueueFailed(c) ==
    /\ call[c] = "failed"
    /\ queued' = Lowered
    /\ call' = [call EXCEPT ![c] = "idle"]
    /\ history' = IF history = "none" THEN history ELSE "spoiled"
    /\ UNCHANGED <<held, done>>

-----------------------------------------------------------------------------
(* clear(): the real player first, then the count *)

ClearBackend(c) ==
    /\ MayCall(c)
    /\ held' = 0
    /\ call' = [call EXCEPT ![c] = "clearing"]
    /\ history' = IF history = "none" THEN "cleared" ELSE history
    /\ UNCHANGED <<queued, done>>

ClearCount(c) ==
    /\ call[c] = "clearing"
    /\ queued' = 0
    /\ call' = [call EXCEPT ![c] = "idle"]
    /\ UNCHANGED <<held, done, history>>

-----------------------------------------------------------------------------
(* onBackendDone, on the real player's thread *)

\* External: a buffer has been played and its callback is on its way.
Complete ==
    /\ done = "idle" /\ held > 0
    /\ held' = held - 1
    /\ done' = "dispatched"
    /\ UNCHANGED <<queued, call, history>>

\* Mutant of CountDone: a completion that a Clear has overtaken is counted.
CountAnyDone ==
    /\ done = "dispatched"
    /\ queued' = Lowered
    /\ done' = "calling"
    /\ UNCHANGED <<held, call, history>>

CountDone ==
    /\ done = "dispatched"
    /\ queued' = IF queued > 0 THEN queued - 1 ELSE queued
    /\ done' = "calling"
    /\ UNCHANGED <<held, call, history>>

CallbackReturns ==
    /\ done = "calling" /\ call["callback"] = "idle"
    /\ done' = "idle"
    /\ UNCHANGED <<queued, held, call, history>>

Next ==
    \/ \E c \in Callers :
          \/ EnqueueCount(c) \/ EnqueueBackend(c) \/ EnqueueFailed(c)
          \/ ClearBackend(c) \/ ClearCount(c)
    \/ Complete \/ CountDone \/ CallbackReturns

Spec == Init /\ [][Next]_vars

-----------------------------------------------------------------------------
(* Properties *)

EnteringBy(c) == IF call[c] \in {"counted", "failed"} THEN 1 ELSE 0
Entering == EnteringBy("esdk") + EnteringBy("callback")
InFlight == IF done = "dispatched" THEN 1 ELSE 0

\* Until the first Clear the count is exact in every interleaving: the buffers
\* the real player holds, the one being completed and those being enqueued
\* (passthrough_pipeline.cpp:12-24, 57-60).
ExactWithoutClear == history = "none" => queued = held + InFlight + Entering

\* After a Clear the count may fall short, as a completion it overtook is taken
\* for a newer buffer's, but it never claims buffers that are not there and
\* never wraps (passthrough_pipeline.cpp:59).  Excluded once an enqueue() has
\* failed after a Clear: its buffer may have been taken off the count already.
NoPhantomBuffers ==
    history # "spoiled" /\ (\A c \in Callers : call[c] # "clearing")
        => queued <= held + InFlight + Entering

\* Inductive: with the type, and the fact that a Clear is remembered.
QueueInv ==
    /\ TypeOK
    /\ \A c \in Callers : call[c] = "clearing" => history # "none"
    /\ ExactWithoutClear
    /\ NoPhantomBuffers
=============================================================================
