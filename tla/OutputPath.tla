------------------------------ MODULE OutputPath ------------------------------
(***************************************************************************)
(* The output side of RingPipeline: start()'s priming, onBackendDone() and *)
(* stop(), with the debug dump.  The real player completes buffers in the  *)
(* order it was given them; the completion takes the oldest output buffer, *)
(* fills it under mu_ (one action here: RingPipeline.tla models fill()),   *)
(* hands it to the dumper and then back to the player without mu_.  Of the *)
(* scheduled fade only where fill() will find it is kept, which decides    *)
(* whether it triggers a dump.                                             *)
(*                                                                         *)
(* A filled buffer holds output frames, numbered from 1 in the order fill()*)
(* produces them; a priming buffer holds silence.                          *)
(***************************************************************************)
EXTENDS PcmDumper, FiniteSets

CONSTANTS
    OutBuffers,     \* kOutBuffers
    BufferFrames,   \* outFrames_
    MaxFills,       \* bound: fills in a behaviour
    MaxBoundaries   \* bound: cuts, fades scheduled and re-anchored

ASSUME OutputAssumption ==
    /\ OutBuffers \in Nat \ {0} /\ BufferFrames \in Nat \ {0}
    /\ MaxFills \in Nat /\ MaxBoundaries \in Nat

Buffers == 0 .. OutBuffers - 1

VARIABLES
    phase,     \* priming, started (backend_ is set), closed, or failed
    out,       \* per output buffer: the fill it holds, 0 for silence
    outHead,   \* outHead_; while priming, the next buffer to enqueue
    queue,     \* external: the real player's queue
    audio,     \* where onBackendDone stands
    buf,       \* the buffer it works on
    fills,     \* fills so far
    played,    \* ghost: the last fill the real player has played
    lost,      \* ghost: fills the real player refused
    fade,      \* the scheduled fade: see Fades
    fadeDumped,\* fadeDumped_
    fades,     \* ghost: the fills in which a fade started
    cuts,      \* ghost: cuts applied so far
    placed     \* bound: fades scheduled and re-anchored so far

outVars == <<phase, out, outHead, queue, audio, buf, fills, played, lost>>
fadeVars == <<fade, fadeDumped, fades, cuts, placed>>
vars == <<outVars, fadeVars, dumpVars>>

\* Where read_ is on the scheduled fade, if there is one: before fadeStart_; on
\* it, not seen by fill() yet or still there after a fill, k0 being 0 either way;
\* or beyond it.
Fades == {"none", "ahead", "start", "stalled", "partway"}

TypeOK ==
    /\ DumpTypeOK(Nat \ {0})
    /\ phase \in {"priming", "started", "closed", "failed"}
    /\ out \in [Buffers -> 0 .. MaxFills]
    /\ outHead \in Buffers
    /\ queue \in Seq(Buffers)
    /\ audio \in {"idle", "called", "push", "enqueue"}
    /\ buf \in Buffers
    /\ fills \in 0 .. MaxFills /\ played \in 0 .. MaxFills
    /\ lost \subseteq 1 .. MaxFills /\ fades \subseteq 1 .. MaxFills
    /\ fade \in Fades /\ fadeDumped \in BOOLEAN
    /\ cuts \in Nat /\ placed \in Nat

Init ==
    /\ DumpInit
    /\ phase = "priming"
    /\ out = [b \in Buffers |-> 0]
    /\ outHead = 0 /\ queue = <<>>
    /\ audio = "idle" /\ buf = 0
    /\ fills = 0 /\ played = 0 /\ lost = {}
    /\ fade = "none" /\ fadeDumped = FALSE
    /\ fades = {} /\ cuts = 0 /\ placed = 0

Rotated(head) == (head + 1) % OutBuffers

-----------------------------------------------------------------------------
(* start() *)

\* Mutant of Prime: the loop enqueues the first buffer every time.
PrimeFirst ==
    /\ phase = "priming" /\ Len(queue) < OutBuffers
    /\ queue' = Append(queue, outHead)
    /\ UNCHANGED <<phase, out, outHead, audio, buf, fills, played, lost, fadeVars, dumpVars>>

\* Silence primes the queue; nothing completes before the eSDK presses play.
Prime ==
    /\ phase = "priming" /\ Len(queue) < OutBuffers
    /\ queue' = Append(queue, outHead)
    /\ outHead' = Rotated(outHead)
    /\ UNCHANGED <<phase, out, audio, buf, fills, played, lost, fadeVars, dumpVars>>

\* A player that cannot hold our queue is no player at all.
PrimingFails ==
    /\ phase = "priming"
    /\ phase' = "failed" /\ queue' = <<>>
    /\ DumpClose
    /\ UNCHANGED <<out, outHead, audio, buf, fills, played, lost, fadeVars>>

Publish ==
    /\ phase = "priming" /\ Len(queue) = OutBuffers
    /\ phase' = "started"
    /\ UNCHANGED <<out, outHead, queue, audio, buf, fills, played, lost, fadeVars, dumpVars>>

-----------------------------------------------------------------------------
(* The audio thread *)

\* External: the oldest buffer has been played and its callback is called.
Complete ==
    /\ phase = "started" /\ queue # <<>> /\ audio = "idle"
    /\ played' = Most(played, out[Head(queue)])
    /\ queue' = Tail(queue)
    /\ audio' = "called"
    /\ UNCHANGED <<phase, out, outHead, buf, fills, lost, fadeVars, dumpVars>>

\* Mutant of RefillOldest: the head is moved on before it is read.
RefillNext ==
    /\ audio = "called" /\ fills < MaxFills
    /\ buf' = Rotated(outHead)
    /\ outHead' = Rotated(outHead)
    /\ fills' = fills + 1
    /\ out' = [out EXCEPT ![Rotated(outHead)] = fills + 1]
    /\ audio' = "push"
    /\ UNCHANGED <<phase, queue, played, lost, fadeVars, dumpVars>>

\* Mutant of RefillOldest: a completion that finds mu_ taken gives its turn up.
RefillIfUncontended ==
    /\ audio = "called" /\ fills < MaxFills
    /\ \/ /\ buf' = outHead
          /\ outHead' = Rotated(outHead)
          /\ fills' = fills + 1
          /\ out' = [out EXCEPT ![outHead] = fills + 1]
          /\ audio' = "push"
       \/ audio' = "idle" /\ UNCHANGED <<buf, outHead, fills, out>>
    /\ UNCHANGED <<phase, queue, played, lost, fadeVars, dumpVars>>

\* How fill() moves the fade on: a stall leaves it where it is, and it may be
\* over by the end of the buffer.
MovesOn ==
    [none    |-> {"none"},
     ahead   |-> {"ahead", "start", "stalled", "partway", "none"},
     start   |-> {"stalled", "partway", "none"},
     stalled |-> {"stalled", "partway", "none"},
     partway |-> {"partway", "none"}]

\* Did this fill come to the fade at k0 = 0, and is it the first that has?
AtStart(next) ==
    \/ fade \in {"start", "stalled"}
    \/ fade = "ahead" /\ next \notin {"ahead", "start"}

Begins(next) == AtStart(next) /\ fade # "stalled"

\* Mutant of FadeMovesOn: every buffer at k0 = 0 triggers.
FadeTriggersEachTime(next) ==
    /\ fade' = next
    /\ IF AtStart(next) THEN Trigger ELSE UNCHANGED dumpVars
    /\ fadeDumped' = (fadeDumped \/ AtStart(next))
    /\ fades' = IF Begins(next) THEN fades \cup {fills + 1} ELSE fades
    /\ UNCHANGED <<cuts, placed>>

\* The trigger in fill(): at k0 = 0, once.
FadeMovesOn(next) ==
    /\ fade' = next
    /\ IF AtStart(next) /\ ~fadeDumped THEN Trigger ELSE UNCHANGED dumpVars
    /\ fadeDumped' = (fadeDumped \/ AtStart(next))
    /\ fades' = IF Begins(next) THEN fades \cup {fills + 1} ELSE fades
    /\ UNCHANGED <<cuts, placed>>

\* Under mu_: the oldest output buffer is filled, and the fade moves on.
RefillOldest ==
    /\ audio = "called" /\ fills < MaxFills
    /\ buf' = outHead
    /\ outHead' = Rotated(outHead)
    /\ fills' = fills + 1
    /\ out' = [out EXCEPT ![outHead] = fills + 1]
    /\ audio' = "push"
    /\ \E next \in MovesOn[fade] : FadeMovesOn(next)
    /\ UNCHANGED <<phase, queue, played, lost>>

FramesOf(b) == [i \in 1 .. BufferFrames |-> (out[b] - 1) * BufferFrames + i]

PushBuffer ==
    /\ audio = "push"
    /\ Push(FramesOf(buf))
    /\ audio' = "enqueue"
    /\ UNCHANGED <<phase, out, outHead, queue, buf, fills, played, lost, fadeVars>>

\* The result of enqueue() is not looked at: a refused buffer is simply gone.
EnqueueBuffer ==
    /\ audio = "enqueue"
    /\ audio' = "idle"
    /\ \/ queue' = Append(queue, buf) /\ UNCHANGED lost
       \/ UNCHANGED queue /\ lost' = lost \cup {out[buf]}
    /\ UNCHANGED <<phase, out, outHead, buf, fills, played, fadeVars, dumpVars>>

-----------------------------------------------------------------------------
(* Other threads *)

MayPlace == cuts + placed < MaxBoundaries

\* apply() of a cut, under mu_: on the ack thread, or Java's
CutApplied ==
    /\ phase \in {"priming", "started"} /\ MayPlace
    /\ cuts' = cuts + 1
    /\ fade' = "none"
    /\ Trigger
    /\ UNCHANGED <<outVars, fadeDumped, fades, placed>>

\* Where apply() puts a fade: its start is not behind the position it was decided
\* at, but read_ first skips what has been mixed of the incoming of the one it
\* supersedes.
ScheduledAt ==
    {"ahead", "start"} \cup
    IF fade = "partway" \/ fade = "stalled" THEN {"partway"} ELSE {}

\* Mutant of ScheduleFade: fadeDumped_ is left as the last fade set it.
ScheduleDumped ==
    /\ phase = "started" /\ MayPlace
    /\ placed' = placed + 1
    /\ fade' \in ScheduledAt
    /\ UNCHANGED <<outVars, fadeDumped, fades, cuts, dumpVars>>

\* apply() of a fade, under mu_
ScheduleFade ==
    /\ phase = "started" /\ MayPlace
    /\ placed' = placed + 1
    /\ fade' \in ScheduledAt
    /\ fadeDumped' = FALSE
    /\ UNCHANGED <<outVars, fades, cuts, dumpVars>>

\* reanchorFade(), on the eSDK's thread under mu_: one not reached yet is moved or
\* cancelled, the ramp of one under way re-fitted around read_.
Reanchor ==
    /\ phase = "started" /\ MayPlace
    /\ fade # "none"
    /\ placed' = placed + 1
    /\ fade' \in IF fade = "ahead" THEN {"none", "ahead", "start"} ELSE {"start", "partway"}
    /\ fadeDumped' = FALSE
    /\ UNCHANGED <<outVars, fades, cuts, dumpVars>>

\* enqueue() drops unplayed audio, and read_ is further along the fade or past it.
Overflow ==
    /\ phase = "started" /\ fade \in {"ahead", "start", "stalled"}
    /\ fade' \in IF fade = "ahead" THEN {"start", "partway"} ELSE {"partway"}
    /\ UNCHANGED <<outVars, fadeDumped, fades, cuts, placed, dumpVars>>

\* close() waits for the callback under way; then the dumper goes too.
Stop ==
    /\ phase = "started" /\ audio = "idle"
    /\ phase' = "closed" /\ queue' = <<>>
    /\ DumpClose
    /\ UNCHANGED <<out, outHead, audio, buf, fills, played, lost, fadeVars>>

Next ==
    \/ Prime \/ PrimingFails \/ Publish
    \/ Complete \/ RefillOldest \/ PushBuffer \/ EnqueueBuffer
    \/ CutApplied \/ ScheduleFade \/ Reanchor \/ Overflow
    \/ Stop

\* The real player plays what it has, and its callback runs to its end.
Fairness ==
    /\ WF_vars(Prime) /\ WF_vars(Publish) /\ WF_vars(Complete)
    /\ WF_vars(RefillOldest) /\ WF_vars(PushBuffer) /\ WF_vars(EnqueueBuffer)

Spec == Init /\ [][Next]_vars
FairSpec == Spec /\ Fairness

-----------------------------------------------------------------------------
InHand == audio \in {"push", "enqueue"}

\* How far a buffer is from the head, going round
Around(b, head) == (b - head + OutBuffers) % OutBuffers
Offset(b) == Around(b, outHead)

\* The player's queue goes round out_ in order from the head, and the buffer
\* in hand comes last: the inductive invariant behind NeverRefillQueued.
InRotation ==
    /\ phase = "priming" =>
          /\ queue = [i \in 1 .. Len(queue) |-> i - 1] /\ Len(queue) <= OutBuffers
          /\ outHead = Len(queue) % OutBuffers /\ audio = "idle"
    /\ phase = "started" =>
          /\ \A i, j \in 1 .. Len(queue) : i < j => Offset(queue[i]) < Offset(queue[j])
          /\ audio = "called" => \A i \in 1 .. Len(queue) : Offset(queue[i]) > 0
          /\ InHand => Offset(buf) = OutBuffers - 1
          /\ InHand => \A i \in 1 .. Len(queue) : Offset(queue[i]) < OutBuffers - 1
    /\ phase \in {"closed", "failed"} => queue = <<>> /\ audio = "idle"

\* The callback never writes into, nor offers, a buffer the real player still
\* holds, and the player never holds one twice, however many it has refused:
\* onBackendDone() trusts its own rotation, not the buffer that completed
\* (ring_pipeline.cpp:565-577).
NeverRefillQueued ==
    /\ \A i, j \in 1 .. Len(queue) : i # j => queue[i] # queue[j]
    /\ InHand => \A i \in 1 .. Len(queue) : queue[i] # buf
    /\ phase = "started" /\ audio = "called" => \A i \in 1 .. Len(queue) : queue[i] # outHead

\* Output reaches the player's queue in the order it was produced: nothing is
\* overwritten before it is played, nothing is played twice, and every fill is
\* played, queued, in hand or was refused.
PlayedInOrder ==
    /\ \A i, j \in 1 .. Len(queue) :
          i < j /\ out[queue[i]] # 0 => out[queue[i]] < out[queue[j]]
    /\ \A i \in 1 .. Len(queue) : out[queue[i]] # 0 => out[queue[i]] > played
    /\ phase \in {"priming", "started"} =>
          \A n \in (played + 1) .. fills :
              \/ n \in lost
              \/ \E i \in 1 .. Len(queue) : out[queue[i]] = n
              \/ InHand /\ out[buf] = n

\* What PlayedInOrder rests on: the fill in hand is the latest one.
FillInv ==
    /\ PlayedInOrder
    /\ phase = "priming" => fills = 0 /\ played = 0 /\ out = [b \in Buffers |-> 0]
    /\ played <= fills
    /\ \A b \in Buffers : out[b] <= fills
    /\ InHand => /\ out[buf] = fills /\ played < fills
                 /\ \A i \in 1 .. Len(queue) : out[queue[i]] < fills

-----------------------------------------------------------------------------
Files == {disk[i] : i \in 1 .. Len(disk)} \cup
         IF file.open THEN {[frames |-> file.frames, at |-> file.at]} ELSE {}

FirstOf(f) == Most(f.at - HistoryFrames, 0)
EndOf(f) == FirstOf(f) + Len(f.frames)

\* Where a trigger was taken
Starts == {s \in Nat : s \in refused \/ \E f \in Files : f.at = s}

\* A dump is one uninterrupted piece of the output around its trigger, the
\* history before it included, and it stops short of its tail only where a
\* later trigger began another or the pipeline was stopped.
DumpHolds ==
    /\ \A f \in Files : \A i \in 1 .. Len(f.frames) : f.frames[i] = FirstOf(f) + i
    /\ \A i \in 1 .. Len(disk) :
          \/ EndOf(disk[i]) = disk[i].at + TailFrames
          \/ EndOf(disk[i]) \in Starts
          \/ phase = "closed" /\ i = Len(disk)

\* A fade rendered from its first frame begins a dump whose tail is the buffer it
\* began in, unless the file could not be created: fadeDumped_ is down whenever
\* fill() comes to a start it has not seen (ring_pipeline.cpp:162, 464, 491), and
\* the flag it raises under mu_ is read after mu_ was released (dump.cpp:53).
\* Nothing is said of a fade that fill() first meets partway.
FadeStartsDumped ==
    enabled => \A n \in fades : pushed >= n * BufferFrames => (n - 1) * BufferFrames \in Starts

\* One dump per fade placed and started, and one per cut, never one per stalled
\* buffer, however long k0 stays 0 (ring_pipeline.cpp:488-491).
Dumps == Len(disk) + Cardinality(refused)
Coming == (IF file.open THEN 1 ELSE 0) + (IF triggered THEN 1 ELSE 0)

OneDumpPerStart == Dumps + Coming <= cuts + Cardinality(fades)

\* What they rest on: the history holds the latest frames pushed, a file being
\* written reaches as far as they do, a fade's flag is still up when its buffer is
\* pushed, and fadeDumped_ tells the start fill() has not seen from the stalled one.
PushedFills == IF audio = "push" THEN fills - 1 ELSE fills

HistoryHolds ==
    \A f \in Most(pushed - HistoryFrames, 0) .. (pushed - 1) : slots[f % HistoryFrames] = f + 1

DumpInv ==
    /\ DumpHolds /\ FadeStartsDumped /\ OneDumpPerStart /\ HistoryHolds
    /\ enabled => pushed = PushedFills * BufferFrames
    /\ file.open => /\ EndOf(file) = pushed /\ file.remaining > 0
                    /\ pushed + file.remaining = file.at + TailFrames
    /\ fades \subseteq 1 .. fills
    /\ enabled /\ audio = "push" /\ fills \in fades => triggered
    /\ fade \in {"ahead", "start"} => ~fadeDumped
    /\ fade = "stalled" => fadeDumped

\* While the player plays, output is produced until the pipeline is stopped;
\* only the loss of every output buffer to a refusal can silence it.
OutputGoesOn ==
    phase = "started" ~>
        (fills = MaxFills \/ phase = "closed" \/ Cardinality(lost) = OutBuffers)
=============================================================================
