# Crossfade library: TLA+ models and proofs

The library in `src/native` sits between Spotify's audio engine (the *eSDK*) and the system's
OpenSL ES player. It pretends to be OpenSL ES, copies every buffer the eSDK enqueues into a ring,
answers the eSDK from a thread of its own ahead of playback, and so has enough of the next track in
hand to mix the two over a configured length. A small Java extension inside the app tells it the
crossfade length and every track change. This directory models that library in TLA+, checks the
models with TLC and proves their main invariants with TLAPS.

## The system

### Components

| Component | Source | State | Operations |
|---|---|---|---|
| BoundaryModel | `boundary.{h,cpp}` | current track and where it began, pending flush and its time, memory of a timed-out cut | `onFlush`, `onMetadata`, `tick`; each may answer *cut at b* or *fade n frames up to b* |
| RingPipeline | `ring_pipeline.{h,cpp}` | `written_`, `read_`, pending buffers, the scheduled fade with two independent ramps, the arm that drops padding after a boundary, lead target `T_`, crossfade length | `start`, `stop`, `enqueue`, `clear`, `setPlayState`, `onMetadata`, `setCrossfadeMs`, ack loop, `fill` |
| Ring | `ring.h` | samples | `read` and `write` at absolute frames, modulo the capacity |
| Player objects | `fake_sl.cpp` | a pipeline and a back end per player | `CreateAudioPlayer`, `Realize`, `Destroy`, queue/play/volume methods that forward |
| Status registry | `status.cpp` | the setting, the state shown, the source of statistics | setters, `statusLine` |
| Pipeline registry | `ring_pipeline.cpp` | the newest ring pipeline (`g_current`), dump directory | constructor, destructor, JNI calls under `g_registryMu` |
| JNI | `xfade_jni.cpp` | none | `setCrossfadeMs`, `onMetadata`, `getStatus`, `setDumpDir` |
| PassthroughPipeline | `passthrough_pipeline.cpp` | count of queued buffers | forwards to the back end |
| RealBackend | `real_backend.cpp` | the system's library, its real player, the callback it was given | `open` in stages, `close`, `enqueue`, `clear`, volume |
| PcmDumper | `dump.{h,cpp}` | a flag any thread may raise, a ring of the latest output, the file being written | `trigger`, `push`, destructor |
| Mixer | `mixer.cpp` | none | gains |
| Java extension | `extensions/` | preferences, settings screen, long-press detector | hooks, parsing, formatting |
| Patches, scripts | `patches/`, `scripts/` | none at run time | |

### How they interact

Five kinds of thread meet in a pipeline: the eSDK's threads (`Enqueue`, `Clear`, `SetPlayState`,
`Realize`, `Destroy`), the ack thread (which calls the eSDK back, and from whose callback the eSDK
enqueues and sometimes destroys the player), the real player's completion callback (`fill`), and
Java threads. They share the pipeline's mutex `mu_`, the registry's mutex and the status mutex.
`mu_` is never held while the eSDK is called. The frame counters `written_`, `read_` and the fade's
incoming cursor `fadeB_` are how the delivering, the deciding and the rendering side talk to each
other: a *boundary* is a frame number, decided by metadata (predicted from the duration, or where
the stream stood), by a flush, by a timeout, or moved by the first audio that follows padding.

### What is hard

* A boundary may come, move or be superseded at any point of a fade. While a fade waits for its
  incoming audio `read_` is parked at the boundary and the incoming cursor runs ahead: every handler
  that moves `read_` has to know.
* The two ramps of a fade end at different times (late head, early announcement, re-fitted ramp).
* The eSDK only delivers what it is acknowledged for, and is acknowledged by how far the listener
  is: parked fades, padding at the head of the queue and paused playback must not wait on each other.
* A manual change is a `Clear` and, some time later, an announcement; a natural one only an
  announcement; a play press only a `Clear`. A timeout decides in between.
* Output buffers go round between the completion callback, which refills the oldest without looking which
  one completed, and a real player that may refuse them; the dumper's flag is raised by one thread under
  `mu_` and read by another without it.
* Players overlap, fail halfway through `start()`, and are destroyed from inside their own callback.

PROJECT.json lists these hazards line by line, with the property that covers each.

### What makes it correct

BoundaryModel: one boundary per change, at the right frame. RingPipeline: no delivered frame is
played twice, none is lost except where a cut says so or where a re-anchor drops, by design, the stretch
ahead of audio that was already mixed (`ring_pipeline.cpp:150-153`), cursors never run ahead of what was
delivered, ramps stay aligned with their boundary and their gain never steps, the ring never
overflows, nobody waits for ever, and all of this adds up to what a listener is promised. Ring: what
is read is what was written. Output path: no buffer is refilled while the real player holds it, and a
dump is one whole piece of the output around its trigger. Player objects: no failure leaves anything
open, a realized object can play, no callback reaches a pipeline that is gone. Lifecycle: no pointer outlives a pipeline, every call returns, the
pipeline in use runs with the last setting, the status says so.

## The modules

| Module | Models | Composes |
|---|---|---|
| `BoundaryModel` | the class, as state and operators | |
| `RingPipeline` | a started pipeline with its threads | `BoundaryModel` |
| `Playout` | abstract: what a listener may hear | |
| `Ring`, `RingStorage` | the storage and its two copying loops; a pipeline that uses it | `RingPipeline`, `Ring` |
| `PcmDumper`, `OutputPath` | the dump; priming, rotation and completion of output buffers | `PcmDumper` |
| `TrackChanges` | `BoundaryModel` between the eSDK's clears and Java's announcements | `BoundaryModel` |
| `Lifecycle` | players, registry, status, JNI setting calls, start and stop | |
| `PassthroughPipeline` | the queue count of audio that is not processed | |
| `PlayerObject` | Realize, the back end's `open` and `close`, fallback, Destroy | `PassthroughPipeline` |
| `MCRingPipeline`, `MCRingStorage`, `MCTrackChanges`, `MCLifecycle`, `MCPassthroughPipeline`, `MCOutputPath` | constants and symmetry for TLC | |
| `RingPipelineProofs`, `RingListenerProofs`, `RingWindowProofs`, `RingStorageProofs`, `TrackChangesProofs`, `LifecycleProofs`, `PlayerObjectProofs`, `OutputPathProofs` | theorems and proofs | |

**BoundaryModel.** `current`, `predicted`, `flush` and `lateCut` are `current_` (its playback id),
the frame `startFrame_ + (durationMs - startPositionMs_) * rate / 1000` computed when the announcement
comes rather than when the next one does, the three `flush*_` and the three `lateCut*_` fields. The
code compares every time stamp with one window only, so an age saturated one past its window stands
for it. `MetadataDecision` and `BoundaryOnMetadata` are the result and the effect of `onMetadata`.

**RingPipeline.** Samples are abstracted to the absolute frame they sit at; that is what every
property needs to tell apart. One action per handler, with `apply`, `reanchorFade` and the arm inside
the action that calls them. `fill()` holds `mu_` over its whole loop; it is `FillBegin` and then one
action per iteration (`FillCancel`, `FillOutgoing`, `FillIncoming`, `FillCopy`, `FillUnderrun`), while
`filling > 0` keeps every other user of `mu_` out. `AckLoop` is one iteration up to the unlock;
the eSDK's callback is a separate state (`inCallback`) in which anything may happen.
`SetPlayState` and `ForwardPlayState` are split where the code unlocks. `heard`, `replayed` and
`overflowed` are ghosts. A probe's deadline is kept as the time left.

**Playout.** The abstract specification, with no ring, ramp, thread or acknowledgement: frames are delivered,
skipped at a boundary, or played, each at most once and in order; during a transition the next track is
heard from its boundary on, no faster than the outgoing one. `RingPipeline` implements it under the
mapping `Listener`: `read` is the listener's head, and the incoming window of a scheduled fade,
`[fade.at, fade.b)`, is what is heard early. A re-anchor is part of a delivery, a ramp that ends part
of the playing. Nothing is promised once the ring has overflowed.

**Ring, RingStorage.** A frame's samples are the number it was written under. `Write` and `Read` are the code's
loops, chunk by chunk up to the end of the storage, as recursive functions of the frames left; `RingStorage` runs `RingPipeline` with the storage
beside it, so that the absolute numbers the other properties use are shown to be what is stored.

**PcmDumper, OutputPath.** A completion callback is three steps, cut where the code unlocks: `RefillOldest` is
`fill()` and the rotation under `mu_`, then `PushBuffer` and `EnqueueBuffer` without it. Cuts raise the dump flag
from other threads at any of these points. Of the scheduled fade, `fade` keeps where `fill()` will find it: ahead
of `read_`, at its start, stalled there (`k0` still 0), or partway; with `fadeDumped` that decides
`FadeMovesOn`, whether the buffer triggers a dump. A fade is put anywhere `apply` and `reanchorFade` may put it, which
includes partway for one that supersedes another. `fades` records the starts as such, whether they triggered or not. A buffer holds the number of its fill; a file holds the
frames written to it, so a gap, an overlap or a stale frame in a dump shows. `push`'s frame-by-frame
folding into the history is stated by its result.

**PlayerObject.** One step of `at` per call that may be refused: the pipeline's own checks, the library (loaded
once per process), the player, its interfaces, the callback, priming. A failure goes on to the fallback
or to giving up, and `Realize` may be called again. While the pipeline is the passthrough one, the queue
is that of `PassthroughPipeline`, with completions under way during Destroy.

**Lifecycle.** `at` is the next step of the call under way on a player; a step is what runs between
two points where another thread can see or change what it uses. `start()` reads and stores the
setting without `mu_`, so those are steps of their own; a JNI call is split at every lock.

**PassthroughPipeline.** The eSDK's thread, its callback and the completion thread each take `mu_` for a
moment to change `queued_`, around calls to the back end made without it: `EnqueueCount`,
`EnqueueBackend`, `EnqueueFailed`, `ClearBackend`, `ClearCount`, `CountDone`. The count has the width of its
type (`Width`).

**TrackChanges.** `boundary.cpp`, and the way an announcement takes through `CrossfadeHooks` and
`xfade_jni.cpp`, in order but late. What the eSDK does around them is external, taken from `docs/architecture.md` and `test_boundary.cpp`.

## Runs

| Run | Question | Bounds |
|---|---|---|
| RingTransitions | do overlapping boundaries, re-anchors and setting changes ever replay, lose, misalign, overrun, or break a promise of `Playout`? | 7 frames, buffers of 1, X in {0, 2}, durations {unknown, 4}, two tracks, no Clear; capacity 6, exactly the longest fade, its lead target and one buffer |
| RingFlush | the same with a Clear anywhere, 2 buffers outstanding, a 2-frame output buffer; is what is read what was written? checks the inductive invariant of pipeline and storage (`StorageInv`) | capacity 3, buffers of 2, so that a buffer wraps within itself and the ring overflows; 6 frames, 1 Clear, play and pause |
| RingLiveness | does everything that must happen happen? | 4 frames, 1 Clear, 2 buffers outstanding, so that audio queues behind dropped padding; X in {0, 2}, so that the setting may be turned off during a fade |
| LifecyclePlayers | does anything outlive a pipeline? | 2 players, 1 Java thread, symmetric |
| LifecycleCalls | does the last setting win, and does every call return? | 1 player, 2 Java threads |
| ChangesInTurn | is a manual change one cut, in the right place, when it is announced at most `MaxDelay` after it? checks the inductive invariant (`ChangesInv`) | 4 tracks, 3 Clears, late window 2 |
| Passthrough | does a player object leak, strand or outlive anything when a step fails, and does its queue count ever claim buffers that are not there, or wrap? | 3 buffers held, a count of 16 values; nothing else is bounded |
| OutputPath | is an output buffer ever touched while queued, output reordered, a dump torn, a fade's dump missed or made twice for one start? | 3 output buffers of 2 frames, history of 3 (it wraps within a buffer), tail of 5 (it ends within one), 6 fills, 3 cuts, fades scheduled or re-anchored |
| RingOff, LifecycleStart, LifecycleTwoPlayers, ChangesOverlap | the findings below | |

The bounds are named: `MaxWritten` frames are delivered and `MaxClears` Clears made in a behaviour.
With a fade of 2 or 3 frames and a frame of lead past it, 4 to 7 frames hold a fade that starts,
stalls, is re-anchored and is superseded by a second boundary, which is as many boundaries as can
interact: a third one meets only the state the second left. Rates of 1 or 2 frames a clock unit make the
conversions exact and the windows a few ticks; the windows keep their order (`kMinTailMs` the
smallest, the flush window shorter than the late window in `ChangesInTurn`). Every configuration
makes a minimal tail at least one frame, which holds from 5 Hz up. The frame bounds matter to the
runs only: the proofs are for any values of the constants. In `OutputPath` 6 fills are
twice round the buffers, and the 3 of `MaxBoundaries` are a fade, a second one that supersedes it or a
re-anchor of it, and a cut. `MaxDelay` (the flush window, one tick, `kLateMetadataMs`) is no artificial
bound: a later announcement is what the code takes for a natural change (`boundary.cpp:62-71`). Deadlock
is checked where the system never stops: time passes, and in `Lifecycle` Java may always call. It is off
in `Passthrough`, where an object ends deleted, and in `OutputPath`, which ends with the player closed or
at `MaxFills`.

### Fairness

* `mu_` is held for microseconds of each buffer period, so a thread waiting for it gets it: strong
  fairness for the ack loop and the clock, which `fill` disables again and again; weak fairness for
  the steps of `fill`, for the eSDK's callback returning, for the completion of buffers while the real
  player plays. The ack loop's wait is bounded by 50 ms, so it needs no wake-up to look again.
* `DeliveryFairness` (only in `DeliveringSpec`) is an assumption on the eSDK: whenever its queue has
  room it eventually enqueues audio rather than padding. Without it "all audio is delivered" is not
  the library's to promise.
* In `Lifecycle` a thread inside the library goes on, the eSDK's callback returns, and a mutex that
  keeps being released is obtained (strong fairness for steps that wait for the registry): settings
  are changed by hand, seconds apart.

* In `PlayerObject` the calls under way go on, the eSDK's buffer callback returns after finitely many calls
  (strong fairness: each call it makes disables its return), and the real player's `Destroy` starts no
  callback and waits for the one running; nothing makes the eSDK start a call. In `OutputPath` the real
  player plays what it has and its callback runs to its end.

## Findings

* **RingOff.** With crossfade 0 the guides promise the stock app's behaviour, but a natural transition
  still gets a cut, and a cut moves `read_` over the tail that is buffered and unplayed, up to the
  half second of lead.
* **LifecycleStart.** `start()` computes its targets before it publishes the pipeline, and a setting
  call in between updates `crossfadeMs_` alone: the started pipeline says "active" with `X_ = 0`, or
  the other way round, until the next setting call.
* **LifecycleTwoPlayers.** The older of two live players reports `no-player` when it is destroyed.
* **ChangesOverlap.** Of two manual changes in quick succession (a seek or a skip, then a skip) the second Clear
  overwrites the flush of the first. The announcement of the first takes that flush, and the announcement of the second
  is handled as a natural transition.

## Proofs

`RingPipelineProofs` proves, for all values of the constants that satisfy the assumptions in
`BoundaryModel` and `RingPipeline` (named there: window lengths and bounds are naturals, a
buffer fits the ring, a minimal tail is at least one frame):

* `Invariance`: `Spec => []IInv`. `NoReplay`, the property wanted, is not inductive: that a frame about
  to be played was not heard follows only from knowing where all heard frames are (`HeardBehind`: behind
  `read_`, or inside the window `[fade.at, fade.b)` the fade has opened), that the window was all heard
  (`FadeWindow`, so that jumping over it loses nothing), and that cursors are aligned
  (`FadeAligned`) and behind the writer (`ReadBehindWrite`). `FlushDelivered` adds that a flush was
  delivered, so that its cut lands on it.
* `TypeCorrect`, `PlayedOnce`, `StaysBehindWrite`, `RampsAligned` follow; `NeverRewinds`,
  `NothingLostInFill` and `FlushLeavesOldAudio` are action properties proved from the same invariant.

The proof has one lemma per action, cut along what the handlers share: `apply()` once for the three
decisions that reach it, `reanchorFade()` once for its ramps, the fade iterations once through
`FadeProgress`. The nonlinear arithmetic of the re-fitted ramp is only needed as a bound (at least `r`,
at most the boundary's frame), which the code's two clamps give.

`RingListenerProofs` proves `ListenerServed`, that `RingPipeline` implements `Playout`: initial states map to
initial states, and each action, in a state of `IInv`, to a step of `Playout` or to a stutter. `apply()`
is a `Skip` (or nothing, when a fade is only scheduled), a re-anchor a `Deliver`, each iteration of
`fill` a `Play`. It also proves `GainNeverSteps`: a re-anchor under a running fade keeps the outgoing
gain to within the rounding of the new length. `RefitRamp` rounds a quotient `num / den` to the nearest;
`NearestQuotient` bounds what is left over by half of `den`, `RefitStep` turns that into a difference of at
most one sample step between the old and the new ramp position, in products rather than fractions.
Three cases are not promised. The ramp may be capped (`RampCapped`), which the code's comment
gives up as well (see the remark below); the outgoing track may be spent (`read = fade.at`); and the same call may overflow
the ring, which moves `read` on and leaves the ring full. In the last case a change of gain comes with
a jump in the audio.

`RingStorageProofs` proves that the absolute frame numbers of all this are what the storage holds:
`StorageInvariance`, that the last `Capacity` frames delivered are each at their place and `read` is
no further behind, and from it `ReadsBack`. A loop's recursive function is, by definition, one that satisfies
the loop's equation. A closed form (the storage with `frames` slots replaced; the sequence of the slots read)
satisfies it, because a chunk is at least one frame, stops at the end of the storage and leaves a shorter
loop of the same kind, and any two functions that satisfy it agree: otherwise there is a least number of
frames at which they differ, and the chunk leads to a smaller one (`Descent`, from the library's fact that the naturals
are well founded). No induction scheme with an operator parameter is needed. What remains is that `Capacity` consecutive frames have different slots (`Remainder`,
`SlotAhead`). `StorageKeepsPipeline` carries every theorem about `RingPipeline` over, `ListenerServed`
among them (`StorageServesListener`).

`RingWindowProofs` proves `RingNeverOutgrown`: whenever `RingFits` (no crossfade longer than `ms`, no buffer
larger than `buffer`, and a capacity of that fade, its lead target and
`Depth` buffers), the ring does not overflow without a Clear. `WindowInv` says that the oldest buffer not
yet acknowledged ends within reach of `read`, or began there, and each later one adds at most its size.

`TrackChangesProofs` proves `ManualChangeIsOneCut` and `SkipIsAnchored` from `ChangesInvariant`, all under
`~Overlapping`, without which they are false (ChangesOverlap shows it). `ChangesInv` says where a manual change
stands while its announcement is on its way: its Clear still waits, with an age that is the announcement's own
(saturated), or it has timed out, and then the remembered cut is the Clear's and is younger than the
announcement by more than the flush window. That is why an announcement that is at most `MaxDelay` old always finds
the memory still valid, whichever of `tick()` and the announcement came first after the window.

`LifecycleProofs` proves `LifeInvariance` for any sets of players and Java threads, and from it
`NothingDangles`, `CompletionSafe` and `AckThreadSafe`. `LifeInv` says what a player has at each step
of its calls (`WellPlaced`), what has become of its ack thread (`AckPlaced`) and who points to whom
(`PointersLive`): the mutual exclusion by the registry is in the last, as "a call that holds a pointer
holds the registry, and deletion waits for it". Its second part proves `SettingArrives` for any players and
Java threads and `StatusAgrees` for one player at most (with two it is false, see LifecycleTwoPlayers).
`SettingInv` says at each step of a setting call and of a start which of the global value, the caller's
and the player's agree.

`OutputPathProofs` proves the six safety properties of the output path for any number and size of buffers, any
history and any tail: `RotationIsSafe` from `InRotation` (the player's queue goes round from the head,
so a refusal leaves a gap but no disorder), `OutputInOrder` from `FillInv`, `DumpsAreWhole`,
`FadesAreDumped` and `DumpsAreCounted` from `DumpInv` (the history holds the latest frames, an open file reaches as far as they
do, a fade's flag is up until its buffer is pushed, and `fadeDumped` is down for a start not seen yet and up for a
stalled one).

`PlayerObjectProofs` begins with the passthrough queue: `QueueInvariance` for any depth and width, and from it
`CountExact` and `NoPhantoms` (`QueueInv` adds only the type and that a Clear under way is remembered).
`PlayerInvariance` is what the real player is at each step of Realize and Destroy, and
gives `CallbackFindsPipeline`, `NothingLeaks` and `RealizedPlays`. `ObjectKeepsQueue` shows the composition
implements `PassthroughPipeline`, which carries the queue's two theorems over to it.

Every invariant and every action property of the passing runs is thus proved for all values of the constants.
Only model-checked is what must eventually happen (`FlushResolves`, `AckProgress`, `FadesEnd`,
`DeliveryCompletes`, `CallsReturn`, `DestroyReturns`, `OutputGoesOn`): liveness under fairness is out
of the prover's reach. The four findings are TLC's counterexamples.

## What is left out

* Statistics, logging and `getState`; rate, channels and text in the status line; the names and numbers of
  dump files.
* 32-bit widths: padding is capped at 12 s and lengths at 12 s of frames, far from 2^32.
* The eSDK and the real player, which are external: the eSDK keeps at most `Depth` buffers outstanding,
  makes one call at a time outside its buffer callbacks, and sets the play state and clears on one thread;
  the back end's `close()` returns only when no completion callback is running.
* `Destroy` inside a completion callback of the real player. In a ring pipeline the eSDK's callbacks come
  from the ack thread; in a passthrough one `close()` would wait for the callback it was called from,
  and the model takes it that the eSDK does not do that.
* `RealBackend` has no destructor: `PlayerObject` shows that it is never deleted with a player open.
* `completed_` of the passthrough pipeline, and its count once an enqueue has failed after a Clear (it may
  then wrap: the Clear, or a completion it overtook, may have taken the buffer off the count already).
* The mixer's trigonometry. Which frames are mixed, and where on their ramps, is in `RingPipeline`.
* A refused `RegisterCallback`: `open()` ignores its result (`real_backend.cpp:71`), the model takes it that the call
  succeeds, and `RealizedCanPlay` rests on that.
* Volume calls, which change the system's player only, the engine and output-mix objects, the pointers of
  `RegisterCallback`, and the stages of `loadLibrary()`, which all fail alike.
* The Java extension but for the order and delay of its announcements, the patches and the scripts.

Four remarks on the dump. A comment in `dump.cpp:41` speaks of zeros when fewer frames than the
history were pushed; the code starts the file at frame 0 instead, as the model does. `dump.h:10` promises
the next 15 s; a second trigger within them ends the file early and starts another, which `DumpHolds`
states. `docs/architecture.md:190-191` says each fade is dumped once, when it starts rendering, and the comment at
`ring_pipeline.cpp:488-490` speaks of one file per fade; a fade that supersedes another and is first met by `fill()` past its
first frame (`k0 > 0`, line 491) is never dumped, and `FadeStartsDumped` is about the others only. And a re-anchored
fade may be dumped again, as the comment at line 162 intends: `OneDumpPerStart` counts it as another start.

A remark on re-anchors: the comment at `ring_pipeline.cpp:184-186` says the cap on the re-fitted ramp bites only at about
zero gain. On a young stream, whose boundary is at a small frame number, it can bite well above that, and the gain
steps; `ReanchorKeepsGain` excludes every re-anchor in which the cap bites.

## Plan

1. *Done*: `BoundaryModel`, `RingPipeline`, `Lifecycle`, `TrackChanges`, `PassthroughPipeline` and their first
   proofs; `Playout` and the refinement; `Ring` under the pipeline; `PcmDumper` and the output path; player
   objects with the back end's failures; proofs of `NoOverflowWithoutClear`, `SettingReachesPlayer`,
   `StatusTellsState`, the output path and the player object.
2. *Done*: the remaining safety properties: the gain at a re-anchor, the storage under the pipeline, manual
   changes.
3. Left: an abstract specification of the output path (blocks played in the order produced, lost only when
   refused) with its refinement; integer ramps of `Mixer` (a gain never leaves its range),
   `LongPressDetector` in the extension.
