----------------------------- MODULE TrackChanges -----------------------------
(***************************************************************************)
(* BoundaryModel between the two streams of events it has to reconcile:    *)
(* the eSDK Clears at a manual change and delivers audio, while Java       *)
(* announces tracks in order but some time later, and the ack thread's     *)
(* tick() gives up on a Clear in between.  boundary.cpp and the way of an  *)
(* announcement (CrossfadeHooks, xfade_jni.cpp) are project code here; the *)
(* eSDK's side is external, taken from docs/architecture.md and            *)
(* test_boundary.cpp.  Tracks are numbered in the order they are chosen, a *)
(* playback id never being used twice.                                     *)
(***************************************************************************)
EXTENDS BoundaryModel, Sequences

CONSTANTS
    Overlapping,   \* may a change be made before the last skip was announced?
    Duration,      \* durationMs of every announcement, from position 0
    Crossfade,     \* crossfade_
    MaxWritten,    \* bound: frames delivered
    MaxClears      \* bound: Clear calls

ASSUME ChangesAssumption ==
    /\ Overlapping \in BOOLEAN
    /\ Tracks \subseteq Nat /\ NoTrack = 0
    /\ Duration \in Nat /\ Crossfade \in Nat
    /\ MaxWritten \in Nat /\ MaxClears \in Nat

VARIABLES
    written,       \* frames delivered
    latest,        \* the track the eSDK is on
    announcements, \* on their way through Java, oldest first
    clearedAt,     \* ghost: the frame of each Clear so far
    done           \* ghost: the Clears whose cut was decided

vars == <<boundaryVars, written, latest, announcements, clearedAt, done>>

\* How late an announcement can come and still be known for its Clear's:
\* kLateMetadataMs after a prompt timeout.
MaxDelay == FlushWindowMs + 1 + LateMetadataMs

\* clear: number of the Clear it came with, 0 for a natural transition; age: how
\* long it has been on its way, saturated one past MaxDelay
Announcement == [track : Tracks, clear : Nat, age : 0 .. MaxDelay + 1]

TypeOK ==
    /\ BoundaryTypeOK
    /\ written \in Nat
    /\ latest \in Tracks
    /\ announcements \in Seq(Announcement)
    /\ clearedAt \in Seq(Nat)
    /\ done \subseteq DOMAIN clearedAt

\* The first track has been chosen and is about to be announced.
Init ==
    /\ BoundaryInit
    /\ written = 0
    /\ latest \in {t \in Tracks : \A u \in Tracks : t <= u}
    /\ announcements = <<[track |-> latest, clear |-> 0, age |-> 0]>>
    /\ clearedAt = <<>>
    /\ done = {}

Settled == announcements = <<>> /\ ~flush.pending

\* Overlapping changes: the earlier ones on their way are skips or seeks, too.
MayChange ==
    \/ Settled
    \/ Overlapping /\ \A i \in DOMAIN announcements : announcements[i].clear > 0

Announced(t, clear) ==
    announcements' = Append(announcements, [track |-> t, clear |-> clear, age |-> 0])

Deliver ==
    /\ written < MaxWritten
    /\ written' = written + 1
    /\ UNCHANGED <<boundaryVars, latest, announcements, clearedAt, done>>

\* The track ends and the next one is announced.
NaturalEnd ==
    /\ MayChange
    /\ latest + 1 \in Tracks
    /\ latest' = latest + 1
    /\ Announced(latest + 1, 0)
    /\ UNCHANGED <<boundaryVars, written, clearedAt, done>>

\* Skip to a new track, or seek in this one.
ManualChange(t) ==
    /\ MayChange
    /\ t \in Tracks \cap {latest, latest + 1}
    /\ Len(clearedAt) < MaxClears
    /\ latest' = t
    /\ BoundaryOnFlush(written)
    /\ clearedAt' = Append(clearedAt, written)
    /\ Announced(t, Len(clearedAt) + 1)
    /\ UNCHANGED <<written, done>>

\* A play press: its Clear is never announced.
PlayPress ==
    /\ MayChange
    /\ Len(clearedAt) < MaxClears
    /\ BoundaryOnFlush(written)
    /\ clearedAt' = Append(clearedAt, written)
    /\ UNCHANGED <<written, latest, announcements, done>>

DecidedBy(resolved) ==
    done' = IF resolved THEN done \cup {Len(clearedAt)} ELSE done

\* Playback position r only matters to a natural transition.
Announce(r) ==
    /\ announcements # <<>>
    /\ LET t == Head(announcements).track
       IN  BoundaryOnMetadata(t, Duration, 0, written,
                              MetadataDecision(t, written, r, Crossfade))
    /\ announcements' = Tail(announcements)
    /\ DecidedBy(flush.pending)
    /\ UNCHANGED <<written, latest, clearedAt>>

Tick ==
    /\ FlushTimedOut
    /\ BoundaryTick
    /\ DecidedBy(TRUE)
    /\ UNCHANGED <<written, latest, announcements, clearedAt>>

ClockTick ==
    /\ BoundaryClock
    /\ announcements' = [i \in DOMAIN announcements |->
                           [announcements[i] EXCEPT !.age = Least(@ + 1, MaxDelay + 1)]]
    /\ UNCHANGED <<written, latest, clearedAt, done>>

Next ==
    \/ Deliver
    \/ NaturalEnd
    \/ \E t \in Tracks : ManualChange(t)
    \/ PlayPress
    \/ \E r \in 0 .. written : Announce(r)
    \/ Tick
    \/ ClockTick

Spec == Init /\ [][Next]_vars

-----------------------------------------------------------------------------
(* Properties *)

Announcing == announcements # <<>> /\ announcements' = Tail(announcements)

\* The announcement of a manual change, not later than can be told apart from
\* that of a natural one
ManualAnnounced ==
    Announcing /\ Head(announcements).clear > 0 /\ Head(announcements).age <= MaxDelay

\* A manual change announced within MaxDelay is one cut, where its Clear was, and
\* no second boundary follows it, whether its announcement comes in time, after
\* the window but before tick() noticed, or up to kLateMetadataMs after the
\* timeout cut (boundary.cpp:48-51, 62-70).
ManualIsOneCut ==
    [][ManualAnnounced =>
         LET a == Head(announcements)
             d == MetadataDecision(a.track, written, written, Crossfade)
         IN  IF a.clear \in done THEN d = None ELSE d = Cut(clearedAt[a.clear])]_vars

\* The end of a track skipped to is predicted from the frame of its Clear,
\* never from where the stream had got to when Java announced it.
SkipAnchored ==
    [][ManualAnnounced /\ IsNew(Head(announcements).track) =>
         predicted' = Prediction(clearedAt[Head(announcements).clear], Duration, 0)]_vars

\* Where the manual change last announced, and not heard of yet, stands: its
\* Clear is waiting for it, no older than it, or timed out and is remembered, and
\* the memory is the younger of the two by the flush window.
Outstanding(a) ==
    /\ a.clear = Len(clearedAt)
    /\ IF flush.pending
       THEN flush.age = Least(a.age, FlushWindowMs + 1)
       ELSE /\ a.clear \in done
            /\ lateCut.pending /\ lateCut.frame = clearedAt[a.clear]
            /\ lateCut.age + FlushWindowMs + 1 <= a.age

\* Inductive while changes are made in turn: at most one announcement is on its
\* way, and what BoundaryModel knows of the last Clear is what happened to it.
ChangesInv ==
    /\ TypeOK
    /\ Len(announcements) <= 1
    /\ current = NoTrack => announcements # <<>> /\ clearedAt = <<>>
    /\ flush.pending =>
          /\ clearedAt # <<>>
          /\ Len(clearedAt) \notin done
          /\ flush.frame = clearedAt[Len(clearedAt)]
    /\ \A i \in DOMAIN announcements :
          announcements[i].clear > 0 => Outstanding(announcements[i])

\* docs/testing.md:99-100: every manual change is a cut, and never
\* `boundary: natural'.  Of two skips in quick succession the first one's
\* announcement takes the flush both Clears have become (boundary.cpp:13), and
\* the second's finds none.
ManualNeverNatural ==
    [][ManualAnnounced => ~IsNatural(Head(announcements).track)]_vars
=============================================================================
