------------------------------ MODULE Lifecycle ------------------------------
(***************************************************************************)
(* Players coming and going: native/src/fake_sl.cpp's Realize and Destroy, *)
(* RingPipeline's constructor, start(), stop() and destructor, the process-*)
(* wide state of status.cpp and the registry, and xfade_jni.cpp's          *)
(* setCrossfadeMs.  RingPipeline.tla models what a started pipeline does.  *)
(*                                                                         *)
(* Two players may exist at once.  `at' is where the call in progress on a *)
(* player stands: its next step, or created, realized, destroyed between   *)
(* calls.  A step is what runs between two points where another thread can *)
(* see or change what it uses: status.cpp's lock is never held across one, *)
(* g_registryMu is held by a JNI call across several.                      *)
(***************************************************************************)
EXTENDS Naturals

CONSTANTS
    Players,      \* player objects of the fake engine
    Callers,      \* Java threads in CrossfadeNative.setCrossfadeMs
    NoOne,        \* null, or a free mutex
    Settings      \* crossfade lengths, after the clamp; 0 is off

ASSUME NoOneAssumption == NoOne \notin Players /\ NoOne \notin Callers
ASSUME SettingsAssumption == Settings \subseteq Nat /\ 0 \in Settings

VARIABLES
    player,       \* per player: see PlayerRecord
    jni,          \* per Java thread: where its call stands
    global,       \* g_crossfadeMs
    info,         \* g_state
    stats,        \* g_stats
    current,      \* g_current
    registry      \* holder of g_registryMu

vars == <<player, jni, global, info, stats, current, registry>>

Idle == {"created", "realized", "destroyed"}
StartSteps == {"load", "store", "targets", "open", "publish", "register"}
RealizeSteps ==
    StartSteps \cup {"plain", "fallback", "retry", "name", "tell", "refused", "discard"}
DestroySteps == {"join", "unregister", "close", "unset", "delete", "forget"}
States == {"no-player", "passthrough", "active"}

PlayerRecord ==
    [at         : Idle \cup RealizeSteps \cup DestroySteps,
     kind       : {"none", "ring", "passthrough"},   \* the pipeline it has
     loaded     : Settings,        \* crossfadeMs() as start() has read it
     setting    : Settings,        \* crossfadeMs_
     targets    : Settings,        \* what X_ and T_ were computed from
     open       : BOOLEAN,         \* the backend is open
     started    : BOOLEAN,         \* backend_ # nullptr
     alive      : BOOLEAN,         \* *alive_
     ack        : {"none", "running", "callback", "gone"},   \* the ack thread
     inside     : BOOLEAN,         \* Destroy was called from its callback
     audio      : {"idle", "filled"},   \* onBackendDone, past its lock
     told       : States,          \* stateName() as read for setPlayerInfo
     overlapped : BOOLEAN]         \* ghost: a setting call ran during Realize

JniRecord == [at : {"idle", "lock", "read", "apply", "tell", "unlock"},
              ms : Settings, on : Players \cup {NoOne}]

TypeOK ==
    /\ player \in [Players -> PlayerRecord]
    /\ jni \in [Callers -> JniRecord]
    /\ global \in Settings
    /\ info \in States
    /\ stats \in Players \cup {NoOne}
    /\ current \in Players \cup {NoOne}
    /\ registry \in Callers \cup {NoOne}

NewPlayer ==
    [at |-> "created", kind |-> "none", loaded |-> 0, setting |-> 0,
     targets |-> 0, open |-> FALSE, started |-> FALSE, alive |-> FALSE,
     ack |-> "none", inside |-> FALSE, audio |-> "idle", told |-> "no-player",
     overlapped |-> FALSE]

Init ==
    /\ player = [p \in Players |-> NewPlayer]
    /\ jni = [j \in Callers |-> [at |-> "idle", ms |-> 0, on |-> NoOne]]
    /\ global \in Settings
    /\ info = "no-player"
    /\ stats = NoOne /\ current = NoOne /\ registry = NoOne

StateName(ms) == IF ms > 0 THEN "active" ELSE "passthrough"

At(p, step) == player[p].at = step

\* External: outside its buffer callbacks the eSDK makes one call at a time.
EsdkFree == \A p \in Players : player[p].at \in Idle \/ player[p].inside

JniBusy == \E j \in Callers : jni[j].at # "idle"

-----------------------------------------------------------------------------
(* playerRealize *)

\* A ring pipeline for 16-bit audio, a passthrough one for anything else
Realize(p) ==
    /\ At(p, "created") /\ EsdkFree
    /\ \/ /\ registry = NoOne
          /\ player' = [player EXCEPT ![p].kind = "ring", ![p].at = "load",
                                      ![p].overlapped = JniBusy]
          /\ current' = p
       \/ /\ player' = [player EXCEPT ![p].kind = "passthrough", ![p].at = "plain"]
          /\ UNCHANGED current
    /\ UNCHANGED <<jni, global, info, stats, registry>>

\* A factory returned null: there is no pipeline, or one that never was in the
\* registry.
NothingMade(p) ==
    /\ At(p, "created") /\ EsdkFree
    /\ info' = "no-player"
    /\ UNCHANGED <<player, jni, global, stats, current, registry>>

\* A ring pipeline was made, and no backend: it is in the registry until it is
\* deleted.
BackendMissing(p) ==
    /\ At(p, "created") /\ EsdkFree
    /\ registry = NoOne
    /\ player' = [player EXCEPT ![p].kind = "ring", ![p].at = "refused",
                                ![p].overlapped = JniBusy]
    /\ current' = p
    /\ UNCHANGED <<jni, global, info, stats, registry>>

TellRefused(p) ==
    /\ At(p, "refused")
    /\ info' = "no-player"
    /\ player' = [player EXCEPT ![p].at = "discard"]
    /\ UNCHANGED <<jni, global, stats, current, registry>>

Discard(p) ==
    /\ At(p, "discard")
    /\ registry = NoOne
    /\ current' = IF current = p THEN NoOne ELSE current
    /\ player' = [player EXCEPT ![p].kind = "none", ![p].at = "created"]
    /\ UNCHANGED <<jni, global, info, stats, registry>>

\* start() takes the registry lock for dumpDir(), then reads the setting ...
LoadSetting(p) ==
    /\ At(p, "load")
    /\ registry = NoOne
    /\ player' = [player EXCEPT ![p].loaded = global, ![p].at = "store"]
    /\ UNCHANGED <<jni, global, info, stats, current, registry>>

\* ... and stores it without mu_: the pipeline is already g_current.
StoreSetting(p) ==
    /\ At(p, "store")
    /\ player' = [player EXCEPT ![p].setting = player[p].loaded, ![p].at = "targets"]
    /\ UNCHANGED <<jni, global, info, stats, current, registry>>

RecomputeTargets(p) ==
    /\ At(p, "targets")
    /\ player' = [player EXCEPT ![p].targets = player[p].setting, ![p].at = "open"]
    /\ UNCHANGED <<jni, global, info, stats, current, registry>>

OpenBackend(p) ==
    /\ At(p, "open")
    /\ player' = [player EXCEPT ![p].open = TRUE, ![p].at = "publish"]
    /\ UNCHANGED <<jni, global, info, stats, current, registry>>

\* The ack thread is started and backend_ set last.
Publish(p) ==
    /\ At(p, "publish")
    /\ player' = [player EXCEPT ![p].started = TRUE, ![p].alive = TRUE,
                                ![p].ack = "running", ![p].at = "register"]
    /\ UNCHANGED <<jni, global, info, stats, current, registry>>

\* Format, memory, open(), priming or the thread: what was opened is closed.
StartFails(p) ==
    /\ player[p].at \in {"load", "open", "publish"}
    /\ player' = [player EXCEPT ![p].open = FALSE, ![p].at = "fallback"]
    /\ UNCHANGED <<jni, global, info, stats, current, registry>>

RegisterStats(p) ==
    /\ At(p, "register")
    /\ stats' = p
    /\ player' = [player EXCEPT ![p].at = "name"]
    /\ UNCHANGED <<jni, global, info, current, registry>>

\* setPlayerInfo(p->pipeline->stateName(), ...): the name is read first.
ReadStateName(p) ==
    /\ At(p, "name")
    /\ player' = [player EXCEPT ![p].told = StateName(player[p].setting),
                                ![p].at = "tell"]
    /\ UNCHANGED <<jni, global, info, stats, current, registry>>

TellRealized(p) ==
    /\ At(p, "tell")
    /\ info' = player[p].told
    /\ player' = [player EXCEPT ![p].at = "realized"]
    /\ UNCHANGED <<jni, global, stats, current, registry>>

\* The failed pipeline is deleted and a passthrough one made in its place.
Fallback(p) ==
    /\ At(p, "fallback")
    /\ player[p].kind = "ring" => registry = NoOne
    /\ current' = IF current = p THEN NoOne ELSE current
    /\ player' = [player EXCEPT ![p].kind = "passthrough", ![p].at = "retry"]
    /\ UNCHANGED <<jni, global, info, stats, registry>>

PassthroughStart(p) ==
    /\ player[p].at \in {"plain", "retry"}
    /\ player' = [player EXCEPT ![p].open = TRUE, ![p].told = "passthrough",
                                ![p].at = "tell"]
    /\ UNCHANGED <<jni, global, info, stats, current, registry>>

PassthroughFails(p) ==
    /\ \/ /\ At(p, "plain")
          /\ player' = [player EXCEPT ![p].at = "fallback"]
          /\ UNCHANGED info
       \/ /\ At(p, "retry")
          /\ player' = [player EXCEPT ![p].kind = "none", ![p].at = "created"]
          /\ info' = "no-player"
    /\ UNCHANGED <<jni, global, stats, current, registry>>

-----------------------------------------------------------------------------
(* playerDestroy *)

\* stop() sets stopping_ of a started ring pipeline; `join' is next.
FirstDestroyStep(p) ==
    CASE player[p].kind = "ring" -> "join"
      [] player[p].kind = "passthrough" -> "close"
      [] player[p].kind = "none" -> "forget"

Destroy(p) ==
    /\ player[p].at \in {"created", "realized"} /\ EsdkFree
    /\ player' = [player EXCEPT ![p].at = FirstDestroyStep(p)]
    /\ UNCHANGED <<jni, global, info, stats, current, registry>>

DestroyInCallback(p) ==
    /\ At(p, "realized") /\ player[p].ack = "callback"
    /\ player' = [player EXCEPT ![p].inside = TRUE, ![p].at = "join"]
    /\ UNCHANGED <<jni, global, info, stats, current, registry>>

\* Mutant of JoinAckThread: the ack thread is joined even from itself.
JoinAlways(p) ==
    /\ At(p, "join") /\ player[p].ack = "gone"
    /\ player' = [player EXCEPT ![p].at = "unregister"]
    /\ UNCHANGED <<jni, global, info, stats, current, registry>>

\* join(), or clear the token and detach() on the ack thread itself
JoinAckThread(p) ==
    /\ At(p, "join")
    /\ \/ ~player[p].inside /\ player[p].ack = "gone"
       \/ player[p].inside
    /\ player' = [player EXCEPT ![p].alive = @ /\ ~player[p].inside,
                                ![p].at = "unregister"]
    /\ UNCHANGED <<jni, global, info, stats, current, registry>>

\* Mutant of UnregisterStats: only a pipeline that is g_current is taken off.
UnregisterCurrent(p) ==
    /\ At(p, "unregister")
    /\ stats' = IF stats = p /\ current = p THEN NoOne ELSE stats
    /\ player' = [player EXCEPT ![p].alive = FALSE, ![p].at = "close"]
    /\ UNCHANGED <<jni, global, info, current, registry>>

UnregisterStats(p) ==
    /\ At(p, "unregister")
    /\ stats' = IF stats = p THEN NoOne ELSE stats
    /\ player' = [player EXCEPT ![p].alive = FALSE, ![p].at = "close"]
    /\ UNCHANGED <<jni, global, info, current, registry>>

\* Mutant of CloseBackend: backend_ is cleared before close() has waited.
ClearThenClose(p) ==
    /\ At(p, "close")
    /\ player' = [player EXCEPT ![p].started = FALSE, ![p].open = FALSE,
                                ![p].at = "delete"]
    /\ UNCHANGED <<jni, global, info, stats, current, registry>>

\* close() returns when no completion callback is running ...
CloseBackend(p) ==
    /\ At(p, "close")
    /\ player[p].audio = "idle"
    /\ player' = [player EXCEPT ![p].open = FALSE, ![p].at = "unset"]
    /\ UNCHANGED <<jni, global, info, stats, current, registry>>

\* ... and backend_ goes under mu_.
UnsetBackend(p) ==
    /\ At(p, "unset")
    /\ player' = [player EXCEPT ![p].started = FALSE, ![p].at = "delete"]
    /\ UNCHANGED <<jni, global, info, stats, current, registry>>

\* A ring pipeline's destructor leaves the registry, then the memory is gone.
DeletePipeline(p) ==
    /\ At(p, "delete")
    /\ player[p].kind = "ring" => registry = NoOne
    /\ current' = IF current = p THEN NoOne ELSE current
    /\ player' = [player EXCEPT ![p].kind = "none", ![p].at = "forget"]
    /\ UNCHANGED <<jni, global, info, stats, registry>>

TellDestroyed(p) ==
    /\ At(p, "forget")
    /\ info' = "no-player"
    /\ player' = [player EXCEPT ![p].at = "destroyed"]
    /\ UNCHANGED <<jni, global, stats, current, registry>>

PlayerStep(p) ==
    \/ LoadSetting(p) \/ StoreSetting(p) \/ RecomputeTargets(p) \/ OpenBackend(p)
    \/ Publish(p) \/ StartFails(p) \/ RegisterStats(p) \/ ReadStateName(p)
    \/ TellRealized(p) \/ Fallback(p) \/ PassthroughStart(p) \/ PassthroughFails(p)
    \/ TellRefused(p) \/ Discard(p)
    \/ JoinAckThread(p) \/ UnregisterStats(p) \/ CloseBackend(p) \/ UnsetBackend(p)
    \/ DeletePipeline(p) \/ TellDestroyed(p)

-----------------------------------------------------------------------------
(* The pipeline's own threads *)

\* A buffer is acknowledged: the eSDK has called Enqueue, so after Realize.
AckCallback(p) ==
    /\ player[p].ack = "running" /\ At(p, "realized")
    /\ player' = [player EXCEPT ![p].ack = "callback"]
    /\ UNCHANGED <<jni, global, info, stats, current, registry>>

\* Mutant of AckReturn: the loop goes on without looking at the token.
AckReturnUnchecked(p) ==
    /\ player[p].ack = "callback"
    /\ player[p].inside => At(p, "destroyed")
    /\ player' = [player EXCEPT ![p].ack = "running"]
    /\ UNCHANGED <<jni, global, info, stats, current, registry>>

\* Back from the eSDK: a dead token means *this may be gone.
AckReturn(p) ==
    /\ player[p].ack = "callback"
    /\ player[p].inside => At(p, "destroyed")
    /\ player' = [player EXCEPT ![p].ack = IF player[p].alive THEN "running" ELSE "gone"]
    /\ UNCHANGED <<jni, global, info, stats, current, registry>>

\* The loop sees stopping_, which stop() has set before it joins.
AckExit(p) ==
    /\ player[p].ack = "running" /\ At(p, "join")
    /\ player' = [player EXCEPT ![p].ack = "gone"]
    /\ UNCHANGED <<jni, global, info, stats, current, registry>>

\* onBackendDone finds backend_ set, fills a buffer and gives mu_ up ...
AudioFill(p) ==
    /\ player[p].kind = "ring" /\ player[p].open /\ player[p].audio = "idle"
    /\ player[p].started
    /\ player' = [player EXCEPT ![p].audio = "filled"]
    /\ UNCHANGED <<jni, global, info, stats, current, registry>>

\* ... then uses backend_ without it.
AudioEnqueue(p) ==
    /\ player[p].audio = "filled"
    /\ player' = [player EXCEPT ![p].audio = "idle"]
    /\ UNCHANGED <<jni, global, info, stats, current, registry>>

-----------------------------------------------------------------------------
(* CrossfadeNative.setCrossfadeMs *)

SetCrossfadeMs(j, ms) ==
    /\ jni[j].at = "idle"
    /\ global' = ms
    /\ jni' = [jni EXCEPT ![j].ms = ms, ![j].at = "lock"]
    /\ player' = [p \in Players |->
                    [player[p] EXCEPT !.overlapped = @ \/ player[p].at \in RealizeSteps]]
    /\ UNCHANGED <<info, stats, current, registry>>

JniLock(j) ==
    /\ jni[j].at = "lock" /\ registry = NoOne
    /\ registry' = j
    /\ jni' = [jni EXCEPT ![j].on = current,
                          ![j].at = IF current = NoOne THEN "unlock" ELSE "read"]
    /\ UNCHANGED <<player, global, info, stats, current>>

\* Mutant of JniRead: the caller's own value is applied.
JniKeepsArgument(j) ==
    /\ jni[j].at = "read"
    /\ jni' = [jni EXCEPT ![j].at = "apply"]
    /\ UNCHANGED <<player, global, info, stats, current, registry>>

\* The setting is read back, not taken from the argument.
JniRead(j) ==
    /\ jni[j].at = "read"
    /\ jni' = [jni EXCEPT ![j].ms = global, ![j].at = "apply"]
    /\ UNCHANGED <<player, global, info, stats, current, registry>>

\* Mutant of JniApply: the status line is not told.
JniApplyQuietly(j) ==
    LET p == jni[j].on
    IN  /\ jni[j].at = "apply"
        /\ player' = [player EXCEPT
                        ![p].setting = jni[j].ms,
                        ![p].targets = IF player[p].started THEN jni[j].ms ELSE @]
        /\ jni' = [jni EXCEPT ![j].at = "unlock"]
        /\ UNCHANGED <<global, info, stats, current, registry>>

\* RingPipeline::setCrossfadeMs: targets follow only once it is started.
JniApply(j) ==
    LET p == jni[j].on
    IN  /\ jni[j].at = "apply"
        /\ player' = [player EXCEPT
                        ![p].setting = jni[j].ms,
                        ![p].targets = IF player[p].started THEN jni[j].ms ELSE @]
        /\ jni' = [jni EXCEPT ![j].at = IF player[p].started THEN "tell" ELSE "unlock"]
        /\ UNCHANGED <<global, info, stats, current, registry>>

JniTell(j) ==
    /\ jni[j].at = "tell"
    /\ info' = StateName(player[jni[j].on].setting)
    /\ jni' = [jni EXCEPT ![j].at = "unlock"]
    /\ UNCHANGED <<player, global, stats, current, registry>>

JniUnlock(j) ==
    /\ jni[j].at = "unlock"
    /\ registry' = NoOne
    /\ jni' = [jni EXCEPT ![j].at = "idle", ![j].on = NoOne]
    /\ UNCHANGED <<player, global, info, stats, current>>

JniStep(j) == JniLock(j) \/ JniRead(j) \/ JniApply(j) \/ JniTell(j) \/ JniUnlock(j)

-----------------------------------------------------------------------------
Next ==
    \/ \E p \in Players :
          \/ Realize(p) \/ NothingMade(p) \/ BackendMissing(p)
          \/ Destroy(p) \/ DestroyInCallback(p)
          \/ PlayerStep(p)
          \/ AckCallback(p) \/ AckReturn(p) \/ AckExit(p)
          \/ AudioFill(p) \/ AudioEnqueue(p)
    \/ \E j \in Callers :
          \/ \E ms \in Settings : SetCrossfadeMs(j, ms)
          \/ JniStep(j)

Spec == Init /\ [][Next]_vars

-----------------------------------------------------------------------------
(* Safety *)

\* Whatever order players start, fail and stop in, nothing process-wide refers
\* to a pipeline that has been deleted: neither the registry, nor a Java call
\* that got its pointer from it, nor statusLine()'s source, which is moreover
\* taken off before stop() closes it (ring_pipeline.cpp:47-51, status.cpp:37-42).
NoDanglingPipeline ==
    /\ current # NoOne => player[current].kind = "ring"
    /\ stats # NoOne => player[stats].started
    /\ \A j \in Callers : jni[j].on # NoOne => player[jni[j].on].kind = "ring"

\* A completion that got past its check of backend_ still finds it set when it
\* uses it outside mu_ (ring_pipeline.cpp:565-577): stop() waits for it.
CompletionHasBackend ==
    \A p \in Players : player[p].audio = "filled" => player[p].started

\* Once the pipeline is deleted its ack thread never touches it again: it has
\* been joined, or is in the callback that destroyed it with a dead token
\* (ring_pipeline.cpp:316-331, 424-425).
AckThreadLeaves ==
    \A p \in Players :
        player[p].at \in {"forget", "destroyed"} =>
            \/ player[p].ack \in {"none", "gone"}
            \/ player[p].ack = "callback" /\ player[p].inside /\ ~player[p].alive

\* When no setting call is under way, the pipeline Java talks to runs with the
\* last setting made, however the calls overlapped each other: the value is
\* read back under the registry lock (xfade_jni.cpp:29-31).  Calls that overlap
\* its Realize are excluded (see StartedWithSetting).
SettingReachesPlayer ==
    current # NoOne /\ ~JniBusy /\ player[current].started
        /\ ~player[current].overlapped =>
            player[current].setting = global /\ player[current].targets = global

\* The status line's state is that of the pipeline Java talks to.
StatusTellsState ==
    current # NoOne /\ ~JniBusy /\ At(current, "realized")
        /\ ~player[current].overlapped =>
            info = StateName(player[current].setting)

\* test_status.cpp:28: the older player stopping takes nothing from a newer one
\* (there, its stats; status.cpp:37-38).  Its state is taken all the same.
OlderLeavesState ==
    [][\A p \in Players :
         At(p, "forget") /\ player[p].ack = "gone" /\ player'[p].at = "destroyed"
             /\ current \notin {NoOne, p} /\ At(current, "realized")
           => info' = info]_vars

\* ring_pipeline.cpp:88-90: a pipeline is published once everything that
\* implies is in place; its targets then are those of its setting.
StartedWithSetting ==
    \A p \in Players :
        player[p].started => player[p].targets = player[p].setting

-----------------------------------------------------------------------------
(* The inductive invariant behind the first three *)

Published == {"register", "name", "tell", "realized", "join", "unregister", "close", "unset"}

\* What a player has at each step of its calls
WellPlaced(r) ==
    /\ r.started => r.kind = "ring" /\ r.at \in Published /\ r.ack # "none"
    /\ r.at \in {"register", "name", "join", "unregister"} => r.started
    /\ r.at \in {"tell", "realized"} /\ r.kind = "ring" => r.started
    /\ r.at \in StartSteps \cup {"refused", "discard"} => r.kind = "ring"
    /\ r.at \in {"created", "forget", "destroyed"} => r.kind = "none"
    /\ r.at \in {"plain", "retry"} => r.kind = "passthrough"
    /\ r.at \in {"tell", "realized", "close", "unset", "delete"} => r.kind # "none"
    /\ r.at = "unset" => r.audio = "idle" /\ ~r.open
    /\ r.audio = "filled" => r.started

\* What has become of its ack thread
AckPlaced(r) ==
    /\ r.at \in {"created", "load", "store", "targets", "open", "publish",
                 "plain", "fallback", "retry", "refused", "discard"} => r.ack = "none"
    /\ r.kind = "passthrough" => r.ack = "none"
    /\ r.inside => r.at \in DestroySteps \cup {"destroyed"}
    /\ r.at = "join" /\ r.inside => r.ack = "callback"
    /\ r.at \in {"unregister", "close", "unset", "delete", "forget", "destroyed"} =>
          \/ r.ack \in {"none", "gone"}
          \/ r.ack = "callback" /\ r.inside /\ ~r.alive

Holding == {"read", "apply", "tell", "unlock"}

\* Who points to whom: a Java call only while it holds the registry, and the
\* status line until UnregisterStats.
PointersLive ==
    /\ current # NoOne => player[current].kind = "ring"
    /\ stats # NoOne => player[stats].started /\ player[stats].at \notin {"close", "unset"}
    /\ \A j \in Callers :
          /\ jni[j].at \in Holding => registry = j
          /\ jni[j].at \in Holding \ {"unlock"} => jni[j].on # NoOne
          /\ jni[j].on # NoOne =>
                jni[j].at \in Holding /\ player[jni[j].on].kind = "ring"

LifeInv ==
    /\ TypeOK
    /\ \A p \in Players : WellPlaced(player[p]) /\ AckPlaced(player[p])
    /\ PointersLive

-----------------------------------------------------------------------------
(* The inductive invariant behind SettingReachesPlayer and StatusTellsState *)

Bringing(steps) == \E j \in Callers : jni[j].at \in steps

\* The pipeline Java talks to has the last setting, or a call is bringing it.
Fresh(r) ==
    /\ r.at \in RealizeSteps => ~JniBusy
    /\ r.at = "store" => r.loaded = global
    /\ r.at = "targets" => r.setting = global
    /\ r.at \in {"open", "publish"} => r.setting = global /\ r.targets = global
    /\ r.started => /\ r.targets = r.setting
                    /\ r.setting = global \/ Bringing({"lock", "read", "apply"})

\* A value read before another call's is followed by that call's.
SettingInv ==
    /\ \A j \in Callers :
          /\ jni[j].at \in Holding \ {"unlock"} => jni[j].on = current
          /\ jni[j].at = "apply" /\ jni[j].ms # global => Bringing({"lock"})
    /\ current # NoOne /\ ~player[current].overlapped => Fresh(player[current])

\* The same of the status line, which the newest player has to itself
Told(r) ==
    /\ r.at = "tell" => r.told = StateName(r.setting)
    /\ r.at = "realized" => \/ info = StateName(r.setting)
                            \/ Bringing({"lock", "read", "apply", "tell"})

StatusInv ==
    current # NoOne /\ ~player[current].overlapped => Told(player[current])

-----------------------------------------------------------------------------
(* Liveness *)

\* A thread in the library runs on, the eSDK's callback returns, and a mutex
\* that keeps being released is obtained: Java calls come seconds apart.
Fairness ==
    /\ \A p \in Players :
          /\ SF_vars(PlayerStep(p))
          /\ WF_vars(AckReturn(p) \/ AckExit(p))
          /\ WF_vars(AudioEnqueue(p))
    /\ \A j \in Callers : SF_vars(JniStep(j))

FairSpec == Spec /\ Fairness

\* Every Realize, Destroy and setCrossfadeMs returns: no thread waits for
\* itself, and the registry, the ack thread and the completion callback are
\* not waited for in a circle.
CallsReturn ==
    /\ \A p \in Players : player[p].at \notin Idle ~> player[p].at \in Idle
    /\ \A j \in Callers : jni[j].at # "idle" ~> jni[j].at = "idle"
=============================================================================
