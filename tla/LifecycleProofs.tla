--------------------------- MODULE LifecycleProofs ---------------------------
(***************************************************************************)
(* Lifecycle keeps its invariant LifeInv, for any number of players and    *)
(* Java threads; hence nothing dangles, a completion that has passed its   *)
(* check finds the backend, and no ack thread outlives its pipeline        *)
(* unknowingly.  Moreover a setting made in Java reaches the pipeline Java *)
(* talks to; with one player, so does the status line.                     *)
(***************************************************************************)
EXTENDS Lifecycle, TLAPS

\* Nothing points anywhere at first.
LEMMA InitLifeInv == Init => LifeInv
BY NoOneAssumption, SettingsAssumption DEF Init, LifeInv, TypeOK, NewPlayer, PlayerRecord, JniRecord,
   Idle, RealizeSteps, StartSteps, DestroySteps, States, WellPlaced, AckPlaced,
   PointersLive, Published, Holding

\* The process-wide effect of a step on player p that leaves it as r: no pointer
\* is made to something that is not there, and none loses its target.
Harmless(p, r) ==
    /\ player' = [player EXCEPT ![p] = r]
    /\ UNCHANGED <<jni, global, registry>>
    /\ info' \in States
    /\ stats' \in {stats, NoOne, p}
    /\ current' \in {current, NoOne, p}
    /\ current' = p => r.kind = "ring"
    /\ stats' = p => r.started /\ r.at \notin {"close", "unset"}
    /\ registry = NoOne \/ r.kind = "ring" \/ player[p].kind # "ring"

\* Such a step keeps the invariant when r itself is well placed.
LEMMA OnePlayer ==
    ASSUME LifeInv, NEW p \in Players, NEW r \in PlayerRecord,
           WellPlaced(r), AckPlaced(r), Harmless(p, r)
    PROVE  LifeInv'
<1>1. /\ player'[p] = r
      /\ \A q \in Players \ {p} : player'[q] = player[q]
      /\ player' \in [Players -> PlayerRecord]
    BY DEF LifeInv, TypeOK, Harmless
<1>2. TypeOK'
    BY <1>1, NoOneAssumption DEF LifeInv, TypeOK, Harmless
<1>3. \A q \in Players : WellPlaced(player'[q]) /\ AckPlaced(player'[q])
    BY <1>1 DEF LifeInv
<1>4. PointersLive'
  <2>1. current' # NoOne => player'[current'].kind = "ring"
      BY <1>1, NoOneAssumption DEF LifeInv, PointersLive, TypeOK, Harmless
  <2>2. stats' # NoOne => /\ player'[stats'].started
                        /\ player'[stats'].at \notin {"close", "unset"}
      BY <1>1, NoOneAssumption DEF LifeInv, PointersLive, TypeOK, Harmless
  <2>3. ASSUME NEW j \in Callers, jni[j].on # NoOne
        PROVE  registry = j /\ player'[jni[j].on].kind = "ring"
      BY <1>1, <2>3, NoOneAssumption
      DEF LifeInv, PointersLive, TypeOK, JniRecord, Harmless
  <2> QED
      BY <2>1, <2>2, <2>3 DEF PointersLive, LifeInv, Harmless
<1> QED
    BY <1>2, <1>3, <1>4 DEF LifeInv, WellPlaced, AckPlaced

-----------------------------------------------------------------------------
(* Players *)

\* start() reads the global setting.
LEMMA LoadSettingLifeInv ==
    ASSUME LifeInv, NEW p \in Players, LoadSetting(p)
    PROVE  LifeInv'
<1> DEFINE r == [player[p] EXCEPT !.loaded = global, !.at = "store"]
<1>1. player[p] \in PlayerRecord /\ WellPlaced(player[p]) /\ AckPlaced(player[p])
    BY DEF LifeInv, TypeOK
<1>2. r \in PlayerRecord /\ WellPlaced(r) /\ AckPlaced(r)
    BY <1>1 DEF LoadSetting, At, LifeInv, TypeOK, PlayerRecord, WellPlaced, AckPlaced, Idle,
       RealizeSteps, StartSteps, DestroySteps, Published, States
<1>3. Harmless(p, r)
    BY <1>1, NoOneAssumption DEF LoadSetting, At, Harmless, LifeInv, TypeOK, PointersLive,
       LifeInv, TypeOK, PlayerRecord, WellPlaced, AckPlaced, Idle,
       RealizeSteps, StartSteps, DestroySteps, Published, States
<1> HIDE DEF r
<1> QED
    BY <1>2, <1>3, OnePlayer

\* It stores the setting.
LEMMA StoreSettingLifeInv ==
    ASSUME LifeInv, NEW p \in Players, StoreSetting(p)
    PROVE  LifeInv'
<1> DEFINE r == [player[p] EXCEPT !.setting = player[p].loaded, !.at = "targets"]
<1>1. player[p] \in PlayerRecord /\ WellPlaced(player[p]) /\ AckPlaced(player[p])
    BY DEF LifeInv, TypeOK
<1>2. r \in PlayerRecord /\ WellPlaced(r) /\ AckPlaced(r)
    BY <1>1 DEF StoreSetting, At, PlayerRecord, WellPlaced, AckPlaced, Idle,
       RealizeSteps, StartSteps, DestroySteps, Published, States
<1>3. Harmless(p, r)
    BY <1>1, NoOneAssumption DEF StoreSetting, At, Harmless, LifeInv, TypeOK, PointersLive,
       PlayerRecord, WellPlaced, AckPlaced, Idle,
       RealizeSteps, StartSteps, DestroySteps, Published, States
<1> HIDE DEF r
<1> QED
    BY <1>2, <1>3, OnePlayer

\* It computes the targets.
LEMMA RecomputeTargetsLifeInv ==
    ASSUME LifeInv, NEW p \in Players, RecomputeTargets(p)
    PROVE  LifeInv'
<1> DEFINE r == [player[p] EXCEPT !.targets = player[p].setting, !.at = "open"]
<1>1. player[p] \in PlayerRecord /\ WellPlaced(player[p]) /\ AckPlaced(player[p])
    BY DEF LifeInv, TypeOK
<1>2. r \in PlayerRecord /\ WellPlaced(r) /\ AckPlaced(r)
    BY <1>1 DEF RecomputeTargets, At, PlayerRecord, WellPlaced, AckPlaced, Idle,
       RealizeSteps, StartSteps, DestroySteps, Published, States
<1>3. Harmless(p, r)
    BY <1>1, NoOneAssumption DEF RecomputeTargets, At, Harmless, LifeInv, TypeOK, PointersLive,
       PlayerRecord, WellPlaced, AckPlaced, Idle,
       RealizeSteps, StartSteps, DestroySteps, Published, States
<1> HIDE DEF r
<1> QED
    BY <1>2, <1>3, OnePlayer

\* It opens the backend.
LEMMA OpenBackendLifeInv ==
    ASSUME LifeInv, NEW p \in Players, OpenBackend(p)
    PROVE  LifeInv'
<1> DEFINE r == [player[p] EXCEPT !.open = TRUE, !.at = "publish"]
<1>1. player[p] \in PlayerRecord /\ WellPlaced(player[p]) /\ AckPlaced(player[p])
    BY DEF LifeInv, TypeOK
<1>2. r \in PlayerRecord /\ WellPlaced(r) /\ AckPlaced(r)
    BY <1>1 DEF OpenBackend, At, PlayerRecord, WellPlaced, AckPlaced, Idle,
       RealizeSteps, StartSteps, DestroySteps, Published, States
<1>3. Harmless(p, r)
    BY <1>1, NoOneAssumption DEF OpenBackend, At, Harmless, LifeInv, TypeOK, PointersLive,
       PlayerRecord, WellPlaced, AckPlaced, Idle,
       RealizeSteps, StartSteps, DestroySteps, Published, States
<1> HIDE DEF r
<1> QED
    BY <1>2, <1>3, OnePlayer

\* The pipeline and its ack thread come to life together.
LEMMA PublishLifeInv ==
    ASSUME LifeInv, NEW p \in Players, Publish(p)
    PROVE  LifeInv'
<1> DEFINE r == [player[p] EXCEPT !.started = TRUE, !.alive = TRUE, !.ack = "running",
                               !.at = "register"]
<1>1. player[p] \in PlayerRecord /\ WellPlaced(player[p]) /\ AckPlaced(player[p])
    BY DEF LifeInv, TypeOK
<1>2. r \in PlayerRecord /\ WellPlaced(r) /\ AckPlaced(r)
    BY <1>1 DEF Publish, At, PlayerRecord, WellPlaced, AckPlaced, Idle,
       RealizeSteps, StartSteps, DestroySteps, Published, States
<1>3. Harmless(p, r)
    BY <1>1, NoOneAssumption DEF Publish, At, Harmless, LifeInv, TypeOK, PointersLive,
       PlayerRecord, WellPlaced, AckPlaced, Idle,
       RealizeSteps, StartSteps, DestroySteps, Published, States
<1> HIDE DEF r
<1> QED
    BY <1>2, <1>3, OnePlayer

\* A failed start leaves nothing open.
LEMMA StartFailsLifeInv ==
    ASSUME LifeInv, NEW p \in Players, StartFails(p)
    PROVE  LifeInv'
<1> DEFINE r == [player[p] EXCEPT !.open = FALSE, !.at = "fallback"]
<1>1. player[p] \in PlayerRecord /\ WellPlaced(player[p]) /\ AckPlaced(player[p])
    BY DEF LifeInv, TypeOK
<1>2. r \in PlayerRecord /\ WellPlaced(r) /\ AckPlaced(r)
    BY <1>1 DEF StartFails, At, PlayerRecord, WellPlaced, AckPlaced, Idle,
       RealizeSteps, StartSteps, DestroySteps, Published, States
<1>3. Harmless(p, r)
    BY <1>1, NoOneAssumption DEF StartFails, At, Harmless, LifeInv, TypeOK, PointersLive,
       PlayerRecord, WellPlaced, AckPlaced, Idle,
       RealizeSteps, StartSteps, DestroySteps, Published, States
<1> HIDE DEF r
<1> QED
    BY <1>2, <1>3, OnePlayer

\* Only a started pipeline becomes the status line's source.
LEMMA RegisterStatsLifeInv ==
    ASSUME LifeInv, NEW p \in Players, RegisterStats(p)
    PROVE  LifeInv'
<1> DEFINE r == [player[p] EXCEPT !.at = "name"]
<1>1. player[p] \in PlayerRecord /\ WellPlaced(player[p]) /\ AckPlaced(player[p])
    BY DEF LifeInv, TypeOK
<1>2. r \in PlayerRecord /\ WellPlaced(r) /\ AckPlaced(r)
    BY <1>1 DEF RegisterStats, At, PlayerRecord, WellPlaced, AckPlaced, Idle,
       RealizeSteps, StartSteps, DestroySteps, Published, States
<1>3. Harmless(p, r)
    BY <1>1, NoOneAssumption DEF RegisterStats, At, Harmless, LifeInv, TypeOK, PointersLive,
       PlayerRecord, WellPlaced, AckPlaced, Idle,
       RealizeSteps, StartSteps, DestroySteps, Published, States
<1> HIDE DEF r
<1> QED
    BY <1>2, <1>3, OnePlayer

\* Its state's name is read.
LEMMA ReadStateNameLifeInv ==
    ASSUME LifeInv, NEW p \in Players, ReadStateName(p)
    PROVE  LifeInv'
<1> DEFINE r == [player[p] EXCEPT !.told = StateName(player[p].setting), !.at = "tell"]
<1>1. player[p] \in PlayerRecord /\ WellPlaced(player[p]) /\ AckPlaced(player[p])
    BY DEF LifeInv, TypeOK
<1>2. r \in PlayerRecord /\ WellPlaced(r) /\ AckPlaced(r)
    BY <1>1 DEF ReadStateName, At, StateName, PlayerRecord, WellPlaced, AckPlaced, Idle,
       RealizeSteps, StartSteps, DestroySteps, Published, States
<1>3. Harmless(p, r)
    BY <1>1, NoOneAssumption DEF ReadStateName, At, Harmless, LifeInv, TypeOK, PointersLive,
       StateName, PlayerRecord, WellPlaced, AckPlaced, Idle,
       RealizeSteps, StartSteps, DestroySteps, Published, States
<1> HIDE DEF r
<1> QED
    BY <1>2, <1>3, OnePlayer

\* Realize returns.
LEMMA TellRealizedLifeInv ==
    ASSUME LifeInv, NEW p \in Players, TellRealized(p)
    PROVE  LifeInv'
<1> DEFINE r == [player[p] EXCEPT !.at = "realized"]
<1>1. player[p] \in PlayerRecord /\ WellPlaced(player[p]) /\ AckPlaced(player[p])
    BY DEF LifeInv, TypeOK
<1>2. r \in PlayerRecord /\ WellPlaced(r) /\ AckPlaced(r)
    BY <1>1 DEF TellRealized, At, PlayerRecord, WellPlaced, AckPlaced, Idle,
       RealizeSteps, StartSteps, DestroySteps, Published, States
<1>3. Harmless(p, r)
    BY <1>1, NoOneAssumption DEF TellRealized, At, Harmless, LifeInv, TypeOK, PointersLive,
       PlayerRecord, WellPlaced, AckPlaced, Idle,
       RealizeSteps, StartSteps, DestroySteps, Published, States
<1> HIDE DEF r
<1> QED
    BY <1>2, <1>3, OnePlayer

\* A failed pipeline has left the registry when it is gone, and no Java call holds it.
LEMMA FallbackLifeInv ==
    ASSUME LifeInv, NEW p \in Players, Fallback(p)
    PROVE  LifeInv'
<1> DEFINE r == [player[p] EXCEPT !.kind = "passthrough", !.at = "retry"]
<1>1. player[p] \in PlayerRecord /\ WellPlaced(player[p]) /\ AckPlaced(player[p])
    BY DEF LifeInv, TypeOK
<1>2. r \in PlayerRecord /\ WellPlaced(r) /\ AckPlaced(r)
    BY <1>1 DEF Fallback, At, PlayerRecord, WellPlaced, AckPlaced, Idle,
       RealizeSteps, StartSteps, DestroySteps, Published, States
<1>3. Harmless(p, r)
    BY <1>1, NoOneAssumption DEF Fallback, At, Harmless, LifeInv, TypeOK, PointersLive,
       PlayerRecord, WellPlaced, AckPlaced, Idle,
       RealizeSteps, StartSteps, DestroySteps, Published, States
<1> HIDE DEF r
<1> QED
    BY <1>2, <1>3, OnePlayer

\* A passthrough pipeline starts.
LEMMA PassthroughStartLifeInv ==
    ASSUME LifeInv, NEW p \in Players, PassthroughStart(p)
    PROVE  LifeInv'
<1> DEFINE r == [player[p] EXCEPT !.open = TRUE, !.told = "passthrough", !.at = "tell"]
<1>1. player[p] \in PlayerRecord /\ WellPlaced(player[p]) /\ AckPlaced(player[p])
    BY DEF LifeInv, TypeOK
<1>2. r \in PlayerRecord /\ WellPlaced(r) /\ AckPlaced(r)
    BY <1>1 DEF PassthroughStart, At, PlayerRecord, WellPlaced, AckPlaced, Idle,
       RealizeSteps, StartSteps, DestroySteps, Published, States
<1>3. Harmless(p, r)
    BY <1>1, NoOneAssumption DEF PassthroughStart, At, Harmless, LifeInv, TypeOK, PointersLive,
       PlayerRecord, WellPlaced, AckPlaced, Idle,
       RealizeSteps, StartSteps, DestroySteps, Published, States
<1> HIDE DEF r
<1> QED
    BY <1>2, <1>3, OnePlayer

\* Realize makes a pipeline of either kind.
LEMMA RealizeLifeInv ==
    ASSUME LifeInv, NEW p \in Players, Realize(p)
    PROVE  LifeInv'
<1> DEFINE ring == [player[p] EXCEPT !.kind = "ring", !.at = "load",
                                  !.overlapped = JniBusy]
           plain == [player[p] EXCEPT !.kind = "passthrough", !.at = "plain"]
<1>1. player[p] \in PlayerRecord /\ WellPlaced(player[p]) /\ AckPlaced(player[p])
    BY DEF LifeInv, TypeOK
<1>2. At(p, "created")
    BY DEF Realize
<1>3. JniBusy \in BOOLEAN
    BY DEF JniBusy
<1>4. /\ ring \in PlayerRecord /\ WellPlaced(ring) /\ AckPlaced(ring)
      /\ plain \in PlayerRecord /\ WellPlaced(plain) /\ AckPlaced(plain)
    BY <1>1, <1>2, <1>3 DEF At, PlayerRecord, WellPlaced, AckPlaced, Idle,
       RealizeSteps, StartSteps, DestroySteps, Published, States
<1>5. Harmless(p, ring) \/ Harmless(p, plain)
    BY <1>1, NoOneAssumption DEF Realize, At, Harmless, LifeInv, TypeOK, PointersLive,
       PlayerRecord, WellPlaced, AckPlaced, Idle,
       RealizeSteps, StartSteps, DestroySteps, Published, States
<1> HIDE DEF ring, plain
<1> QED
    BY <1>4, <1>5, OnePlayer

\* A factory that returns null leaves the player as it was.
LEMMA NothingMadeLifeInv ==
    ASSUME LifeInv, NEW p \in Players, NothingMade(p)
    PROVE  LifeInv'
<1>1. player[p] \in PlayerRecord /\ WellPlaced(player[p]) /\ AckPlaced(player[p])
    BY DEF LifeInv, TypeOK
<1>2. Harmless(p, player[p])
    BY <1>1, NoOneAssumption
    DEF NothingMade, At, Harmless, LifeInv, TypeOK, PointersLive, States
<1> QED
    BY <1>1, <1>2, OnePlayer

\* Without a backend a ring pipeline is made all the same.
LEMMA BackendMissingLifeInv ==
    ASSUME LifeInv, NEW p \in Players, BackendMissing(p)
    PROVE  LifeInv'
<1> DEFINE ring == [player[p] EXCEPT !.kind = "ring", !.at = "refused",
                                  !.overlapped = JniBusy]
<1>1. player[p] \in PlayerRecord /\ WellPlaced(player[p]) /\ AckPlaced(player[p])
    BY DEF LifeInv, TypeOK
<1>2. At(p, "created") /\ JniBusy \in BOOLEAN
    BY DEF BackendMissing, JniBusy
<1>3. ring \in PlayerRecord /\ WellPlaced(ring) /\ AckPlaced(ring)
    BY <1>1, <1>2 DEF At, PlayerRecord, WellPlaced, AckPlaced, Idle,
       RealizeSteps, StartSteps, DestroySteps, Published, States
<1>4. Harmless(p, ring)
    BY <1>1, NoOneAssumption DEF BackendMissing, At, Harmless, LifeInv, TypeOK, PointersLive,
       PlayerRecord, WellPlaced, AckPlaced, Idle,
       RealizeSteps, StartSteps, DestroySteps, Published, States
<1> HIDE DEF ring
<1> QED
    BY <1>3, <1>4, OnePlayer

\* The status line says that there is no player.
LEMMA TellRefusedLifeInv ==
    ASSUME LifeInv, NEW p \in Players, TellRefused(p)
    PROVE  LifeInv'
<1> DEFINE r == [player[p] EXCEPT !.at = "discard"]
<1>1. player[p] \in PlayerRecord /\ WellPlaced(player[p]) /\ AckPlaced(player[p])
    BY DEF LifeInv, TypeOK
<1>2. r \in PlayerRecord /\ WellPlaced(r) /\ AckPlaced(r)
    BY <1>1 DEF TellRefused, At, PlayerRecord, WellPlaced, AckPlaced, Idle,
       RealizeSteps, StartSteps, DestroySteps, Published, States
<1>3. Harmless(p, r)
    BY <1>1, NoOneAssumption DEF TellRefused, At, Harmless, LifeInv, TypeOK, PointersLive,
       PlayerRecord, WellPlaced, AckPlaced, Idle,
       RealizeSteps, StartSteps, DestroySteps, Published, States
<1> HIDE DEF r
<1> QED
    BY <1>2, <1>3, OnePlayer

\* What was made is deleted, and no Java call holds it.
LEMMA DiscardLifeInv ==
    ASSUME LifeInv, NEW p \in Players, Discard(p)
    PROVE  LifeInv'
<1> DEFINE r == [player[p] EXCEPT !.kind = "none", !.at = "created"]
<1>1. player[p] \in PlayerRecord /\ WellPlaced(player[p]) /\ AckPlaced(player[p])
    BY DEF LifeInv, TypeOK
<1>2. r \in PlayerRecord /\ WellPlaced(r) /\ AckPlaced(r)
    BY <1>1 DEF Discard, At, PlayerRecord, WellPlaced, AckPlaced, Idle,
       RealizeSteps, StartSteps, DestroySteps, Published, States
<1>3. Harmless(p, r)
    BY <1>1, NoOneAssumption DEF Discard, At, Harmless, LifeInv, TypeOK, PointersLive,
       PlayerRecord, WellPlaced, AckPlaced, Idle,
       RealizeSteps, StartSteps, DestroySteps, Published, States
<1> HIDE DEF r
<1> QED
    BY <1>2, <1>3, OnePlayer

\* A passthrough start that fails is tried once more, then given up.
LEMMA PassthroughFailsLifeInv ==
    ASSUME LifeInv, NEW p \in Players, PassthroughFails(p)
    PROVE  LifeInv'
<1> DEFINE again == [player[p] EXCEPT !.at = "fallback"]
           none == [player[p] EXCEPT !.kind = "none", !.at = "created"]
<1>1. player[p] \in PlayerRecord /\ WellPlaced(player[p]) /\ AckPlaced(player[p])
    BY DEF LifeInv, TypeOK
<1>2. CASE At(p, "plain")
  <2>1. again \in PlayerRecord /\ WellPlaced(again) /\ AckPlaced(again)
      BY <1>1, <1>2 DEF At, PlayerRecord, WellPlaced, AckPlaced, Idle,
       RealizeSteps, StartSteps, DestroySteps, Published, States
  <2>2. Harmless(p, again)
      BY <1>1, <1>2, NoOneAssumption DEF PassthroughFails, At, Harmless, LifeInv,
         TypeOK, PointersLive, PlayerRecord, WellPlaced, AckPlaced, Idle,
       RealizeSteps, StartSteps, DestroySteps, Published, States
  <2> HIDE DEF again
  <2> QED
      BY <2>1, <2>2, OnePlayer
<1>3. CASE At(p, "retry")
  <2>1. none \in PlayerRecord /\ WellPlaced(none) /\ AckPlaced(none)
      BY <1>1, <1>3 DEF At, PlayerRecord, WellPlaced, AckPlaced, Idle,
       RealizeSteps, StartSteps, DestroySteps, Published, States
  <2>2. Harmless(p, none)
      BY <1>1, <1>3, NoOneAssumption DEF PassthroughFails, At, Harmless, LifeInv,
         TypeOK, PointersLive, PlayerRecord, WellPlaced, AckPlaced, Idle,
       RealizeSteps, StartSteps, DestroySteps, Published, States
  <2> HIDE DEF none
  <2> QED
      BY <2>1, <2>2, OnePlayer
<1> QED
    BY <1>2, <1>3 DEF PassthroughFails

\* Destroy from outside begins where the pipeline's kind says.
LEMMA DestroyLifeInv ==
    ASSUME LifeInv, NEW p \in Players, Destroy(p)
    PROVE  LifeInv'
<1> DEFINE r == [player[p] EXCEPT !.at = FirstDestroyStep(p)]
<1>1. player[p] \in PlayerRecord /\ WellPlaced(player[p]) /\ AckPlaced(player[p])
    BY DEF LifeInv, TypeOK
<1>2. r \in PlayerRecord /\ WellPlaced(r) /\ AckPlaced(r)
    BY <1>1 DEF Destroy, At, FirstDestroyStep, PlayerRecord, WellPlaced, AckPlaced, Idle,
       RealizeSteps, StartSteps, DestroySteps, Published, States
<1>3. Harmless(p, r)
    BY <1>1, NoOneAssumption DEF Destroy, At, Harmless, LifeInv, TypeOK, PointersLive,
       FirstDestroyStep, PlayerRecord, WellPlaced, AckPlaced, Idle,
       RealizeSteps, StartSteps, DestroySteps, Published, States
<1> HIDE DEF r
<1> QED
    BY <1>2, <1>3, OnePlayer

\* So it does inside a callback, where the pipeline is a started ring.
LEMMA DestroyInCallbackLifeInv ==
    ASSUME LifeInv, NEW p \in Players, DestroyInCallback(p)
    PROVE  LifeInv'
<1> DEFINE r == [player[p] EXCEPT !.inside = TRUE, !.at = "join"]
<1>1. player[p] \in PlayerRecord /\ WellPlaced(player[p]) /\ AckPlaced(player[p])
    BY DEF LifeInv, TypeOK
<1>2. r \in PlayerRecord /\ WellPlaced(r) /\ AckPlaced(r)
    BY <1>1 DEF DestroyInCallback, At, PlayerRecord, WellPlaced, AckPlaced, Idle,
       RealizeSteps, StartSteps, DestroySteps, Published, States
<1>3. Harmless(p, r)
    BY <1>1, NoOneAssumption DEF DestroyInCallback, At, Harmless, LifeInv, TypeOK, PointersLive,
       PlayerRecord, WellPlaced, AckPlaced, Idle,
       RealizeSteps, StartSteps, DestroySteps, Published, States
<1> HIDE DEF r
<1> QED
    BY <1>2, <1>3, OnePlayer

\* After the join the ack thread is gone, or about to find its token dead.
LEMMA JoinAckThreadLifeInv ==
    ASSUME LifeInv, NEW p \in Players, JoinAckThread(p)
    PROVE  LifeInv'
<1> DEFINE r == [player[p] EXCEPT !.alive = @ /\ ~player[p].inside, !.at = "unregister"]
<1>1. player[p] \in PlayerRecord /\ WellPlaced(player[p]) /\ AckPlaced(player[p])
    BY DEF LifeInv, TypeOK
<1>2. r \in PlayerRecord /\ WellPlaced(r) /\ AckPlaced(r)
    BY <1>1 DEF JoinAckThread, At, PlayerRecord, WellPlaced, AckPlaced, Idle,
       RealizeSteps, StartSteps, DestroySteps, Published, States
<1>3. Harmless(p, r)
    BY <1>1, NoOneAssumption DEF JoinAckThread, At, Harmless, LifeInv, TypeOK, PointersLive,
       PlayerRecord, WellPlaced, AckPlaced, Idle,
       RealizeSteps, StartSteps, DestroySteps, Published, States
<1> HIDE DEF r
<1> QED
    BY <1>2, <1>3, OnePlayer

\* The status line lets go of the pipeline before it is closed.
LEMMA UnregisterStatsLifeInv ==
    ASSUME LifeInv, NEW p \in Players, UnregisterStats(p)
    PROVE  LifeInv'
<1> DEFINE r == [player[p] EXCEPT !.alive = FALSE, !.at = "close"]
<1>1. player[p] \in PlayerRecord /\ WellPlaced(player[p]) /\ AckPlaced(player[p])
    BY DEF LifeInv, TypeOK
<1>2. r \in PlayerRecord /\ WellPlaced(r) /\ AckPlaced(r)
    BY <1>1, ZenonT(30) DEF UnregisterStats, At, PlayerRecord, WellPlaced, AckPlaced, Idle,
       RealizeSteps, StartSteps, DestroySteps, Published, States
<1>3. Harmless(p, r)
    BY <1>1, NoOneAssumption DEF UnregisterStats, At, Harmless, LifeInv, TypeOK, PointersLive,
       PlayerRecord, WellPlaced, AckPlaced, Idle,
       RealizeSteps, StartSteps, DestroySteps, Published, States
<1> HIDE DEF r
<1> QED
    BY <1>2, <1>3, OnePlayer

\* close() waited for the completion callback.
LEMMA CloseBackendLifeInv ==
    ASSUME LifeInv, NEW p \in Players, CloseBackend(p)
    PROVE  LifeInv'
<1> DEFINE r == [player[p] EXCEPT !.open = FALSE, !.at = "unset"]
<1>1. player[p] \in PlayerRecord /\ WellPlaced(player[p]) /\ AckPlaced(player[p])
    BY DEF LifeInv, TypeOK
<1>2. r \in PlayerRecord /\ WellPlaced(r) /\ AckPlaced(r)
    BY <1>1 DEF CloseBackend, At, PlayerRecord, WellPlaced, AckPlaced, Idle,
       RealizeSteps, StartSteps, DestroySteps, Published, States
<1>3. Harmless(p, r)
    BY <1>1, NoOneAssumption DEF CloseBackend, At, Harmless, LifeInv, TypeOK, PointersLive,
       PlayerRecord, WellPlaced, AckPlaced, Idle,
       RealizeSteps, StartSteps, DestroySteps, Published, States
<1> HIDE DEF r
<1> QED
    BY <1>2, <1>3, OnePlayer

\* No completion is under way when backend_ goes.
LEMMA UnsetBackendLifeInv ==
    ASSUME LifeInv, NEW p \in Players, UnsetBackend(p)
    PROVE  LifeInv'
<1> DEFINE r == [player[p] EXCEPT !.started = FALSE, !.at = "delete"]
<1>1. player[p] \in PlayerRecord /\ WellPlaced(player[p]) /\ AckPlaced(player[p])
    BY DEF LifeInv, TypeOK
<1>2. r \in PlayerRecord /\ WellPlaced(r) /\ AckPlaced(r)
    BY <1>1 DEF UnsetBackend, At, PlayerRecord, WellPlaced, AckPlaced, Idle,
       RealizeSteps, StartSteps, DestroySteps, Published, States
<1>3. Harmless(p, r)
    BY <1>1, NoOneAssumption DEF UnsetBackend, At, Harmless, LifeInv, TypeOK, PointersLive,
       PlayerRecord, WellPlaced, AckPlaced, Idle,
       RealizeSteps, StartSteps, DestroySteps, Published, States
<1> HIDE DEF r
<1> QED
    BY <1>2, <1>3, OnePlayer

\* The registry lets go of the pipeline, and no Java call holds it.
LEMMA DeletePipelineLifeInv ==
    ASSUME LifeInv, NEW p \in Players, DeletePipeline(p)
    PROVE  LifeInv'
<1> DEFINE r == [player[p] EXCEPT !.kind = "none", !.at = "forget"]
<1>1. player[p] \in PlayerRecord /\ WellPlaced(player[p]) /\ AckPlaced(player[p])
    BY DEF LifeInv, TypeOK
<1>2. r \in PlayerRecord /\ WellPlaced(r) /\ AckPlaced(r)
    BY <1>1 DEF DeletePipeline, At, PlayerRecord, WellPlaced, AckPlaced, Idle,
       RealizeSteps, StartSteps, DestroySteps, Published, States
<1>3. Harmless(p, r)
    BY <1>1, NoOneAssumption DEF DeletePipeline, At, Harmless, LifeInv, TypeOK, PointersLive,
       PlayerRecord, WellPlaced, AckPlaced, Idle,
       RealizeSteps, StartSteps, DestroySteps, Published, States
<1> HIDE DEF r
<1> QED
    BY <1>2, <1>3, OnePlayer

\* Destroy returns.
LEMMA TellDestroyedLifeInv ==
    ASSUME LifeInv, NEW p \in Players, TellDestroyed(p)
    PROVE  LifeInv'
<1> DEFINE r == [player[p] EXCEPT !.at = "destroyed"]
<1>1. player[p] \in PlayerRecord /\ WellPlaced(player[p]) /\ AckPlaced(player[p])
    BY DEF LifeInv, TypeOK
<1>2. r \in PlayerRecord /\ WellPlaced(r) /\ AckPlaced(r)
    BY <1>1 DEF TellDestroyed, At, PlayerRecord, WellPlaced, AckPlaced, Idle,
       RealizeSteps, StartSteps, DestroySteps, Published, States
<1>3. Harmless(p, r)
    BY <1>1, NoOneAssumption DEF TellDestroyed, At, Harmless, LifeInv, TypeOK, PointersLive,
       PlayerRecord, WellPlaced, AckPlaced, Idle,
       RealizeSteps, StartSteps, DestroySteps, Published, States
<1> HIDE DEF r
<1> QED
    BY <1>2, <1>3, OnePlayer

\* The ack thread calls the eSDK.
LEMMA AckCallbackLifeInv ==
    ASSUME LifeInv, NEW p \in Players, AckCallback(p)
    PROVE  LifeInv'
<1> DEFINE r == [player[p] EXCEPT !.ack = "callback"]
<1>1. player[p] \in PlayerRecord /\ WellPlaced(player[p]) /\ AckPlaced(player[p])
    BY DEF LifeInv, TypeOK
<1>2. r \in PlayerRecord /\ WellPlaced(r) /\ AckPlaced(r)
    BY <1>1 DEF AckCallback, At, PlayerRecord, WellPlaced, AckPlaced, Idle,
       RealizeSteps, StartSteps, DestroySteps, Published, States
<1>3. Harmless(p, r)
    BY <1>1, NoOneAssumption DEF AckCallback, At, Harmless, LifeInv, TypeOK, PointersLive,
       PlayerRecord, WellPlaced, AckPlaced, Idle,
       RealizeSteps, StartSteps, DestroySteps, Published, States
<1> HIDE DEF r
<1> QED
    BY <1>2, <1>3, OnePlayer

\* Back from it, it obeys the token.
LEMMA AckReturnLifeInv ==
    ASSUME LifeInv, NEW p \in Players, AckReturn(p)
    PROVE  LifeInv'
<1> DEFINE r == [player[p] EXCEPT !.ack = IF player[p].alive THEN "running" ELSE "gone"]
<1>1. player[p] \in PlayerRecord /\ WellPlaced(player[p]) /\ AckPlaced(player[p])
    BY DEF LifeInv, TypeOK
<1>2. r \in PlayerRecord /\ WellPlaced(r) /\ AckPlaced(r)
    BY <1>1 DEF AckReturn, At, PlayerRecord, WellPlaced, AckPlaced, Idle,
       RealizeSteps, StartSteps, DestroySteps, Published, States
<1>3. Harmless(p, r)
    BY <1>1, NoOneAssumption DEF AckReturn, At, Harmless, LifeInv, TypeOK, PointersLive,
       PlayerRecord, WellPlaced, AckPlaced, Idle,
       RealizeSteps, StartSteps, DestroySteps, Published, States
<1> HIDE DEF r
<1> QED
    BY <1>2, <1>3, OnePlayer

\* It leaves when it sees stopping_.
LEMMA AckExitLifeInv ==
    ASSUME LifeInv, NEW p \in Players, AckExit(p)
    PROVE  LifeInv'
<1> DEFINE r == [player[p] EXCEPT !.ack = "gone"]
<1>1. player[p] \in PlayerRecord /\ WellPlaced(player[p]) /\ AckPlaced(player[p])
    BY DEF LifeInv, TypeOK
<1>2. r \in PlayerRecord /\ WellPlaced(r) /\ AckPlaced(r)
    BY <1>1 DEF AckExit, At, PlayerRecord, WellPlaced, AckPlaced, Idle,
       RealizeSteps, StartSteps, DestroySteps, Published, States
<1>3. Harmless(p, r)
    BY <1>1, NoOneAssumption DEF AckExit, At, Harmless, LifeInv, TypeOK, PointersLive,
       PlayerRecord, WellPlaced, AckPlaced, Idle,
       RealizeSteps, StartSteps, DestroySteps, Published, States
<1> HIDE DEF r
<1> QED
    BY <1>2, <1>3, OnePlayer

\* A completion gets past its check of backend_.
LEMMA AudioFillLifeInv ==
    ASSUME LifeInv, NEW p \in Players, AudioFill(p)
    PROVE  LifeInv'
<1> DEFINE r == [player[p] EXCEPT !.audio = "filled"]
<1>1. player[p] \in PlayerRecord /\ WellPlaced(player[p]) /\ AckPlaced(player[p])
    BY DEF LifeInv, TypeOK
<1>2. r \in PlayerRecord /\ WellPlaced(r) /\ AckPlaced(r)
    BY <1>1 DEF AudioFill, At, PlayerRecord, WellPlaced, AckPlaced, Idle,
       RealizeSteps, StartSteps, DestroySteps, Published, States
<1>3. Harmless(p, r)
    BY <1>1, NoOneAssumption DEF AudioFill, At, Harmless, LifeInv, TypeOK, PointersLive,
       PlayerRecord, WellPlaced, AckPlaced, Idle,
       RealizeSteps, StartSteps, DestroySteps, Published, States
<1> HIDE DEF r
<1> QED
    BY <1>2, <1>3, OnePlayer

\* It is over.
LEMMA AudioEnqueueLifeInv ==
    ASSUME LifeInv, NEW p \in Players, AudioEnqueue(p)
    PROVE  LifeInv'
<1> DEFINE r == [player[p] EXCEPT !.audio = "idle"]
<1>1. player[p] \in PlayerRecord /\ WellPlaced(player[p]) /\ AckPlaced(player[p])
    BY DEF LifeInv, TypeOK
<1>2. r \in PlayerRecord /\ WellPlaced(r) /\ AckPlaced(r)
    BY <1>1 DEF AudioEnqueue, At, PlayerRecord, WellPlaced, AckPlaced, Idle,
       RealizeSteps, StartSteps, DestroySteps, Published, States
<1>3. Harmless(p, r)
    BY <1>1, NoOneAssumption DEF AudioEnqueue, At, Harmless, LifeInv, TypeOK, PointersLive,
       PlayerRecord, WellPlaced, AckPlaced, Idle,
       RealizeSteps, StartSteps, DestroySteps, Published, States
<1> HIDE DEF r
<1> QED
    BY <1>2, <1>3, OnePlayer

-----------------------------------------------------------------------------
(* Java *)

\* Marking the players whose Realize a setting call overlaps changes no pointer.
LEMMA SetCrossfadeMsLifeInv ==
    ASSUME LifeInv, NEW j \in Callers, NEW ms \in Settings, SetCrossfadeMs(j, ms)
    PROVE  LifeInv'
<1>1. ASSUME NEW p \in Players
      PROVE  /\ player'[p] \in PlayerRecord
             /\ WellPlaced(player'[p]) /\ AckPlaced(player'[p])
             /\ player'[p].kind = player[p].kind
             /\ player'[p].started = player[p].started
             /\ player'[p].at = player[p].at
  <2> DEFINE o == player[p].overlapped \/ player[p].at \in RealizeSteps
             r == [player[p] EXCEPT !.overlapped = o]
  <2>1. player'[p] = r
      BY DEF SetCrossfadeMs
  <2>2. player[p] \in PlayerRecord /\ WellPlaced(player[p]) /\ AckPlaced(player[p])
      BY DEF LifeInv, TypeOK
  <2>3. o \in BOOLEAN
      BY <2>2 DEF PlayerRecord
  <2> HIDE DEF o
  <2>4. /\ r \in PlayerRecord /\ WellPlaced(r) /\ AckPlaced(r)
        /\ r.kind = player[p].kind /\ r.started = player[p].started
        /\ r.at = player[p].at
      BY <2>2, <2>3 DEF PlayerRecord, WellPlaced, AckPlaced
  <2> QED
      BY <2>1, <2>4
<1>2. /\ jni' \in [Callers -> JniRecord]
      /\ jni[j].at = "idle" /\ jni'[j].at = "lock" /\ jni'[j].on = jni[j].on
      /\ \A k \in Callers \ {j} : jni'[k] = jni[k]
      /\ DOMAIN player' = Players /\ player' = [q \in Players |-> player'[q]]
    BY DEF SetCrossfadeMs, LifeInv, TypeOK, JniRecord
<1>3. UNCHANGED <<info, stats, current, registry>> /\ global' \in Settings
    BY DEF SetCrossfadeMs, LifeInv, TypeOK
<1>4. TypeOK'
    BY <1>1, <1>2, <1>3 DEF LifeInv, TypeOK
<1>5. jni[j].on = NoOne
    BY <1>2 DEF LifeInv, PointersLive, Holding
<1>6. \A k \in Callers : jni[k].on \in Players \cup {NoOne}
    BY DEF LifeInv, TypeOK, JniRecord
<1>7. PointersLive'
    BY <1>1, <1>2, <1>3, <1>5, <1>6 DEF LifeInv, TypeOK, PointersLive, Holding
<1> QED
    BY <1>1, <1>4, <1>7 DEF LifeInv

\* A Java call gets its pointer with the registry, and gives it up with it.
LEMMA JniLockLifeInv ==
    ASSUME LifeInv, NEW j \in Callers, JniLock(j) \/ JniRead(j) \/ JniUnlock(j)
    PROVE  LifeInv'
<1>1. UNCHANGED <<player, global, info, stats, current>>
    BY DEF JniLock, JniRead, JniUnlock
<1>2. jni' \in [Callers -> JniRecord] /\ registry' \in Callers \cup {NoOne}
    BY DEF JniLock, JniRead, JniUnlock, LifeInv, TypeOK, JniRecord
<1>3. ASSUME NEW k \in Callers
      PROVE  /\ jni'[k].at \in Holding => registry' = k
             /\ jni'[k].at \in Holding \ {"unlock"} => jni'[k].on # NoOne
             /\ jni'[k].on # NoOne =>
                   jni'[k].at \in Holding /\ player[jni'[k].on].kind = "ring"
  <2>1. CASE JniLock(j)
      BY <2>1, NoOneAssumption DEF JniLock, LifeInv, TypeOK, JniRecord, PointersLive,
         Holding
  <2>2. CASE JniRead(j)
      BY <2>2, NoOneAssumption DEF JniRead, LifeInv, TypeOK, JniRecord, PointersLive,
         Holding
  <2>3. CASE JniUnlock(j)
      BY <2>3, NoOneAssumption DEF JniUnlock, LifeInv, TypeOK, JniRecord, PointersLive,
         Holding
  <2> QED
      BY <2>1, <2>2, <2>3
<1>4. TypeOK'
    BY <1>1, <1>2 DEF LifeInv, TypeOK
<1>5. PointersLive'
    BY <1>1, <1>3 DEF LifeInv, PointersLive
<1> QED
    BY <1>1, <1>4, <1>5 DEF LifeInv

\* What it applies leaves its player well placed.
LEMMA JniApplyLifeInv ==
    ASSUME LifeInv, NEW j \in Callers, JniApply(j)
    PROVE  LifeInv'
<1> DEFINE p == jni[j].on
           r == [player[p] EXCEPT
                   !.setting = jni[j].ms,
                   !.targets = IF player[p].started THEN jni[j].ms ELSE @]
<1>1. p \in Players /\ jni[j].ms \in Settings
    BY DEF JniApply, LifeInv, TypeOK, JniRecord, PointersLive, Holding
<1>2. player[p] \in PlayerRecord /\ WellPlaced(player[p]) /\ AckPlaced(player[p])
    BY <1>1 DEF LifeInv, TypeOK
<1>3. /\ r \in PlayerRecord /\ WellPlaced(r) /\ AckPlaced(r)
      /\ r.kind = player[p].kind /\ r.started = player[p].started
      /\ r.at = player[p].at
    BY <1>1, <1>2, ZenonT(30) DEF PlayerRecord, WellPlaced, AckPlaced
<1>4. player' = [player EXCEPT ![p] = r]
    BY DEF JniApply
<1>5. /\ jni' \in [Callers -> JniRecord]
      /\ \A k \in Callers : jni'[k].on = jni[k].on
      /\ \A k \in Callers \ {j} : jni'[k].at = jni[k].at
      /\ jni'[j].at \in {"tell", "unlock"}
    BY DEF JniApply, LifeInv, TypeOK, JniRecord
<1>6. UNCHANGED <<global, info, stats, current, registry>> /\ jni[j].at = "apply"
    BY DEF JniApply
<1> HIDE DEF p, r
<1>7. TypeOK'
    BY <1>1, <1>3, <1>4, <1>5, <1>6 DEF LifeInv, TypeOK
<1>8. \A q \in Players : WellPlaced(player'[q]) /\ AckPlaced(player'[q])
    BY <1>3, <1>4 DEF LifeInv, TypeOK
<1>9. \A q \in Players : /\ player'[q].kind = player[q].kind
                         /\ player'[q].started = player[q].started
                         /\ player'[q].at = player[q].at
    BY <1>3, <1>4 DEF LifeInv, TypeOK
<1>10. \A k \in Callers : jni[k].on \in Players \cup {NoOne}
    BY DEF LifeInv, TypeOK, JniRecord
<1>11. PointersLive'
    BY <1>5, <1>6, <1>9, <1>10 DEF LifeInv, TypeOK, PointersLive, Holding
<1> QED
    BY <1>7, <1>8, <1>11 DEF LifeInv

\* Telling the state moves no pointer.
LEMMA JniTellLifeInv ==
    ASSUME LifeInv, NEW j \in Callers, JniTell(j)
    PROVE  LifeInv'
<1>1. UNCHANGED <<player, global, stats, current, registry>> /\ info' \in States
    BY DEF JniTell, StateName, States
<1>2. /\ jni' \in [Callers -> JniRecord]
      /\ \A k \in Callers : jni'[k].on = jni[k].on
      /\ \A k \in Callers \ {j} : jni'[k].at = jni[k].at
      /\ jni[j].at = "tell" /\ jni'[j].at = "unlock"
    BY DEF JniTell, LifeInv, TypeOK, JniRecord
<1>3. TypeOK'
    BY <1>1, <1>2 DEF LifeInv, TypeOK
<1>4. PointersLive'
    BY <1>1, <1>2 DEF LifeInv, PointersLive, Holding
<1> QED
    BY <1>1, <1>3, <1>4 DEF LifeInv

-----------------------------------------------------------------------------
(* The invariant *)

\* Every step keeps the invariant.
LEMMA StepLifeInv == LifeInv /\ [Next]_vars => LifeInv'
<1> SUFFICES ASSUME LifeInv, [Next]_vars
             PROVE  LifeInv'
    OBVIOUS
<1>1. CASE UNCHANGED vars
    BY <1>1 DEF vars, LifeInv, TypeOK, PointersLive
<1>2. ASSUME NEW p \in Players,
             \/ Realize(p) \/ NothingMade(p) \/ BackendMissing(p)
             \/ Destroy(p) \/ DestroyInCallback(p)
      PROVE  LifeInv'
    BY <1>2, RealizeLifeInv, NothingMadeLifeInv, BackendMissingLifeInv, DestroyLifeInv,
       DestroyInCallbackLifeInv
<1>3. ASSUME NEW p \in Players, PlayerStep(p)
      PROVE  LifeInv'
    BY <1>3, LoadSettingLifeInv, StoreSettingLifeInv, RecomputeTargetsLifeInv,
       OpenBackendLifeInv, PublishLifeInv, StartFailsLifeInv, RegisterStatsLifeInv,
       ReadStateNameLifeInv, TellRealizedLifeInv, FallbackLifeInv,
       PassthroughStartLifeInv, PassthroughFailsLifeInv, JoinAckThreadLifeInv,
       UnregisterStatsLifeInv, CloseBackendLifeInv, UnsetBackendLifeInv,
       DeletePipelineLifeInv, TellDestroyedLifeInv, TellRefusedLifeInv, DiscardLifeInv DEF PlayerStep
<1>4. ASSUME NEW p \in Players,
             \/ AckCallback(p) \/ AckReturn(p) \/ AckExit(p)
             \/ AudioFill(p) \/ AudioEnqueue(p)
      PROVE  LifeInv'
    BY <1>4, AckCallbackLifeInv, AckReturnLifeInv, AckExitLifeInv, AudioFillLifeInv,
       AudioEnqueueLifeInv
<1>5. ASSUME NEW j \in Callers, JniStep(j) \/ \E ms \in Settings : SetCrossfadeMs(j, ms)
      PROVE  LifeInv'
    BY <1>5, SetCrossfadeMsLifeInv, JniLockLifeInv, JniApplyLifeInv, JniTellLifeInv
    DEF JniStep
<1> QED
    BY <1>1, <1>2, <1>3, <1>4, <1>5 DEF Next

\* In every reachable state each player has what its place in its calls says,
\* and every pointer's target is there.
THEOREM LifeInvariance == Spec => []LifeInv
<1> QED
    BY InitLifeInv, StepLifeInv, PTL DEF Spec

\* No registry entry, Java call or status source ever refers to a pipeline that
\* has been deleted, for any number of players and Java threads.
THEOREM NothingDangles == Spec => []NoDanglingPipeline
<1>1. LifeInv => NoDanglingPipeline
    BY DEF LifeInv, PointersLive, NoDanglingPipeline
<1> QED
    BY <1>1, LifeInvariance, PTL

\* A completion callback past its check of backend_ finds it set to the end.
THEOREM CompletionSafe == Spec => []CompletionHasBackend
<1>1. LifeInv => CompletionHasBackend
    BY DEF LifeInv, WellPlaced, CompletionHasBackend
<1> QED
    BY <1>1, LifeInvariance, PTL

\* No ack thread touches a pipeline that has been deleted.
THEOREM AckThreadSafe == Spec => []AckThreadLeaves
<1>1. LifeInv => AckThreadLeaves
    BY DEF LifeInv, AckPlaced, AckThreadLeaves
<1> QED
    BY <1>1, LifeInvariance, PTL

-----------------------------------------------------------------------------
(* Settings *)

\* A player's step, seen from the registry: nobody holds it when the pipeline
\* leaves, and the one Java talks to stays fresh.
Private(p, r) ==
    /\ player' = [player EXCEPT ![p] = r]
    /\ UNCHANGED <<jni, global>>
    /\ current' = current \/ (current' = NoOne /\ registry = NoOne)
    /\ r.overlapped = player[p].overlapped

\* While the registry is free no Java call holds a pipeline.
LEMMA NobodyHolds ==
    ASSUME LifeInv, registry = NoOne, NEW j \in Callers
    PROVE  jni[j].at \notin Holding
BY NoOneAssumption DEF LifeInv, PointersLive

\* Such a step keeps SettingInv.
LEMMA PrivateSettingInv ==
    ASSUME LifeInv, SettingInv, NEW p \in Players, NEW r, Private(p, r),
           Fresh(player[p]) => Fresh(r)
    PROVE  SettingInv'
<1>1. /\ player'[p] = r
      /\ \A q \in Players \ {p} : player'[q] = player[q]
      /\ current \in Players \cup {NoOne} /\ UNCHANGED <<jni, global>>
    BY DEF Private, LifeInv, TypeOK
<1>2. \A j \in Callers : jni[j].at \in Holding \ {"unlock"} => jni[j].on = current'
    BY NobodyHolds DEF Private, SettingInv
<1>3. \A j \in Callers :
         jni[j].at = "apply" /\ jni[j].ms # global => Bringing({"lock"})
    BY DEF SettingInv
<1>4. ASSUME current' # NoOne, ~player'[current'].overlapped
      PROVE  Fresh(player'[current'])
    <2>1. current' = current /\ current \in Players
        BY <1>1, <1>4 DEF Private
    <2>2. ~player[current].overlapped
        BY <1>1, <1>4, <2>1 DEF Private
    <2>3. Fresh(player[current])
        BY <1>4, <2>1, <2>2 DEF SettingInv
    <2> QED
        BY <1>1, <2>1, <2>3
<1>5. \A x : Fresh(x)' <=> Fresh(x)
    BY <1>1 DEF Fresh, JniBusy, Bringing
<1> QED
    BY <1>1, <1>2, <1>3, <1>4, <1>5 DEF SettingInv, Bringing, Fresh, JniBusy

-----------------------------------------------------------------------------
(* Players *)

\* start() reads the setting, and the pipeline is fresh from then on.
LEMMA LoadSettingSettingInv ==
    ASSUME LifeInv, SettingInv, NEW p \in Players, LoadSetting(p)
    PROVE  SettingInv'
<1> DEFINE r == [player[p] EXCEPT !.loaded = global, !.at = "store"]
<1>1. player[p] \in PlayerRecord /\ WellPlaced(player[p])
    BY DEF LifeInv, TypeOK
<1>2. Private(p, r)
    BY <1>1 DEF LoadSetting, At, Private, LifeInv, TypeOK, PlayerRecord
<1>3. Fresh(player[p]) => Fresh(r)
    BY <1>1 DEF LoadSetting, At, Fresh, WellPlaced, PlayerRecord, RealizeSteps, StartSteps, Published
<1> HIDE DEF r
<1> QED
    BY <1>2, <1>3, PrivateSettingInv

\* It stores the setting it has read.
LEMMA StoreSettingSettingInv ==
    ASSUME LifeInv, SettingInv, NEW p \in Players, StoreSetting(p)
    PROVE  SettingInv'
<1> DEFINE r == [player[p] EXCEPT !.setting = player[p].loaded, !.at = "targets"]
<1>1. player[p] \in PlayerRecord /\ WellPlaced(player[p])
    BY DEF LifeInv, TypeOK
<1>2. Private(p, r)
    BY <1>1 DEF StoreSetting, At, Private, LifeInv, TypeOK, PlayerRecord
<1>3. Fresh(player[p]) => Fresh(r)
    BY <1>1 DEF StoreSetting, At, Fresh, WellPlaced, PlayerRecord, RealizeSteps, StartSteps, Published
<1> HIDE DEF r
<1> QED
    BY <1>2, <1>3, PrivateSettingInv

\* Its targets are computed from it.
LEMMA RecomputeTargetsSettingInv ==
    ASSUME LifeInv, SettingInv, NEW p \in Players, RecomputeTargets(p)
    PROVE  SettingInv'
<1> DEFINE r == [player[p] EXCEPT !.targets = player[p].setting, !.at = "open"]
<1>1. player[p] \in PlayerRecord /\ WellPlaced(player[p])
    BY DEF LifeInv, TypeOK
<1>2. Private(p, r)
    BY <1>1 DEF RecomputeTargets, At, Private, LifeInv, TypeOK, PlayerRecord
<1>3. Fresh(player[p]) => Fresh(r)
    BY <1>1 DEF RecomputeTargets, At, Fresh, WellPlaced, PlayerRecord, RealizeSteps, StartSteps, Published
<1> HIDE DEF r
<1> QED
    BY <1>2, <1>3, PrivateSettingInv

\* Opening changes no setting.
LEMMA OpenBackendSettingInv ==
    ASSUME LifeInv, SettingInv, NEW p \in Players, OpenBackend(p)
    PROVE  SettingInv'
<1> DEFINE r == [player[p] EXCEPT !.open = TRUE, !.at = "publish"]
<1>1. player[p] \in PlayerRecord /\ WellPlaced(player[p])
    BY DEF LifeInv, TypeOK
<1>2. Private(p, r)
    BY <1>1 DEF OpenBackend, At, Private, LifeInv, TypeOK, PlayerRecord
<1>3. Fresh(player[p]) => Fresh(r)
    BY <1>1 DEF OpenBackend, At, Fresh, WellPlaced, PlayerRecord, RealizeSteps, StartSteps, Published
<1> HIDE DEF r
<1> QED
    BY <1>2, <1>3, PrivateSettingInv

\* It is started with the setting it has stored.
LEMMA PublishSettingInv ==
    ASSUME LifeInv, SettingInv, NEW p \in Players, Publish(p)
    PROVE  SettingInv'
<1> DEFINE r == [player[p] EXCEPT !.started = TRUE, !.alive = TRUE,
                               !.ack = "running", !.at = "register"]
<1>1. player[p] \in PlayerRecord /\ WellPlaced(player[p])
    BY DEF LifeInv, TypeOK
<1>2. Private(p, r)
    BY <1>1 DEF Publish, At, Private, LifeInv, TypeOK, PlayerRecord
<1>3. Fresh(player[p]) => Fresh(r)
    BY <1>1 DEF Publish, At, Fresh, WellPlaced, PlayerRecord, RealizeSteps, StartSteps, Published
<1> HIDE DEF r
<1> QED
    BY <1>2, <1>3, PrivateSettingInv

\* A failed start promises nothing.
LEMMA StartFailsSettingInv ==
    ASSUME LifeInv, SettingInv, NEW p \in Players, StartFails(p)
    PROVE  SettingInv'
<1> DEFINE r == [player[p] EXCEPT !.open = FALSE, !.at = "fallback"]
<1>1. player[p] \in PlayerRecord /\ WellPlaced(player[p])
    BY DEF LifeInv, TypeOK
<1>2. Private(p, r)
    BY <1>1 DEF StartFails, At, Private, LifeInv, TypeOK, PlayerRecord
<1>3. Fresh(player[p]) => Fresh(r)
    BY <1>1 DEF StartFails, At, Fresh, WellPlaced, PlayerRecord, RealizeSteps, StartSteps, Published
<1> HIDE DEF r
<1> QED
    BY <1>2, <1>3, PrivateSettingInv

\* Registering its stats changes no setting.
LEMMA RegisterStatsSettingInv ==
    ASSUME LifeInv, SettingInv, NEW p \in Players, RegisterStats(p)
    PROVE  SettingInv'
<1> DEFINE r == [player[p] EXCEPT !.at = "name"]
<1>1. player[p] \in PlayerRecord /\ WellPlaced(player[p])
    BY DEF LifeInv, TypeOK
<1>2. Private(p, r)
    BY <1>1 DEF RegisterStats, At, Private, LifeInv, TypeOK, PlayerRecord
<1>3. Fresh(player[p]) => Fresh(r)
    BY <1>1 DEF RegisterStats, At, Fresh, WellPlaced, PlayerRecord, RealizeSteps, StartSteps, Published
<1> HIDE DEF r
<1> QED
    BY <1>2, <1>3, PrivateSettingInv

\* Reading its state changes no setting.
LEMMA ReadStateNameSettingInv ==
    ASSUME LifeInv, SettingInv, NEW p \in Players, ReadStateName(p)
    PROVE  SettingInv'
<1> DEFINE r == [player[p] EXCEPT !.told = StateName(player[p].setting), !.at = "tell"]
<1>1. player[p] \in PlayerRecord /\ WellPlaced(player[p])
    BY DEF LifeInv, TypeOK
<1>2. Private(p, r)
    BY <1>1 DEF ReadStateName, At, Private, LifeInv, TypeOK, PlayerRecord
<1>3. Fresh(player[p]) => Fresh(r)
    BY <1>1 DEF ReadStateName, At, Fresh, WellPlaced, PlayerRecord, RealizeSteps, StartSteps, Published
<1> HIDE DEF r
<1> QED
    BY <1>2, <1>3, PrivateSettingInv

\* Realize returns.
LEMMA TellRealizedSettingInv ==
    ASSUME LifeInv, SettingInv, NEW p \in Players, TellRealized(p)
    PROVE  SettingInv'
<1> DEFINE r == [player[p] EXCEPT !.at = "realized"]
<1>1. player[p] \in PlayerRecord /\ WellPlaced(player[p])
    BY DEF LifeInv, TypeOK
<1>2. Private(p, r)
    BY <1>1 DEF TellRealized, At, Private, LifeInv, TypeOK, PlayerRecord
<1>3. Fresh(player[p]) => Fresh(r)
    BY <1>1 DEF TellRealized, At, Fresh, WellPlaced, PlayerRecord, RealizeSteps, StartSteps, Published
<1> HIDE DEF r
<1> QED
    BY <1>2, <1>3, PrivateSettingInv

\* The failed pipeline leaves the registry.
LEMMA FallbackSettingInv ==
    ASSUME LifeInv, SettingInv, NEW p \in Players, Fallback(p)
    PROVE  SettingInv'
<1> DEFINE r == [player[p] EXCEPT !.kind = "passthrough", !.at = "retry"]
<1>1. player[p] \in PlayerRecord /\ WellPlaced(player[p])
    BY DEF LifeInv, TypeOK
<1>2. Private(p, r)
    BY <1>1, NoOneAssumption
    DEF Fallback, At, Private, LifeInv, TypeOK, PlayerRecord, PointersLive
<1>3. Fresh(player[p]) => Fresh(r)
    BY <1>1 DEF Fallback, At, Fresh, WellPlaced, PlayerRecord, RealizeSteps, StartSteps, Published
<1> HIDE DEF r
<1> QED
    BY <1>2, <1>3, PrivateSettingInv

\* A passthrough pipeline is not the one Java talks to.
LEMMA PassthroughStartSettingInv ==
    ASSUME LifeInv, SettingInv, NEW p \in Players, PassthroughStart(p)
    PROVE  SettingInv'
<1> DEFINE r == [player[p] EXCEPT !.open = TRUE, !.told = "passthrough",
                               !.at = "tell"]
<1>1. player[p] \in PlayerRecord /\ WellPlaced(player[p])
    BY DEF LifeInv, TypeOK
<1>2. Private(p, r)
    BY <1>1 DEF PassthroughStart, At, Private, LifeInv, TypeOK, PlayerRecord
<1>3. Fresh(player[p]) => Fresh(r)
    BY <1>1 DEF PassthroughStart, At, Fresh, WellPlaced, PlayerRecord, RealizeSteps, StartSteps, Published
<1> HIDE DEF r
<1> QED
    BY <1>2, <1>3, PrivateSettingInv

\* A Destroy from the callback only begins.
LEMMA DestroyInCallbackSettingInv ==
    ASSUME LifeInv, SettingInv, NEW p \in Players, DestroyInCallback(p)
    PROVE  SettingInv'
<1> DEFINE r == [player[p] EXCEPT !.inside = TRUE, !.at = "join"]
<1>1. player[p] \in PlayerRecord /\ WellPlaced(player[p])
    BY DEF LifeInv, TypeOK
<1>2. Private(p, r)
    BY <1>1 DEF DestroyInCallback, At, Private, LifeInv, TypeOK, PlayerRecord
<1>3. Fresh(player[p]) => Fresh(r)
    BY <1>1 DEF DestroyInCallback, At, Fresh, WellPlaced, PlayerRecord, RealizeSteps, StartSteps, Published
<1> HIDE DEF r
<1> QED
    BY <1>2, <1>3, PrivateSettingInv

\* The ack thread is waited for, or let go.
LEMMA JoinAckThreadSettingInv ==
    ASSUME LifeInv, SettingInv, NEW p \in Players, JoinAckThread(p)
    PROVE  SettingInv'
<1> DEFINE r == [player[p] EXCEPT !.alive = player[p].alive /\ ~player[p].inside,
                               !.at = "unregister"]
<1>1. player[p] \in PlayerRecord /\ WellPlaced(player[p])
    BY DEF LifeInv, TypeOK
<1>2. Private(p, r)
    BY <1>1 DEF JoinAckThread, At, Private, LifeInv, TypeOK, PlayerRecord
<1>3. Fresh(player[p]) => Fresh(r)
    BY <1>1 DEF JoinAckThread, At, Fresh, WellPlaced, PlayerRecord, RealizeSteps, StartSteps, Published
<1> HIDE DEF r
<1> QED
    BY <1>2, <1>3, PrivateSettingInv

\* Stats leave the status line.
LEMMA UnregisterStatsSettingInv ==
    ASSUME LifeInv, SettingInv, NEW p \in Players, UnregisterStats(p)
    PROVE  SettingInv'
<1> DEFINE r == [player[p] EXCEPT !.alive = FALSE, !.at = "close"]
<1>1. player[p] \in PlayerRecord /\ WellPlaced(player[p])
    BY DEF LifeInv, TypeOK
<1>2. Private(p, r)
    BY <1>1 DEF UnregisterStats, At, Private, LifeInv, TypeOK, PlayerRecord
<1>3. Fresh(player[p]) => Fresh(r)
    BY <1>1 DEF UnregisterStats, At, Fresh, WellPlaced, PlayerRecord, RealizeSteps, StartSteps, Published
<1> HIDE DEF r
<1> QED
    BY <1>2, <1>3, PrivateSettingInv

\* Closing changes no setting.
LEMMA CloseBackendSettingInv ==
    ASSUME LifeInv, SettingInv, NEW p \in Players, CloseBackend(p)
    PROVE  SettingInv'
<1> DEFINE r == [player[p] EXCEPT !.open = FALSE, !.at = "unset"]
<1>1. player[p] \in PlayerRecord /\ WellPlaced(player[p])
    BY DEF LifeInv, TypeOK
<1>2. Private(p, r)
    BY <1>1 DEF CloseBackend, At, Private, LifeInv, TypeOK, PlayerRecord
<1>3. Fresh(player[p]) => Fresh(r)
    BY <1>1 DEF CloseBackend, At, Fresh, WellPlaced, PlayerRecord, RealizeSteps, StartSteps, Published
<1> HIDE DEF r
<1> QED
    BY <1>2, <1>3, PrivateSettingInv

\* A closed pipeline is no longer started.
LEMMA UnsetBackendSettingInv ==
    ASSUME LifeInv, SettingInv, NEW p \in Players, UnsetBackend(p)
    PROVE  SettingInv'
<1> DEFINE r == [player[p] EXCEPT !.started = FALSE, !.at = "delete"]
<1>1. player[p] \in PlayerRecord /\ WellPlaced(player[p])
    BY DEF LifeInv, TypeOK
<1>2. Private(p, r)
    BY <1>1 DEF UnsetBackend, At, Private, LifeInv, TypeOK, PlayerRecord
<1>3. Fresh(player[p]) => Fresh(r)
    BY <1>1 DEF UnsetBackend, At, Fresh, WellPlaced, PlayerRecord, RealizeSteps, StartSteps, Published
<1> HIDE DEF r
<1> QED
    BY <1>2, <1>3, PrivateSettingInv

\* A deleted pipeline has left the registry.
LEMMA DeletePipelineSettingInv ==
    ASSUME LifeInv, SettingInv, NEW p \in Players, DeletePipeline(p)
    PROVE  SettingInv'
<1> DEFINE r == [player[p] EXCEPT !.kind = "none", !.at = "forget"]
<1>1. player[p] \in PlayerRecord /\ WellPlaced(player[p])
    BY DEF LifeInv, TypeOK
<1>2. Private(p, r)
    BY <1>1, NoOneAssumption
    DEF DeletePipeline, At, Private, LifeInv, TypeOK, PlayerRecord, PointersLive
<1>3. Fresh(player[p]) => Fresh(r)
    BY <1>1 DEF DeletePipeline, At, Fresh, WellPlaced, PlayerRecord, RealizeSteps, StartSteps, Published
<1> HIDE DEF r
<1> QED
    BY <1>2, <1>3, PrivateSettingInv

\* Destroy returns.
LEMMA TellDestroyedSettingInv ==
    ASSUME LifeInv, SettingInv, NEW p \in Players, TellDestroyed(p)
    PROVE  SettingInv'
<1> DEFINE r == [player[p] EXCEPT !.at = "destroyed"]
<1>1. player[p] \in PlayerRecord /\ WellPlaced(player[p])
    BY DEF LifeInv, TypeOK
<1>2. Private(p, r)
    BY <1>1 DEF TellDestroyed, At, Private, LifeInv, TypeOK, PlayerRecord
<1>3. Fresh(player[p]) => Fresh(r)
    BY <1>1 DEF TellDestroyed, At, Fresh, WellPlaced, PlayerRecord, RealizeSteps, StartSteps, Published
<1> HIDE DEF r
<1> QED
    BY <1>2, <1>3, PrivateSettingInv

\* The ack thread calls back.
LEMMA AckCallbackSettingInv ==
    ASSUME LifeInv, SettingInv, NEW p \in Players, AckCallback(p)
    PROVE  SettingInv'
<1> DEFINE r == [player[p] EXCEPT !.ack = "callback"]
<1>1. player[p] \in PlayerRecord /\ WellPlaced(player[p])
    BY DEF LifeInv, TypeOK
<1>2. Private(p, r)
    BY <1>1 DEF AckCallback, At, Private, LifeInv, TypeOK, PlayerRecord
<1>3. Fresh(player[p]) => Fresh(r)
    BY <1>1 DEF AckCallback, At, Fresh, WellPlaced, PlayerRecord, RealizeSteps, StartSteps, Published
<1> HIDE DEF r
<1> QED
    BY <1>2, <1>3, PrivateSettingInv

\* It comes back.
LEMMA AckReturnSettingInv ==
    ASSUME LifeInv, SettingInv, NEW p \in Players, AckReturn(p)
    PROVE  SettingInv'
<1> DEFINE r == [player[p] EXCEPT !.ack = IF player[p].alive THEN "running" ELSE "gone"]
<1>1. player[p] \in PlayerRecord /\ WellPlaced(player[p])
    BY DEF LifeInv, TypeOK
<1>2. Private(p, r)
    BY <1>1 DEF AckReturn, At, Private, LifeInv, TypeOK, PlayerRecord
<1>3. Fresh(player[p]) => Fresh(r)
    BY <1>1 DEF AckReturn, At, Fresh, WellPlaced, PlayerRecord, RealizeSteps, StartSteps, Published
<1> HIDE DEF r
<1> QED
    BY <1>2, <1>3, PrivateSettingInv

\* It leaves.
LEMMA AckExitSettingInv ==
    ASSUME LifeInv, SettingInv, NEW p \in Players, AckExit(p)
    PROVE  SettingInv'
<1> DEFINE r == [player[p] EXCEPT !.ack = "gone"]
<1>1. player[p] \in PlayerRecord /\ WellPlaced(player[p])
    BY DEF LifeInv, TypeOK
<1>2. Private(p, r)
    BY <1>1 DEF AckExit, At, Private, LifeInv, TypeOK, PlayerRecord
<1>3. Fresh(player[p]) => Fresh(r)
    BY <1>1 DEF AckExit, At, Fresh, WellPlaced, PlayerRecord, RealizeSteps, StartSteps, Published
<1> HIDE DEF r
<1> QED
    BY <1>2, <1>3, PrivateSettingInv

\* A completion fills its buffer.
LEMMA AudioFillSettingInv ==
    ASSUME LifeInv, SettingInv, NEW p \in Players, AudioFill(p)
    PROVE  SettingInv'
<1> DEFINE r == [player[p] EXCEPT !.audio = "filled"]
<1>1. player[p] \in PlayerRecord /\ WellPlaced(player[p])
    BY DEF LifeInv, TypeOK
<1>2. Private(p, r)
    BY <1>1 DEF AudioFill, At, Private, LifeInv, TypeOK, PlayerRecord
<1>3. Fresh(player[p]) => Fresh(r)
    BY <1>1 DEF AudioFill, At, Fresh, WellPlaced, PlayerRecord, RealizeSteps, StartSteps, Published
<1> HIDE DEF r
<1> QED
    BY <1>2, <1>3, PrivateSettingInv

\* It hands the buffer over.
LEMMA AudioEnqueueSettingInv ==
    ASSUME LifeInv, SettingInv, NEW p \in Players, AudioEnqueue(p)
    PROVE  SettingInv'
<1> DEFINE r == [player[p] EXCEPT !.audio = "idle"]
<1>1. player[p] \in PlayerRecord /\ WellPlaced(player[p])
    BY DEF LifeInv, TypeOK
<1>2. Private(p, r)
    BY <1>1 DEF AudioEnqueue, At, Private, LifeInv, TypeOK, PlayerRecord
<1>3. Fresh(player[p]) => Fresh(r)
    BY <1>1 DEF AudioEnqueue, At, Fresh, WellPlaced, PlayerRecord, RealizeSteps, StartSteps, Published
<1> HIDE DEF r
<1> QED
    BY <1>2, <1>3, PrivateSettingInv

\* So does one from outside.
LEMMA DestroySettingInv ==
    ASSUME LifeInv, SettingInv, NEW p \in Players, Destroy(p)
    PROVE  SettingInv'
<1> DEFINE step == FirstDestroyStep(p)
           r == [player[p] EXCEPT !.at = step]
<1>1. player[p] \in PlayerRecord /\ WellPlaced(player[p])
    BY DEF LifeInv, TypeOK
<1>2. step \in {"join", "close", "forget"}
    BY <1>1 DEF FirstDestroyStep, PlayerRecord
<1>3. player' = [player EXCEPT ![p].at = step] /\ UNCHANGED <<jni, global, current>>
    BY DEF Destroy
<1> HIDE DEF step
<1>4. Private(p, r)
    BY <1>1, <1>3 DEF Private, LifeInv, TypeOK, PlayerRecord
<1>5. Fresh(player[p]) => Fresh(r)
    BY <1>1, <1>2 DEF Fresh, WellPlaced, PlayerRecord, RealizeSteps, StartSteps, Published
<1> HIDE DEF r
<1> QED
    BY <1>4, <1>5, PrivateSettingInv

\* A passthrough pipeline that fails is not the one Java talks to.
LEMMA PassthroughFailsSettingInv ==
    ASSUME LifeInv, SettingInv, NEW p \in Players, PassthroughFails(p)
    PROVE  SettingInv'
<1> DEFINE again == [player[p] EXCEPT !.at = "fallback"]
           none == [player[p] EXCEPT !.kind = "none", !.at = "created"]
<1>1. player[p] \in PlayerRecord /\ WellPlaced(player[p])
    BY DEF LifeInv, TypeOK
<1>2. Private(p, again) \/ Private(p, none)
    BY <1>1 DEF PassthroughFails, At, Private, LifeInv, TypeOK, PlayerRecord
<1>3. Fresh(player[p]) => Fresh(again) /\ Fresh(none)
    BY <1>1 DEF PassthroughFails, At, Fresh, WellPlaced, PlayerRecord, RealizeSteps,
       StartSteps, Published
<1> HIDE DEF again, none
<1> QED
    BY <1>2, <1>3, PrivateSettingInv

\* A factory that returns null leaves nothing behind.
LEMMA NothingMadeSettingInv ==
    ASSUME LifeInv, SettingInv, NEW p \in Players, NothingMade(p)
    PROVE  SettingInv'
<1>1. Private(p, player[p])
    BY DEF NothingMade, Private, LifeInv, TypeOK
<1> QED
    BY <1>1, PrivateSettingInv

\* The status line has no part in it.
LEMMA TellRefusedSettingInv ==
    ASSUME LifeInv, SettingInv, NEW p \in Players, TellRefused(p)
    PROVE  SettingInv'
<1> DEFINE r == [player[p] EXCEPT !.at = "discard"]
<1>1. player[p] \in PlayerRecord /\ WellPlaced(player[p])
    BY DEF LifeInv, TypeOK
<1>2. Private(p, r)
    BY <1>1 DEF TellRefused, At, Private, LifeInv, TypeOK, PlayerRecord
<1>3. Fresh(player[p]) => Fresh(r)
    BY <1>1 DEF TellRefused, At, Fresh, WellPlaced, PlayerRecord, RealizeSteps, StartSteps, Published
<1> HIDE DEF r
<1> QED
    BY <1>2, <1>3, PrivateSettingInv

\* What is deleted has left the registry.
LEMMA DiscardSettingInv ==
    ASSUME LifeInv, SettingInv, NEW p \in Players, Discard(p)
    PROVE  SettingInv'
<1> DEFINE r == [player[p] EXCEPT !.kind = "none", !.at = "created"]
<1>1. player[p] \in PlayerRecord /\ WellPlaced(player[p])
    BY DEF LifeInv, TypeOK
<1>2. Private(p, r)
    BY <1>1 DEF Discard, At, Private, LifeInv, TypeOK, PlayerRecord
<1>3. Fresh(player[p]) => Fresh(r)
    BY <1>1 DEF Discard, At, Fresh, WellPlaced, PlayerRecord, RealizeSteps, StartSteps, Published
<1> HIDE DEF r
<1> QED
    BY <1>2, <1>3, PrivateSettingInv

\* A new ring pipeline is not started yet, and no call is under way or it is
\* marked.
LEMMA NewRingSettingInv ==
    ASSUME LifeInv, SettingInv, NEW p \in Players, player[p].at = "created",
           NEW step \in {"load", "refused"}, registry = NoOne,
           player' = [player EXCEPT ![p].kind = "ring", ![p].at = step,
                                    ![p].overlapped = JniBusy],
           current' = p, UNCHANGED <<jni, global>>
    PROVE  SettingInv'
<1> DEFINE ring == [player[p] EXCEPT !.kind = "ring", !.at = step, !.overlapped = JniBusy]
<1>1. player[p] \in PlayerRecord /\ WellPlaced(player[p])
    BY DEF LifeInv, TypeOK
<1>2. player'[p] = ring
    BY <1>1 DEF LifeInv, TypeOK, PlayerRecord
<1>3. \A j \in Callers : jni[j].at \notin Holding
    BY NobodyHolds
<1>4. ring.at = step /\ ring.overlapped = JniBusy /\ ~ring.started
    BY <1>1 DEF PlayerRecord, WellPlaced, Published
<1> HIDE DEF ring
<1>5. ~ring.overlapped => Fresh(ring)
    BY <1>4 DEF Fresh
<1> QED
    BY <1>2, <1>3, <1>5 DEF SettingInv, Holding, Bringing, Fresh, JniBusy

\* A new passthrough pipeline is not the one Java talks to.
LEMMA RealizeSettingInv ==
    ASSUME LifeInv, SettingInv, NEW p \in Players, Realize(p) \/ BackendMissing(p)
    PROVE  SettingInv'
<1>1. player[p].at = "created" /\ WellPlaced(player[p]) /\ UNCHANGED <<jni, global>>
    BY DEF LifeInv, TypeOK, Realize, BackendMissing, At
<1>2. CASE player' = [player EXCEPT ![p].kind = "passthrough", ![p].at = "plain"]
           /\ UNCHANGED current
    <2>1. current # p
        BY <1>1, NoOneAssumption DEF LifeInv, PointersLive, WellPlaced
    <2>2. current' = current /\ \A q \in Players \ {p} : player'[q] = player[q]
        BY <1>2 DEF LifeInv, TypeOK
    <2>3. current \in Players \cup {NoOne}
        BY DEF LifeInv, TypeOK
    <2> QED
        BY <1>1, <2>1, <2>2, <2>3 DEF SettingInv, Bringing, Fresh, JniBusy
<1>3. ASSUME NEW step \in {"load", "refused"}, registry = NoOne,
             player' = [player EXCEPT ![p].kind = "ring", ![p].at = step,
                                      ![p].overlapped = JniBusy],
             current' = p
      PROVE  SettingInv'
    BY <1>1, <1>3, NewRingSettingInv
<1> QED
    BY <1>2, <1>3 DEF Realize, BackendMissing

-----------------------------------------------------------------------------
(* Java *)

\* A call marks the players being realized, and brings its setting to the others.
LEMMA SetCrossfadeMsSettingInv ==
    ASSUME LifeInv, SettingInv, NEW j \in Callers, NEW ms \in Settings,
           SetCrossfadeMs(j, ms)
    PROVE  SettingInv'
<1>1. /\ jni[j].at = "idle" /\ jni'[j].at = "lock" /\ current' = current
      /\ \A k \in Callers \ {j} : jni'[k] = jni[k]
    BY DEF SetCrossfadeMs, LifeInv, TypeOK, JniRecord
<1>2. Bringing({"lock"})' /\ Bringing({"lock", "read", "apply"})'
    BY <1>1 DEF Bringing
<1>3. ASSUME NEW p \in Players, p = current, ~player'[p].overlapped
      PROVE  Fresh(player[p])'
    <2> DEFINE o == player[p].overlapped \/ player[p].at \in RealizeSteps
    <2>1. player'[p] = [player[p] EXCEPT !.overlapped = o] /\ player[p] \in PlayerRecord
        BY DEF SetCrossfadeMs, LifeInv, TypeOK
    <2>2. player'[p].overlapped = o
        BY <2>1 DEF PlayerRecord
    <2>3. ~player[p].overlapped /\ player[p].at \notin RealizeSteps
        BY <1>3, <2>2
    <2> HIDE DEF o
    <2>4. /\ player'[p].at = player[p].at /\ player'[p].started = player[p].started
          /\ player'[p].targets = player[p].targets
          /\ player'[p].setting = player[p].setting
        BY <2>1 DEF PlayerRecord
    <2>5. player[p].started => player[p].targets = player[p].setting
        BY <1>3, <2>3, NoOneAssumption DEF SettingInv, Fresh, LifeInv, TypeOK
    <2> QED
        BY <1>2, <2>3, <2>4, <2>5 DEF Fresh, RealizeSteps, StartSteps
<1>4. current' # NoOne => current' \in Players
    BY <1>1 DEF LifeInv, TypeOK
<1>5. \A k \in Callers : jni'[k].at \in Holding \ {"unlock"} => jni'[k].on = current'
    BY <1>1 DEF SettingInv, Holding
<1> QED
    BY <1>1, <1>2, <1>3, <1>4, <1>5 DEF SettingInv

\* A step of a call under way changes no other call, and no player is in its
\* Realize unmarked.
LEMMA CallSettingInv ==
    ASSUME LifeInv, SettingInv, NEW j \in Callers, jni[j].at # "idle",
           \A k \in Callers \ {j} : jni'[k] = jni[k],
           UNCHANGED <<player, global, current>>,
           jni'[j].at \in Holding \ {"unlock"} => jni'[j].on = current,
           jni'[j].at = "apply" => jni'[j].ms = global,
           jni[j].at = "lock" =>
              \A k \in Callers : jni[k].at # "apply" \/ jni[k].ms = global,
           jni[j].at \in {"lock", "read", "apply"} =>
              \/ jni'[j].at \in {"lock", "read", "apply"}
              \/ current = NoOne
    PROVE  SettingInv'
<1>1. ASSUME NEW k \in Callers
      PROVE  /\ jni'[k].at \in Holding \ {"unlock"} => jni'[k].on = current
             /\ jni'[k].at = "apply" /\ jni'[k].ms # global => Bringing({"lock"})'
    BY DEF SettingInv, Bringing
<1>2. ASSUME current # NoOne, ~player[current].overlapped
      PROVE  Fresh(player[current])'
    <2>1. Fresh(player[current]) /\ JniBusy
        BY <1>2 DEF SettingInv, JniBusy
    <2>2. Bringing({"lock", "read", "apply"}) => Bringing({"lock", "read", "apply"})'
        BY <1>2 DEF Bringing
    <2> QED
        BY <2>1, <2>2 DEF Fresh, RealizeSteps, StartSteps
<1> QED
    BY <1>1, <1>2 DEF SettingInv

\* Taking and giving back the registry, reading the setting and telling the state
LEMMA JniMovesSettingInv ==
    ASSUME LifeInv, SettingInv, NEW j \in Callers,
           JniLock(j) \/ JniRead(j) \/ JniTell(j) \/ JniUnlock(j)
    PROVE  SettingInv'
<1>1. jni \in [Callers -> JniRecord] /\ jni[j] \in JniRecord
    BY DEF LifeInv, TypeOK
<1>2. CASE JniLock(j)
    <2>1. \A k \in Callers : jni[k].at # "apply"
        BY <1>2, NobodyHolds DEF JniLock, Holding
    <2> QED
        BY <1>1, <1>2, <2>1, CallSettingInv DEF JniLock, JniRecord
<1>3. CASE JniRead(j)
    <2>1. jni[j].on = current
        BY <1>3 DEF JniRead, SettingInv, Holding
    <2> QED
        BY <1>1, <1>3, <2>1, CallSettingInv DEF JniRead, JniRecord
<1>4. CASE JniTell(j)
    BY <1>1, <1>4, CallSettingInv DEF JniTell, JniRecord
<1>5. CASE JniUnlock(j)
    BY <1>1, <1>5, CallSettingInv DEF JniUnlock, JniRecord, Holding
<1> QED
    BY <1>2, <1>3, <1>4, <1>5

\* A value that is no longer the setting is followed by the one that is.
LEMMA JniApplySettingInv ==
    ASSUME LifeInv, SettingInv, NEW j \in Callers, JniApply(j)
    PROVE  SettingInv'
<1> DEFINE p == jni[j].on
           ms == jni[j].ms
<1>1. /\ p = current /\ p \in Players /\ jni[j].at = "apply"
      /\ player[p] \in PlayerRecord
    BY DEF JniApply, SettingInv, Holding, LifeInv, TypeOK, JniRecord, PointersLive
<1>2. /\ player'[p].setting = ms /\ player'[p].at = player[p].at
      /\ player'[p].started = player[p].started
      /\ player'[p].overlapped = player[p].overlapped
      /\ player[p].started => player'[p].targets = ms
    BY <1>1 DEF JniApply, LifeInv, TypeOK, PlayerRecord
<1>3. /\ jni'[j].at \in {"tell", "unlock"} /\ jni'[j].on = p
      /\ \A k \in Callers \ {j} : jni'[k] = jni[k]
      /\ UNCHANGED <<global, current>>
    BY DEF JniApply, LifeInv, TypeOK, JniRecord
<1>4. ms # global => Bringing({"lock"})
    BY <1>1 DEF SettingInv
<1>5. Bringing({"lock"}) => Bringing({"lock"})' /\ Bringing({"lock", "read", "apply"})'
    BY <1>1, <1>3 DEF Bringing
<1> HIDE DEF p, ms
<1>6. ASSUME NEW q \in Players, q = p, ~player[q].overlapped
      PROVE  Fresh(player[q])'
    <2>1. player[q].at \notin RealizeSteps
        BY <1>1, <1>6, NoOneAssumption DEF SettingInv, Fresh, JniBusy
    <2> QED
        BY <1>2, <1>3, <1>4, <1>5, <1>6, <2>1 DEF Fresh, RealizeSteps, StartSteps
<1>7. ASSUME NEW k \in Callers
      PROVE  /\ jni'[k].at \in Holding \ {"unlock"} => jni'[k].on = current
             /\ jni'[k].at = "apply" /\ jni'[k].ms # global => Bringing({"lock"})'
    BY <1>1, <1>3, <1>5 DEF SettingInv
<1> QED
    BY <1>1, <1>2, <1>3, <1>6, <1>7 DEF SettingInv

-----------------------------------------------------------------------------
(* The setting *)

\* Nothing points anywhere at first.
LEMMA InitSettingInv == Init => SettingInv
BY DEF Init, SettingInv, Holding

\* Every step keeps the invariant.
LEMMA StepSettingInv == LifeInv /\ SettingInv /\ [Next]_vars => SettingInv'
<1> SUFFICES ASSUME LifeInv, SettingInv, [Next]_vars
             PROVE  SettingInv'
    OBVIOUS
<1>1. CASE UNCHANGED vars
    BY <1>1 DEF vars, SettingInv, Fresh, Bringing, JniBusy
<1>2. ASSUME NEW p \in Players,
             \/ Realize(p) \/ NothingMade(p) \/ BackendMissing(p)
             \/ Destroy(p) \/ DestroyInCallback(p)
      PROVE  SettingInv'
    BY <1>2, RealizeSettingInv, NothingMadeSettingInv, DestroySettingInv,
       DestroyInCallbackSettingInv
<1>3. ASSUME NEW p \in Players, PlayerStep(p)
      PROVE  SettingInv'
    BY <1>3, LoadSettingSettingInv, StoreSettingSettingInv, RecomputeTargetsSettingInv,
       OpenBackendSettingInv, PublishSettingInv, StartFailsSettingInv,
       RegisterStatsSettingInv, ReadStateNameSettingInv, TellRealizedSettingInv,
       FallbackSettingInv, PassthroughStartSettingInv, PassthroughFailsSettingInv,
       JoinAckThreadSettingInv, UnregisterStatsSettingInv, CloseBackendSettingInv,
       UnsetBackendSettingInv, DeletePipelineSettingInv, TellDestroyedSettingInv,
       TellRefusedSettingInv, DiscardSettingInv DEF PlayerStep
<1>4. ASSUME NEW p \in Players,
             \/ AckCallback(p) \/ AckReturn(p) \/ AckExit(p)
             \/ AudioFill(p) \/ AudioEnqueue(p)
      PROVE  SettingInv'
    BY <1>4, AckCallbackSettingInv, AckReturnSettingInv, AckExitSettingInv,
       AudioFillSettingInv, AudioEnqueueSettingInv
<1>5. ASSUME NEW j \in Callers, JniStep(j) \/ \E ms \in Settings : SetCrossfadeMs(j, ms)
      PROVE  SettingInv'
    BY <1>5, SetCrossfadeMsSettingInv, JniMovesSettingInv, JniApplySettingInv DEF JniStep
<1> QED
    BY <1>1, <1>2, <1>3, <1>4, <1>5 DEF Next

\* In every reachable state the pipeline Java talks to has the last setting or
\* a call is bringing it.
LEMMA SettingInvariance == Spec => []SettingInv
<1>1. LifeInv /\ LifeInv' /\ SettingInv /\ [Next]_vars => SettingInv'
    BY StepSettingInv
<1> QED
    BY <1>1, InitSettingInv, LifeInvariance, PTL DEF Spec

\* However many setting calls overlap each other and a player's coming and
\* going, once they have returned the pipeline Java talks to runs with the last
\* setting made (xfade_jni.cpp:22-31), unless one overlapped its Realize.
THEOREM SettingArrives == Spec => []SettingReachesPlayer
<1>1. SettingInv => SettingReachesPlayer
    BY DEF SettingInv, Fresh, Bringing, JniBusy, SettingReachesPlayer
<1> QED
    BY <1>1, SettingInvariance, PTL

-----------------------------------------------------------------------------
(* The status line *)

\* With one player there is nothing to tell while it is under way.
LEMMA QuietStatusInv ==
    ASSUME LifeInv', NEW p \in Players, \A q \in Players : q = p,
           player'[p].at \notin {"tell", "realized"}
    PROVE  StatusInv'
<1>1. current' \in {p, NoOne}
    BY DEF LifeInv, TypeOK
<1> QED
    BY <1>1 DEF StatusInv, Told

\* So it is after these steps.
LEMMA UnderWayStatusInv ==
    ASSUME LifeInv, LifeInv', NEW p \in Players, \A q \in Players : q = p,
           \/ Realize(p) \/ NothingMade(p) \/ BackendMissing(p)
           \/ TellRefused(p) \/ Discard(p) \/ UnsetBackend(p) \/ LoadSetting(p) \/ StoreSetting(p)
           \/ RecomputeTargets(p) \/ OpenBackend(p) \/ Publish(p) \/ StartFails(p)
           \/ RegisterStats(p) \/ Fallback(p) \/ PassthroughFails(p) \/ Destroy(p)
           \/ DestroyInCallback(p) \/ JoinAckThread(p) \/ UnregisterStats(p)
           \/ CloseBackend(p) \/ DeletePipeline(p) \/ TellDestroyed(p)
    PROVE  StatusInv'
<1>1. player \in [Players -> PlayerRecord] /\ player[p] \in PlayerRecord
    BY DEF LifeInv, TypeOK
<1>2. ASSUME Realize(p) \/ NothingMade(p) \/ BackendMissing(p) \/ TellRefused(p) \/ Discard(p)
      PROVE  player'[p].at \in {"load", "plain", "created", "refused", "discard"}
    BY <1>1, <1>2 DEF Realize, NothingMade, BackendMissing, TellRefused, Discard, At,
       PlayerRecord
<1>3. ASSUME LoadSetting(p) \/ StoreSetting(p) \/ RecomputeTargets(p)
      PROVE  player'[p].at \in {"store", "targets", "open"}
    BY <1>1, <1>3 DEF LoadSetting, StoreSetting, RecomputeTargets, PlayerRecord
<1>4. ASSUME OpenBackend(p) \/ Publish(p) \/ StartFails(p) \/ RegisterStats(p)
      PROVE  player'[p].at \in {"publish", "register", "fallback", "name"}
    BY <1>1, <1>4 DEF OpenBackend, Publish, StartFails, RegisterStats, PlayerRecord
<1>5. ASSUME Fallback(p) \/ PassthroughFails(p)
      PROVE  player'[p].at \in {"retry", "fallback", "created"}
    BY <1>1, <1>5 DEF Fallback, PassthroughFails, PlayerRecord
<1>6. ASSUME Destroy(p) \/ DestroyInCallback(p) \/ JoinAckThread(p)
      PROVE  player'[p].at \in {"join", "close", "forget", "unregister"}
  <2>1. FirstDestroyStep(p) \in {"join", "close", "forget"}
      BY <1>1 DEF FirstDestroyStep, PlayerRecord
  <2> QED
      BY <1>1, <1>6, <2>1 DEF Destroy, DestroyInCallback, JoinAckThread, PlayerRecord
<1>7. ASSUME \/ UnregisterStats(p) \/ CloseBackend(p) \/ UnsetBackend(p)
             \/ DeletePipeline(p) \/ TellDestroyed(p)
      PROVE  player'[p].at \in {"close", "unset", "delete", "forget", "destroyed"}
    BY <1>1, <1>7 DEF UnregisterStats, CloseBackend, UnsetBackend, DeletePipeline, TellDestroyed,
       PlayerRecord
<1>8. player'[p].at \notin {"tell", "realized"}
    BY <1>2, <1>3, <1>4, <1>5, <1>6, <1>7
<1> QED
    BY <1>8, QuietStatusInv

\* Realize tells the state it has read, and its threads leave it told.
LEMMA ToldStatusInv ==
    ASSUME LifeInv, LifeInv', StatusInv, NEW p \in Players, \A q \in Players : q = p,
           \/ ReadStateName(p) \/ TellRealized(p) \/ PassthroughStart(p)
           \/ AckCallback(p) \/ AckReturn(p) \/ AckExit(p)
           \/ AudioFill(p) \/ AudioEnqueue(p)
    PROVE  StatusInv'
<1>1. /\ player \in [Players -> PlayerRecord] /\ player[p] \in PlayerRecord
      /\ current \in {p, NoOne} /\ UNCHANGED <<jni, current>>
    BY DEF LifeInv, TypeOK, ReadStateName, TellRealized, PassthroughStart, AckCallback,
       AckReturn, AckExit, AudioFill, AudioEnqueue
<1>2. /\ player'[p].overlapped = player[p].overlapped
      /\ player'[p].setting = player[p].setting
    <2>1. CASE ReadStateName(p) \/ TellRealized(p) \/ PassthroughStart(p)
        BY <1>1, <2>1 DEF ReadStateName, TellRealized, PassthroughStart, PlayerRecord
    <2>2. CASE AckCallback(p) \/ AckReturn(p) \/ AckExit(p) \/ AudioFill(p) \/ AudioEnqueue(p)
        BY <1>1, <2>2 DEF AckCallback, AckReturn, AckExit, AudioFill, AudioEnqueue,
           PlayerRecord
    <2> QED
        BY <2>1, <2>2
<1>3. ASSUME current = p, Told(player[p])
      PROVE  Told(player[p])'
    <2>1. CASE ReadStateName(p)
        BY <1>1, <2>1 DEF ReadStateName, Told, StateName, PlayerRecord
    <2>2. CASE TellRealized(p)
        BY <1>1, <1>3, <2>2 DEF TellRealized, At, Told, StateName, PlayerRecord
    <2>3. CASE PassthroughStart(p)
        BY <1>1, <1>3, <2>3, NoOneAssumption
        DEF PassthroughStart, LifeInv, PointersLive, WellPlaced
    <2>4. CASE AckCallback(p) \/ AckReturn(p) \/ AckExit(p) \/ AudioFill(p) \/ AudioEnqueue(p)
        <3>1. /\ player'[p].at = player[p].at /\ player'[p].told = player[p].told
              /\ info' = info
            BY <1>1, <2>4 DEF AckCallback, AckReturn, AckExit, AudioFill, AudioEnqueue,
               PlayerRecord
        <3> QED
            BY <1>1, <1>2, <1>3, <3>1 DEF Told, StateName, Bringing
    <2> QED
        BY <2>1, <2>2, <2>3, <2>4
<1> QED
    BY <1>1, <1>2, <1>3 DEF StatusInv

\* A call that changes the setting of a started pipeline tells its state.
LEMMA JniStatusInv ==
    ASSUME LifeInv, SettingInv, StatusInv, NEW j \in Callers,
           JniStep(j) \/ \E ms \in Settings : SetCrossfadeMs(j, ms)
    PROVE  StatusInv'
<1>1. /\ jni \in [Callers -> JniRecord] /\ jni[j] \in JniRecord /\ current' = current
      /\ player \in [Players -> PlayerRecord] /\ current \in Players \cup {NoOne}
    BY DEF LifeInv, TypeOK, JniStep, JniLock, JniRead, JniApply, JniTell, JniUnlock,
       SetCrossfadeMs
<1>2. ASSUME NEW p \in Players, p = current, ~player[p].overlapped, JniStep(j)
      PROVE  Told(player[p])'
    <2>1. player[p].at \notin RealizeSteps
        BY <1>2, NoOneAssumption DEF SettingInv, Fresh, JniBusy, JniStep, JniLock, JniRead,
           JniApply, JniTell, JniUnlock
    <2>2. Told(player[p])
        BY <1>2, NoOneAssumption DEF StatusInv
    <2>3. CASE JniLock(j)
        <3>1. jni'[j].at = "read" /\ UNCHANGED <<player, info>>
            BY <1>1, <1>2, <2>3, NoOneAssumption DEF JniLock, JniRecord
        <3> QED
            BY <2>2, <3>1 DEF Told, Bringing
    <2>4. CASE JniRead(j)
        <3>1. jni'[j].at = "apply" /\ UNCHANGED <<player, info>>
            BY <1>1, <2>4 DEF JniRead, JniRecord
        <3> QED
            BY <2>2, <3>1 DEF Told, Bringing
    <2>5. CASE JniApply(j)
        <3>1. jni[j].on = p
            BY <1>2, <2>5 DEF JniApply, SettingInv, Holding
        <3>2. player'[p].at = player[p].at
            BY <1>1, <2>5, <3>1 DEF JniApply, PlayerRecord
        <3>3. player[p].at = "realized" => player[p].started
            BY <1>2, NoOneAssumption DEF LifeInv, PointersLive, WellPlaced
        <3>4. player[p].at = "realized" => jni'[j].at = "tell"
            BY <1>1, <2>5, <3>1, <3>3 DEF JniApply, JniRecord
        <3> QED
            BY <2>1, <3>2, <3>4 DEF Told, Bringing, RealizeSteps
    <2>6. CASE JniTell(j)
        <3>1. jni[j].on = p /\ UNCHANGED player
            BY <1>2, <2>6 DEF JniTell, SettingInv, Holding
        <3>2. info' = StateName(player[p].setting)
            BY <2>6, <3>1 DEF JniTell
        <3> QED
            BY <2>1, <3>1, <3>2 DEF Told, RealizeSteps, StateName
    <2>7. CASE JniUnlock(j)
        <3>1. /\ jni[j].at = "unlock" /\ UNCHANGED <<player, info>>
              /\ \A k \in Callers \ {j} : jni'[k] = jni[k]
            BY <1>1, <2>7 DEF JniUnlock
        <3> QED
            BY <2>2, <3>1 DEF Told, Bringing
    <2> QED
        BY <1>2, <2>3, <2>4, <2>5, <2>6, <2>7 DEF JniStep
<1>3. ASSUME NEW p \in Players, p = current, JniStep(j)
      PROVE  player'[p].overlapped = player[p].overlapped
    <2>1. CASE JniApply(j)
        BY <1>1, <2>1 DEF JniApply, PlayerRecord
    <2> QED
        BY <1>3, <2>1 DEF JniStep, JniLock, JniRead, JniTell, JniUnlock
<1>4. ASSUME NEW p \in Players, p = current, ~player'[p].overlapped,
             NEW ms \in Settings, SetCrossfadeMs(j, ms)
      PROVE  Told(player[p])'
    <2> DEFINE o == player[p].overlapped \/ player[p].at \in RealizeSteps
    <2>1. player'[p] = [player[p] EXCEPT !.overlapped = o] /\ player[p] \in PlayerRecord
        BY <1>1, <1>4 DEF SetCrossfadeMs
    <2>2. player'[p].overlapped = o
        BY <2>1 DEF PlayerRecord
    <2>3. player[p].at \notin RealizeSteps
        BY <1>4, <2>2
    <2> HIDE DEF o
    <2>4. player'[p].at = player[p].at
        BY <2>1 DEF PlayerRecord
    <2>5. jni'[j].at = "lock"
        BY <1>1, <1>4 DEF SetCrossfadeMs, JniRecord
    <2> QED
        BY <2>3, <2>4, <2>5 DEF Told, Bringing, RealizeSteps
<1> QED
    BY <1>1, <1>2, <1>3, <1>4 DEF StatusInv

\* Every step of the only player and of the Java calls keeps the invariant.
LEMMA StepStatusInv ==
    ASSUME \A p, q \in Players : p = q, LifeInv, LifeInv', SettingInv, StatusInv,
           [Next]_vars
    PROVE  StatusInv'
<1>1. CASE UNCHANGED vars
    BY <1>1 DEF vars, StatusInv, Told, Bringing
<1>2. ASSUME NEW p \in Players,
             \/ Realize(p) \/ NothingMade(p) \/ BackendMissing(p)
             \/ Destroy(p) \/ DestroyInCallback(p)
      PROVE  StatusInv'
    BY <1>2, UnderWayStatusInv
<1>3. ASSUME NEW p \in Players, PlayerStep(p)
      PROVE  StatusInv'
    BY <1>3, UnderWayStatusInv, ToldStatusInv DEF PlayerStep
<1>4. ASSUME NEW p \in Players,
             \/ AckCallback(p) \/ AckReturn(p) \/ AckExit(p)
             \/ AudioFill(p) \/ AudioEnqueue(p)
      PROVE  StatusInv'
    BY <1>4, ToldStatusInv
<1>5. ASSUME NEW j \in Callers, JniStep(j) \/ \E ms \in Settings : SetCrossfadeMs(j, ms)
      PROVE  StatusInv'
    BY <1>5, JniStatusInv
<1> QED
    BY <1>1, <1>2, <1>3, <1>4, <1>5 DEF Next

\* With one player, once the setting calls have returned the status line says
\* what that player does (status.cpp:10-13, ring_pipeline.cpp:195-203), unless
\* one overlapped its Realize.
THEOREM StatusAgrees ==
    ASSUME \A p, q \in Players : p = q
    PROVE  Spec => []StatusTellsState
<1>1. Init => StatusInv
    BY DEF Init, StatusInv
<1>2. /\ LifeInv /\ LifeInv' /\ SettingInv /\ StatusInv /\ [Next]_vars
      => StatusInv'
    BY StepStatusInv
<1>3. StatusInv => StatusTellsState
    BY DEF StatusInv, Told, Bringing, JniBusy, StatusTellsState, At
<1> QED
    BY <1>1, <1>2, <1>3, LifeInvariance, SettingInvariance, PTL DEF Spec
=============================================================================
