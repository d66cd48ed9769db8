-------------------------- MODULE ToolRunnerProofs --------------------------
(***************************************************************************)
(* The safety properties of ToolRunner hold for any number of skill calls, *)
(* claims and addresses.                                                   *)
(*                                                                         *)
(* Requests act on runners read before.  What the invariant says of each   *)
(* runner that is remembered anywhere is that it is of no later claim than *)
(* the chat's, and at the pod's address if its claim is still the chat's   *)
(* and nothing happened to the pod.  So a verdict on a runner of the       *)
(* present claim is a verdict on the present pod.                          *)
(***************************************************************************)
EXTENDS ToolRunner, TLAPS

\* Whatever is wrong with a pod has happened to it.
PodSound ==
    /\ claim.phase # "none" => claim.uid >= 1
    /\ pod.state \in {"unwell", "unready", "gone"} => ~ pod.sound
    /\ claim.phase = "ready" => pod.state # "none"
    /\ claim.phase \in {"none", "starting"} => pod.state = "none"

Old(r) ==
    /\ r.uid <= claim.uid
    /\ r.uid = claim.uid /\ claim.phase # "none" =>
          /\ pod.state # "none" /\ r.at <= pod.at
          /\ r.at = pod.at \/ ~ pod.sound

KnownAreOld ==
    /\ Old(cache) /\ Old(status) /\ Old(start.runner)
    /\ \A c \in SkillCalls : Old(call[c].runner) /\ Old(watcher[c].runner)

\* The pod of a condemned runner, if it is the chat's.
Condemned(r) == r.uid = claim.uid /\ claim.phase # "none" => ~ pod.sound

CondemnedPods ==
    /\ start.at = "delete" => Condemned(start.runner)
    /\ \A c \in SkillCalls :
          /\ call[c].at = "delete" => Condemned(call[c].runner)
          /\ watcher[c].at \in {"delete", "lost"} => Condemned(watcher[c].runner)

PacksOnBound == start.at = "packs" => start.runner.uid \in bound

\* A running call has an entry, of its own pod.
CallEntries ==
    \A c \in SkillCalls :
        call[c].at = "running" =>
           watcher[entry[c]] # Off /\ watcher[entry[c]].runner.uid = call[c].runner.uid

\* A watcher is there for calls in its entry, and kept for its pod while it runs.
WatcherEntries ==
    \A w \in SkillCalls :
        /\ watcher[w].at = "off" => watcher[w] = Off
        /\ watcher[w] # Off =>
              /\ watcher[w].runner # NoRunner
              /\ call[w].at \in {"running", "ask", "delete", "answered"}
              /\ \E c \in SkillCalls : entry[c] = w
        /\ watcher[w].at \in {"watching", "delete"} => watchers[watcher[w].runner.uid] = w

\* The entry kept for a pod is of that pod.
PodEntries ==
    \A u \in 1..MaxClaims :
        watchers[u] # None =>
           watcher[watchers[u]] # Off /\ watcher[watchers[u]].runner.uid = u

Entries == CallEntries /\ WatcherEntries /\ PodEntries

Inv ==
    /\ TypeOK /\ PodSound /\ KnownAreOld /\ CondemnedPods
    /\ PacksOnBound /\ RememberedIsReady /\ WaitsForTheStart /\ Entries

----------------------------------------------------------------------------

LEMMA WokenFacts ==
    ASSUME CallType, NEW r \in RunnerOrNone
    PROVE  \A c \in SkillCalls :
              /\ call[c].at # "start" => Woken(r)[c] = call[c]
              /\ call[c].at = "start" =>
                    Woken(r)[c] = IF r = NoRunner THEN CallIs("answered")
                                  ELSE [at |-> "hold", runner |-> r]
  BY DEF Woken

\* Whoever waits for a start waits for one in flight, or has its answer.
LEMMA AwaitsFacts ==
    ASSUME CallType, NEW c \in SkillCalls,
           NEW s \in [at : {"none", "check", "claim", "look", "delete", "bind", "packs", "done",
                             "failed"},
                      runner : RunnerOrNone],
           AwaitsStart(c, s)
    PROVE  /\ \A d \in SkillCalls \ {c} : call'[d] = call[d]
           /\ call' \in [SkillCalls -> [at : {"idle", "check", "start", "hold", "running", "ask",
                                            "delete", "answered"},
                                       runner : RunnerOrNone]]
           /\ \/ call'[c] = CallIs("start") /\ start' = StartIs("claim")
              \/ call'[c] = CallIs("start") /\ start' = s /\ s.at \notin {"none", "done", "failed"}
              \/ call'[c] = CallIs("answered") /\ start' = s /\ s.at = "failed"
<1>1. PICK t \in StartsRunner(s, NoRunner) :
         /\ start' = t
         /\ call' = [call EXCEPT ![c] = CallIs(IF t.at = "failed" THEN "answered" ELSE "start")]
  BY DEF AwaitsStart
<1>2. /\ call'[c] = CallIs(IF t.at = "failed" THEN "answered" ELSE "start")
      /\ \A d \in SkillCalls \ {c} : call'[d] = call[d]
      /\ call' \in [SkillCalls -> [at : {"idle", "check", "start", "hold", "running", "ask",
                                       "delete", "answered"},
                                  runner : RunnerOrNone]]
  BY <1>1 DEF CallType, CallIs, RunnerOrNone
<1>3. Begun(NoRunner) = StartIs("claim") /\ StartIs("claim").at = "claim"
  BY DEF Begun, StartIs
<1>4. CASE s.at \in {"none", "done"}
  <2>1. StartsRunner(s, NoRunner) = {Begun(NoRunner)}
    BY <1>4 DEF StartsRunner
  <2> QED BY <1>1, <1>2, <1>3, <2>1
<1>5. CASE s.at = "failed"
  <2>1. StartsRunner(s, NoRunner) = {Begun(NoRunner), s}
    BY <1>5 DEF StartsRunner
  <2> QED BY <1>1, <1>2, <1>3, <1>5, <2>1
<1>6. CASE s.at \notin {"none", "done", "failed"}
  <2>1. StartsRunner(s, NoRunner) = {s}
    BY <1>6 DEF StartsRunner
  <2> QED BY <1>1, <1>2, <1>6, <2>1
<1> QED BY <1>4, <1>5, <1>6

\* A call that leaves stops the watcher of its entry exactly when no other call is in
\* it, and the pod's place is cleared with it.
Left(c) ==
    /\ entry[c] \in SkillCalls
    /\ entry' \in [SkillCalls -> SkillCalls \cup {None}] /\ entry'[c] = None
    /\ \A d \in SkillCalls \ {c} : entry'[d] = entry[d]
    /\ watcher' \in [SkillCalls -> [at : {"off", "watching", "delete", "over", "lost"},
                                   runner : RunnerOrNone]]
    /\ watchers' \in [1..MaxClaims -> SkillCalls \cup {None}]
    /\ \A w \in SkillCalls \ {entry[c]} : watcher'[w] = watcher[w]
    /\ \/ /\ \A d \in SkillCalls \ {c} : entry[d] # entry[c]
          /\ watcher'[entry[c]] = Off
          /\ \A u \in 1..MaxClaims :
                watchers'[u] = IF watchers[u] = entry[c] THEN None ELSE watchers[u]
       \/ /\ \E d \in SkillCalls \ {c} : entry[d] = entry[c]
          /\ UNCHANGED <<watcher, watchers>>

LEMMA LeavesFacts ==
    ASSUME WatchType, NEW c \in SkillCalls, call[c].at = "running", Leaves(c)
    PROVE  Left(c)
<1>1. entry[c] \in SkillCalls
  BY DEF WatchType
<1>2. entry' = [entry EXCEPT ![c] = None]
  BY DEF Leaves
<1>3. entry' \in [SkillCalls -> SkillCalls \cup {None}] /\ entry'[c] = None
         /\ \A d \in SkillCalls \ {c} : entry'[d] = entry[d]
  BY <1>2 DEF WatchType
<1>4. CASE LastOut(c)
  <2>1. watcher' = [watcher EXCEPT ![entry[c]] = Off]
           /\ watchers' = [u \in DOMAIN watchers |->
                             IF watchers[u] = entry[c] THEN None ELSE watchers[u]]
    BY <1>4 DEF Leaves
  <2>2. \A d \in SkillCalls \ {c} : entry[d] # entry[c]
    BY <1>4 DEF LastOut, Others
  <2> QED BY <1>1, <1>3, <2>1, <2>2 DEF WatchType, Off, RunnerOrNone, Left
<1>5. CASE ~ LastOut(c)
  <2>1. UNCHANGED <<watcher, watchers>>
    BY <1>5 DEF Leaves
  <2>2. \E d \in SkillCalls \ {c} : entry[d] = entry[c]
    BY <1>5 DEF LastOut, Others
  <2> QED BY <1>1, <1>3, <2>1, <2>2 DEF WatchType, Left
<1> QED BY <1>4, <1>5

LEMMA SameEntries ==
    ASSUME WatchType, UNCHANGED <<watcher, entry, watchers>>,
           \A d \in SkillCalls : call'[d].at = "running" <=> call[d].at = "running"
    PROVE  WatchType'
  BY DEF WatchType

\* A call that leaves its entry, and why it does, disturbs no other call.
LEMMA LeavingKeeps ==
    ASSUME ClusterType, CallType, WatchType, PodSound, KnownAreOld, CondemnedPods, Entries,
           NEW c \in SkillCalls, call[c].at = "running", Left(c),
           UNCHANGED <<claim, pod, cache, start, status>>,
           call'[c].at \in {"ask", "answered"},
           call'[c].runner \in {call[c].runner, NoRunner},
           \A d \in SkillCalls \ {c} : call'[d] = call[d]
    PROVE  WatchType' /\ KnownAreOld' /\ CondemnedPods' /\ Entries'
<1>1. \A w \in SkillCalls : watcher'[w] \in {watcher[w], Off}
  BY DEF Left
<1>2. WatchType'
  <2>1. \A d \in SkillCalls : entry'[d] # None <=> call'[d].at = "running"
    BY DEF WatchType, Left
  <2> QED BY <2>1 DEF WatchType, Left
<1>3. KnownAreOld'
  <2>1. \A r : Old(r)' <=> Old(r)
    BY DEF Old
  <2>2. Old(NoRunner) /\ Off.runner = NoRunner
    BY DEF Old, NoRunner, Off, PodSound, ClusterType
  <2>3. \A d \in SkillCalls : Old(call'[d].runner) /\ Old(watcher'[d].runner)
    BY <1>1, <2>2 DEF KnownAreOld
  <2>4. Old(cache') /\ Old(status') /\ Old(start'.runner)
    BY DEF KnownAreOld
  <2> QED BY <2>3, <2>4 DEF KnownAreOld, Old
<1>4. CondemnedPods'
  <2>1. \A d \in SkillCalls : call'[d].at = "delete" => call'[d] = call[d]
    OBVIOUS
  <2>2. \A d \in SkillCalls : watcher'[d].at \in {"delete", "lost"} => watcher'[d] = watcher[d]
    BY <1>1 DEF Off
  <2> QED BY <2>1, <2>2 DEF CondemnedPods, Condemned
<1>5. CallEntries'
  <2> SUFFICES ASSUME NEW d \in SkillCalls, call'[d].at = "running"
               PROVE  /\ watcher'[entry'[d]] # Off
                      /\ watcher'[entry'[d]].runner.uid = call'[d].runner.uid
    BY DEF CallEntries
  <2>1. d # c /\ call'[d] = call[d] /\ entry'[d] = entry[d] /\ entry[d] \in SkillCalls
    BY DEF Left, WatchType
  <2>2. watcher'[entry[d]] = watcher[entry[d]]
    BY <2>1 DEF Left
  <2> QED BY <2>1, <2>2 DEF Entries, CallEntries
<1>6. WatcherEntries'
  <2> SUFFICES ASSUME NEW w \in SkillCalls
               PROVE  /\ watcher'[w].at = "off" => watcher'[w] = Off
                      /\ watcher'[w] # Off =>
                            /\ watcher'[w].runner # NoRunner
                            /\ call'[w].at \in {"running", "ask", "delete", "answered"}
                            /\ \E d \in SkillCalls : entry'[d] = w
                      /\ watcher'[w].at \in {"watching", "delete"} =>
                            watchers'[watcher'[w].runner.uid] = w
    BY DEF WatcherEntries
  <2>1. CASE watcher'[w] = Off
    BY <2>1 DEF Off
  <2>2. CASE watcher'[w] # Off
    <3>1. watcher'[w] = watcher[w]
      BY <1>1, <2>2
    <3>2. \E d \in SkillCalls \ {c} : entry[d] = w
      <4>1. \E d \in SkillCalls : entry[d] = w
        BY <2>2, <3>1 DEF Entries, WatcherEntries
      <4> QED BY <2>2, <4>1 DEF Left
    <3>3. \E d \in SkillCalls : entry'[d] = w
      BY <3>2 DEF Left
    <3>4. call[w].at \in {"running", "ask", "delete", "answered"} /\ watcher[w].runner # NoRunner
             /\ (watcher[w].at = "off" => watcher[w] = Off)
      BY <2>2, <3>1 DEF Entries, WatcherEntries
    <3>5. watcher[w].runner.uid \in 1..MaxClaims
      BY <3>4 DEF WatchType, RunnerOrNone, Runners
    <3>6. w = entry[c] => UNCHANGED watchers
      BY <2>2 DEF Left
    <3>7. watcher[w].at \in {"watching", "delete"} => watchers'[watcher[w].runner.uid] = w
      <4> SUFFICES ASSUME watcher[w].at \in {"watching", "delete"}
                   PROVE  watchers'[watcher[w].runner.uid] = w
        OBVIOUS
      <4>1. watchers[watcher[w].runner.uid] = w
        BY DEF Entries, WatcherEntries
      <4>2. CASE w = entry[c]
        BY <3>6, <4>1, <4>2
      <4>3. CASE w # entry[c]
        <5>1. \A u \in 1..MaxClaims : watchers[u] # entry[c] => watchers'[u] = watchers[u]
          BY DEF Left
        <5> QED BY <3>5, <4>1, <4>3, <5>1
      <4> QED BY <4>2, <4>3
    <3> QED BY <3>1, <3>3, <3>4, <3>7
  <2> QED BY <2>1, <2>2
<1>7. PodEntries'
  <2> SUFFICES ASSUME NEW u \in 1..MaxClaims, watchers'[u] # None
               PROVE  /\ watcher'[watchers'[u]] # Off
                      /\ watcher'[watchers'[u]].runner.uid = u
    BY DEF PodEntries
  <2>1. watchers'[u] = watchers[u] /\ watchers[u] \in SkillCalls
    BY DEF Left, WatchType
  <2>2. watcher'[watchers[u]] = watcher[watchers[u]]
    BY <2>1 DEF Left
  <2> QED BY <2>1, <2>2 DEF Entries, PodEntries
<1> QED BY <1>2, <1>3, <1>4, <1>5, <1>6, <1>7 DEF Entries

\* What a look at a pod that is unwell, gone or moved means for the present claim.
LEMMA BadRunner ==
    ASSUME ClusterType, PodSound, NEW r \in RunnerOrNone, Old(r),
           StateOf(r) \in {"unwell", "gone", "moved"}
    PROVE  Condemned(r)
<1> SUFFICES ASSUME r.uid = claim.uid, claim.phase # "none" PROVE ~ pod.sound
  BY DEF Condemned
<1>1. StateOf(r) = IF r.at # pod.at THEN "moved" ELSE pod.state
  BY DEF StateOf
<1>2. CASE r.at # pod.at
  BY <1>2 DEF Old
<1>3. CASE r.at = pod.at
  <2>1. pod.state \in {"unwell", "gone", "moved"}
    BY <1>1, <1>3
  <2>2. pod.state # "moved"
    BY DEF ClusterType, PodStates
  <2> QED BY <2>1, <2>2 DEF PodSound
<1> QED BY <1>2, <1>3

LEMMA DoubtedRunner ==
    ASSUME ClusterType, PodSound, NEW r \in RunnerOrNone, Old(r), FALSE \in Verdicts(r)
    PROVE  Condemned(r)
<1>0. StateOf(r) # "up"
  BY DEF Verdicts
<1> SUFFICES ASSUME r.uid = claim.uid, claim.phase # "none" PROVE ~ pod.sound
  BY DEF Condemned
<1>1. CASE r.at # pod.at
  BY <1>1 DEF Old
<1>2. CASE r.at = pod.at
  <2>1. StateOf(r) = pod.state
    BY <1>2 DEF StateOf
  <2>2. pod.state # "up" /\ pod.state # "none" /\ pod.state \in PodStates
    BY <1>0, <2>1 DEF ClusterType, Old
  <2> QED BY <2>2 DEF PodSound, PodStates
<1> QED BY <1>1, <1>2

LEMMA DeleteKeepsUid ==
    ASSUME ClusterType, NEW u, DeleteClaim(u) \/ UNCHANGED claim
    PROVE  claim'.uid = claim.uid /\ (claim'.phase = "none" <=> claim.phase = "none")
  BY DEF DeleteClaim, ClusterType

LEMMA DropFacts ==
    ASSUME NEW r, DropSame(r)
    PROVE  /\ cache' \in {cache, NoRunner}
           /\ start' = start \/ (start' = StartIs("none") /\ start.at \in {"done", "failed"})
  BY DEF DropSame, Dropped, Ended

LEMMA InitInv == Init => Inv
  BY RunnerAssumption DEF Init, Inv, TypeOK, ClusterType, StartType, CallType, WatchType,
     PodSound, KnownAreOld, Old, CondemnedPods, PacksOnBound, RememberedIsReady,
     WaitsForTheStart, Entries, CallEntries, WatcherEntries, PodEntries, NoPod, NoRunner,
     StartIs, CallIs, Off, RunnerOrNone, Runners, PodStates

\* Every step keeps the invariant.
LEMMA NextInv == Inv /\ [Next]_vars => Inv'
<1> SUFFICES ASSUME Inv, [Next]_vars PROVE Inv'
  OBVIOUS
<1>0. /\ ClusterType /\ StartType /\ CallType /\ WatchType /\ PodSound /\ KnownAreOld
      /\ CondemnedPods /\ PacksOnBound /\ RememberedIsReady /\ WaitsForTheStart /\ Entries
  BY DEF Inv, TypeOK
<1>c. ASSUME claim.phase # "none"
      PROVE  /\ Current \in Runners /\ Current # NoRunner
             /\ Current.uid = claim.uid /\ Current.at = pod.at
  BY <1>0, <1>c DEF Current, ClusterType, PodSound, Runners, NoRunner
<1>d. Old(NoRunner) /\ (claim.phase # "none" /\ pod.state # "none" => Old(Current))
  BY <1>0, <1>c DEF Old, NoRunner, PodSound, ClusterType
<1> USE RunnerAssumption DEF cluster, contents, watching
<1>1. CASE ClaimIsServed
  <2>b. UNCHANGED <<bound, packed, bare, cache, start, call, watcher, entry, watchers, status>>
    BY <1>1 DEF ClaimIsServed
  <2>1. ClusterType'
    BY <1>0, <1>c, <1>1 DEF ClaimIsServed, ClusterType, PodStates
  <2>2. StartType'
    BY <1>0, <2>b DEF StartType
  <2>3. CallType'
    BY <1>0, <2>b DEF CallType
  <2>4. WatchType'
    BY <1>0, <2>b DEF WatchType
  <2>5. PodSound'
    BY <1>0, <1>1 DEF ClaimIsServed, PodSound
  <2>6. KnownAreOld'
    BY <1>0, <1>1 DEF ClaimIsServed, KnownAreOld, Old
  <2>7. CondemnedPods'
    BY <1>0, <1>1 DEF ClaimIsServed, CondemnedPods, Condemned
  <2>8. PacksOnBound'
    BY <1>0, <2>b DEF PacksOnBound
  <2>9. RememberedIsReady'
    BY <1>0, <2>b DEF RememberedIsReady
  <2>10. WaitsForTheStart'
    BY <1>0, <2>b DEF WaitsForTheStart
  <2>11. Entries'
    BY <1>0, <2>b DEF Entries, CallEntries, WatcherEntries, PodEntries
  <2> QED BY <2>1, <2>2, <2>3, <2>4, <2>5, <2>6, <2>7, <2>8, <2>9, <2>10, <2>11
     DEF Inv, TypeOK
<1>2. CASE PodFails
  <2>b. UNCHANGED <<claim, bound, packed, bare, cache, start, call, watcher, entry, watchers, status>>
    BY <1>2 DEF PodFails
  <2>1. ClusterType'
    BY <1>0, <1>c, <1>2 DEF PodFails, ClusterType, PodStates
  <2>2. StartType'
    BY <1>0, <2>b DEF StartType
  <2>3. CallType'
    BY <1>0, <2>b DEF CallType
  <2>4. WatchType'
    BY <1>0, <2>b DEF WatchType
  <2>5. PodSound'
    BY <1>0, <1>2 DEF PodFails, PodSound
  <2>6. KnownAreOld'
    BY <1>0, <1>2 DEF PodFails, KnownAreOld, Old
  <2>7. CondemnedPods'
    BY <1>0, <1>2 DEF PodFails, CondemnedPods, Condemned
  <2>8. PacksOnBound'
    BY <1>0, <2>b DEF PacksOnBound
  <2>9. RememberedIsReady'
    BY <1>0, <2>b DEF RememberedIsReady
  <2>10. WaitsForTheStart'
    BY <1>0, <2>b DEF WaitsForTheStart
  <2>11. Entries'
    BY <1>0, <2>b DEF Entries, CallEntries, WatcherEntries, PodEntries
  <2> QED BY <2>1, <2>2, <2>3, <2>4, <2>5, <2>6, <2>7, <2>8, <2>9, <2>10, <2>11
     DEF Inv, TypeOK
<1>3. CASE PodRecovers
  <2>b. UNCHANGED <<claim, bound, packed, bare, cache, start, call, watcher, entry, watchers, status>>
    BY <1>3 DEF PodRecovers
  <2>1. ClusterType'
    BY <1>0, <1>c, <1>3 DEF PodRecovers, ClusterType, PodStates
  <2>2. StartType'
    BY <1>0, <2>b DEF StartType
  <2>3. CallType'
    BY <1>0, <2>b DEF CallType
  <2>4. WatchType'
    BY <1>0, <2>b DEF WatchType
  <2>5. PodSound'
    BY <1>0, <1>3 DEF PodRecovers, PodSound
  <2>6. KnownAreOld'
    BY <1>0, <1>3 DEF PodRecovers, KnownAreOld, Old
  <2>7. CondemnedPods'
    BY <1>0, <1>3 DEF PodRecovers, CondemnedPods, Condemned
  <2>8. PacksOnBound'
    BY <1>0, <2>b DEF PacksOnBound
  <2>9. RememberedIsReady'
    BY <1>0, <2>b DEF RememberedIsReady
  <2>10. WaitsForTheStart'
    BY <1>0, <2>b DEF WaitsForTheStart
  <2>11. Entries'
    BY <1>0, <2>b DEF Entries, CallEntries, WatcherEntries, PodEntries
  <2> QED BY <2>1, <2>2, <2>3, <2>4, <2>5, <2>6, <2>7, <2>8, <2>9, <2>10, <2>11
     DEF Inv, TypeOK
<1>4. CASE PodMoves
  <2>a. pod.at + 1 \in 0..MaxMoves
    BY <1>0, <1>4 DEF PodMoves, ClusterType
  <2>b. UNCHANGED <<claim, bound, packed, bare, cache, start, call, watcher, entry, watchers, status>>
    BY <1>4 DEF PodMoves
  <2>1. ClusterType'
    BY <1>0, <1>4, <2>a DEF PodMoves, ClusterType, PodStates
  <2>2. StartType'
    BY <1>0, <2>b DEF StartType
  <2>3. CallType'
    BY <1>0, <2>b DEF CallType
  <2>4. WatchType'
    BY <1>0, <2>b DEF WatchType
  <2>5. PodSound'
    BY <1>0, <1>4 DEF PodMoves, PodSound
  <2>6. KnownAreOld'
    <3>1. /\ claim' = claim /\ pod'.at = pod.at + 1 /\ ~ pod'.sound /\ pod'.state = pod.state
          /\ pod.at \in 0..MaxMoves /\ MaxMoves \in Nat
      BY <1>0, <1>4 DEF PodMoves, ClusterType
    <3>2. ASSUME NEW r \in RunnerOrNone, Old(r)
          PROVE  /\ r.uid <= claim'.uid
                 /\ r.uid = claim'.uid /\ claim'.phase # "none" =>
                       /\ pod'.state # "none" /\ r.at <= pod'.at
                       /\ r.at = pod'.at \/ ~ pod'.sound
      BY <3>1, <3>2 DEF Old, RunnerOrNone, Runners, NoRunner
    <3> QED BY <1>0, <2>b, <3>2 DEF KnownAreOld, Old, StartType, CallType, WatchType
  <2>7. CondemnedPods'
    BY <1>0, <1>4 DEF PodMoves, CondemnedPods, Condemned
  <2>8. PacksOnBound'
    BY <1>0, <2>b DEF PacksOnBound
  <2>9. RememberedIsReady'
    BY <1>0, <2>b DEF RememberedIsReady
  <2>10. WaitsForTheStart'
    BY <1>0, <2>b DEF WaitsForTheStart
  <2>11. Entries'
    BY <1>0, <2>b DEF Entries, CallEntries, WatcherEntries, PodEntries
  <2> QED BY <2>1, <2>2, <2>3, <2>4, <2>5, <2>6, <2>7, <2>8, <2>9, <2>10, <2>11
     DEF Inv, TypeOK
<1>5. CASE IdleStop
  <2>b. UNCHANGED <<pod, bound, packed, bare, cache, start, call, watcher, entry, watchers, status>>
    BY <1>5 DEF IdleStop
  <2>1. ClusterType'
    BY <1>0, <1>5 DEF IdleStop, ClusterType
  <2>2. StartType'
    BY <1>0, <2>b DEF StartType
  <2>3. CallType'
    BY <1>0, <2>b DEF CallType
  <2>4. WatchType'
    BY <1>0, <2>b DEF WatchType
  <2>5. PodSound'
    BY <1>0, <1>5 DEF IdleStop, PodSound
  <2>6. KnownAreOld'
    BY <1>0, <1>5 DEF IdleStop, KnownAreOld, Old
  <2>7. CondemnedPods'
    BY <1>0, <1>5 DEF IdleStop, CondemnedPods, Condemned
  <2>8. PacksOnBound'
    BY <1>0, <2>b DEF PacksOnBound
  <2>9. RememberedIsReady'
    BY <1>0, <2>b DEF RememberedIsReady
  <2>10. WaitsForTheStart'
    BY <1>0, <2>b DEF WaitsForTheStart
  <2>11. Entries'
    BY <1>0, <2>b DEF Entries, CallEntries, WatcherEntries, PodEntries
  <2> QED BY <2>1, <2>2, <2>3, <2>4, <2>5, <2>6, <2>7, <2>8, <2>9, <2>10, <2>11
     DEF Inv, TypeOK
<1>6. CASE ClaimIsGone
  <2>a. /\ claim' = [claim EXCEPT !.phase = "none"] /\ pod' = NoPod
        /\ UNCHANGED <<bound, packed, bare, cache, start, call, watcher, entry, watchers, status>>
    BY <1>6 DEF ClaimIsGone
  <2>1. ClusterType'
    BY <1>0, <2>a DEF ClusterType, NoPod, PodStates
  <2>2. StartType'
    BY <1>0, <2>a DEF StartType
  <2>3. CallType'
    BY <1>0, <2>a DEF CallType
  <2>4. WatchType'
    BY <1>0, <2>a DEF WatchType
  <2>5. PodSound'
    BY <1>0, <1>c, <1>6 DEF ClaimIsGone, NoPod, PodSound, ClusterType, PodStates
  <2>6. KnownAreOld'
    BY <1>0, <1>6 DEF ClaimIsGone, KnownAreOld, Old
  <2>7. CondemnedPods'
    BY <1>0, <1>6 DEF ClaimIsGone, CondemnedPods, Condemned
  <2>8. PacksOnBound'
    BY <1>0, <2>a DEF PacksOnBound
  <2>9. RememberedIsReady'
    BY <1>0, <2>a DEF RememberedIsReady
  <2>10. WaitsForTheStart'
    BY <1>0, <2>a DEF WaitsForTheStart
  <2>11. Entries'
    BY <1>0, <2>a DEF Entries, CallEntries, WatcherEntries, PodEntries
  <2> QED BY <2>1, <2>2, <2>3, <2>4, <2>5, <2>6, <2>7, <2>8, <2>9, <2>10, <2>11
     DEF Inv, TypeOK
<1>7. CASE StartChecks
  <2>a. /\ UNCHANGED <<claim, pod, bound, packed, bare, watcher, entry, watchers, status>>
        /\ start.at = "check" /\ start.runner \in Runners /\ start.runner # NoRunner
        /\ \/ start' = StartIs("done") /\ call' = Woken(start.runner) /\ cache' = cache
           \/ start' = StartIs("claim") /\ call' = call /\ cache' = NoRunner
    BY <1>0, <1>7 DEF StartChecks, StartType, RunnerOrNone
  <2>b. \A c \in SkillCalls :
           \/ call'[c] = call[c] /\ (call[c].at = "start" => start'.at = "claim")
           \/ call[c].at = "start" /\ call'[c] = [at |-> "hold", runner |-> start.runner]
    BY <1>0, <2>a, WokenFacts DEF RunnerOrNone, StartIs
  <2>1. ClusterType'
    BY <1>0, <2>a DEF ClusterType
  <2>2. StartType'
    BY <1>0, <2>a DEF StartType, StartIs, RunnerOrNone
  <2>3. CallType'
    BY <1>0, <2>a, <2>b DEF CallType, Woken, RunnerOrNone
  <2>4. WatchType'
    <3>1. \A d \in SkillCalls : call'[d].at = "running" <=> call[d].at = "running"
      BY <2>a, <2>b
    <3> QED BY <1>0, <2>a, <3>1, SameEntries
  <2>5. PodSound'
    BY <1>0, <2>a DEF PodSound
  <2>6. KnownAreOld'
    BY <1>0, <1>d, <2>a, <2>b DEF KnownAreOld, Old, StartIs
  <2>7. CondemnedPods'
    BY <1>0, <2>a, <2>b DEF CondemnedPods, Condemned, StartIs
  <2>8. PacksOnBound'
    BY <2>a DEF PacksOnBound, StartIs
  <2>9. RememberedIsReady'
    BY <1>0, <2>a DEF RememberedIsReady
  <2>10. WaitsForTheStart'
    BY <1>0, <2>a, <2>b DEF WaitsForTheStart, StartIs
  <2>11. Entries'
    BY <1>0, <2>a, <2>b DEF Entries, CallEntries, WatcherEntries, PodEntries
  <2> QED BY <2>1, <2>2, <2>3, <2>4, <2>5, <2>6, <2>7, <2>8, <2>9, <2>10, <2>11
     DEF Inv, TypeOK
<1>8. CASE StartAsksForClaim
  <2>a. /\ claim'.uid = claim.uid + 1 /\ claim.uid \in Nat
        /\ UNCHANGED <<cache, status, start, call, watcher>>
    BY <1>0, <1>8 DEF StartAsksForClaim, ClusterType
  <2>b. \A r \in RunnerOrNone : Old(r) => r.uid <= claim'.uid /\ r.uid # claim'.uid
    BY <2>a DEF RunnerOrNone, Runners, NoRunner, Old
  <2>1. ClusterType'
    BY <1>0, <1>8 DEF StartAsksForClaim, ClusterType
  <2>2. StartType'
    BY <1>0, <1>8 DEF StartAsksForClaim, StartType
  <2>3. CallType'
    BY <1>0, <1>8 DEF StartAsksForClaim, CallType
  <2>4. WatchType'
    BY <1>0, <1>8 DEF StartAsksForClaim, WatchType
  <2>5. PodSound'
    BY <1>0, <1>c, <1>8 DEF StartAsksForClaim, PodSound, ClusterType, PodStates
  <2>6. KnownAreOld'
    BY <1>0, <2>a, <2>b DEF KnownAreOld, Old, StartType, CallType, WatchType
  <2>7. CondemnedPods'
    BY <1>0, <1>c, <1>8
       DEF StartAsksForClaim, CondemnedPods, Condemned, ClusterType, StartType, CallType,
           WatchType, KnownAreOld, Old, StartIs, CallIs, Off, PodSound, RunnerOrNone,
           Runners, NoRunner
  <2>8. PacksOnBound'
    BY <1>0, <1>8 DEF StartAsksForClaim, PacksOnBound
  <2>9. RememberedIsReady'
    BY <1>0, <1>8 DEF StartAsksForClaim, RememberedIsReady
  <2>10. WaitsForTheStart'
    BY <1>0, <1>8 DEF StartAsksForClaim, WaitsForTheStart
  <2>11. Entries'
    BY <1>0, <1>8 DEF StartAsksForClaim, Entries, CallEntries, WatcherEntries, PodEntries
  <2> QED BY <2>1, <2>2, <2>3, <2>4, <2>5, <2>6, <2>7, <2>8, <2>9, <2>10, <2>11
     DEF Inv, TypeOK
<1>9a. CASE StartLooks
  <2>a. /\ start' = [at |-> "look", runner |-> Current] /\ UNCHANGED <<claim, pod>>
        /\ UNCHANGED <<bound, packed, bare, cache, call, watcher, entry, watchers, status>>
        /\ claim.phase # "none" /\ Current \in Runners /\ Current # NoRunner
        /\ pod.state # "none"
    BY <1>c, <1>9a DEF StartLooks, ClaimReady
  <2>b. \A r : r = start'.runner => Old(r)
    BY <1>0, <1>d, <2>a DEF KnownAreOld
  <2>1. ClusterType'
    BY <1>0, <2>a DEF ClusterType
  <2>2. StartType'
    BY <1>0, <2>a DEF StartType, RunnerOrNone
  <2>3. CallType'
    BY <1>0, <2>a DEF CallType
  <2>4. WatchType'
    BY <1>0, <2>a DEF WatchType
  <2>5. PodSound'
    BY <1>0, <2>a DEF PodSound
  <2>6. KnownAreOld'
    BY <1>0, <2>a, <2>b DEF KnownAreOld, Old
  <2>7. CondemnedPods'
    BY <1>0, <2>a DEF CondemnedPods, Condemned
  <2>8. PacksOnBound'
    BY <2>a DEF PacksOnBound
  <2>9. RememberedIsReady'
    BY <1>0, <2>a DEF RememberedIsReady
  <2>10. WaitsForTheStart'
    BY <1>0, <2>a DEF WaitsForTheStart
  <2>11. Entries'
    BY <1>0, <2>a DEF Entries, CallEntries, WatcherEntries, PodEntries
  <2> QED BY <2>1, <2>2, <2>3, <2>4, <2>5, <2>6, <2>7, <2>8, <2>9, <2>10, <2>11
     DEF Inv, TypeOK
<1>9. CASE StartCondemns
  <2>a. /\ start'.at = "delete" /\ start' = [at |-> "delete", runner |-> start'.runner]
        /\ start'.runner \in Runners /\ start'.runner # NoRunner
        /\ Condemned(start'.runner) /\ Old(start'.runner)
        /\ UNCHANGED <<claim, pod>>
        /\ UNCHANGED <<bound, packed, bare, cache, call, watcher, entry, watchers, status>>
    <3>0. UNCHANGED <<bound, packed, bare, cache, call, watcher, entry, watchers, status>> /\ UNCHANGED <<claim, pod>>
      BY <1>9 DEF StartCondemns
    <3>1. CASE start.at = "claim" /\ claim.phase = "ready" /\ pod.state = "gone"
               /\ start' = [at |-> "delete", runner |-> Current]
      <4>1. Condemned(Current)
        BY <1>0, <3>1 DEF Condemned, PodSound
      <4> QED BY <1>c, <1>d, <3>0, <3>1, <4>1
    <3>2. CASE start.at = "look" /\ FALSE \in Verdicts(start.runner)
               /\ start' = [start EXCEPT !.at = "delete"]
      <4>1. start.runner \in Runners /\ start.runner # NoRunner /\ Old(start.runner)
        BY <1>0, <3>2 DEF StartType, RunnerOrNone, KnownAreOld
      <4>2. Condemned(start.runner)
        BY <1>0, <3>2, <4>1, DoubtedRunner DEF RunnerOrNone
      <4>3. start' = [at |-> "delete", runner |-> start.runner]
        BY <1>0, <3>2 DEF StartType
      <4> QED BY <3>0, <4>1, <4>2, <4>3
    <3> QED BY <1>9, <3>1, <3>2 DEF StartCondemns
  <2>b. \A r : r = start'.runner => Old(r)
    BY <1>0, <1>d, <2>a DEF KnownAreOld
  <2>1. ClusterType'
    BY <1>0, <2>a DEF ClusterType
  <2>2. StartType'
    BY <1>0, <2>a DEF StartType, RunnerOrNone
  <2>3. CallType'
    BY <1>0, <2>a DEF CallType
  <2>4. WatchType'
    BY <1>0, <2>a DEF WatchType
  <2>5. PodSound'
    BY <1>0, <2>a DEF PodSound
  <2>6. KnownAreOld'
    BY <1>0, <2>a, <2>b DEF KnownAreOld, Old
  <2>7. CondemnedPods'
    BY <1>0, <2>a DEF CondemnedPods, Condemned
  <2>8. PacksOnBound'
    BY <2>a DEF PacksOnBound
  <2>9. RememberedIsReady'
    BY <1>0, <2>a DEF RememberedIsReady
  <2>10. WaitsForTheStart'
    BY <1>0, <2>a DEF WaitsForTheStart
  <2>11. Entries'
    BY <1>0, <2>a DEF Entries, CallEntries, WatcherEntries, PodEntries
  <2> QED BY <2>1, <2>2, <2>3, <2>4, <2>5, <2>6, <2>7, <2>8, <2>9, <2>10, <2>11
     DEF Inv, TypeOK
<1>10. CASE StartDeletes
  <2>1. ClusterType'
    BY <1>0, <1>c, <1>10 DEF StartDeletes, DeleteClaim, ClusterType, PodStates
  <2>2. StartType'
    BY <1>0, <1>c, <1>10
       DEF StartDeletes, DeleteClaim, StartType, StartIs, RunnerOrNone, Runners, NoRunner
  <2>3. CallType'
    BY <1>0, <1>10 DEF StartDeletes, CallType
  <2>4. WatchType'
    BY <1>0, <1>10 DEF StartDeletes, WatchType
  <2>5. PodSound'
    BY <1>0, <1>c, <1>10 DEF StartDeletes, DeleteClaim, PodSound, ClusterType, PodStates
  <2>6. KnownAreOld'
    BY <1>0, <1>c, <1>10
       DEF StartDeletes, DeleteClaim, KnownAreOld, Old, ClusterType, StartType, CallType,
           WatchType, StartIs, CallIs, Off, PodSound, RunnerOrNone, Runners, NoRunner
  <2>7. CondemnedPods'
    BY <1>0, <1>c, <1>10
       DEF StartDeletes, DeleteClaim, CondemnedPods, Condemned, ClusterType, StartType,
           CallType, WatchType, KnownAreOld, Old, StartIs, CallIs, Off, PodSound,
           RunnerOrNone, Runners, NoRunner
  <2>8. PacksOnBound'
    BY <1>0, <1>c, <1>10 DEF StartDeletes, DeleteClaim, PacksOnBound, StartType, StartIs
  <2>9. RememberedIsReady'
    BY <1>0, <1>10 DEF StartDeletes, RememberedIsReady
  <2>10. WaitsForTheStart'
    BY <1>0, <1>c, <1>10
       DEF StartDeletes, DeleteClaim, WaitsForTheStart, CallType, StartType, StartIs,
           CallIs
  <2>11. Entries'
    BY <1>0, <1>10 DEF StartDeletes, Entries, CallEntries, WatcherEntries, PodEntries
  <2> QED BY <2>1, <2>2, <2>3, <2>4, <2>5, <2>6, <2>7, <2>8, <2>9, <2>10, <2>11
     DEF Inv, TypeOK
<1>11. CASE StartAdopts
  <2>a. /\ start.at = "look" /\ start.runner \in Runners /\ start.runner # NoRunner
        /\ start' = [at |-> "bind", runner |-> start.runner]
        /\ claim'.uid = claim.uid /\ claim'.phase = claim.phase
        /\ claim' \in [uid : 0..MaxClaims, phase : {"none", "starting", "ready", "deleting"},
                       hold : Nat]
        /\ UNCHANGED <<pod, bound, packed, bare, cache, call, watcher, entry, watchers, status>>
    <3>1. start.at = "look" /\ start' = [start EXCEPT !.at = "bind"]
             /\ UNCHANGED <<pod, bound, packed, bare, cache, call, watcher, entry, watchers,
                           status>>
      BY <1>11 DEF StartAdopts
    <3>2. start.runner \in Runners /\ start.runner # NoRunner
             /\ start' = [at |-> "bind", runner |-> start.runner]
      BY <1>0, <3>1 DEF StartType, RunnerOrNone
    <3>3. claim'.uid = claim.uid /\ claim'.phase = claim.phase
             /\ claim' \in [uid : 0..MaxClaims,
                            phase : {"none", "starting", "ready", "deleting"}, hold : Nat]
      BY <1>0, <1>11 DEF StartAdopts, Hold, ClusterType
    <3> QED BY <3>1, <3>2, <3>3
  <2>1. ClusterType'
    BY <1>0, <2>a DEF ClusterType
  <2>2. StartType'
    BY <1>0, <2>a DEF StartType, RunnerOrNone
  <2>3. CallType'
    BY <1>0, <2>a DEF CallType
  <2>4. WatchType'
    BY <1>0, <2>a DEF WatchType
  <2>5. PodSound'
    BY <1>0, <2>a DEF PodSound
  <2>6. KnownAreOld'
    BY <1>0, <2>a DEF KnownAreOld, Old
  <2>7. CondemnedPods'
    BY <1>0, <2>a DEF CondemnedPods, Condemned
  <2>8. PacksOnBound'
    BY <2>a DEF PacksOnBound
  <2>9. RememberedIsReady'
    BY <1>0, <2>a DEF RememberedIsReady
  <2>10. WaitsForTheStart'
    BY <1>0, <2>a DEF WaitsForTheStart
  <2>11. Entries'
    BY <1>0, <2>a DEF Entries, CallEntries, WatcherEntries, PodEntries
  <2> QED BY <2>1, <2>2, <2>3, <2>4, <2>5, <2>6, <2>7, <2>8, <2>9, <2>10, <2>11
     DEF Inv, TypeOK
<1>12. CASE StartBinds
  <2>a. /\ start.runner.uid = claim.uid /\ claim.phase # "none"
        /\ start' = [at |-> "packs", runner |-> Current]
        /\ bound' = bound \cup {claim.uid}
        /\ UNCHANGED <<claim, pod, packed, bare, cache, call, watcher, entry, watchers,
                     status>>
    BY <1>12 DEF StartBinds, StateOf
  <2>1. ClusterType'
    BY <1>0, <1>c, <2>a DEF ClusterType, Runners
  <2>2. StartType'
    BY <1>0, <1>c, <2>a DEF StartType, RunnerOrNone
  <2>3. CallType'
    BY <1>0, <1>12 DEF StartBinds, CallType
  <2>4. WatchType'
    BY <1>0, <1>12 DEF StartBinds, WatchType
  <2>5. PodSound'
    BY <1>0, <1>12 DEF StartBinds, PodSound
  <2>6. KnownAreOld'
    BY <1>0, <1>c, <1>12
       DEF StartBinds, StateOf, KnownAreOld, Old, ClusterType, StartType, CallType,
           WatchType, StartIs, CallIs, Off, PodSound, RunnerOrNone, Runners, NoRunner
  <2>7. CondemnedPods'
    BY <1>0, <1>12 DEF StartBinds, CondemnedPods, Condemned
  <2>8. PacksOnBound'
    BY <1>c, <2>a DEF PacksOnBound
  <2>9. RememberedIsReady'
    BY <1>0, <1>12 DEF StartBinds, RememberedIsReady
  <2>10. WaitsForTheStart'
    BY <1>0, <1>12 DEF StartBinds, WaitsForTheStart
  <2>11. Entries'
    BY <1>0, <1>12 DEF StartBinds, Entries, CallEntries, WatcherEntries, PodEntries
  <2> QED BY <2>1, <2>2, <2>3, <2>4, <2>5, <2>6, <2>7, <2>8, <2>9, <2>10, <2>11
     DEF Inv, TypeOK
<1>13. CASE StartPacks
  <2>a. /\ UNCHANGED <<claim, pod, bound, watcher, entry, watchers, status>> /\ bare' = 0
        /\ start.at = "packs" /\ start.runner \in Runners /\ start.runner # NoRunner
        /\ start' = StartIs("done") /\ call' = Woken(start.runner)
        /\ cache' = start.runner /\ packed' = packed \cup {start.runner.uid}
    BY <1>0, <1>13 DEF StartPacks, StartType, RunnerOrNone
  <2>b. \A c \in SkillCalls :
           \/ call'[c] = call[c] /\ call[c].at # "start"
           \/ call[c].at = "start" /\ call'[c] = [at |-> "hold", runner |-> start.runner]
    BY <1>0, <2>a, WokenFacts DEF RunnerOrNone
  <2>1. ClusterType'
    <3>1. 0 \in 0..MaxClaims
      OBVIOUS
    <3> QED BY <1>0, <2>a, <3>1 DEF ClusterType, PacksOnBound
  <2>2. StartType'
    BY <1>0, <2>a DEF StartType, StartIs, RunnerOrNone
  <2>3. CallType'
    BY <1>0, <2>a, <2>b DEF CallType, Woken, RunnerOrNone
  <2>4. WatchType'
    <3>1. \A d \in SkillCalls : call'[d].at = "running" <=> call[d].at = "running"
      BY <2>a, <2>b
    <3> QED BY <1>0, <2>a, <3>1, SameEntries
  <2>5. PodSound'
    BY <1>0, <1>13 DEF StartPacks, PodSound
  <2>6. KnownAreOld'
    BY <1>0, <1>d, <2>a, <2>b DEF KnownAreOld, Old, StartIs
  <2>7. CondemnedPods'
    BY <1>0, <2>a, <2>b DEF CondemnedPods, Condemned, StartIs
  <2>8. PacksOnBound'
    BY <2>a DEF PacksOnBound, StartIs
  <2>9. RememberedIsReady'
    BY <1>0, <2>a DEF RememberedIsReady, PacksOnBound
  <2>10. WaitsForTheStart'
    BY <1>0, <2>a, <2>b DEF WaitsForTheStart
  <2>11. Entries'
    BY <1>0, <2>a, <2>b DEF Entries, CallEntries, WatcherEntries, PodEntries
  <2> QED BY <2>1, <2>2, <2>3, <2>4, <2>5, <2>6, <2>7, <2>8, <2>9, <2>10, <2>11
     DEF Inv, TypeOK
<1>14. CASE StartFails
  <2>a. /\ UNCHANGED <<claim, pod, bound, packed, bare, watcher, entry, watchers, status>>
        /\ start' = StartIs("failed") /\ call' = Woken(NoRunner) /\ cache' = NoRunner
    BY <1>14 DEF StartFails
  <2>b. \A c \in SkillCalls :
           \/ call'[c] = call[c] /\ call[c].at # "start"
           \/ call[c].at = "start" /\ call'[c] = CallIs("answered")
    BY <1>0, <2>a, WokenFacts DEF RunnerOrNone
  <2>1. ClusterType'
    BY <1>0, <1>14 DEF StartFails, ClusterType
  <2>2. StartType'
    BY <1>0, <1>c, <1>14
       DEF StartFails, Woken, StartType, StartIs, RunnerOrNone, Runners, NoRunner
  <2>3. CallType'
    BY <1>0, <2>a, <2>b DEF CallType, CallIs, Woken, RunnerOrNone
  <2>4. WatchType'
    <3>1. \A d \in SkillCalls : call'[d].at = "running" <=> call[d].at = "running"
      BY <2>a, <2>b DEF CallIs
    <3> QED BY <1>0, <2>a, <3>1, SameEntries
  <2>5. PodSound'
    BY <1>0, <1>14 DEF StartFails, PodSound
  <2>6. KnownAreOld'
    BY <1>0, <1>d, <2>a, <2>b DEF KnownAreOld, Old, StartIs, CallIs
  <2>7. CondemnedPods'
    BY <1>0, <2>a, <2>b DEF CondemnedPods, Condemned, StartIs, CallIs
  <2>8. PacksOnBound'
    BY <1>0, <1>c, <1>14 DEF StartFails, Woken, PacksOnBound, StartType, StartIs
  <2>9. RememberedIsReady'
    BY <1>0, <1>14 DEF StartFails, RememberedIsReady
  <2>10. WaitsForTheStart'
    BY <1>0, <2>a, <2>b DEF WaitsForTheStart, CallIs
  <2>11. Entries'
    BY <1>0, <2>a, <2>b DEF Entries, CallEntries, WatcherEntries, PodEntries, CallIs
  <2> QED BY <2>1, <2>2, <2>3, <2>4, <2>5, <2>6, <2>7, <2>8, <2>9, <2>10, <2>11
     DEF Inv, TypeOK
<1>15. CASE Prepare
  <2>1. ClusterType'
    BY <1>0, <1>15 DEF Prepare, ClusterType
  <2>2. StartType'
    BY <1>0, <1>c, <1>15
       DEF Prepare, StartsRunner, Begun, StartType, StartIs, RunnerOrNone, Runners,
           NoRunner
  <2>3. CallType'
    BY <1>0, <1>15 DEF Prepare, CallType
  <2>4. WatchType'
    BY <1>0, <1>15 DEF Prepare, WatchType
  <2>5. PodSound'
    BY <1>0, <1>15 DEF Prepare, PodSound
  <2>6. KnownAreOld'
    BY <1>0, <1>c, <1>15
       DEF Prepare, StartsRunner, Begun, KnownAreOld, Old, ClusterType, StartType, CallType,
           WatchType, StartIs, CallIs, Off, PodSound, RunnerOrNone, Runners, NoRunner
  <2>7. CondemnedPods'
    BY <1>0, <1>c, <1>15
       DEF Prepare, StartsRunner, Begun, CondemnedPods, Condemned, ClusterType, StartType,
           CallType, WatchType, KnownAreOld, Old, StartIs, CallIs, Off, PodSound,
           RunnerOrNone, Runners, NoRunner
  <2>8. PacksOnBound'
    BY <1>0, <1>c, <1>15 DEF Prepare, StartsRunner, Begun, PacksOnBound, StartType, StartIs
  <2>9. RememberedIsReady'
    BY <1>0, <1>15 DEF Prepare, RememberedIsReady
  <2>10. WaitsForTheStart'
    BY <1>0, <1>c, <1>15
       DEF Prepare, StartsRunner, Begun, WaitsForTheStart, CallType, StartType, StartIs,
           CallIs
  <2>11. Entries'
    BY <1>0, <1>15 DEF Prepare, Entries, CallEntries, WatcherEntries, PodEntries
  <2> QED BY <2>1, <2>2, <2>3, <2>4, <2>5, <2>6, <2>7, <2>8, <2>9, <2>10, <2>11
     DEF Inv, TypeOK
<1>16. CASE CacheExpires
  <2>1. ClusterType'
    BY <1>0, <1>16 DEF CacheExpires, ClusterType
  <2>2. StartType'
    BY <1>0, <1>c, <1>16
       DEF CacheExpires, StartType, StartIs, RunnerOrNone, Runners, NoRunner
  <2>3. CallType'
    BY <1>0, <1>16 DEF CacheExpires, CallType
  <2>4. WatchType'
    BY <1>0, <1>16 DEF CacheExpires, WatchType
  <2>5. PodSound'
    BY <1>0, <1>16 DEF CacheExpires, PodSound
  <2>6. KnownAreOld'
    BY <1>0, <1>c, <1>16
       DEF CacheExpires, KnownAreOld, Old, ClusterType, StartType, CallType, WatchType,
           StartIs, CallIs, Off, PodSound, RunnerOrNone, Runners, NoRunner
  <2>7. CondemnedPods'
    BY <1>0, <1>16 DEF CacheExpires, CondemnedPods, Condemned
  <2>8. PacksOnBound'
    BY <1>0, <1>16 DEF CacheExpires, PacksOnBound
  <2>9. RememberedIsReady'
    BY <1>0, <1>16 DEF CacheExpires, RememberedIsReady
  <2>10. WaitsForTheStart'
    BY <1>0, <1>16 DEF CacheExpires, WaitsForTheStart
  <2>11. Entries'
    BY <1>0, <1>16 DEF CacheExpires, Entries, CallEntries, WatcherEntries, PodEntries
  <2> QED BY <2>1, <2>2, <2>3, <2>4, <2>5, <2>6, <2>7, <2>8, <2>9, <2>10, <2>11
     DEF Inv, TypeOK
<1>17. CASE StatusForgets
  <2>1. ClusterType'
    BY <1>0, <1>17 DEF StatusForgets, ClusterType
  <2>2. StartType'
    BY <1>0, <1>c, <1>17
       DEF StatusForgets, Dropped, Ended, StartType, StartIs, RunnerOrNone, Runners,
           NoRunner
  <2>3. CallType'
    BY <1>0, <1>17 DEF StatusForgets, CallType
  <2>4. WatchType'
    BY <1>0, <1>17 DEF StatusForgets, WatchType
  <2>5. PodSound'
    BY <1>0, <1>17 DEF StatusForgets, PodSound
  <2>6. KnownAreOld'
    BY <1>0, <1>c, <1>17
       DEF StatusForgets, Dropped, Ended, KnownAreOld, Old, ClusterType, StartType,
           CallType, WatchType, StartIs, CallIs, Off, PodSound, RunnerOrNone, Runners,
           NoRunner
  <2>7. CondemnedPods'
    BY <1>0, <1>c, <1>17
       DEF StatusForgets, Dropped, Ended, CondemnedPods, Condemned, ClusterType, StartType,
           CallType, WatchType, KnownAreOld, Old, StartIs, CallIs, Off, PodSound,
           RunnerOrNone, Runners, NoRunner
  <2>8. PacksOnBound'
    BY <1>0, <1>c, <1>17 DEF StatusForgets, Dropped, Ended, PacksOnBound, StartType, StartIs
  <2>9. RememberedIsReady'
    BY <1>0, <1>17 DEF StatusForgets, RememberedIsReady
  <2>10. WaitsForTheStart'
    BY <1>0, <1>c, <1>17
       DEF StatusForgets, Dropped, Ended, WaitsForTheStart, CallType, StartType, StartIs,
           CallIs
  <2>11. Entries'
    BY <1>0, <1>17 DEF StatusForgets, Entries, CallEntries, WatcherEntries, PodEntries
  <2> QED BY <2>1, <2>2, <2>3, <2>4, <2>5, <2>6, <2>7, <2>8, <2>9, <2>10, <2>11
     DEF Inv, TypeOK
<1>18. CASE StatusReads
  <2>1. ClusterType'
    BY <1>0, <1>18 DEF StatusReads, ClusterType
  <2>2. StartType'
    BY <1>0, <1>c, <1>18
       DEF StatusReads, ClaimReady, StartType, StartIs, RunnerOrNone, Runners, NoRunner
  <2>3. CallType'
    BY <1>0, <1>18 DEF StatusReads, CallType
  <2>4. WatchType'
    BY <1>0, <1>18 DEF StatusReads, WatchType
  <2>5. PodSound'
    BY <1>0, <1>18 DEF StatusReads, PodSound
  <2>6. KnownAreOld'
    BY <1>0, <1>c, <1>18
       DEF StatusReads, ClaimReady, KnownAreOld, Old, ClusterType, StartType, CallType,
           WatchType, StartIs, CallIs, Off, PodSound, RunnerOrNone, Runners, NoRunner
  <2>7. CondemnedPods'
    BY <1>0, <1>18 DEF StatusReads, CondemnedPods, Condemned
  <2>8. PacksOnBound'
    BY <1>0, <1>18 DEF StatusReads, PacksOnBound
  <2>9. RememberedIsReady'
    BY <1>0, <1>18 DEF StatusReads, RememberedIsReady
  <2>10. WaitsForTheStart'
    BY <1>0, <1>18 DEF StatusReads, WaitsForTheStart
  <2>11. Entries'
    BY <1>0, <1>18 DEF StatusReads, Entries, CallEntries, WatcherEntries, PodEntries
  <2> QED BY <2>1, <2>2, <2>3, <2>4, <2>5, <2>6, <2>7, <2>8, <2>9, <2>10, <2>11
     DEF Inv, TypeOK
<1>19. CASE StatusRemembers
  <2>1. ClusterType'
    <3>1. UNCHANGED <<claim, pod, bound, packed>> /\ bare' \in {0, status.uid, bare}
      BY <1>19 DEF StatusRemembers
    <3>2. 0 \in 0..MaxClaims /\ status.uid \in 0..MaxClaims
      BY <1>0 DEF StartType, RunnerOrNone, Runners, NoRunner
    <3> QED BY <1>0, <3>1, <3>2 DEF ClusterType
  <2>2. StartType'
    BY <1>0, <1>c, <1>19
       DEF StatusRemembers, StartType, StartIs, RunnerOrNone, Runners, NoRunner
  <2>3. CallType'
    BY <1>0, <1>19 DEF StatusRemembers, CallType
  <2>4. WatchType'
    BY <1>0, <1>19 DEF StatusRemembers, WatchType
  <2>5. PodSound'
    BY <1>0, <1>19 DEF StatusRemembers, PodSound
  <2>6. KnownAreOld'
    BY <1>0, <1>c, <1>19
       DEF StatusRemembers, KnownAreOld, Old, ClusterType, StartType, CallType, WatchType,
           StartIs, CallIs, Off, PodSound, RunnerOrNone, Runners, NoRunner
  <2>7. CondemnedPods'
    BY <1>0, <1>19 DEF StatusRemembers, CondemnedPods, Condemned
  <2>8. PacksOnBound'
    BY <1>0, <1>19 DEF StatusRemembers, PacksOnBound
  <2>9. RememberedIsReady'
    BY <1>0, <1>c, <1>19
       DEF StatusRemembers, RememberedIsReady, PacksOnBound, StartType, ClusterType
  <2>10. WaitsForTheStart'
    BY <1>0, <1>19 DEF StatusRemembers, WaitsForTheStart
  <2>11. Entries'
    BY <1>0, <1>19 DEF StatusRemembers, Entries, CallEntries, WatcherEntries, PodEntries
  <2> QED BY <2>1, <2>2, <2>3, <2>4, <2>5, <2>6, <2>7, <2>8, <2>9, <2>10, <2>11
     DEF Inv, TypeOK
<1>20. CASE MetricsFail
  <2>1. ClusterType'
    BY <1>0, <1>20 DEF MetricsFail, ClusterType
  <2>2. StartType'
    BY <1>0, <1>c, <1>20
       DEF MetricsFail, Dropped, Ended, StartType, StartIs, RunnerOrNone, Runners, NoRunner
  <2>3. CallType'
    BY <1>0, <1>20 DEF MetricsFail, CallType
  <2>4. WatchType'
    BY <1>0, <1>20 DEF MetricsFail, WatchType
  <2>5. PodSound'
    BY <1>0, <1>20 DEF MetricsFail, PodSound
  <2>6. KnownAreOld'
    BY <1>0, <1>c, <1>20
       DEF MetricsFail, Dropped, Ended, KnownAreOld, Old, ClusterType, StartType, CallType,
           WatchType, StartIs, CallIs, Off, PodSound, RunnerOrNone, Runners, NoRunner
  <2>7. CondemnedPods'
    BY <1>0, <1>c, <1>20
       DEF MetricsFail, Dropped, Ended, CondemnedPods, Condemned, ClusterType, StartType,
           CallType, WatchType, KnownAreOld, Old, StartIs, CallIs, Off, PodSound,
           RunnerOrNone, Runners, NoRunner
  <2>8. PacksOnBound'
    BY <1>0, <1>c, <1>20 DEF MetricsFail, Dropped, Ended, PacksOnBound, StartType, StartIs
  <2>9. RememberedIsReady'
    BY <1>0, <1>20 DEF MetricsFail, RememberedIsReady
  <2>10. WaitsForTheStart'
    BY <1>0, <1>c, <1>20
       DEF MetricsFail, Dropped, Ended, WaitsForTheStart, CallType, StartType, StartIs,
           CallIs
  <2>11. Entries'
    BY <1>0, <1>20 DEF MetricsFail, Entries, CallEntries, WatcherEntries, PodEntries
  <2> QED BY <2>1, <2>2, <2>3, <2>4, <2>5, <2>6, <2>7, <2>8, <2>9, <2>10, <2>11
     DEF Inv, TypeOK
<1>21. ASSUME NEW c \in SkillCalls, CallBegins(c) PROVE Inv'
  <2>a. /\ UNCHANGED <<claim, pod, bound, packed, bare, cache, watcher, entry, watchers, status>>
        /\ call[c].at = "idle"
        /\ \/ /\ cache # NoRunner /\ start' = start
              /\ call' = [call EXCEPT ![c] = [at |-> "check", runner |-> cache]]
           \/ AwaitsStart(c, start)
    BY <1>21 DEF CallBegins
  <2>b. /\ \A d \in SkillCalls \ {c} : call'[d] = call[d]
        /\ \/ call'[c] = [at |-> "check", runner |-> cache] /\ cache # NoRunner /\ start' = start
           \/ call'[c] = CallIs("start") /\ start' = StartIs("claim")
           \/ call'[c] = CallIs("start") /\ start' = start
                 /\ start.at \notin {"none", "done", "failed"}
           \/ call'[c] = CallIs("answered") /\ start' = start
    BY <1>0, <2>a, AwaitsFacts DEF CallType, StartType
  <2>1. ClusterType'
    BY <1>0, <1>21 DEF CallBegins, ClusterType
  <2>2. StartType'
    BY <1>0, <1>c, <1>21
       DEF CallBegins, AwaitsStart, StartsRunner, Begun, StartType, StartIs, RunnerOrNone,
           Runners, NoRunner
  <2>3. CallType'
    BY <1>0, <1>c, <1>21
       DEF CallBegins, AwaitsStart, StartsRunner, Begun, CallType, CallIs, StartType,
           RunnerOrNone, Runners, NoRunner
  <2>4. WatchType'
    <3>1. \A d \in SkillCalls : call'[d].at = "running" <=> call[d].at = "running"
      BY <2>a, <2>b DEF CallIs
    <3> QED BY <1>0, <2>a, <3>1, SameEntries
  <2>5. PodSound'
    BY <1>0, <1>21 DEF CallBegins, PodSound
  <2>6. KnownAreOld'
    BY <1>0, <1>d, <2>a, <2>b DEF KnownAreOld, Old, StartIs, CallIs
  <2>7. CondemnedPods'
    BY <1>0, <2>a, <2>b DEF CondemnedPods, Condemned, StartIs, CallIs
  <2>8. PacksOnBound'
    BY <1>0, <1>c, <1>21
       DEF CallBegins, AwaitsStart, StartsRunner, Begun, PacksOnBound, StartType, StartIs
  <2>9. RememberedIsReady'
    BY <1>0, <1>21 DEF CallBegins, RememberedIsReady
  <2>10. WaitsForTheStart'
    BY <1>0, <2>a, <2>b DEF WaitsForTheStart, StartIs, CallIs, StartType
  <2>11. Entries'
    BY <1>0, <2>a, <2>b DEF Entries, CallEntries, WatcherEntries, PodEntries, CallIs
  <2> QED BY <2>1, <2>2, <2>3, <2>4, <2>5, <2>6, <2>7, <2>8, <2>9, <2>10, <2>11
     DEF Inv, TypeOK
<1>22. ASSUME NEW c \in SkillCalls, CallChecks(c) PROVE Inv'
  <2>a. /\ UNCHANGED <<claim, pod, bound, packed, bare, watcher, entry, watchers, status>>
        /\ call[c].at = "check"
        /\ \/ call' = [call EXCEPT ![c].at = "hold"] /\ cache' = cache /\ start' = start
           \/ cache' = NoRunner /\ AwaitsStart(c, Dropped(start))
    BY <1>22 DEF CallChecks
  <2>b. /\ Dropped(start) \in [at : {"none", "check", "claim", "look", "delete", "bind",
                                     "packs", "done", "failed"}, runner : RunnerOrNone]
        /\ Dropped(start) = StartIs("none")
              \/ (Dropped(start) = start /\ start.at \notin {"done", "failed"})
        /\ start.at \in {"check", "claim", "look", "delete", "bind", "packs"} =>
              Dropped(start) = start
    BY <1>0 DEF Dropped, Ended, StartType, StartIs, RunnerOrNone
  <2>c. /\ \A d \in SkillCalls \ {c} : call'[d] = call[d]
        /\ call' \in [SkillCalls -> [at : {"idle", "check", "start", "hold", "running", "ask",
                                         "delete", "answered"},
                                    runner : RunnerOrNone]]
        /\ \/ /\ call'[c] = [at |-> "hold", runner |-> call[c].runner]
              /\ cache' = cache /\ start' = start
           \/ /\ call'[c] = CallIs("start") /\ cache' = NoRunner
              /\ \/ start' = StartIs("claim")
                 \/ start' = start /\ start.at \notin {"none", "done", "failed"}
    <3>1. CASE AwaitsStart(c, Dropped(start)) /\ cache' = NoRunner
      BY <1>0, <2>b, <3>1, AwaitsFacts DEF StartIs
    <3>2. CASE call' = [call EXCEPT ![c].at = "hold"] /\ cache' = cache /\ start' = start
      BY <1>0, <3>2 DEF CallType
    <3> QED BY <2>a, <3>1, <3>2
  <2>1. ClusterType'
    BY <1>0, <1>22 DEF CallChecks, ClusterType
  <2>2. StartType'
    BY <1>0, <2>a, <2>c DEF StartType, StartIs, RunnerOrNone
  <2>3. CallType'
    BY <1>0, <2>a, <2>c DEF CallType, CallIs
  <2>4. WatchType'
    <3>1. \A d \in SkillCalls : call'[d].at = "running" <=> call[d].at = "running"
      BY <2>a, <2>c DEF CallIs
    <3> QED BY <1>0, <2>a, <3>1, SameEntries
  <2>5. PodSound'
    BY <1>0, <1>22 DEF CallChecks, PodSound
  <2>6. KnownAreOld'
    BY <1>0, <1>d, <2>a, <2>c DEF KnownAreOld, Old, StartIs, CallIs
  <2>7. CondemnedPods'
    BY <1>0, <2>a, <2>c DEF CondemnedPods, Condemned, StartIs, CallIs
  <2>8. PacksOnBound'
    BY <1>0, <2>a, <2>c DEF PacksOnBound, StartIs
  <2>9. RememberedIsReady'
    BY <1>0, <2>a, <2>c DEF RememberedIsReady
  <2>10. WaitsForTheStart'
    BY <1>0, <2>a, <2>c DEF WaitsForTheStart, StartIs, CallIs, StartType
  <2>11. Entries'
    BY <1>0, <2>a, <2>c DEF Entries, CallEntries, WatcherEntries, PodEntries, CallIs
  <2> QED BY <2>1, <2>2, <2>3, <2>4, <2>5, <2>6, <2>7, <2>8, <2>9, <2>10, <2>11
     DEF Inv, TypeOK
<1>23. ASSUME NEW c \in SkillCalls, CallRuns(c) PROVE Inv'
  <2>a. /\ UNCHANGED <<pod, bound, packed, bare, cache, start, status>>
        /\ call[c].at = "hold"
        /\ call[c].runner \in Runners /\ call[c].runner # NoRunner
        /\ call[c].runner.uid \in 1..MaxClaims
        /\ call'[c] = [at |-> "running", runner |-> call[c].runner]
        /\ \A d \in SkillCalls \ {c} : call'[d] = call[d]
    BY <1>0, <1>23 DEF CallRuns, CallType, RunnerOrNone, Runners
  <2>b. watcher[c] = Off /\ entry[c] = None /\ \A d \in SkillCalls : entry[d] # c
    <3>1. watcher[c] = Off
      BY <1>0, <2>a DEF Entries, CallEntries, WatcherEntries, PodEntries
    <3>2. \A d \in SkillCalls : entry[d] # None <=> call[d].at = "running"
      BY <1>0 DEF WatchType
    <3>3. \A d \in SkillCalls : call[d].at = "running" => watcher[entry[d]] # Off
      BY <1>0 DEF Entries, CallEntries, WatcherEntries, PodEntries
    <3> QED BY <2>a, <3>1, <3>2, <3>3
  <2> DEFINE u == call[c].runner.uid
             joined == /\ watchers[u] \in SkillCalls
                       /\ watcher[watchers[u]].at \in {"watching", "delete"}
                       /\ entry' = [entry EXCEPT ![c] = watchers[u]]
                       /\ UNCHANGED <<watcher, watchers>>
             made == /\ watchers[u] # None => watcher[watchers[u]].at \notin {"watching", "delete"}
                     /\ entry' = [entry EXCEPT ![c] = c]
                     /\ watcher' = [watcher EXCEPT ![c] = [at |-> "watching", runner |-> call[c].runner]]
                     /\ watchers' = [watchers EXCEPT ![u] = c]
  <2>c. joined \/ made
    <3>1. EntryFor(u) = None \/ (EntryFor(u) = watchers[u] /\ watchers[u] # None)
      BY DEF EntryFor
    <3>2. watchers[u] \in SkillCalls \cup {None}
      BY <1>0, <2>a DEF WatchType
    <3>3. CASE EntryFor(u) = None
      BY <1>23, <3>2, <3>3, RunnerAssumption DEF CallRuns, EntryFor
    <3>4. CASE EntryFor(u) # None
      BY <1>23, <3>1, <3>2, <3>4 DEF CallRuns, EntryFor
    <3> QED BY <3>3, <3>4
  <2>1. ClusterType'
    BY <1>0, <1>c, <1>23 DEF CallRuns, EntryFor, Hold, ClusterType, PodStates
  <2>2. StartType'
    BY <1>0, <1>23 DEF CallRuns, StartType
  <2>3. CallType'
    BY <1>0, <1>23 DEF CallRuns, CallType
  <2>4. WatchType'
    <3>1. \A d \in SkillCalls : entry[d] # None <=> call[d].at = "running"
      BY <1>0 DEF WatchType
    <3>2. CASE joined
      <4>1. entry'[c] = watchers[u] /\ \A d \in SkillCalls \ {c} : entry'[d] = entry[d]
        BY <1>0, <3>2 DEF WatchType
      <4>2. entry' \in [SkillCalls -> SkillCalls \cup {None}]
        BY <1>0, <3>2 DEF WatchType
      <4>3. watchers[u] # None
        BY <3>2, RunnerAssumption
      <4>4. \A d \in SkillCalls : entry'[d] # None <=> call'[d].at = "running"
        BY <2>a, <3>1, <4>1, <4>3
      <4> QED BY <1>0, <3>2, <4>2, <4>4 DEF WatchType
    <3>3. CASE made
      <4>1. watcher' \in [SkillCalls -> [at : {"off", "watching", "delete", "over", "lost"},
                                        runner : RunnerOrNone]]
        BY <1>0, <2>a, <3>3 DEF WatchType, RunnerOrNone
      <4>2. entry' \in [SkillCalls -> SkillCalls \cup {None}]
               /\ watchers' \in [1..MaxClaims -> SkillCalls \cup {None}]
        BY <1>0, <2>a, <3>3 DEF WatchType
      <4>3. entry'[c] = c /\ \A d \in SkillCalls \ {c} : entry'[d] = entry[d]
        BY <1>0, <3>3 DEF WatchType
      <4>4. \A d \in SkillCalls : entry'[d] # None <=> call'[d].at = "running"
        BY <2>a, <3>1, <4>3, RunnerAssumption
      <4> QED BY <4>1, <4>2, <4>4 DEF WatchType
    <3> QED BY <2>c, <3>2, <3>3
  <2>5. PodSound'
    BY <1>0, <1>c, <1>23 DEF CallRuns, EntryFor, Hold, PodSound, ClusterType, PodStates
  <2>6. KnownAreOld'
    BY <1>0, <1>c, <1>23
       DEF CallRuns, EntryFor, Hold, KnownAreOld, Old, ClusterType, StartType, CallType,
           WatchType, StartIs, CallIs, Off, PodSound, RunnerOrNone, Runners, NoRunner
  <2>7. CondemnedPods'
    BY <1>0, <1>c, <1>23
       DEF CallRuns, EntryFor, Hold, CondemnedPods, Condemned, ClusterType, StartType,
           CallType, WatchType, KnownAreOld, Old, StartIs, CallIs, Off, PodSound,
           RunnerOrNone, Runners, NoRunner
  <2>8. PacksOnBound'
    BY <1>0, <1>23 DEF CallRuns, PacksOnBound
  <2>9. RememberedIsReady'
    BY <1>0, <1>23 DEF CallRuns, RememberedIsReady
  <2>10. WaitsForTheStart'
    BY <1>0, <1>23 DEF CallRuns, WaitsForTheStart
  <2>11. Entries'
    <3>1. CASE joined
      <4>1. entry'[c] = watchers[u] /\ \A d \in SkillCalls \ {c} : entry'[d] = entry[d]
        BY <1>0, <3>1 DEF WatchType
      <4>2. watcher[watchers[u]] # Off /\ watcher[watchers[u]].runner.uid = u
        <5>1. watchers[u] # None
          BY <3>1, RunnerAssumption
        <5> QED BY <1>0, <2>a, <5>1 DEF Entries, PodEntries
      <4>3. CallEntries'
        <5> SUFFICES ASSUME NEW d \in SkillCalls, call'[d].at = "running"
                     PROVE  /\ watcher[entry'[d]] # Off
                            /\ watcher[entry'[d]].runner.uid = call'[d].runner.uid
          BY <3>1 DEF CallEntries
        <5>1. CASE d = c
          BY <2>a, <4>1, <4>2, <5>1
        <5>2. CASE d # c
          BY <1>0, <2>a, <4>1, <5>2 DEF Entries, CallEntries
        <5> QED BY <5>1, <5>2
      <4>4. WatcherEntries'
        BY <1>0, <2>a, <2>b, <3>1, <4>1 DEF Entries, WatcherEntries
      <4>5. PodEntries'
        BY <1>0, <3>1 DEF Entries, PodEntries
      <4> QED BY <4>3, <4>4, <4>5 DEF Entries
    <3>2. CASE made
      <4>1. entry'[c] = c /\ \A d \in SkillCalls \ {c} : entry'[d] = entry[d]
        BY <1>0, <3>2 DEF WatchType
      <4>2. /\ watcher'[c] = [at |-> "watching", runner |-> call[c].runner]
            /\ \A w \in SkillCalls \ {c} : watcher'[w] = watcher[w]
        BY <1>0, <3>2 DEF WatchType
      <4>3. watchers'[u] = c /\ \A v \in (1..MaxClaims) \ {u} : watchers'[v] = watchers[v]
        BY <1>0, <2>a, <3>2 DEF WatchType
      <4>4. watcher'[c] # Off
        BY <4>2 DEF Off
      <4>5. CallEntries'
        <5> SUFFICES ASSUME NEW d \in SkillCalls, call'[d].at = "running"
                     PROVE  /\ watcher'[entry'[d]] # Off
                            /\ watcher'[entry'[d]].runner.uid = call'[d].runner.uid
          BY DEF CallEntries
        <5>1. CASE d = c
          BY <2>a, <4>1, <4>2, <4>4, <5>1
        <5>2. CASE d # c
          <6>1. call'[d] = call[d] /\ entry'[d] = entry[d]
            BY <2>a, <4>1, <5>2
          <6>2. entry[d] \in SkillCalls /\ entry[d] # c
            BY <1>0, <2>b, <6>1 DEF WatchType
          <6> QED BY <1>0, <4>2, <6>1, <6>2 DEF Entries, CallEntries
        <5> QED BY <5>1, <5>2
      <4>6. WatcherEntries'
        <5> SUFFICES ASSUME NEW w \in SkillCalls
                     PROVE  /\ watcher'[w].at = "off" => watcher'[w] = Off
                            /\ watcher'[w] # Off =>
                                  /\ watcher'[w].runner # NoRunner
                                  /\ call'[w].at \in {"running", "ask", "delete", "answered"}
                                  /\ \E d \in SkillCalls : entry'[d] = w
                            /\ watcher'[w].at \in {"watching", "delete"} =>
                                  watchers'[watcher'[w].runner.uid] = w
          BY DEF WatcherEntries
        <5>1. CASE w = c
          BY <2>a, <4>1, <4>2, <4>3, <5>1
        <5>2. CASE w # c
          <6>1. /\ watcher[w].at = "off" => watcher[w] = Off
                /\ watcher[w] # Off =>
                      /\ watcher[w].runner # NoRunner
                      /\ call[w].at \in {"running", "ask", "delete", "answered"}
                      /\ \E d \in SkillCalls : entry[d] = w
                /\ watcher[w].at \in {"watching", "delete"} =>
                      watchers[watcher[w].runner.uid] = w
            BY <1>0 DEF Entries, WatcherEntries
          <6>2. watcher[w] # Off => \E d \in SkillCalls : entry'[d] = w
            <7>1. entry[c] # w
              BY <2>b
            <7> QED BY <4>1, <6>1, <7>1
          <6>3. watcher[w].runner # NoRunner => watcher[w].runner.uid \in 1..MaxClaims
            BY <1>0 DEF WatchType, RunnerOrNone, Runners
          <6>4. watcher[w].at \in {"watching", "delete"} => watcher[w].runner.uid # u
            BY <3>2, <5>2, <6>1
          <6>5. watcher[w].at \in {"watching", "delete"} =>
                   watcher[w] # Off /\ watchers'[watcher[w].runner.uid] = w
            BY <4>3, <6>1, <6>3, <6>4 DEF Off
          <6> QED BY <2>a, <4>2, <5>2, <6>1, <6>2, <6>5
        <5> QED BY <5>1, <5>2
      <4>7. PodEntries'
        BY <1>0, <2>a, <2>b, <4>2, <4>3, <4>4
           DEF Entries, CallEntries, WatcherEntries, PodEntries, WatchType
      <4> QED BY <4>5, <4>6, <4>7 DEF Entries
    <3> QED BY <2>c, <3>1, <3>2
  <2> QED BY <2>1, <2>2, <2>3, <2>4, <2>5, <2>6, <2>7, <2>8, <2>9, <2>10, <2>11
     DEF Inv, TypeOK
<1>24. ASSUME NEW c \in SkillCalls, CallReturns(c) PROVE Inv'
  <2>a. /\ UNCHANGED <<claim, pod, bound, packed, bare, cache, start, status>>
        /\ call[c].at = "running" /\ Leaves(c)
    BY <1>24 DEF CallReturns
  <2>b. /\ call'[c] = CallIs("answered")
        /\ \A d \in SkillCalls \ {c} : call'[d] = call[d]
    BY <1>0, <1>24 DEF CallReturns, CallType
  <2>c. call'[c].at \in {"ask", "answered"} /\ call'[c].runner \in {call[c].runner, NoRunner}
    BY <2>b DEF CallIs
  <2>d. WatchType' /\ KnownAreOld' /\ CondemnedPods' /\ Entries'
    BY <1>0, <2>a, <2>b, <2>c, LeavesFacts, LeavingKeeps
  <2>1. ClusterType'
    BY <1>0, <1>24 DEF CallReturns, ClusterType
  <2>2. StartType'
    BY <1>0, <1>24 DEF CallReturns, StartType
  <2>3. CallType'
    BY <1>0, <1>c, <1>24
       DEF CallReturns, Leaves, LastOut, Others, CallType, CallIs, StartType, RunnerOrNone,
           Runners, NoRunner
  <2>4. WatchType'
    BY <2>d
  <2>5. PodSound'
    BY <1>0, <1>24 DEF CallReturns, PodSound
  <2>6. KnownAreOld'
    BY <2>d
  <2>7. CondemnedPods'
    BY <2>d
  <2>8. PacksOnBound'
    BY <1>0, <1>24 DEF CallReturns, PacksOnBound
  <2>9. RememberedIsReady'
    BY <1>0, <1>24 DEF CallReturns, RememberedIsReady
  <2>10. WaitsForTheStart'
    BY <1>0, <1>c, <1>24
       DEF CallReturns, Leaves, LastOut, Others, WaitsForTheStart, CallType, StartType,
           StartIs, CallIs
  <2>11. Entries'
    BY <2>d
  <2> QED BY <2>1, <2>2, <2>3, <2>4, <2>5, <2>6, <2>7, <2>8, <2>9, <2>10, <2>11
     DEF Inv, TypeOK
<1>25. ASSUME NEW c \in SkillCalls, CallBreaks(c) PROVE Inv'
  <2>a. /\ UNCHANGED <<claim, pod, bound, packed, bare, cache, start, status>>
        /\ call[c].at = "running" /\ Leaves(c)
    BY <1>25 DEF CallBreaks
  <2>b. /\ call'[c] = [at |-> "ask", runner |-> call[c].runner]
        /\ \A d \in SkillCalls \ {c} : call'[d] = call[d]
    BY <1>0, <1>25 DEF CallBreaks, CallType
  <2>c. call'[c].at \in {"ask", "answered"} /\ call'[c].runner \in {call[c].runner, NoRunner}
    BY <2>b DEF CallIs
  <2>d. WatchType' /\ KnownAreOld' /\ CondemnedPods' /\ Entries'
    BY <1>0, <2>a, <2>b, <2>c, LeavesFacts, LeavingKeeps
  <2>1. ClusterType'
    BY <1>0, <1>25 DEF CallBreaks, ClusterType
  <2>2. StartType'
    BY <1>0, <1>25 DEF CallBreaks, StartType
  <2>3. CallType'
    BY <1>0, <1>25 DEF CallBreaks, CallType
  <2>4. WatchType'
    BY <2>d
  <2>5. PodSound'
    BY <1>0, <1>25 DEF CallBreaks, PodSound
  <2>6. KnownAreOld'
    BY <2>d
  <2>7. CondemnedPods'
    BY <2>d
  <2>8. PacksOnBound'
    BY <1>0, <1>25 DEF CallBreaks, PacksOnBound
  <2>9. RememberedIsReady'
    BY <1>0, <1>25 DEF CallBreaks, RememberedIsReady
  <2>10. WaitsForTheStart'
    BY <1>0, <1>25 DEF CallBreaks, WaitsForTheStart
  <2>11. Entries'
    BY <2>d
  <2> QED BY <2>1, <2>2, <2>3, <2>4, <2>5, <2>6, <2>7, <2>8, <2>9, <2>10, <2>11
     DEF Inv, TypeOK
<1>26. ASSUME NEW c \in SkillCalls, CallIsLost(c) PROVE Inv'
  <2>a. /\ UNCHANGED <<claim, pod, bound, packed, bare, cache, start, status>>
        /\ call[c].at = "running" /\ Leaves(c)
    BY <1>26 DEF CallIsLost
  <2>b. /\ call'[c] = CallIs("answered")
        /\ \A d \in SkillCalls \ {c} : call'[d] = call[d]
    BY <1>0, <1>26 DEF CallIsLost, CallType
  <2>c. call'[c].at \in {"ask", "answered"} /\ call'[c].runner \in {call[c].runner, NoRunner}
    BY <2>b DEF CallIs
  <2>d. WatchType' /\ KnownAreOld' /\ CondemnedPods' /\ Entries'
    BY <1>0, <2>a, <2>b, <2>c, LeavesFacts, LeavingKeeps
  <2>1. ClusterType'
    BY <1>0, <1>26 DEF CallIsLost, ClusterType
  <2>2. StartType'
    BY <1>0, <1>26 DEF CallIsLost, StartType
  <2>3. CallType'
    BY <1>0, <1>c, <1>26
       DEF CallIsLost, Leaves, LastOut, Others, CallType, CallIs, StartType, RunnerOrNone,
           Runners, NoRunner
  <2>4. WatchType'
    BY <2>d
  <2>5. PodSound'
    BY <1>0, <1>26 DEF CallIsLost, PodSound
  <2>6. KnownAreOld'
    BY <2>d
  <2>7. CondemnedPods'
    BY <2>d
  <2>8. PacksOnBound'
    BY <1>0, <1>26 DEF CallIsLost, PacksOnBound
  <2>9. RememberedIsReady'
    BY <1>0, <1>26 DEF CallIsLost, RememberedIsReady
  <2>10. WaitsForTheStart'
    BY <1>0, <1>c, <1>26
       DEF CallIsLost, Leaves, LastOut, Others, WaitsForTheStart, CallType, StartType,
           StartIs, CallIs
  <2>11. Entries'
    BY <2>d
  <2> QED BY <2>1, <2>2, <2>3, <2>4, <2>5, <2>6, <2>7, <2>8, <2>9, <2>10, <2>11
     DEF Inv, TypeOK
<1>27. ASSUME NEW c \in SkillCalls, CallAsks(c) PROVE Inv'
  <2>a. /\ UNCHANGED <<claim, pod, bound, packed, bare, watcher, entry, watchers, status>>
        /\ call[c].at = "ask"
        /\ \/ /\ StateOf(call[c].runner) = "unwell" /\ DropSame(call[c].runner)
              /\ call' = [call EXCEPT ![c].at = "delete"]
           \/ call' = [call EXCEPT ![c] = CallIs("answered")] /\ UNCHANGED <<cache, start>>
    BY <1>27 DEF CallAsks
  <2>b. /\ \A d \in SkillCalls \ {c} : call'[d] = call[d]
        /\ \/ /\ call'[c] = [at |-> "delete", runner |-> call[c].runner]
              /\ Condemned(call[c].runner)
           \/ call'[c] = CallIs("answered")
    BY <1>0, <2>a, BadRunner DEF CallType, KnownAreOld
  <2>c. /\ cache' \in {cache, NoRunner}
        /\ start' = start \/ (start' = StartIs("none") /\ start.at \in {"done", "failed"})
    BY <2>a, DropFacts
  <2>1. ClusterType'
    BY <1>0, <1>27 DEF CallAsks, ClusterType
  <2>2. StartType'
    BY <1>0, <1>c, <1>27
       DEF CallAsks, StateOf, DropSame, Dropped, Ended, StartType, StartIs, RunnerOrNone,
           Runners, NoRunner
  <2>3. CallType'
    BY <1>0, <1>c, <1>27
       DEF CallAsks, StateOf, DropSame, Dropped, Ended, CallType, CallIs, StartType,
           RunnerOrNone, Runners, NoRunner
  <2>4. WatchType'
    <3>1. \A d \in SkillCalls : call'[d].at = "running" <=> call[d].at = "running"
      BY <2>a, <2>b DEF CallIs
    <3> QED BY <1>0, <2>a, <3>1, SameEntries
  <2>5. PodSound'
    BY <1>0, <1>27 DEF CallAsks, PodSound
  <2>6. KnownAreOld'
    BY <1>0, <1>d, <2>a, <2>b, <2>c DEF KnownAreOld, Old, CallIs, StartIs
  <2>7. CondemnedPods'
    BY <1>0, <2>a, <2>b, <2>c DEF CondemnedPods, Condemned, CallIs, StartIs
  <2>8. PacksOnBound'
    BY <1>0, <1>c, <1>27
       DEF CallAsks, StateOf, DropSame, Dropped, Ended, PacksOnBound, StartType, StartIs
  <2>9. RememberedIsReady'
    BY <1>0, <1>c, <1>27
       DEF CallAsks, StateOf, DropSame, Dropped, Ended, RememberedIsReady, PacksOnBound,
           StartType, ClusterType
  <2>10. WaitsForTheStart'
    BY <1>0, <1>c, <1>27
       DEF CallAsks, StateOf, DropSame, Dropped, Ended, WaitsForTheStart, CallType,
           StartType, StartIs, CallIs
  <2>11. Entries'
    BY <1>0, <2>a, <2>b DEF Entries, CallEntries, WatcherEntries, PodEntries, CallIs
  <2> QED BY <2>1, <2>2, <2>3, <2>4, <2>5, <2>6, <2>7, <2>8, <2>9, <2>10, <2>11
     DEF Inv, TypeOK
<1>28. ASSUME NEW c \in SkillCalls, CallDeletes(c) PROVE Inv'
  <2>a. /\ UNCHANGED <<pod, bound, packed, bare, cache, start, watcher, entry, watchers, status>>
        /\ claim'.uid = claim.uid /\ (claim'.phase = "none" <=> claim.phase = "none")
        /\ call[c].at = "delete" /\ call'[c] = CallIs("answered")
        /\ \A d \in SkillCalls \ {c} : call'[d] = call[d]
    BY <1>0, <1>28, DeleteKeepsUid DEF CallDeletes, CallType
  <2>1. ClusterType'
    BY <1>0, <1>c, <1>28 DEF CallDeletes, DeleteClaim, ClusterType, PodStates
  <2>2. StartType'
    BY <1>0, <1>28 DEF CallDeletes, StartType
  <2>3. CallType'
    BY <1>0, <1>c, <1>28
       DEF CallDeletes, DeleteClaim, CallType, CallIs, StartType, RunnerOrNone, Runners,
           NoRunner
  <2>4. WatchType'
    <3>1. \A d \in SkillCalls : call'[d].at = "running" <=> call[d].at = "running"
      BY <2>a DEF CallIs
    <3> QED BY <1>0, <2>a, <3>1, SameEntries
  <2>5. PodSound'
    BY <1>0, <1>c, <1>28 DEF CallDeletes, DeleteClaim, PodSound, ClusterType, PodStates
  <2>6. KnownAreOld'
    BY <1>0, <1>d, <2>a DEF KnownAreOld, Old, CallIs
  <2>7. CondemnedPods'
    BY <1>0, <1>c, <1>28
       DEF CallDeletes, DeleteClaim, CondemnedPods, Condemned, ClusterType, StartType,
           CallType, WatchType, KnownAreOld, Old, StartIs, CallIs, Off, PodSound,
           RunnerOrNone, Runners, NoRunner
  <2>8. PacksOnBound'
    BY <1>0, <1>28 DEF CallDeletes, PacksOnBound
  <2>9. RememberedIsReady'
    BY <1>0, <1>28 DEF CallDeletes, RememberedIsReady
  <2>10. WaitsForTheStart'
    BY <1>0, <1>c, <1>28
       DEF CallDeletes, DeleteClaim, WaitsForTheStart, CallType, StartType, StartIs, CallIs
  <2>11. Entries'
    BY <1>0, <1>c, <1>28
       DEF CallDeletes, DeleteClaim, Entries, CallEntries, WatcherEntries, PodEntries,
           CallType, WatchType, StartType, CallIs, Off, RunnerOrNone, Runners, NoRunner
  <2> QED BY <2>1, <2>2, <2>3, <2>4, <2>5, <2>6, <2>7, <2>8, <2>9, <2>10, <2>11
     DEF Inv, TypeOK
<1>29. ASSUME NEW c \in SkillCalls, WatcherSeesError(c) PROVE Inv'
  <2>1. ClusterType'
    BY <1>0, <1>29 DEF WatcherSeesError, ClusterType
  <2>2. StartType'
    BY <1>0, <1>c, <1>29
       DEF WatcherSeesError, StateOf, DropSame, Dropped, Ended, StartType, StartIs,
           RunnerOrNone, Runners, NoRunner
  <2>3. CallType'
    BY <1>0, <1>29 DEF WatcherSeesError, CallType
  <2>4. WatchType'
    BY <1>0, <1>29 DEF WatcherSeesError, WatchType
  <2>5. PodSound'
    BY <1>0, <1>29 DEF WatcherSeesError, PodSound
  <2>6. KnownAreOld'
    BY <1>0, <1>c, <1>29
       DEF WatcherSeesError, StateOf, DropSame, Dropped, Ended, KnownAreOld, Old,
           ClusterType, StartType, CallType, WatchType, StartIs, CallIs, Off, PodSound,
           RunnerOrNone, Runners, NoRunner
  <2>7. CondemnedPods'
    BY <1>0, <1>c, <1>29
       DEF WatcherSeesError, StateOf, DropSame, Dropped, Ended, CondemnedPods, Condemned,
           ClusterType, StartType, CallType, WatchType, KnownAreOld, Old, StartIs, CallIs,
           Off, PodSound, RunnerOrNone, Runners, NoRunner
  <2>8. PacksOnBound'
    BY <1>0, <1>c, <1>29
       DEF WatcherSeesError, StateOf, DropSame, Dropped, Ended, PacksOnBound, StartType,
           StartIs
  <2>9. RememberedIsReady'
    BY <1>0, <1>c, <1>29
       DEF WatcherSeesError, StateOf, DropSame, Dropped, Ended, RememberedIsReady,
           PacksOnBound, StartType, ClusterType
  <2>10. WaitsForTheStart'
    BY <1>0, <1>c, <1>29
       DEF WatcherSeesError, StateOf, DropSame, Dropped, Ended, WaitsForTheStart, CallType,
           StartType, StartIs, CallIs
  <2>11. Entries'
    BY <1>0, <1>c, <1>29
       DEF WatcherSeesError, StateOf, DropSame, Dropped, Ended, Entries, CallEntries,
           WatcherEntries, PodEntries, CallType, WatchType, StartType, CallIs, Off,
           RunnerOrNone, Runners, NoRunner
  <2> QED BY <2>1, <2>2, <2>3, <2>4, <2>5, <2>6, <2>7, <2>8, <2>9, <2>10, <2>11
     DEF Inv, TypeOK
<1>30. ASSUME NEW c \in SkillCalls, WatcherDeletes(c) PROVE Inv'
  <2>a. /\ UNCHANGED <<pod, cache, start, status, call>>
        /\ claim'.uid = claim.uid /\ (claim'.phase = "none" <=> claim.phase = "none")
        /\ watcher'[c].runner = watcher[c].runner
        /\ \A d \in SkillCalls \ {c} : watcher'[d] = watcher[d]
    BY <1>0, <1>30, DeleteKeepsUid DEF WatcherDeletes, WatchType
  <2>1. ClusterType'
    BY <1>0, <1>c, <1>30 DEF WatcherDeletes, DeleteClaim, ClusterType, PodStates
  <2>2. StartType'
    BY <1>0, <1>30 DEF WatcherDeletes, StartType
  <2>3. CallType'
    BY <1>0, <1>30 DEF WatcherDeletes, CallType
  <2>4. WatchType'
    BY <1>0, <1>30 DEF WatcherDeletes, WatchType
  <2>5. PodSound'
    BY <1>0, <1>c, <1>30 DEF WatcherDeletes, DeleteClaim, PodSound, ClusterType, PodStates
  <2>6. KnownAreOld'
    BY <1>0, <2>a DEF KnownAreOld, Old
  <2>7. CondemnedPods'
    BY <1>0, <1>c, <1>30
       DEF WatcherDeletes, DeleteClaim, CondemnedPods, Condemned, ClusterType, StartType,
           CallType, WatchType, KnownAreOld, Old, StartIs, CallIs, Off, PodSound,
           RunnerOrNone, Runners, NoRunner
  <2>8. PacksOnBound'
    BY <1>0, <1>30 DEF WatcherDeletes, PacksOnBound
  <2>9. RememberedIsReady'
    BY <1>0, <1>30 DEF WatcherDeletes, RememberedIsReady
  <2>10. WaitsForTheStart'
    BY <1>0, <1>30 DEF WatcherDeletes, WaitsForTheStart
  <2>11. Entries'
    BY <1>0, <1>c, <1>30
       DEF WatcherDeletes, DeleteClaim, Entries, CallEntries, WatcherEntries, PodEntries,
           CallType, WatchType, StartType, CallIs, Off, RunnerOrNone, Runners, NoRunner
  <2> QED BY <2>1, <2>2, <2>3, <2>4, <2>5, <2>6, <2>7, <2>8, <2>9, <2>10, <2>11
     DEF Inv, TypeOK
<1>31. ASSUME NEW c \in SkillCalls, WatcherSeesDeath(c) PROVE Inv'
  <2>a. /\ UNCHANGED <<claim, pod, call>> /\ Condemned(watcher[c].runner)
        /\ watcher'[c].runner = watcher[c].runner
        /\ \A d \in SkillCalls \ {c} : watcher'[d] = watcher[d]
    BY <1>0, <1>31, BadRunner DEF WatcherSeesDeath, WatchType, KnownAreOld
  <2>b. start' = start \/ start' = StartIs("none")
    BY <1>31, DropFacts DEF WatcherSeesDeath
  <2>c. /\ watcher[c].at = "watching" /\ watcher'[c].at = "lost"
        /\ UNCHANGED <<entry, watchers>>
    BY <1>0, <1>31 DEF WatcherSeesDeath, WatchType
  <2>1. ClusterType'
    BY <1>0, <1>31 DEF WatcherSeesDeath, ClusterType
  <2>2. StartType'
    BY <1>0, <1>c, <1>31
       DEF WatcherSeesDeath, StateOf, DropSame, Dropped, Ended, StartType, StartIs,
           RunnerOrNone, Runners, NoRunner
  <2>3. CallType'
    BY <1>0, <1>31 DEF WatcherSeesDeath, CallType
  <2>4. WatchType'
    BY <1>0, <1>31 DEF WatcherSeesDeath, WatchType
  <2>5. PodSound'
    BY <1>0, <1>31 DEF WatcherSeesDeath, PodSound
  <2>6. KnownAreOld'
    BY <1>0, <1>c, <1>31
       DEF WatcherSeesDeath, StateOf, DropSame, Dropped, Ended, KnownAreOld, Old,
           ClusterType, StartType, CallType, WatchType, StartIs, CallIs, Off, PodSound,
           RunnerOrNone, Runners, NoRunner
  <2>7. CondemnedPods'
    BY <1>0, <2>a, <2>b DEF CondemnedPods, Condemned, StartIs
  <2>8. PacksOnBound'
    BY <1>0, <1>c, <1>31
       DEF WatcherSeesDeath, StateOf, DropSame, Dropped, Ended, PacksOnBound, StartType,
           StartIs
  <2>9. RememberedIsReady'
    BY <1>0, <1>c, <1>31
       DEF WatcherSeesDeath, StateOf, DropSame, Dropped, Ended, RememberedIsReady,
           PacksOnBound, StartType, ClusterType
  <2>10. WaitsForTheStart'
    BY <1>0, <1>c, <1>31
       DEF WatcherSeesDeath, StateOf, DropSame, Dropped, Ended, WaitsForTheStart, CallType,
           StartType, StartIs, CallIs
  <2>11. Entries'
    <3>1. \A w \in SkillCalls : watcher'[w] # Off <=> watcher[w] # Off
      BY <1>0, <2>a, <2>c DEF Off, WatchType
    <3>2. \A w \in SkillCalls : watcher'[w].runner = watcher[w].runner
      BY <2>a
    <3>3. CallEntries'
      BY <1>0, <2>a, <2>c, <3>1, <3>2 DEF Entries, CallEntries, WatchType
    <3>4. WatcherEntries'
      BY <1>0, <2>a, <2>c, <3>1, <3>2 DEF Entries, WatcherEntries
    <3>5. PodEntries'
      BY <1>0, <2>a, <2>c, <3>1, <3>2 DEF Entries, PodEntries, WatchType
    <3> QED BY <3>3, <3>4, <3>5 DEF Entries
  <2> QED BY <2>1, <2>2, <2>3, <2>4, <2>5, <2>6, <2>7, <2>8, <2>9, <2>10, <2>11
     DEF Inv, TypeOK
<1>32. CASE UNCHANGED vars
  <2>1. TypeOK'
    BY <1>0, <1>32 DEF vars, TypeOK, ClusterType, StartType, CallType, WatchType
  <2>2. PodSound' /\ KnownAreOld' /\ CondemnedPods'
    BY <1>0, <1>32 DEF vars, PodSound, KnownAreOld, Old, CondemnedPods, Condemned
  <2>3. PacksOnBound' /\ RememberedIsReady' /\ WaitsForTheStart'
    BY <1>0, <1>32 DEF vars, PacksOnBound, RememberedIsReady, WaitsForTheStart
  <2>4. Entries'
    BY <1>0, <1>32 DEF vars, Entries, CallEntries, WatcherEntries, PodEntries
  <2> QED BY <2>1, <2>2, <2>3, <2>4 DEF Inv
<1> QED
  BY <1>1, <1>2, <1>3, <1>4, <1>5, <1>6, <1>7, <1>8, <1>9, <1>9a, <1>10, <1>11, <1>12,
     <1>13, <1>14, <1>15, <1>16, <1>17, <1>18, <1>19, <1>20, <1>21, <1>22, <1>23, <1>24,
     <1>25, <1>26, <1>27, <1>28, <1>29, <1>30, <1>31, <1>32
     DEF Next, Cluster, Start, Status, CallStep, Watch

\* The invariant holds in every reachable state, for any number of calls and claims.
THEOREM Invariant == Spec => []Inv
<1>1. Init => Inv
  BY InitInv
<1>2. Inv /\ [Next]_vars => Inv'
  BY NextInv
<1> QED BY <1>1, <1>2, PTL DEF Spec

\* Types.
THEOREM TypeCorrect == Spec => []TypeOK
<1>1. Inv => TypeOK
  BY DEF Inv
<1> QED BY <1>1, Invariant, PTL

\* A remembered runner has files and packs, except the one that a status remembered
\* for a chat that wanted no packs.
THEOREM RememberedCorrect == Spec => []RememberedIsReady
<1>1. Inv => RememberedIsReady
  BY DEF Inv
<1> QED BY <1>1, Invariant, PTL

\* Nothing forgets a start while a call waits for it.
THEOREM StartsCorrect == Spec => []WaitsForTheStart
<1>1. Inv => WaitsForTheStart
  BY DEF Inv
<1> QED BY <1>1, Invariant, PTL

\* Calls join and leave the watch entry of their pod without losing or doubling it.
THEOREM WatchCorrect == Spec => []WatchedOnce
<1>1. Inv => WatchedOnce
  <2> SUFFICES ASSUME Inv PROVE WatchedOnce
    OBVIOUS
  <2>1. CallEntries /\ WatcherEntries
    BY DEF Inv, Entries
  <2>2. \A c \in SkillCalls : call[c].at = "running" => watcher[entry[c]] # Off
    BY <2>1 DEF CallEntries
  <2>3. \A w \in SkillCalls : watcher[w] # Off => \E c \in SkillCalls : entry[c] = w
    BY <2>1 DEF WatcherEntries
  <2>4. \A w \in SkillCalls :
           watcher[w].at = "watching" => watchers[watcher[w].runner.uid] = w
    BY <2>1 DEF WatcherEntries
  <2> QED BY <2>2, <2>3, <2>4 DEF WatchedOnce
<1> QED BY <1>1, Invariant, PTL

----------------------------------------------------------------------------
(* A verdict ends only the claim it is about.                              *)

\* Every deletion names a condemned runner, and a deletion by uid that takes effect
\* took the present claim.
LEMMA DeleteStep ==
    ASSUME Inv, [Next]_vars, claim.phase \in {"starting", "ready"}, claim'.phase = "deleting"
    PROVE  ~ pod.sound \/ IdleStop
<1>0. claim'.phase # claim.phase /\ claim.phase # "none" /\ CondemnedPods
  BY DEF Inv
<1>1. ASSUME NEW r, Condemned(r), DeleteClaim(r.uid) \/ UNCHANGED claim PROVE ~ pod.sound
  BY <1>0, <1>1 DEF DeleteClaim, Condemned
<1>2. CASE StartDeletes
  BY <1>0, <1>1, <1>2 DEF StartDeletes, CondemnedPods
<1>3. ASSUME NEW c \in SkillCalls, CallDeletes(c) PROVE ~ pod.sound
  BY <1>0, <1>1, <1>3 DEF CallDeletes, CondemnedPods
<1>4. ASSUME NEW w \in SkillCalls, WatcherDeletes(w) PROVE ~ pod.sound
  BY <1>0, <1>1, <1>4 DEF WatcherDeletes, CondemnedPods
<1>5. CASE IdleStop
  BY <1>5
<1>6. ~ (ClaimIsServed \/ PodFails \/ PodRecovers \/ PodMoves \/ ClaimIsGone)
  <2>1. ClusterType
    BY DEF Inv, TypeOK
  <2> QED BY <1>0, <2>1
         DEF ClusterType, ClaimIsServed, PodFails, PodRecovers, PodMoves, ClaimIsGone
<1>7. ~ (StartChecks \/ StartAsksForClaim \/ StartLooks \/ StartCondemns \/ StartAdopts
            \/ StartBinds
            \/ StartPacks \/ StartFails \/ Prepare \/ CacheExpires \/ Status \/ UNCHANGED vars)
  <2>1. ClusterType
    BY DEF Inv, TypeOK
  <2>2. ~ (StartAsksForClaim \/ StartAdopts)
    BY <1>0, <2>1 DEF ClusterType, StartAsksForClaim, StartAdopts, Hold
  <2>3. ~ (StartChecks \/ StartLooks \/ StartCondemns \/ StartBinds \/ StartPacks \/ StartFails)
    BY <1>0 DEF StartChecks, StartLooks, StartCondemns, StartBinds, StartPacks, StartFails, cluster
  <2>4. ~ (Prepare \/ CacheExpires \/ Status \/ UNCHANGED vars)
    BY <1>0 DEF Prepare, CacheExpires, Status, StatusForgets, StatusReads, StatusRemembers,
                MetricsFail, cluster, vars
  <2> QED BY <2>2, <2>3, <2>4
<1>8. \A c \in SkillCalls :
         ~ (CallBegins(c) \/ CallChecks(c) \/ CallRuns(c) \/ CallReturns(c) \/ CallBreaks(c)
               \/ CallIsLost(c) \/ CallAsks(c) \/ WatcherSeesError(c) \/ WatcherSeesDeath(c))
  <2> TAKE c \in SkillCalls
  <2>1. ~ CallRuns(c)
    <3>1. ClusterType
      BY DEF Inv, TypeOK
    <3> QED BY <1>0, <3>1 DEF ClusterType, CallRuns, Hold
  <2>2. ~ (CallBegins(c) \/ CallChecks(c) \/ CallReturns(c) \/ CallBreaks(c))
    BY <1>0 DEF CallBegins, CallChecks, CallReturns, CallBreaks, cluster
  <2>3. ~ (CallIsLost(c) \/ CallAsks(c) \/ WatcherSeesError(c) \/ WatcherSeesDeath(c))
    BY <1>0 DEF CallIsLost, CallAsks, WatcherSeesError, WatcherSeesDeath, cluster
  <2> QED BY <2>1, <2>2, <2>3
<1> QED BY <1>2, <1>3, <1>4, <1>5, <1>6, <1>7, <1>8
       DEF Next, Cluster, Start, CallStep, Watch

\* A check, a watcher or a failed call never deletes a claim whose pod was always well.
THEOREM DeletedCorrect == Spec => DeletedForCause
<1>1. Inv /\ [Next]_vars =>
         [claim.phase \in {"starting", "ready"} /\ claim'.phase = "deleting"
             => ~ pod.sound \/ IdleStop]_vars
  BY DeleteStep
<1> QED BY <1>1, Invariant, PTL DEF Spec, DeletedForCause

----------------------------------------------------------------------------
(* A watcher's verdict is about the address it watches.                    *)

\* A runner that is gone or moved stays so.
Dead(r) ==
    r.uid = claim.uid /\ claim.phase # "none" => r.at # pod.at \/ pod.state = "gone"

LostAreDead == \A w \in SkillCalls : watcher[w].at = "lost" => Dead(watcher[w].runner)

\* A step leaves the chat's claim and its pod's address as they are, or the pod moves
\* on, or the claim goes or is a new one.
Evolves ==
    \/ /\ claim'.uid = claim.uid /\ (claim'.phase = "none" <=> claim.phase = "none")
       /\ pod'.at = pod.at /\ (pod.state = "gone" => pod'.state = "gone")
    \/ claim' = claim /\ pod.state # "gone" /\ pod.at \in Nat /\ pod'.at = pod.at + 1
    \/ claim'.phase = "none"
    \/ claim'.uid = claim.uid + 1 /\ claim.uid \in Nat

LEMMA DeadStays ==
    ASSUME Evolves, ClusterType, NEW r \in RunnerOrNone, Old(r), Dead(r)
    PROVE  Dead(r)'
<1>0. r.at \in Nat /\ r.uid \in Nat
  BY RunnerAssumption DEF RunnerOrNone, Runners, NoRunner
<1>1. CASE /\ claim'.uid = claim.uid /\ (claim'.phase = "none" <=> claim.phase = "none")
           /\ pod'.at = pod.at /\ (pod.state = "gone" => pod'.state = "gone")
  BY <1>1 DEF Dead
<1>2. CASE claim' = claim /\ pod.state # "gone" /\ pod.at \in Nat /\ pod'.at = pod.at + 1
  BY <1>0, <1>2 DEF Dead, Old
<1>3. CASE claim'.phase = "none"
  BY <1>3 DEF Dead
<1>4. CASE claim'.uid = claim.uid + 1 /\ claim.uid \in Nat
  BY <1>0, <1>4 DEF Dead, Old
<1> QED BY <1>1, <1>2, <1>3, <1>4 DEF Evolves

\* What a step does to the cluster and to the watchers.
LEMMA StepEvolves ==
    ASSUME Inv, [Next]_vars
    PROVE  Evolves /\ \A w \in SkillCalls :
                         watcher'[w].at = "lost" => watcher'[w] = watcher[w] \/ WatcherSeesDeath(w)
<1>0. ClusterType /\ PodSound /\ WatchType
  BY DEF Inv, TypeOK
<1> USE RunnerAssumption DEF cluster, contents, watching
<1>1. CASE ClaimIsServed
  <2>1. pod.state # "gone" \/ claim.phase # "starting"
    BY <1>0 DEF PodSound
  <2> QED BY <1>0, <1>1, <2>1 DEF ClaimIsServed, Evolves, ClusterType
<1>2. CASE PodFails
  BY <1>0, <1>2 DEF PodFails, Evolves, ClusterType
<1>3. CASE PodRecovers
  BY <1>0, <1>3 DEF PodRecovers, Evolves, ClusterType
<1>4. CASE PodMoves
  BY <1>0, <1>4 DEF PodMoves, Evolves, ClusterType
<1>5. CASE IdleStop \/ ClaimIsGone
  BY <1>0, <1>5 DEF IdleStop, ClaimIsGone, Evolves, ClusterType
<1>6. CASE StartAsksForClaim
  BY <1>0, <1>6 DEF StartAsksForClaim, Evolves, ClusterType
<1>7. CASE StartDeletes \/ StartAdopts
  BY <1>0, <1>7 DEF StartDeletes, StartAdopts, DeleteClaim, Hold, Evolves, ClusterType
<1>8. CASE StartChecks \/ StartLooks \/ StartCondemns \/ StartBinds \/ StartPacks \/ StartFails
              \/ Prepare \/ CacheExpires \/ Status
  BY <1>8 DEF StartChecks, StartLooks, StartCondemns, StartBinds, StartPacks, StartFails,
     Prepare, CacheExpires, Status, StatusForgets, StatusReads, StatusRemembers, MetricsFail,
     Evolves
<1>9. CASE UNCHANGED vars
  BY <1>9 DEF vars, Evolves
<1>10. ASSUME NEW c \in SkillCalls,
              CallBegins(c) \/ CallChecks(c) \/ CallAsks(c) \/ CallDeletes(c)
       PROVE  Evolves /\ watcher' = watcher
  BY <1>0, <1>10 DEF CallBegins, CallChecks, CallAsks, CallDeletes, DeleteClaim, Evolves,
     ClusterType
<1>11. ASSUME NEW c \in SkillCalls, CallRuns(c)
       PROVE  Evolves /\ \A w \in SkillCalls :
                            watcher'[w] = watcher[w] \/ watcher'[w].at = "watching"
  <2>1. Evolves
    BY <1>0, <1>11 DEF CallRuns, Hold, Evolves, ClusterType
  <2>2. \/ watcher' = watcher
        \/ watcher' = [watcher EXCEPT ![c] = [at |-> "watching", runner |-> call[c].runner]]
    BY <1>11 DEF CallRuns
  <2> QED BY <1>0, <2>1, <2>2 DEF WatchType
<1>12. ASSUME NEW c \in SkillCalls, CallReturns(c) \/ CallBreaks(c) \/ CallIsLost(c)
       PROVE  Evolves /\ \A w \in SkillCalls : watcher'[w] \in {watcher[w], Off}
  <2>1. Evolves
    BY <1>12 DEF CallReturns, CallBreaks, CallIsLost, Evolves
  <2>2. call[c].at = "running" /\ Leaves(c)
    BY <1>12 DEF CallReturns, CallBreaks, CallIsLost
  <2>3. Left(c)
    BY <1>0, <2>2, LeavesFacts
  <2> QED BY <2>1, <2>3 DEF Left
<1>13. ASSUME NEW v \in SkillCalls, WatcherSeesError(v) \/ WatcherDeletes(v)
       PROVE  Evolves /\ \A w \in SkillCalls :
                            watcher'[w] = watcher[w] \/ watcher'[w].at \in {"delete", "over"}
  <2>1. Evolves
    BY <1>0, <1>13 DEF WatcherSeesError, WatcherDeletes, DeleteClaim, Evolves, ClusterType
  <2>2. \/ watcher' = [watcher EXCEPT ![v].at = "delete"]
        \/ watcher' = [watcher EXCEPT ![v].at = "over"]
    BY <1>13 DEF WatcherSeesError, WatcherDeletes
  <2> QED BY <1>0, <2>1, <2>2 DEF WatchType
<1>14. ASSUME NEW v \in SkillCalls, WatcherSeesDeath(v)
       PROVE  Evolves /\ \A w \in SkillCalls : watcher'[w] = watcher[w] \/ w = v
  <2>1. Evolves /\ watcher' = [watcher EXCEPT ![v].at = "lost"]
    BY <1>14 DEF WatcherSeesDeath, Evolves
  <2> QED BY <1>0, <2>1 DEF WatchType
<1>15. CASE Cluster \/ Start \/ Prepare \/ CacheExpires \/ Status \/ UNCHANGED vars
  <2>1. Evolves
    BY <1>1, <1>2, <1>3, <1>4, <1>5, <1>6, <1>7, <1>8, <1>9, <1>15 DEF Cluster, Start
  <2>2. CASE Cluster
    BY <2>1, <2>2 DEF Cluster, ClaimIsServed, PodFails, PodRecovers, PodMoves, IdleStop,
                      ClaimIsGone
  <2>3. CASE Start
    BY <2>1, <2>3 DEF Start, StartChecks, StartAsksForClaim, StartLooks, StartCondemns,
       StartDeletes, StartAdopts, StartBinds, StartPacks, StartFails
  <2>4. CASE Prepare \/ CacheExpires \/ Status \/ UNCHANGED vars
    BY <2>1, <2>4 DEF Prepare, CacheExpires, Status, StatusForgets, StatusReads,
       StatusRemembers, MetricsFail, vars
  <2> QED BY <1>15, <2>2, <2>3, <2>4
<1>16. ASSUME NEW c \in SkillCalls, CallStep(c) \/ Watch(c)
       PROVE  Evolves /\ \A w \in SkillCalls :
                 watcher'[w].at = "lost" => watcher'[w] = watcher[w] \/ WatcherSeesDeath(w)
  BY <1>10, <1>11, <1>12, <1>13, <1>14, <1>16 DEF CallStep, Watch, Off
<1> QED BY <1>15, <1>16 DEF Next

LEMMA LostInv == Spec => []LostAreDead
<1>1. Init => LostAreDead
  BY DEF Init, LostAreDead, Off
<1>2. Inv /\ LostAreDead /\ [Next]_vars => LostAreDead'
  <2> SUFFICES ASSUME Inv, LostAreDead, [Next]_vars,
                      NEW w \in SkillCalls, watcher'[w].at = "lost"
               PROVE  Dead(watcher[w].runner)' /\ watcher'[w].runner = watcher[w].runner
    BY DEF LostAreDead, Dead
  <2>1. watcher[w].runner \in RunnerOrNone /\ Old(watcher[w].runner) /\ ClusterType
    BY DEF Inv, TypeOK, WatchType, KnownAreOld
  <2>2. CASE watcher'[w] = watcher[w]
    <3>1. Dead(watcher[w].runner)
      BY <2>2 DEF LostAreDead
    <3>2. Evolves
      BY StepEvolves
    <3>3. ASSUME NEW r \in RunnerOrNone, Old(r), Dead(r) PROVE Dead(r)'
      BY <2>1, <3>2, <3>3, DeadStays
    <3> QED BY <2>1, <2>2, <3>1, <3>3 DEF Dead
  <2>3. CASE WatcherSeesDeath(w)
    <3>1. UNCHANGED <<claim, pod>> /\ StateOf(watcher[w].runner) \in {"gone", "moved"}
      BY <2>3 DEF WatcherSeesDeath, cluster
    <3>2. watcher'[w].runner = watcher[w].runner
      BY <2>3 DEF WatcherSeesDeath, Inv, TypeOK, WatchType
    <3>3. pod.state # "moved"
      BY <2>1 DEF ClusterType, PodStates
    <3>4. Dead(watcher[w].runner)
      BY <3>1, <3>3 DEF Dead, StateOf
    <3> QED BY <3>1, <3>2, <3>4 DEF Dead
  <2> QED BY <2>2, <2>3, StepEvolves
<1> QED BY <1>1, <1>2, Invariant, PTL DEF Spec

\* A call is failed as lost only when its own runner is gone or moved, or when the
\* watcher it joined was made for an earlier address of its pod.
THEOREM LostCorrect == Spec => LostWithItsPod
<1>1. Inv /\ LostAreDead /\ [Next]_vars =>
         [\A c \in SkillCalls : CallIsLost(c) =>
             \/ StateOf(call[c].runner) \in {"gone", "moved"}
             \/ LET seen == watcher[entry[c]].runner
                IN  seen.uid = call[c].runner.uid /\ seen.at < call[c].runner.at]_vars
  <2> SUFFICES ASSUME Inv, LostAreDead, NEW c \in SkillCalls, CallIsLost(c),
                      StateOf(call[c].runner) \notin {"gone", "moved"}
               PROVE  /\ watcher[entry[c]].runner.uid = call[c].runner.uid
                      /\ watcher[entry[c]].runner.at < call[c].runner.at
    OBVIOUS
  <2> DEFINE seen == watcher[entry[c]].runner
             mine == call[c].runner
  <2>1. call[c].at = "running" /\ watcher[entry[c]].at = "lost"
    BY DEF CallIsLost
  <2>2. entry[c] \in SkillCalls
    BY <2>1 DEF Inv, TypeOK, WatchType
  <2>3. seen.uid = mine.uid
    BY <2>1 DEF Inv, Entries, CallEntries
  <2>4. Dead(seen) /\ Old(seen) /\ seen \in RunnerOrNone
    BY <2>1, <2>2 DEF LostAreDead, Inv, KnownAreOld, TypeOK, WatchType
  <2>5. mine.uid = claim.uid /\ claim.phase # "none" /\ mine.at = pod.at /\ pod.state # "gone"
    BY DEF StateOf
  <2>6. pod.at \in Nat /\ seen.at \in Nat
    BY <2>4, RunnerAssumption DEF Inv, TypeOK, ClusterType, RunnerOrNone, Runners, NoRunner
  <2>7. seen.at # pod.at /\ seen.at <= pod.at
    BY <2>3, <2>4, <2>5 DEF Dead, Old
  <2> QED BY <2>3, <2>5, <2>6, <2>7
<1> QED BY <1>1, Invariant, LostInv, PTL DEF Spec, LostWithItsPod

=============================================================================
