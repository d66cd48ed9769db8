----------------------------- MODULE ToolRunner -----------------------------
(***************************************************************************)
(* The tool runner of one chat (utils/skill_k8s_sandbox.py): a claim on a  *)
(* pod of the cluster, found or created by one start at a time, remembered *)
(* in a cache, checked before each skill call and watched during it.       *)
(*                                                                         *)
(* A runner is the claim it came with and the address its pod had: a pod   *)
(* whose container restarts keeps its name and moves to another address.   *)
(* Every request is a step of its own, so what a check found may be old    *)
(* when it is acted upon.  The cluster (claims, pods, the idle timer) is   *)
(* modelled as the code uses it.                                           *)
(***************************************************************************)
EXTENDS Naturals, FiniteSets

CONSTANTS
    SkillCalls, \* bound: the skill calls of the chat, each made once
    Timeout,    \* how long each call's runner must be held: 1 is the idle time
    None,       \* no call
    MaxClaims,  \* bound: claims the cluster gives out
    MaxMoves    \* bound: addresses a pod moves to

ASSUME RunnerAssumption ==
    /\ Timeout \in [SkillCalls -> Nat \ {0}]
    /\ None \notin SkillCalls
    /\ MaxClaims \in Nat /\ MaxMoves \in Nat

VARIABLES
    claim,      \* the chat's claim in the cluster
    pod,        \* its pod, and whether it was always well
    bound,      \* claims whose pod has the chat's files
    packed,     \* claims whose pod has the skill packs
    bare,       \* the claim last remembered by a status that wanted no packs
    cache,      \* _ready_cache[chat]
    start,      \* _starts[chat]: how far the task is, and the runner it has
    call,       \* each skill call: where it is, and the runner it was given
    watcher,    \* the watch entry each call made: its task
    entry,      \* the watch entry each running call is in, named by its maker
    watchers,   \* _watchers: the entry for the pod of each claim
    status      \* a runner_status request: the runner it read

vars == <<claim, pod, bound, packed, bare, cache, start, call, watcher, entry,
          watchers, status>>

cluster   == <<claim, pod>>
contents  == <<bound, packed, bare>>
watching  == <<watcher, entry, watchers>>

Runners  == [uid : 1..MaxClaims, at : 0..MaxMoves]
NoRunner == [uid |-> 0, at |-> 0]

StartIs(at) == [at |-> at, runner |-> NoRunner]
CallIs(at)  == [at |-> at, runner |-> NoRunner]
Off         == [at |-> "off", runner |-> NoRunner]

\* The pod's states: answering; answering with an error; Running but not Ready;
\* evicted, completed or deleted.
PodStates == {"none", "up", "unwell", "unready", "gone"}

NoPod == [at |-> 0, state |-> "none", sound |-> TRUE]

RunnerOrNone == Runners \cup {NoRunner}

ClusterType ==
    /\ claim \in [uid : 0..MaxClaims, phase : {"none", "starting", "ready", "deleting"},
                  hold : Nat]
    /\ pod \in [at : 0..MaxMoves, state : PodStates, sound : BOOLEAN]
    /\ packed \subseteq bound /\ bound \subseteq 1..MaxClaims
    /\ bare \in 0..MaxClaims

StartType ==
    /\ cache \in RunnerOrNone /\ status \in RunnerOrNone
    /\ start \in [at : {"none", "check", "claim", "look", "delete", "bind", "packs", "done",
                         "failed"},
                  runner : RunnerOrNone]
    /\ start.at \in {"check", "look", "delete", "bind", "packs"} <=> start.runner # NoRunner

CallType ==
    /\ call \in [SkillCalls -> [at : {"idle", "check", "start", "hold", "running", "ask",
                                     "delete", "answered"},
                                runner : RunnerOrNone]]
    /\ \A c \in SkillCalls : call[c].at \in {"check", "hold", "running", "ask", "delete"}
                                <=> call[c].runner # NoRunner

WatchType ==
    /\ watcher \in [SkillCalls -> [at : {"off", "watching", "delete", "over", "lost"},
                                   runner : RunnerOrNone]]
    /\ entry \in [SkillCalls -> SkillCalls \cup {None}]
    /\ watchers \in [1..MaxClaims -> SkillCalls \cup {None}]
    /\ \A c \in SkillCalls : entry[c] # None <=> call[c].at = "running"

TypeOK == ClusterType /\ StartType /\ CallType /\ WatchType

Init ==
    /\ claim = [uid |-> 0, phase |-> "none", hold |-> 0]
    /\ pod = NoPod
    /\ bound = {} /\ packed = {} /\ bare = 0
    /\ cache = NoRunner
    /\ start = StartIs("none")
    /\ call = [c \in SkillCalls |-> CallIs("idle")]
    /\ watcher = [c \in SkillCalls |-> Off]
    /\ entry = [c \in SkillCalls |-> None]
    /\ watchers = [u \in 1..MaxClaims |-> None]
    /\ status = NoRunner

----------------------------------------------------------------------------
(* The cluster.                                                            *)

\* What is at a runner's address.
StateOf(r) ==
    IF r.uid # claim.uid \/ claim.phase = "none" THEN "gone"
    ELSE IF r.at # pod.at THEN "moved" ELSE pod.state

\* The runner of the claim.
Current == [uid |-> claim.uid, at |-> pod.at]

\* The claim is marked not ready along with its pod.
ClaimReady == claim.phase = "ready" /\ pod.state \in {"up", "unwell"}

ClaimIsServed ==
    /\ claim.phase = "starting"
    /\ claim' = [claim EXCEPT !.phase = "ready"]
    /\ pod' = [pod EXCEPT !.state = "up"]
    /\ UNCHANGED <<contents, cache, start, call, watching, status>>

PodFails ==
    /\ claim.phase = "ready" /\ pod.state # "gone"
    /\ \E s \in {"unwell", "unready", "gone"} \ {pod.state} :
          pod' = [pod EXCEPT !.state = s, !.sound = FALSE]
    /\ UNCHANGED <<claim, contents, cache, start, call, watching, status>>

PodRecovers ==
    /\ claim.phase = "ready" /\ pod.state = "unready"
    /\ pod' = [pod EXCEPT !.state = "up"]
    /\ UNCHANGED <<claim, contents, cache, start, call, watching, status>>

\* Out of memory: the container restarts at another address.
PodMoves ==
    /\ claim.phase = "ready" /\ pod.state = "up" /\ pod.at < MaxMoves
    /\ pod' = [pod EXCEPT !.at = @ + 1, !.sound = FALSE]
    /\ UNCHANGED <<claim, contents, cache, start, call, watching, status>>

\* The idle timer, or the cluster's controller, releases the claim.
IdleStop ==
    /\ claim.phase \in {"starting", "ready"}
    /\ claim' = [claim EXCEPT !.phase = "deleting"]
    /\ UNCHANGED <<pod, contents, cache, start, call, watching, status>>

ClaimIsGone ==
    /\ claim.phase = "deleting"
    /\ claim' = [claim EXCEPT !.phase = "none"]
    /\ pod' = NoPod
    /\ UNCHANGED <<contents, cache, start, call, watching, status>>

Cluster == ClaimIsServed \/ PodFails \/ PodRecovers \/ PodMoves \/ IdleStop \/ ClaimIsGone

----------------------------------------------------------------------------
(* The code's own operations.                                              *)

\* Mutation: whatever claim the chat has is deleted.
DeleteAnyClaim(uid) ==
    claim' = IF claim.phase \in {"starting", "ready"}
             THEN [claim EXCEPT !.phase = "deleting"] ELSE claim

\* delete_claim with the uid as a precondition.
DeleteClaim(uid) ==
    claim' = IF claim.uid = uid /\ claim.phase \in {"starting", "ready"}
             THEN [claim EXCEPT !.phase = "deleting"] ELSE claim

\* extend_claim_ttl: the idle timer starts again, for this long.
Hold(seconds) == [claim EXCEPT !.hold = seconds]

\* _runner_alive: an error answer condemns the runner, and a pod that is gone,
\* moved or, without an answer, not ready.  No answer in time from a pod that is
\* ready, and an error of the cluster's API, are no verdict.
Verdicts(r) == IF StateOf(r) = "up" THEN {TRUE} ELSE BOOLEAN

Ended(s) == s.at \in {"done", "failed"}

\* A new start first checks the runner remembered, if there is one.
Begun(r) == IF r = NoRunner THEN StartIs("claim") ELSE [at |-> "check", runner |-> r]

\* Mutation: a start in flight is forgotten too.
DroppedAny(s) == StartIs("none")

\* _drop_runner forgets the runner of the chat, whichever it is, and a start
\* that has ended.
Dropped(s) == IF Ended(s) THEN StartIs("none") ELSE s

\* _same_runner compares pods by name.
DropSame(r) ==
    IF cache.uid = r.uid THEN cache' = NoRunner /\ start' = Dropped(start)
                         ELSE UNCHANGED <<cache, start>>

\* start_runner: a running start is shared, also one that has just failed.
StartsRunner(s, r) ==
    CASE s.at = "none"   -> {Begun(r)}
      [] s.at = "done"   -> {IF r = NoRunner THEN Begun(r) ELSE s}
      [] s.at = "failed" -> {Begun(r), s}
      [] OTHER           -> {s}

\* The callers that wait for the start get its runner or its error.
Woken(r) ==
    [c \in SkillCalls |->
        IF call[c].at # "start" THEN call[c]
        ELSE IF r = NoRunner THEN CallIs("answered") ELSE [at |-> "hold", runner |-> r]]

----------------------------------------------------------------------------
(* _run_start.                                                             *)

StartChecks ==
    /\ start.at = "check"
    /\ \/ /\ TRUE \in Verdicts(start.runner)
          /\ start' = StartIs("done")
          /\ call' = Woken(start.runner)
          /\ UNCHANGED cache
       \/ /\ FALSE \in Verdicts(start.runner)
          /\ start' = StartIs("claim")
          /\ cache' = NoRunner
          /\ UNCHANGED call
    /\ UNCHANGED <<cluster, contents, watching, status>>

\* _adopt_or_replace_claim: create a claim, wait for one, condemn it or take it.
StartAsksForClaim ==
    /\ start.at = "claim" /\ claim.phase = "none" /\ claim.uid < MaxClaims
    /\ claim' = [uid |-> claim.uid + 1, phase |-> "starting", hold |-> 1]
    /\ UNCHANGED <<pod, contents, cache, start, call, watching, status>>

StartLooks ==
    /\ start.at = "claim" /\ ClaimReady
    /\ start' = [at |-> "look", runner |-> Current]
    /\ UNCHANGED <<cluster, contents, cache, call, watching, status>>

StartCondemns ==
    /\ \/ /\ start.at = "claim" /\ claim.phase = "ready" /\ pod.state = "gone"
          /\ start' = [at |-> "delete", runner |-> Current]
       \/ /\ start.at = "look" /\ FALSE \in Verdicts(start.runner)
          /\ start' = [start EXCEPT !.at = "delete"]
    /\ UNCHANGED <<cluster, contents, cache, call, watching, status>>

StartDeletes ==
    /\ start.at = "delete"
    /\ DeleteClaim(start.runner.uid)
    /\ start' = StartIs("claim")
    /\ UNCHANGED <<pod, contents, cache, call, watching, status>>

\* The claim's time starts again, if it can still be extended.
StartAdopts ==
    /\ start.at = "look" /\ TRUE \in Verdicts(start.runner)
    /\ claim' = IF claim.phase \in {"starting", "ready"} THEN Hold(1) ELSE claim
    /\ start' = [start EXCEPT !.at = "bind"]
    /\ UNCHANGED <<pod, contents, cache, call, watching, status>>

\* Mutation: a pod that answers counts as bound.
StartBindsNothing ==
    /\ start.at = "bind" /\ StateOf(start.runner) \in {"up", "moved"} /\ pod.state = "up"
    /\ start' = [at |-> "packs", runner |-> Current]
    /\ UNCHANGED <<cluster, contents, cache, call, watching, status>>

\* bind_workspace and verify_runtime, at the address the pod has by then.
StartBinds ==
    /\ start.at = "bind" /\ StateOf(start.runner) \in {"up", "moved"} /\ pod.state = "up"
    /\ bound' = bound \cup {start.runner.uid}
    /\ start' = [at |-> "packs", runner |-> Current]
    /\ UNCHANGED <<cluster, packed, bare, cache, call, watching, status>>

\* The skill packs the chat needs; then the runner is ready.
StartPacks ==
    /\ start.at = "packs"
    /\ start.runner.uid \in packed \/ StateOf(start.runner) = "up"
    /\ packed' = packed \cup {start.runner.uid}
    /\ bare' = 0
    /\ cache' = start.runner
    /\ start' = StartIs("done")
    /\ call' = Woken(start.runner)
    /\ UNCHANGED <<cluster, bound, watching, status>>

\* The time limit of the whole start.
StartFails ==
    /\ start.at \in {"claim", "look", "delete", "bind", "packs"}
    /\ cache' = NoRunner
    /\ start' = StartIs("failed")
    /\ call' = Woken(NoRunner)
    /\ UNCHANGED <<cluster, contents, watching, status>>

Start ==
    \/ StartChecks \/ StartAsksForClaim \/ StartLooks \/ StartCondemns \/ StartDeletes
    \/ StartAdopts \/ StartBinds \/ StartPacks \/ StartFails

\* start_tool_runner and await_runner_for_chat: start and do not look at it.
Prepare ==
    /\ start' \in StartsRunner(start, cache) \ {start}
    /\ UNCHANGED <<cluster, contents, cache, call, watching, status>>

\* The idle lifetime of the cached runner ends.
CacheExpires ==
    /\ cache # NoRunner
    /\ cache' = NoRunner
    /\ UNCHANGED <<cluster, contents, start, call, watching, status>>

----------------------------------------------------------------------------
(* A skill call: run_skill_on_runner.                                      *)

\* start_runner and wait: a failure of a moment ago is the answer at once.
AwaitsStart(c, s) ==
    \E t \in StartsRunner(s, NoRunner) :
        /\ start' = t
        /\ call' = [call EXCEPT ![c] = CallIs(IF t.at = "failed" THEN "answered" ELSE "start")]

\* ensure_runner
CallBegins(c) ==
    /\ call[c].at = "idle"
    /\ IF cache = NoRunner
       THEN AwaitsStart(c, start)
       ELSE call' = [call EXCEPT ![c] = [at |-> "check", runner |-> cache]] /\ UNCHANGED start
    /\ UNCHANGED <<cluster, contents, cache, watching, status>>

CallChecks(c) ==
    /\ call[c].at = "check"
    /\ \/ /\ TRUE \in Verdicts(call[c].runner)
          /\ call' = [call EXCEPT ![c].at = "hold"]
          /\ UNCHANGED <<cache, start>>
       \/ /\ FALSE \in Verdicts(call[c].runner)
          /\ cache' = NoRunner
          /\ AwaitsStart(c, Dropped(start))
    /\ UNCHANGED <<cluster, contents, watching, status>>

\* Mutation: one entry for the chat, whatever the pod.
EntryForChat(uid) ==
    IF \E w \in SkillCalls : watcher[w].at \in {"watching", "delete"}
    THEN CHOOSE w \in SkillCalls : watcher[w].at \in {"watching", "delete"}
    ELSE None

\* The entry of the pod, while its task runs.
EntryFor(uid) ==
    IF watchers[uid] # None /\ watcher[watchers[uid]].at \in {"watching", "delete"}
    THEN watchers[uid] ELSE None

\* hold_runner_for_skill, on the chat's claim; then the call joins the entry of
\* its pod or makes one.
CallRuns(c) ==
    /\ call[c].at = "hold"
    /\ claim' = IF claim.phase \in {"starting", "ready"} THEN Hold(Timeout[c]) ELSE claim
    /\ call' = [call EXCEPT ![c].at = "running"]
    /\ LET w == EntryFor(call[c].runner.uid)
       IN  IF w = None
           THEN /\ entry' = [entry EXCEPT ![c] = c]
                /\ watcher' = [watcher EXCEPT ![c] = [at |-> "watching", runner |-> call[c].runner]]
                /\ watchers' = [watchers EXCEPT ![call[c].runner.uid] = c]
           ELSE entry' = [entry EXCEPT ![c] = w] /\ UNCHANGED <<watcher, watchers>>
    /\ UNCHANGED <<pod, contents, cache, start, status>>

Others(c) == {d \in SkillCalls \ {c} : entry[d] = entry[c]}

\* Mutation: the watcher is stopped with one call still in flight.
LastOutOffByOne(c) == Cardinality(Others(c)) <= 1

LastOut(c) == Others(c) = {}

\* The call leaves its entry; the last one stops the watcher.
Leaves(c) ==
    /\ entry' = [entry EXCEPT ![c] = None]
    /\ IF LastOut(c)
       THEN /\ watcher' = [watcher EXCEPT ![entry[c]] = Off]
            /\ watchers' = [u \in DOMAIN watchers |->
                               IF watchers[u] = entry[c] THEN None ELSE watchers[u]]
       ELSE UNCHANGED <<watcher, watchers>>

\* The runner's answer, the call's own timeout, or Stop.
CallReturns(c) ==
    /\ call[c].at = "running"
    /\ Leaves(c)
    /\ call' = [call EXCEPT ![c] = CallIs("answered")]
    /\ UNCHANGED <<cluster, contents, cache, start, status>>

\* The request fails, or the skill does: ask how the runner is.
CallBreaks(c) ==
    /\ call[c].at = "running"
    /\ Leaves(c)
    /\ call' = [call EXCEPT ![c].at = "ask"]
    /\ UNCHANGED <<cluster, contents, cache, start, status>>

\* RunnerLostError: the watcher saw the runner die.
CallIsLost(c) ==
    /\ call[c].at = "running" /\ watcher[entry[c]].at = "lost"
    /\ Leaves(c)
    /\ call' = [call EXCEPT ![c] = CallIs("answered")]
    /\ UNCHANGED <<cluster, contents, cache, start, status>>

\* _lost_exec_message, and _delete_unhealthy_runner after an error answer.
CallAsks(c) ==
    /\ call[c].at = "ask"
    /\ IF StateOf(call[c].runner) = "unwell"
       THEN DropSame(call[c].runner) /\ call' = [call EXCEPT ![c].at = "delete"]
       ELSE call' = [call EXCEPT ![c] = CallIs("answered")] /\ UNCHANGED <<cache, start>>
    /\ UNCHANGED <<cluster, contents, watching, status>>

\* The claim is deleted, or the request fails and is logged.
CallDeletes(c) ==
    /\ call[c].at = "delete"
    /\ DeleteClaim(call[c].runner.uid) \/ UNCHANGED claim
    /\ call' = [call EXCEPT ![c] = CallIs("answered")]
    /\ UNCHANGED <<pod, contents, cache, start, watching, status>>

CallStep(c) ==
    \/ CallBegins(c) \/ CallChecks(c) \/ CallRuns(c) \/ CallReturns(c) \/ CallBreaks(c)
    \/ CallIsLost(c) \/ CallAsks(c) \/ CallDeletes(c)

----------------------------------------------------------------------------
(* _watch_runner: the task of the entry made by call w.                    *)

WatcherSeesError(w) ==
    /\ watcher[w].at = "watching" /\ StateOf(watcher[w].runner) = "unwell"
    /\ watcher' = [watcher EXCEPT ![w].at = "delete"]
    /\ DropSame(watcher[w].runner)
    /\ UNCHANGED <<cluster, contents, call, entry, watchers, status>>

WatcherDeletes(w) ==
    /\ watcher[w].at = "delete"
    /\ DeleteClaim(watcher[w].runner.uid) \/ UNCHANGED claim
    /\ watcher' = [watcher EXCEPT ![w].at = "over"]
    /\ UNCHANGED <<pod, contents, cache, start, call, entry, watchers, status>>

WatcherSeesDeath(w) ==
    /\ watcher[w].at = "watching" /\ StateOf(watcher[w].runner) \in {"gone", "moved"}
    /\ watcher' = [watcher EXCEPT ![w].at = "lost"]
    /\ DropSame(watcher[w].runner)
    /\ UNCHANGED <<cluster, contents, call, entry, watchers, status>>

Watch(w) == WatcherSeesError(w) \/ WatcherDeletes(w) \/ WatcherSeesDeath(w)

----------------------------------------------------------------------------
(* runner_status: reads, but forgets and remembers runners.                *)

\* A remembered runner that answers, or is ready at its address, stays.
StatusForgets ==
    /\ cache # NoRunner /\ FALSE \in Verdicts(cache)
    /\ cache' = NoRunner /\ start' = Dropped(start)
    /\ UNCHANGED <<cluster, contents, call, watching, status>>

\* With none remembered and no start in flight, the claim's runner is read.
StatusReads ==
    /\ cache = NoRunner /\ status = NoRunner
    /\ start.at = "none" \/ Ended(start)
    /\ ClaimReady /\ pod.state = "up"
    /\ status' = Current
    /\ UNCHANGED <<cluster, contents, cache, start, call, watching>>

\* Mutation: every claimed runner that answers is remembered.
StatusRemembersAny ==
    /\ status # NoRunner
    /\ cache' = status
    /\ status' = NoRunner
    /\ UNCHANGED <<cluster, contents, start, call, watching>>

\* A runner that has its packs is remembered, also when it is an old one by now,
\* and any runner while the chat wants no packs: nobody looks whether it is bound.
StatusRemembers ==
    /\ status # NoRunner
    /\ status' = NoRunner
    /\ \/ status.uid \in packed /\ cache' = status /\ bare' = 0
       \/ status.uid \notin packed /\ cache' = status /\ bare' = status.uid
       \/ status.uid \notin packed /\ UNCHANGED <<cache, bare>>
    /\ UNCHANGED <<cluster, bound, packed, start, call, watching>>

\* runner_metrics: any failure forgets the runner, and a start that has ended.
MetricsFail ==
    /\ cache # NoRunner \/ Ended(start)
    /\ cache' = NoRunner /\ start' = Dropped(start)
    /\ UNCHANGED <<cluster, contents, call, watching, status>>

Status == StatusForgets \/ StatusReads \/ StatusRemembers \/ MetricsFail

----------------------------------------------------------------------------
Next ==
    \/ Cluster \/ Start \/ Prepare \/ CacheExpires \/ Status
    \/ \E c \in SkillCalls : CallStep(c) \/ Watch(c)

Spec == Init /\ [][Next]_vars

----------------------------------------------------------------------------
(* Properties.                                                             *)

\* Only the cluster and a verdict on its own pod end a claim: a check, a watcher or
\* a failed call that condemned an older runner never deletes the one that took
\* its place, though both have the same name (delete_claim's uid).
DeletedForCause ==
    [][claim.phase \in {"starting", "ready"} /\ claim'.phase = "deleting"
          => ~ pod.sound \/ IdleStop]_vars

\* A remembered runner has the chat's files and the packs, whoever remembered it
\* and whatever was dropped meanwhile (_run_start: "The runner counts as ready only
\* after all three"), unless a status remembered it while the chat wanted no packs
\* and no start has made it ready since.
RememberedIsReady == cache # NoRunner => cache.uid \in (bound \cap packed) \cup {bare}

\* A running call is watched until its watcher gives a verdict, a watcher runs only
\* for calls, and a pod has one.
WatchedOnce ==
    /\ \A c \in SkillCalls : call[c].at = "running" => watcher[entry[c]] # Off
    /\ \A w \in SkillCalls : watcher[w] # Off => \E c \in SkillCalls : entry[c] = w
    /\ \A v, w \in SkillCalls :
          watcher[v].at = "watching" /\ watcher[w].at = "watching"
             /\ watcher[v].runner.uid = watcher[w].runner.uid => v = w

\* A call is failed as lost only when the runner it was sent to is gone or moved,
\* never over a claim that its own one replaced; except that a call joins the
\* watcher of its pod's name, which may be made for an earlier address (against
\* RunnerLostError: "The runner a tool call was sent to died").
LostWithItsPod ==
    [][\A c \in SkillCalls : CallIsLost(c) =>
          \/ StateOf(call[c].runner) \in {"gone", "moved"}
          \/ LET seen == watcher[entry[c]].runner
             IN  seen.uid = call[c].runner.uid /\ seen.at < call[c].runner.at]_vars

\* A call waits only for a start that is in flight: no late verdict on an older
\* runner forgets the start others wait for, so there is never a second one.
WaitsForTheStart ==
    \A c \in SkillCalls :
        call[c].at = "start" => start.at \in {"check", "claim", "look", "delete", "bind", "packs"}

\* A running skill keeps its runner for at least its timeout.
HeldForTimeout ==
    \A c \in SkillCalls :
        call[c].at = "running" /\ call[c].runner.uid = claim.uid
           /\ claim.phase \in {"starting", "ready"}
              => claim.hold >= Timeout[c]

=============================================================================
