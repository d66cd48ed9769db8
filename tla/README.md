# Weather Skills Chat: a TLA+ verification

Weather Skills Chat is a chat application on a fork of Open WebUI (FastAPI
backend in `backend/open_webui`, Svelte frontend in `src/lib`). Its own
difficult parts are four:

* the live chat: one conversation is stored as one JSON document, is written by
  several browser tabs and by reply jobs on the server, and is shown in every tab
  from a local copy that socket events keep up to date;
* the tool loop: a reply asks for batches of tool calls, which run concurrently in
  waves and can be stopped at any await;
* scheduled tasks: runs that outlive requests, time out, are stopped, and are
  recovered after a restart;
* the tool runner: one pod per chat, started by whoever needs it first, replaced
  when it fails, and watched by the calls that use it.

These modules model those parts, check them with TLC on small instances, and prove
their safety properties with TLAPS for every instance.

Paths below are relative to `src/`; `chats.py` is
`backend/open_webui/models/chats.py`, `cache.ts` is `src/lib/chat/cache.ts`.

## The system

| Component | State | Operations | Interacts with |
|-|-|-|-|
| Chat store (`models/chats.py`, `routers/chats.py`) | the chat's row: history tree, `currentId`, `meta.revision` | append_turn, apply_history_patch, upsert, save_reply, merge_message_updates, update fields, delete | every writer, under one row lock |
| Turn intake (`utils/chat_turns.py`, `main.py`) | none | prepare_completion_messages, store_refused_turn, emit_chat_turn | writes the store, starts a reply job |
| Reply streaming (`utils/chat_realtime.py`, `utils/message_updates.py`, `socket/main.py`, `utils/middleware.py`) | `_pending_updates`, `_update_tasks`, the reply job | schedule_message_update, flush_message_updates_now, save_final_reply, Stop | the event loop and worker threads share both dictionaries |
| Realtime fan-out (`utils/chat_realtime.py`, `socket/main.py`) | watch index, rooms | chat:updated, chat:turn, chat:completion | from commits to tabs |
| Client chat cache (`cache.ts`, `conflict.ts`) | per tab: entry, revision, `later`, live and pending turns, inflight download | putChat, refetchChat, adoptTurn, moveTurnToEnd, setRevision, catchUp | events, downloads, the chat screen |
| Chat screen (`Chat.svelte`, `Messages.svelte`) | currentId, queue, task ids | send, retry after conflict, edit, copy, delete, open | the cache and the HTTP API |
| Tool loop (`utils/middleware.py`) | content blocks, the calls of the round, status lines | ask the model, run a batch, announce, save, Stop | asks for tool calls, ends in a final save |
| Tool-call waves (`utils/tool_parallel.py`) | none | order the calls of a batch by their dependencies | the tool loop |
| Scheduled tasks (`utils/automation_runner.py`, `utils/automation_scheduler.py`, `models/automations.py`) | tasks and their runs; reports, running coroutines and jobs in memory | begin, report, finish, stop, time out, switch, delete, recover | start a reply each; the process may stop under them |
| Tool runner (`utils/skill_k8s_sandbox.py`) | the claim and its pod; ready cache, starts and watchers in memory | start, adopt, replace, drop, check, watch, hold, status, metrics | skill calls share one runner per chat; the cluster acts on its own |
| Turn watch, task registry (`cache.ts`, `tasks.py`) | watched turns, tasks by chat | stop, mark as interrupted, reconnect | Stop is an action of each module it reaches; the rest is not modelled |
| Queued sends (`queuedSend.ts`, `Chat.svelte`) | a queue in localStorage | queue, send next, send now | not modelled |
| Usage caps (`usage.py`) | usage rows | check, record | not modelled |
| Model fallback, organizations, secrets, skill packs, artifacts, tracing, providers, UI | | | not modelled: see the end |

What is hard here: unlocked time between a tab's read and its write; worker
threads that the event loop cannot cancel; a batch of updates shared between
loop and thread; two kinds of commits (with and without a new revision); events
without the document, late downloads and a live reply that only this tab has;
one automatic retry of a refused send; Stop at any await, also between the
result of a call and its announcement; calls that outlive the job that awaited
them; a cancellation that is forwarded to a reply which handles it itself; a
process that ends with runs under way; verdicts on a runner that was replaced
while it was being checked.

What makes the components correct:

* store: the tree is well formed after any order of writes, the current message
  exists, a revision names one document, a conditional write never overwrites
  what its author did not see, finished replies stay finished;
* reply streaming: a streamed part is stored at most once, and in the end it is
  stored or was lost with a write that failed;
* cache: nothing unsent leaves the screen, a running reply stays, a copy is never
  rewound, a resent turn continues the branch;
* tool loop: the model is never asked with an unanswered call, no call runs before
  what it depends on, the end of a reply is complete and quiet, the job ends;
* scheduled tasks: a row says "running" exactly while somebody will end it, a run
  ends once and as what it was, whatever reaches it;
* tool runner: a claim is only deleted, and a call only failed, for what happened to
  that very claim; a remembered runner is ready; a running call is watched.

## The modules

| Module | Models | Correspondence |
|-|-|-|
| `ChatHistory` | the history value and the pure functions on it | one operator per `apply` closure of `chats.py` and per patch built in `Messages.svelte` |
| `ChatStore` | one chat's row and everything that writes it | `exists`, `revision`, `messages`, `current` are the row; `seen[c]` is client `c`'s copy: its messages, the `revision` it names in its writes, and `upTo`, the revision up to which it has everything; `running` the replies without a final save; `taken` the ids minted so far; `completed` the reply whose completion event carries the row's revision; `blind`, `quiet` and `marked` are history that no action reads |
| `PartLog` | what saving streamed parts promises | abstract: parts are emitted, then written once or given up |
| `ReplyStream` | the batch, its flush tasks and threads, final saves, Stop | `pending` is `_pending_updates[key]`, `slot` is `_update_tasks[key]`, `flush` and `save` the program counters of threads and saves |
| `LiveChat` | one chat in several tabs, with the row and the events | `tab[b]` is the cache entry (`unsent` is pendingTurns, `live` liveTurns), `reading[b]` the inflight download, `events[b]` and `told[b]` the socket; `deleted`, the ids that commits removed, is history that no action reads |
| `ToolLoop` | one reply with its rounds of tool calls | `phase` is where `post_response_handler` is, `blocks` the tool_calls blocks of `content_blocks`, `wave` and `ran` the waves of `execution_waves`, `call` and `result` the calls of the round, `sent` and `stored` what tabs and the database have, `line` the waiting and preparing lines |
| `Automations` | the runs of one task | `row` is the stored status, `proc` where `execute_automation` is, `reply` its reply task, `calling` a call of `report_task_result` under way, `report` the `_reports` dictionaries, `server` the one process that runs tasks, `job` the scheduler's job |
| `ToolRunner` | the runner of one chat | `claim` and `pod` are the cluster's, `bound` and `packed` the claims whose runner has its files and its packs, `bare` the claim that a status remembered while the chat wanted no packs, `cache` is `_ready_cache`, `start` the task in `_starts`, `watcher`, `entry` and `watchers` the watch entries, `status` a `runner_status` request |
| `...Proofs` | theorems | see "The proofs" |
| `MC...` | model-checking instances | |

`ChatStore` and `LiveChat` both build on `ChatHistory`, so what a patch or a
turn does to the tree is defined once. One locked write
(`_write_locked_chat`) is one step, because the row lock, or the in-process lock
on SQLite, is held from the read to the commit. A request is built from a copy as
old as one likes and served in one step. A client's copy follows its own turns and
completion events, as a tab's does, so its revision need not be that of a document it
read: a completion event moves it over a change the copy missed, and the write that
follows is accepted. A write may also name no revision (`expected_revision` is optional in
both requests). Both are *blind* writes. The writes that leave the revision alone
(`UpsertQuietly`, `MergeQuietly`: flushes, events, a headless reply's text) reach any
message, running, finished or deleted. A write that is refused or times out
changes nothing and is no step of `ChatStore`; `LiveChat` follows what the tab
does about a refusal.

In `ReplyStream` the shared dictionaries make the grain finer: looking the
batch up and folding a part into it are two steps of the event loop
(`_pending_updates.setdefault(...)`, then `add_to_pending`), and the two `pop`s and
the write of a flush are three steps of its thread. A batch is an object: the
thread that popped it sees what is folded into it until it writes. A job that was
stopped, or is past its final save, may still emit closing statuses, as the cancel
handler at `main.py:1462` does; while it awaits a final save it emits nothing.

`ToolLoop` has one step for each stretch of the loop between two awaits that
matter: a model stream that starts, that brings a tool call, that ends; a wave that
begins and is over; the saves and announcements of the end. A call has two steps of its
own, its start and its return, which run between those of the other calls of its wave;
each rewrites the block with the results there are and sends it. A batch is a list of
tool names with the calls and tools each one depends on.

In `Automations` an await of `execute_automation` is a place (`creating`, `opening`,
`awaiting`, `closing`, ...), and a cancellation (Stop, time limit, shutdown) is a step
that moves the run from its place as the handlers there do. The reply task is
separate, because awaiting it forwards the cancellation to it. A call of
`report_task_result` begins and records in two steps, since it may prepare its picture in
a thread; a loop that broke with a sibling leaves it running, and it then records after
the reply, or the whole run, has ended. `finish_run` commits the row, and for a reported
result with a picture then the picture (`picturing`, `SetImage`): the event loop runs
nothing in between (`LoopFree`), but a task may be deleted by a thread, the process may
end, and the second commit may fail, whose handler ends the run once more, as an error
(`SetImageFails`). Writes of the row itself succeed.

`ToolRunner` has one step per request to the cluster, so whatever a check found may be
old when it is acted upon. The cluster (claims, pods, the idle timer) is external and
modelled as the code uses it: a pod may fail, recover, move to another address, or be
evicted, a claim shuts down when its time is over. A start that finds a claim looks at
its runner (`StartLooks`) and then condemns or adopts it, by a check that is old by then;
a pod gone at once needs no check. A check of a pod that is not plainly well may come out
either way (`Verdicts`), because `/health` that times out falls back to Kubernetes
readiness. A status request remembers a runner that has the packs the chat wants, and does not
look whether it is bound: any runner, then, while the chat wants none
(`StatusRemembers`).

Abstractions: a message is its parent, its set of children (the order of
`childrenIds` is dropped, so a walk that follows the last child may follow any),
one text for all its content fields, and `done`. Ids are model values,
never reused (uuids). Missing and null parents are the same. In `LiveChat` all
tabs are subscribed and connected, change only messages the server has, finish one
change before the next, and send new prompts (no regenerated replies).
Events are queued with the commit they announce, so two commits' events keep
their order; the code emits a turn's event just after its commit.

## The runs

| Run | Question | States |
|-|-|-|
| `chat_store` | does the stored document stay correct under any order of writes? | 40,000 |
| `reply_stream` | is every streamed part stored once or given up, and does it end? | 391,971 |
| `live_send` | two tabs sending: what happens to unsent, running and resent turns | about 10,500 |
| `live_change` | one tab edits and deletes while the other sends and reopens | about 93,700 |
| `tool_loop` | are tool calls ordered, answered and shown as they must, wherever the job is stopped? | 112,410 |
| `automations` | does every run of a task end as what it was, also over restarts? | 531,130 |
| `tool_runner` | do two calls that share a failing, moving, replaced runner harm each other? | about 2.3 million |
| `chat_save` | does a final save write nothing when its message is gone? (violated) | |
| `reply_status` | does a reload end on the latest status? (violated) | |
| `live_delete` | is a deletion that conflicts with an edit refused? (violated) | |
| `automation_limit` | is a run that took too long recorded as an error? (violated) | |
| `runner_hold` | does a running skill keep its runner for its timeout? (violated) | |

Bounds. `chat_store`: two clients, two prompts, two replies and revisions up to 4
(three commits after creation, and quiet writes between). That is
enough for a turn by one client, a change by the other and a late save by the reply
job, in each order; every mutant of a guard is found within it. Its constraint
`Explored` goes no further after a blind write, of which `TypeOK` and `CurrentStored`
only are claimed (both are theorems, without the constraint), and follows states where at
most one message was written quietly since its last bumped write: the texts of two such
messages do not meet in any property.
`reply_stream`: three parts, two final saves, two attempts: a part in a finished
flush's batch, one in a taken batch and one pending can coexist, and a save can be cut off
and followed by another. `live_send` uses three prompts (the opening turn and one
per tab) and revisions up to 5 (two turns, two completions), `live_change` two prompts
and revisions up to 4 (a turn, an edit or deletion, a completion).
`tool_loop`: batches of three calls, one with a reader between two other tools, one
with a cycle beside a reader, one with dependencies by id and by name; the reader is
`display`; two rounds of calls, so that a call that outlived the first round meets the
second. `automations`: two runs, which overlap when one is "Run now".
`tool_runner`: two skill calls, two claims (a runner and the one that replaces it) and
one move of a pod; the calls are interchangeable (symmetry); its constraint `Explored`
leaves out the states where both calls are under way while a status request is, or while a
runner is remembered without packs (the theorems do not use it); in `runner_hold` one call is
long and one short. Each bound is a constant or a guard (`MaxRevision`, `MaxParts`,
`MaxSaves`, `MaxRetries`, `MaxRuns`, `MaxClaims`, `MaxMoves`), named in its module.
Deadlock is checked in the runs of `Automations`, whose server always has something
it can do. It is not checked in the others: at the bound, or when a reply is saved and
nobody acts, the system may stop.

Properties of `ChatStore`. `TreeLinksAgree` and `TreeAcyclic` say the stored
messages are a forest, `CurrentStored` that a reload has a branch to open.
`RevisionNamesDocument` says that a copy that has everything up to the row's revision is
the row's document, but for what was written quietly: the texts of `quiet` messages, the
end of `marked` replies, stubs that came back. From it `NoLostUpdate` follows: a client
write that is stored was built from the stored document. `FinishedStaysFinished` and
`OnlySeenMessagesDeleted` relate a reply or a message to every later writer.
All but `CurrentStored` are claimed until the first blind write, since the code does
not keep them further: the server's check takes a client's revision for that of its
document, and a tab that takes a revision from a completion event breaks that (see 3
below), as does a request that names none. A blind write overwrites what its client
never saw, and may cut the tree. And quiet writes are not protected: a client whose revision
is the row's may overwrite the text a flush, an event or a headless reply wrote
since it read, and may mark a reply running again that only such a write had marked done.

Properties of `ReplyStream`. `OneHand`: at most one writer has a batch.
`EachPartInOnePlace`: a part is waiting, stored once, or lost, never two of them and
never none. `LogSpec`: the module implements `PartLog` under the mapping
`out <- 1..emitted, written <- stored.count, given <- lost`. `PartsSettle` is liveness: a
part emitted while the reply runs is in the end stored or lost.

Fairness (`ReplyStream!Fairness`): the event loop finishes folding a part; a sleep
ends and a started thread goes on; a final save's attempt ends, because every lock wait
has a timeout (`SERVER_WRITE_WAIT_S`) and attempts are bounded; a running reply
reaches a final save, because each exit of the job (end, Stop, exception) calls
`save_final_reply`. Emitting more parts and pressing Stop are not fair.

Properties of `LiveChat`. `UnsentStaysOnScreen` is the wiki's promise for messages
that cannot be sent (`Live-Chat-Updates.md:27`); `RunningReplyStays` protects the text
that only this tab has; `NoRewind` is what the revision test of `putChat` is for, and
says so of the replies nobody deleted (a deleted one may come back, see below);
`ResentTurnEndsTheBranch` is the wiki's promise for a message sent again
(`Live-Chat-Updates.md:26`), after a download that the copy took over: one that is older
than the copy is not read (`cache.ts:387`), and the turn then ends the branch on
the screen only.

Properties of `ToolLoop`. `ModelSeesAllResults`: providers refuse a conversation with
an unanswered call, so each round must be answered in full, also by calls that failed
or had an empty result. `EndIsWhole`: Stop and exceptions leave calls without result,
which must not spin for ever, in the tabs or in the stored copy. `DependenciesFirst` and
`ReadersAfterWriters` relate what runs to the dependencies of the batch, stated on the
calls and not on the computed waves; only a batch with a cycle (`Cyclic`, stated with
sets) may fall back. `ResultStays`, `QuietAfterTheEnd` and `NoLineLeft` are about late
steps: a call of a wave that was given up, a straggling event, a status line that two
handlers share. `JobEnds` is liveness: no wave is empty and no cycle blocks the loop.

Fairness (`ToolLoop!Fairness`): the model stream goes on (`ModelStep`), the loop is
scheduled (`LoopStep`), and each call returns or fails, since each has a timeout. Stop,
exceptions and the events of stragglers are not fair.

Properties of `Automations`. `RunningIsExecuted` relates the database to the process: a
row that says "running" with nobody behind it would run for ever and block the next
run. `ReportsOfExecutedRuns`: what the model reported before the end of its run is lost by
nothing until that end uses it up, and a run is "unknown" only when there is no report. It
is not claimed of a report that comes after the end, since the code does not keep that:
see below. `PictureOfAResult` and `CancelledIsNoResult` are the wiki's
promises on stopped runs; both need several steps (a report, a cancellation, an end).
`EndedStaysEnded`: handlers at each await write the end, none over another's, except a
Stop or shutdown that comes while the result is announced, and the error of a picture that
cannot be stored after the reported result was. `EveryRunEnds` is liveness over
restarts.

Fairness (`Automations!Fairness`): a run goes on and its reply ends; a process that was
told to shut down exits, and a process that is down is started again. Users, crashes,
Stop and the time limit are not fair.

Properties of `ToolRunner`. `DeletedForCause` and `LostWithItsPod`: claims of one chat
share their name, so a verdict formed about the old runner must not be carried out
on the new one. `LostWithItsPod` counts as the call's own the runner it was sent to, claim and
address; its one exception is a call that joined the watcher of its pod's name while that
watcher was made for an earlier address. `RememberedIsReady`: status requests, starts and
calls all write the cache; its exception is a runner that a status request remembered while
the chat wanted no packs, until a start or another status makes it ready.
`WatchedOnce`: watch entries are shared, left and reopened by calls while their
watcher is between two requests. `WaitsForTheStart`: nobody waits for a start that is over,
and nobody begins a second one. The module has safety properties only: a cluster
that never gives out a pod is possible.

Each property of a passing run is broken by a mutant, an operator beside the one
it replaces (`ClimbOnce` beside `ClimbPast`, `AnyRevision` beside `RevisionMatches`,
and so on): the properties can fail, and fail for bugs of the kind they are about.

## What the violated runs show

1. `chat_save`: delete the message of a running reply from another tab. The
   final save creates the message again without parent or role and makes it
   current (`chats.py:573-579`), though `save_final_reply`'s docstring says it
   writes nothing then.
2. `reply_status`: the final save cannot cancel a flush that is already in its thread;
   the thread writes its older status last. A reload shows it, though the comment in
   `socket/main.py` says the closing status is what a reload ends on.
3. `live_delete`: tab A edits a message; a reply finishes; its completion event gives tab B
   the newest revision without the edit. B's deletion of the message, still showing
   the old text, is accepted. In the same way a tab whose deletion was refused, and which a
   completion then gave the newest revision, can have its next edit of the parent accepted without
   the child it no longer shows: the row's tree loses that link (at revision 5, not in the
   bound of a run). In `ChatStore` these are the blind writes.
4. `automation_limit`: the time limit cancels the coroutine of the run while it awaits its
   reply. The cancellation goes on to the reply, which handles it and returns, so
   `execute_automation` sees a reply that was cancelled, and ends the run as "stopped",
   without an error. `wiki/Scheduled-Tasks.md:10` says such a run is recorded as an error.
5. `runner_hold`: each skill call, and each start that adopts a claim, sets the claim's
   shutdown time whatever it is. A short call beside a long one shortens the hold of
   the long one; `wiki/Tool-Runner.md:21` says a running skill keeps the runner for at least
   its timeout.

More behaviours that the models show and no run is about: a flush takes its batch before
it writes, so the parts of a write that fails are lost even when the final save
succeeds (`lost` in `ReplyStream`). A report whose call outlives its run stays in
`_reports` for ever, though the comment at `automation_runner.py:36` says such reports are
kept "until the run finishes"; and when the picture of a reported result cannot be
stored, the run that was stored as a success or failure becomes an error
(`automation_runner.py:446`). After a server restart, or a start that failed
while it bound the chat's files, a status request for a chat without packs remembers a
runner that is not bound, though `wiki/Tool-Runner.md:17` counts one as ready only with its
files. A container that restarted at a new address keeps its pod's name, so a call on it
joins the watcher of the address before (`skill_k8s_sandbox.py:1678`) and is failed by its verdict,
though its own runner is well. The properties name these four as what they do not
cover. A message sent in a tab whose screen did not follow
a turn of another tab is stored as a branch beside that turn, because the completion of
the tab's own reply made its revision current (`LiveChat`). And a turn event has no
revision: one that arrives after its messages were deleted brings them back into the copy
(`adoptTurn`, `cache.ts:739`), the reply unfinished. The tab's next edit or deletion may
send that copy to the server, and a download then shows a deleted, finished reply
running again. It takes revisions up to 6, two more than `live_change` has; the
proof of `NoRewind` without its exception failed on this step, and TLC gave the trace.

## The proofs

Every safety property of the passing runs is proved, each for every value of
the constants. The assumptions are the named `ASSUME`s of the modules, which say little
more than the types: `HistoryAssumption` (prompts and replies are disjoint,
`None` is neither, the blank text is a text), `StoreAssumption`, `LiveAssumption`,
`StreamAssumption`, `LoopAssumption` (a batch is not empty, its dependencies are numbers
and names), `RunsAssumption`, `RunnerAssumption` (timeouts are positive).

### The stored chat

* `ChatStoreProofs!TypeCorrect`: `Spec => []TypeOK`. `TypeOK` is inductive; the lemmas of
  `ChatHistoryProofs` give the type and the domain of each function's result.
* `CurrentCorrect`: `CurrentStored` is inductive with `TypeOK`: a patch that deletes the
  current message climbs to a message outside the deleted ones or to none.
* `RevisionCorrect`: `RevisionNamesDocument` is inductive with `TypeOK` and `FollowsSave`: a copy
  that lacks the newest final save only becomes the row when it takes that reply over. A
  step that moves the revision makes every copy older (`MovedKeeps`) but that of the
  client that sent the turn, which made the same step (`TurnSame`); a quiet write keeps a copy
  the same but for its message (`QuietSame`).
* `UpdatesKept`: `NoLostUpdate`: a stored write that is not blind came from a copy that has
  everything (`WriterCurrent`).
* `ChatStoreProofs!TreeLinksCorrect`, `TreeAcyclicCorrect`: neither property is inductive by
  itself. Moving grandchildren up is only right on a forest (on a cycle a message would
  be its own grandchild), and a patch is built from the client's copy, so the
  invariant is `StoredForest` (both together) with `TypeOK` and
  `RevisionNamesDocument`, which makes the copy's tree the stored tree
  (`WriterSeesTree`). Every write then has one of three shapes, each proved to keep a forest
  once: the same links (`SameLinksForest`), a new leaf (`LeafForest`), or a deletion that
  moves the grandchildren up (`MovedUpForest`). Acyclicity is stated with sets (every
  nonempty set of messages has one whose parent is outside) and needs no induction.
* `ChatStoreProofs!FinishedCorrect`: a patch sends the done flags of its client's copy, which
  are the row's but for the replies whose end was stored quietly.
* `DeletionsCorrect`: `OnlySeenMessagesDeleted` from `StoredForest` and
  `RevisionNamesDocument`: a child of a stored message is stored with that parent, so it is
  no stub the copy may lack, and the copy the deletion was built from has it.

### The tabs (`LiveChatProofs`)

`TypeCorrect`, `UnsentCorrect` and `RunningCorrect`. That no download drops an unsent message
is one fact about `Downloaded`; that none drops the awaited reply needs an invariant. A
download removes the awaited reply when the copy shows it finished, so `Waits` says an
entry never does. That again needs that a turn on its way runs (`GoodTurn`) and that ids
are minted once: a tab may not be waiting for a reply whose id some other event brings
finished. So `Good` is stated relative to the ids used, and `Inv` says that every copy, document,
refused turn and event has only such ids. There is one lemma for what each operator does to an
entry, one for each kind of commit, and one for each action; `ScreenKeeps`, what a step
does to the screens, is proved with the invariant.

### The order of documents (`LiveOrderProofs`)

`putChat` takes a download over when its revision is not older than the copy's, but a
copy's revision is not that of a document: a completion event moves it and leaves the
messages alone, and turn events change the messages and leave the revision alone. So neither
half of `NoRewind` follows from comparing revisions. The invariant `Order` relates finished
replies to revisions, for the replies nobody deleted:

* `Store`: of the row and every document on its way, one that shows a reply running is older
  than all that show it finished (`Before`), and one of the row's revision has the row's messages;
* `Copies`: what a copy shows finished is finished in all documents it may still take over;
  and a copy that has not heard of the end of a reply has its completion on the way
  (`Pending`), so an older copy of the reply is not rewound but caught up;
* `Queues`: completions arrive in the order of their revisions, and a turn's completion
  after its turn, unless the reply still runs;
* `Minted`, `Fresh`: no document, event or tree mentions an id before it is used, and a refused turn is
  nowhere but in its own tab.

The predicates have the row, the running replies, the deleted ids and the documents as
parameters, so that a step is a chain of small changes: every commit (a turn, a patch, a final
save) is an instance of one relation (`Writes`), proved to keep the three parts once;
arrivals and fewer documents have a lemma each, and each action composes them. `NextOrder` gives
`Order'` with `Onward`, what the step does to each copy. `OrderInvariant`
and `RewindCorrect` follow.

`ResentCorrect` (`ResentTurnEndsTheBranch`): the turn is stored only if the download is the
row, so all that the tab has besides the row's messages is what it has not sent
yet; where the walk of `endOfBranch` stops, no stored message follows, and the prompt stored
there is the only child (`ResentAtEnd`). Only what the walk returns is needed, not how
it gets there.

### Streamed parts (`ReplyStreamProofs`)

`TypeCorrect`, `OneHandCorrect`, `PlaceCorrect`, and `LogCorrect`, the refinement of `PartLog`. What
a writer does to a part depends on who else may still write its batch, so the
invariant follows batches: each folded part is in one batch (`Batches`), each batch with
parts has an owner (`Owners`), only a writer that popped a batch has it (`Hands`), final saves
follow one another (`Jobs`), and a part is unwritten exactly while its batch is live
(`Places`), and settled (written once, or lost) afterwards. `LogCorrect` maps each step to a
step of `PartLog` or a stutter: a write, a failure or a part folded into a batch that
was written already settles all parts it is about at once.

### The tool loop (`ToolLoopProofs`)

The invariant ties the place of a call to its result (`Answered`), the waves to what
has run (`Waves`), the status lines to their handlers (`Lines`), and the end of the job to
calls that can no longer change the blocks (`Settled`, `Wholes`). `EndCorrect` and
`AskedWholeCorrect` follow from `Wholes`, `DependenciesCorrect` from `Waves`: a call is in a wave
only when all it depends on has run, and a fallback means that what is left has a
call waiting for a call that is left too, so it is a cyclic set. `ReadersCorrect` adds that a reader
depends on the others issued before it. `ResultCorrect` and `QuietCorrect` are step
properties from the same invariant.

### Scheduled tasks (`AutomationsProofs`)

The row alone does not tell who may still write it. The invariant says where the coroutine
of a run is when its row, reply and report have the values they have (`ExecutingRow`,
`EndingRow`, `ReplyPlace`, ...). Each handler that ends a run is then seen to find it running,
but for the two that `EndedStaysEnded` names.
`TypeCorrect`, `RunningCorrect`, `ReportsCorrect`, `PictureCorrect`, `CancelledCorrect`, `EndedCorrect`.

### The tool runner (`ToolRunnerProofs`)

A verdict is acted on requests after what it is based on was read. Every runner that is remembered
anywhere is `Old`: of no later claim than the chat's, at no later address than its pod's if
the claim is still the chat's, and at that very address if nothing happened to the pod. So a verdict on a runner with the
claim's uid is a verdict on the present pod, and `CondemnedPods` says that such a pod is unsound.
`Entries` relates calls, watch entries and pods. A watcher's verdict is about a runner that is gone
or moved for good (`Dead`, `LostAreDead`): no claim or address comes back. So a call that
reads it was sent to that runner, or to a later address of the same pod. `TypeCorrect`, `RememberedCorrect`,
`StartsCorrect`, `WatchCorrect`, `DeletedCorrect`, `LostCorrect`.

### Only model-checked

Liveness (`PartsSettle`, `JobEnds`, `EveryRunEnds`): fairness and ENABLED are outside TLAPS.

## Not modelled

* Organizations, invitations, secrets, preferences: reads and writes of single rows without
  a protocol between them. Skill packs and artifacts: file and process I/O. Providers,
  retrieval, audio and images: inherited calls to external services. Tracing and timing:
  observability. The user interface beyond the cache.
* Stored chat: importing, sharing, cloning, tags, folders, lists; lock timeouts as a visible
  outcome; the order of children.
* Live chat: lost connections and reconnecting, the watch for turns without events, the access
  checks and the index of watching sessions.
* Reply streaming: parts emitted by a helper of the job while a final save is under way.
* Tool loop: a Stop that is lost because `heartbeat.stop` swallows the cancellation (the job
  goes on and ends by itself), the code interpreter's loop, saving while streaming (off by
  default), a first answer that is no stream, two calls with one id, the text of results and citations.
* Scheduled tasks: when a schedule fires, editing the text of a task, pruning old runs,
  mail and push notifications.
* Tool runner: the deletion of a chat with its claim (without a uid), what binding and
  unpacking do on the pod, messages to the model, the landlock backend.
* Usage caps: concurrent calls pass one check before any of them is recorded. That is plain to
  see in `usage.py` and needs no model.
* Queued sends: each tab reads the stored queue once and writes it whole, so two tabs
  overwrite each other's queue, and a stale tab brings back messages that were sent or loses
  queued ones. A reply that fails after some text does not stop the queue, although
  `Chat.svelte:2112` and `wiki/Queued-Messages.md` say nothing more is sent then. What is
  worth checking here (order, no double send) holds for one tab only, where it is sequential.

## Plan

Done: the stored chat, streamed parts, the tabs, the tool loop, scheduled tasks, the tool
runner, and their proofs.

Left, in this order:

1. a wider `LiveChat`: regenerated replies, failed turns edited or sent again, downloads that
   join older ones and stay behind;
2. `TurnWatch`: the task registry, Stop, a turn marked as interrupted while its
   completion is late, reconnecting after lost events;
3. `QueuedSends`: one tab with replies that fail, and the queue another tab stored.
