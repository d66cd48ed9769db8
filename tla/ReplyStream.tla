---------------------------- MODULE ReplyStream ----------------------------
(***************************************************************************)
(* How the streamed parts of one reply reach the database                  *)
(* (utils/chat_realtime.py: schedule_message_update,                       *)
(* flush_message_updates_now, save_final_reply).                           *)
(*                                                                         *)
(* The event loop folds each part (a status, a usage report, a source, ...) *)
(* into the pending batch of the reply and makes sure a flush is on its    *)
(* way.  A flush is a task that sleeps and then runs in a worker thread:   *)
(* it takes the pending batch, then clears the task slot, then merges the  *)
(* batch under the row lock.  The final save cancels the flush it finds in *)
(* the slot, takes the pending batch and writes it with the reply's text,  *)
(* retrying.  Stop cancels the job at any await, also during a final save. *)
(*                                                                         *)
(* The steps of the event loop and of a thread interleave wherever the     *)
(* dictionaries are shared.  The loop looks a batch up and folds into it   *)
(* in two operations, and a batch is an object: whoever took it sees what  *)
(* the loop folds into it afterwards, until it is written.                 *)
(***************************************************************************)
EXTENDS Naturals, FiniteSets

CONSTANTS
    MaxParts,   \* bound: parts one reply emits
    MaxSaves,   \* bound: final saves, one more than the stops
    Attempts    \* len(FINAL_SAVE_RETRY_SECONDS) + 1

ASSUME StreamAssumption ==
    /\ MaxParts \in Nat /\ MaxSaves \in Nat /\ Attempts \in Nat
    /\ MaxSaves > 0 /\ Attempts > 0

Parts == 1..MaxParts
Saves == 1..MaxSaves
Outcomes == {"written", "failed"}   \* of a database write
Nothing == 0    \* no batch, no task: a key that is not in its dictionary

\* Parts are numbered as they are emitted.  A batch is named by the part that
\* opened it, a flush task by the part that created it.
VARIABLES
    emitted,    \* the number of parts emitted
    statuses,   \* those that are statuses
    folding,    \* the batch the loop is about to fold the last part into
    batch,      \* the parts folded into each batch
    pending,    \* _pending_updates[key]
    slot,       \* _update_tasks[key]
    flush,      \* where each flush task is
    taken,      \* the batch each flush took
    job,        \* where the reply job is
    save,       \* each final save: its state, its batch and its attempts
    stored,     \* the stored reply
    lost        \* parts dropped by a failed or interrupted write

vars == <<emitted, statuses, folding, batch, pending, slot, flush, taken,
          job, save, stored, lost>>

loopVars  == <<emitted, statuses, folding>>
saveVars  == <<job, save>>

FlushState == {"none", "waiting", "started", "holding", "writing", "done"}
SaveState  == {"none", "attempting", "orphan", "over"}
JobState   == {"streaming", "saving", "stopped", "closing"}

NoSave == [state |-> "none", hand |-> Nothing, tries |-> 0]

TypeOK ==
    /\ emitted \in 0..MaxParts
    /\ statuses \subseteq 1..emitted
    /\ folding \in 0..emitted
    /\ batch \in [Parts -> SUBSET (1..emitted)]
    /\ pending \in 0..emitted
    /\ slot \in 0..emitted
    /\ flush \in [Parts -> FlushState]
    /\ taken \in [Parts -> 0..emitted]
    /\ job \in JobState
    /\ save \in [Saves -> [state : SaveState, hand : 0..emitted, tries : 0..Attempts]]
    /\ stored \in [count : [Parts -> Nat], status : 0..emitted, done : BOOLEAN]
    /\ lost \subseteq 1..emitted

Init ==
    /\ emitted = 0
    /\ statuses = {}
    /\ folding = Nothing
    /\ batch = [p \in Parts |-> {}]
    /\ pending = Nothing
    /\ slot = Nothing
    /\ flush = [p \in Parts |-> "none"]
    /\ taken = [p \in Parts |-> Nothing]
    /\ job = "streaming"
    /\ save = [s \in Saves |-> NoSave]
    /\ stored = [count |-> [p \in Parts |-> 0], status |-> 0, done |-> FALSE]
    /\ lost = {}

----------------------------------------------------------------------------
(* The event loop: schedule_message_update.                                *)

LoopIdle == folding = Nothing

\* The reply emits a part and looks the pending batch up (setdefault).  A job that
\* was stopped, or is past its final save, emits closing statuses only.
Emit(isStatus) ==
    /\ LoopIdle
    /\ emitted < MaxParts
    /\ job = "streaming" \/ (job \in {"stopped", "closing"} /\ isStatus)
    /\ emitted' = emitted + 1
    /\ statuses' = IF isStatus THEN statuses \cup {emitted + 1} ELSE statuses
    /\ folding' = IF pending = Nothing THEN emitted + 1 ELSE pending
    /\ pending' = folding'
    /\ UNCHANGED <<batch, slot, flush, taken, saveVars, stored, lost>>

\* A batch that a flush has taken and finished with.
Finished(b) == \E k \in Parts : taken[k] = b /\ flush[k] = "done"

\* add_to_pending, and a new flush task unless the slot holds one.  A part
\* folded into a batch whose flush has finished is never seen again.
Fold ==
    /\ ~ LoopIdle
    /\ batch' = [batch EXCEPT ![folding] = @ \cup {emitted}]
    /\ IF slot = Nothing
       THEN slot' = emitted /\ flush' = [flush EXCEPT ![emitted] = "waiting"]
       ELSE UNCHANGED <<slot, flush>>
    /\ folding' = Nothing
    /\ lost' = IF Finished(folding) THEN lost \cup {emitted} ELSE lost
    /\ UNCHANGED <<emitted, statuses, pending, taken, saveVars, stored>>

----------------------------------------------------------------------------
(* A flush in its worker thread: flush_message_updates_now.                *)

\* Merging a batch: its accumulated parts are added, its latest status, if it
\* has one, replaces the stored one.
Merged(reply, b) ==
    LET parts == IF b = Nothing THEN {} ELSE batch[b]
        shown == parts \cap statuses
    IN  [reply EXCEPT
            !.count = [p \in Parts |-> IF p \in parts THEN @[p] + 1 ELSE @[p]],
            !.status = IF shown = {} THEN @
                       ELSE CHOOSE p \in shown : \A q \in shown : q <= p]

\* The sleep ends and the thread starts; from here a cancel cannot stop it.
StartFlush(k) ==
    /\ flush[k] = "waiting"
    /\ flush' = [flush EXCEPT ![k] = "started"]
    /\ UNCHANGED <<loopVars, batch, pending, slot, taken, saveVars, stored, lost>>

\* Mutation: the batch is read and stays pending.
PopBatchWithoutPop(k) ==
    /\ flush[k] = "started"
    /\ flush' = [flush EXCEPT ![k] = "holding"]
    /\ taken' = [taken EXCEPT ![k] = pending]
    /\ UNCHANGED <<loopVars, batch, pending, slot, saveVars, stored, lost>>

PopBatch(k) ==
    /\ flush[k] = "started"
    /\ flush' = [flush EXCEPT ![k] = "holding"]
    /\ taken' = [taken EXCEPT ![k] = pending]
    /\ pending' = Nothing
    /\ UNCHANGED <<loopVars, batch, slot, saveVars, stored, lost>>

\* Mutation: the pending key is cleared once more, with the slot.
PopSlotAndPending(k) ==
    /\ flush[k] = "holding"
    /\ flush' = [flush EXCEPT ![k] = "writing"]
    /\ slot' = Nothing /\ pending' = Nothing
    /\ UNCHANGED <<loopVars, batch, taken, saveVars, stored, lost>>

\* The slot is cleared by key, whichever task is in it.
PopSlot(k) ==
    /\ flush[k] = "holding"
    /\ flush' = [flush EXCEPT ![k] = "writing"]
    /\ slot' = Nothing
    /\ UNCHANGED <<loopVars, batch, pending, taken, saveVars, stored, lost>>

InHand(b) == IF b = Nothing THEN {} ELSE batch[b]

\* merge_message_updates: one locked write.  A failed one is only logged.
MergeFlush(k, outcome) ==
    /\ flush[k] = "writing"
    /\ flush' = [flush EXCEPT ![k] = "done"]
    /\ IF outcome = "failed"
       THEN lost' = lost \cup InHand(taken[k]) /\ UNCHANGED stored
       ELSE stored' = Merged(stored, taken[k]) /\ UNCHANGED lost
    /\ UNCHANGED <<loopVars, batch, pending, slot, taken, saveVars>>

----------------------------------------------------------------------------
(* The final save: save_final_reply and the handlers that call it.         *)

Begun == {s \in Saves : save[s].state # "none"}

\* The final save in progress is the last one begun.
Latest(s) == s \in Begun /\ \A r \in Begun : r <= s

\* Mutation: the flush is cancelled but its batch stays pending.
BeginSaveWithoutBatch(s) ==
    /\ LoopIdle
    /\ job \in {"streaming", "stopped", "closing"}
    /\ save[s].state = "none" /\ \A r \in Saves : r < s => r \in Begun
    /\ flush' = [k \in Parts |-> IF k = slot /\ flush[k] = "waiting"
                                 THEN "done" ELSE flush[k]]
    /\ slot' = Nothing
    /\ save' = [save EXCEPT ![s] = [state |-> "attempting", hand |-> Nothing, tries |-> 1]]
    /\ job' = "saving"
    /\ UNCHANGED <<loopVars, batch, pending, taken, stored, lost>>

\* The job has its text, was stopped, or failed: it cancels the flush in the
\* slot, which works only before the thread starts, and takes the batch.
BeginSave(s) ==
    /\ LoopIdle
    /\ job \in {"streaming", "stopped", "closing"}
    /\ save[s].state = "none" /\ \A r \in Saves : r < s => r \in Begun
    /\ flush' = [k \in Parts |-> IF k = slot /\ flush[k] = "waiting"
                                 THEN "done" ELSE flush[k]]
    /\ slot' = Nothing
    /\ save' = [save EXCEPT ![s] = [state |-> "attempting", hand |-> pending, tries |-> 1]]
    /\ pending' = Nothing
    /\ job' = "saving"
    /\ UNCHANGED <<loopVars, batch, taken, stored, lost>>

\* save_reply: the batch and the reply's text in one locked write.
SaveWritten(s) == stored' = [Merged(stored, save[s].hand) EXCEPT !.done = TRUE]

\* Mutation: one attempt too many.
AttemptsLeftOffByOne(s) == save[s].tries <= Attempts

AttemptsLeft(s) == save[s].tries < Attempts

\* An attempt that raises is repeated with the same batch while attempts are
\* left; then the job closes with an error for the user.
SaveAttempt(s, outcome) ==
    /\ save[s].state = "attempting"
    /\ IF outcome = "failed" THEN UNCHANGED stored ELSE SaveWritten(s)
    /\ IF outcome = "failed" /\ AttemptsLeft(s)
       THEN /\ save' = [save EXCEPT ![s].tries = @ + 1]
            /\ UNCHANGED <<job, lost>>
       ELSE /\ save' = [save EXCEPT ![s].state = "over"]
            /\ job' = "closing"
            /\ lost' = IF outcome = "failed" THEN lost \cup InHand(save[s].hand) ELSE lost
    /\ UNCHANGED <<loopVars, batch, pending, slot, flush, taken>>

\* Mutation: the batch is put back although a running thread still writes it.
StopSaveRequeued(s) ==
    /\ job = "saving" /\ Latest(s) /\ s < MaxSaves
    /\ save' = [save EXCEPT ![s].state = "orphan"]
    /\ pending' = save[s].hand
    /\ job' = "stopped"
    /\ UNCHANGED <<loopVars, batch, slot, flush, taken, stored, lost>>

\* Stop during a final save.  A thread that runs already goes on by itself; a
\* queued one, or a pause between attempts, is cancelled with the batch.
StopSave(s) ==
    /\ job = "saving" /\ Latest(s) /\ s < MaxSaves
    /\ \/ save' = [save EXCEPT ![s].state = "orphan"] /\ UNCHANGED lost
       \/ /\ save' = [save EXCEPT ![s].state = "over"]
          /\ lost' = lost \cup InHand(save[s].hand)
    /\ job' = "stopped"
    /\ UNCHANGED <<loopVars, batch, pending, slot, flush, taken, stored>>

\* The orphaned thread's write; nobody repeats it.
OrphanWrite(s, outcome) ==
    /\ save[s].state = "orphan"
    /\ save' = [save EXCEPT ![s].state = "over"]
    /\ IF outcome = "failed"
       THEN lost' = lost \cup InHand(save[s].hand) /\ UNCHANGED stored
       ELSE SaveWritten(s) /\ UNCHANGED lost
    /\ UNCHANGED <<loopVars, batch, pending, slot, flush, taken, job>>

----------------------------------------------------------------------------
FlushStep(k) ==
    StartFlush(k) \/ PopBatch(k) \/ PopSlot(k) \/ \E o \in Outcomes : MergeFlush(k, o)

SaveStep(s) == \E o \in Outcomes : SaveAttempt(s, o) \/ OrphanWrite(s, o)

Next ==
    \/ \E isStatus \in BOOLEAN : Emit(isStatus)
    \/ Fold
    \/ \E k \in Parts : FlushStep(k)
    \/ \E s \in Saves : BeginSave(s) \/ SaveStep(s) \/ StopSave(s)

\* Threads and the loop are scheduled, sleeps and database calls end (every
\* lock wait has a timeout), and a reply ends.  Emitting another part and
\* stopping are choices of the model and the user: they are not fair.
Fairness ==
    /\ WF_vars(Fold)
    /\ \A k \in Parts : WF_vars(FlushStep(k))
    /\ \A s \in Saves : WF_vars(SaveStep(s))
    /\ \A s \in Saves : WF_vars(job # "closing" /\ BeginSave(s))

Spec == Init /\ [][Next]_vars
FairSpec == Spec /\ Fairness

----------------------------------------------------------------------------
(* Properties.                                                             *)

\* The writers that still have a batch to write.
Flushing == {k \in Parts : flush[k] \in {"holding", "writing"}}
Saving   == {s \in Saves : save[s].state \in {"attempting", "orphan"}}

\* A part is waiting when a batch that will still be written has it.
Waiting(p) ==
    \/ p \in InHand(pending)
    \/ \E k \in Flushing : p \in InHand(taken[k])
    \/ \E s \in Saving : p \in InHand(save[s].hand)

\* A batch is in one hand only: pending, or taken by one flush or one save.
\* Two writers of one batch would add its usage up twice.
OneHand ==
    /\ pending # Nothing =>
          (\A k \in Parts : taken[k] # pending) /\ (\A s \in Saves : save[s].hand # pending)
    /\ \A k, l \in Parts : k # l /\ taken[k] # Nothing => taken[k] # taken[l]
    /\ \A s, r \in Saves : s # r /\ save[s].hand # Nothing => save[s].hand # save[r].hand
    /\ \A k \in Parts, s \in Saves : taken[k] # Nothing => taken[k] # save[s].hand

\* Every folded part is in exactly one place: waiting in a batch, stored once,
\* or lost with a write that failed or was cut off.  Nothing disappears between
\* the two pops of a flush, with a cancelled task, or when a flush clears the
\* slot of another one.
Folded(p) == p < emitted \/ (p = emitted /\ LoopIdle)

EachPartInOnePlace ==
    \A p \in 1..emitted : Folded(p) =>
        \/ Waiting(p) /\ stored.count[p] = 0 /\ p \notin lost
        \/ stored.count[p] = 1 /\ ~ Waiting(p) /\ p \notin lost
        \/ p \in lost /\ ~ Waiting(p) /\ stored.count[p] = 0

\* The saving implements the log of parts: written at most once each.
Log == INSTANCE PartLog WITH
           out <- 1..emitted, written <- stored.count, given <- lost

LogSpec == Log!Spec

\* A part emitted while the reply runs is in the end stored or lost with a
\* failed write, also one left in a batch no flush is coming for.
PartsSettle ==
    \A p \in Parts :
        (p = emitted /\ job = "streaming") ~> (stored.count[p] > 0 \/ p \in lost)

\* The job and every thread have come to rest.
Quiet ==
    /\ LoopIdle /\ job = "closing"
    /\ Saving = {}
    /\ \A k \in Parts : flush[k] \in {"none", "done"}

\* A reload ends on the latest status that was streamed.
LatestStatusStored ==
    Quiet /\ stored.done /\ lost = {} /\ pending = Nothing
        => \A p \in statuses : p <= stored.status

=============================================================================
