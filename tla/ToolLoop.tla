------------------------------ MODULE ToolLoop ------------------------------
(***************************************************************************)
(* One reply and the tool calls its model asks for                         *)
(* (utils/middleware.py: post_response_handler, utils/tool_parallel.py).   *)
(*                                                                         *)
(* The model streams text and may end with a batch of tool calls.  The     *)
(* loop runs the batch in waves, the calls of a wave concurrently, then    *)
(* asks the model again with the results, up to MAX_TOOL_CALL_RETRIES      *)
(* rounds.  Every event of the reply carries its blocks as they are, and   *)
(* in a headless run (a scheduled task) every event is also written to the *)
(* database.  Stop cancels the job at any await; an exception ends it; both *)
(* complete the calls without a result before the final save.              *)
(*                                                                         *)
(* When one call raises past its handlers, asyncio.gather raises at once   *)
(* and the other calls of the wave go on by themselves.                    *)
(***************************************************************************)
EXTENDS Naturals, Sequences, FiniteSets

CONSTANTS
    Batches,    \* bound: the batches of calls a model may ask for
    Readers,    \* SERIAL_AFTER_SIBLINGS
    MaxRetries  \* MAX_TOOL_CALL_RETRIES

\* A batch: the tool each call names, the calls and the tools it depends on.
Calls(b) == DOMAIN b.tool

ASSUME LoopAssumption ==
    /\ MaxRetries \in Nat
    /\ \A b \in Batches :
          /\ b.tool \in Seq(STRING) /\ b.tool # <<>>
          /\ b.ids \in [Calls(b) -> SUBSET Nat]
          /\ b.names \in [Calls(b) -> SUBSET STRING]

VARIABLES
    headless,   \* no browser owns the stream
    phase,      \* where the job is
    how,        \* how it ends
    waiting,    \* the waiting heartbeat is active
    preparing,  \* the preparing status is shown
    line,       \* the latest of their status events
    queue,      \* tool_calls: the batch asked for, at most one
    blocks,     \* the tool_calls blocks of content_blocks, one for each round
    ran,        \* calls of the earlier waves
    wave,       \* calls of the running wave
    serial,     \* the rest of the batch runs one by one
    call,       \* where each call of the last block is
    result,     \* results: what the calls of the last block returned
    final,      \* the blocks serialized for the end
    sent,       \* the blocks of the last event
    stored,     \* the blocks and the done flag of the stored reply
    straggler   \* blocks a cancelled event still writes, at most one

vars == <<headless, phase, how, waiting, preparing, line, queue, blocks, ran, wave,
          serial, call, result, final, sent, stored, straggler>>

lineVars == <<waiting, preparing, line>>
waveVars == <<ran, wave, serial>>
callVars == <<call, result>>
outVars  == <<sent, stored>>

Phases == {"asking", "streaming", "preparing", "tools", "saving", "announcing",
           "background", "over"}
Endings == {"none", "reply", "refused", "cancelled", "failed", "cut"}

\* A result has content, is empty, or is the note of an interrupted call.
Returned == {"text", "empty"}
Results == Returned \cup {"none", "note"}

Blocks == Seq(UNION {[batch : {b}, results : [Calls(b) -> Results]] : b \in Batches})

Round == Len(blocks)
Batch == blocks[Round].batch

\* The blocks as the loop, the screen, the database and a late write have them.
Copies == {blocks, final, sent, stored.blocks} \cup {straggler[k] : k \in DOMAIN straggler}

TypeOK ==
    /\ headless \in BOOLEAN
    /\ phase \in Phases /\ how \in Endings
    /\ waiting \in BOOLEAN /\ preparing \in BOOLEAN
    /\ line \in {"waiting", "preparing", "closed"}
    /\ queue \in {<<>>} \cup {<<b>> : b \in Batches}
    /\ \A bs \in Copies : bs \in Blocks
    /\ Round <= MaxRetries
    /\ Len(straggler) <= 1
    /\ stored.done \in BOOLEAN /\ serial \in BOOLEAN
    /\ IF Round = 0
       THEN ran = {} /\ wave = {} /\ call = <<>> /\ result = <<>>
       ELSE /\ ran \subseteq Calls(Batch) /\ wave \subseteq Calls(Batch)
            /\ call \in [Calls(Batch) -> {"idle", "running", "done", "gone"}]
            /\ result \in [Calls(Batch) -> Results]

----------------------------------------------------------------------------
(* The waves of a batch: with_implicit_depends_on and execution_waves.     *)

\* The calls a tool name stands for: those issued before i, or else all.
ByName(b, i, name) ==
    LET matches == {j \in Calls(b) \ {i} : b.tool[j] = name}
        earlier == {j \in matches : j < i}
    IN  IF earlier # {} THEN earlier ELSE matches

\* Mutation: a reader waits for nobody it does not name.
WithoutSiblings(b, i) == b.names[i]

\* A reader of files waits for the other tools of the batch.
WithSiblings(b, i) ==
    IF b.tool[i] \in Readers
    THEN b.names[i] \cup ({b.tool[j] : j \in Calls(b)} \ Readers)
    ELSE b.names[i]

Pred(b, i) ==
    ((Calls(b) \cap b.ids[i]) \ {i}) \cup UNION {ByName(b, i, name) : name \in WithSiblings(b, i)}

\* Mutation: one dependency that has run is enough.
ReadyAny(b, done) ==
    {i \in Calls(b) \ done : Pred(b, i) = {} \/ Pred(b, i) \cap done # {}}

Ready(b, done) == {i \in Calls(b) \ done : Pred(b, i) \subseteq done}

First(S) == CHOOSE i \in S : \A j \in S : i <= j

----------------------------------------------------------------------------
(* Status lines and events.                                                *)

\* waiting_heartbeat.stop(clear=True)
StopWaiting ==
    /\ waiting' = FALSE
    /\ line' = IF waiting THEN "closed" ELSE line

\* Mutation: the preparing line is forgotten.
ClearWaiting ==
    /\ waiting' = FALSE /\ preparing' = FALSE
    /\ line' = IF waiting THEN "closed" ELSE line

\* Both lines are hidden, as in the job's finally.
ClearLines ==
    /\ waiting' = FALSE /\ preparing' = FALSE
    /\ line' = IF waiting \/ preparing THEN "closed" ELSE line

\* A chat:completion event with the reply's blocks.
Send(bs) ==
    /\ sent' = bs
    /\ stored' = IF headless THEN [stored EXCEPT !.blocks = bs] ELSE stored

Init ==
    /\ headless \in BOOLEAN
    /\ phase = "asking" /\ how = "none"
    /\ waiting = TRUE /\ preparing = FALSE /\ line = "waiting"
    /\ queue = <<>> /\ blocks = <<>>
    /\ ran = {} /\ wave = {} /\ serial = FALSE
    /\ call = <<>> /\ result = <<>>
    /\ final = <<>> /\ sent = <<>> /\ straggler = <<>>
    /\ stored = [blocks |-> <<>>, done |-> FALSE]

----------------------------------------------------------------------------
(* The model's answer.                                                     *)

\* The loop is left: the reply is put together and saved.
Conclude(ending) ==
    /\ phase' = "saving" /\ how' = ending
    /\ final' = blocks
    /\ UNCHANGED <<headless, queue, blocks, waveVars, callVars, outVars, straggler>>

\* The model call returns a stream.
Answer ==
    /\ phase = "asking"
    /\ phase' = "streaming"
    /\ UNCHANGED <<headless, how, lineVars, queue, blocks, waveVars, callVars, final,
                   outVars, straggler>>

\* A follow-up call is refused, or is no stream: the reply ends with what it has.
FollowupRefused(ending) ==
    /\ phase = "asking" /\ Round > 0
    /\ StopWaiting /\ UNCHANGED preparing
    /\ Conclude(ending)

\* A delta with text or reasoning.
StreamText ==
    /\ phase = "streaming" /\ waiting
    /\ StopWaiting
    /\ UNCHANGED <<headless, phase, how, preparing, queue, blocks, waveVars, callVars,
                   final, outVars, straggler>>

\* The first delta of a batch of calls.
StreamCalls ==
    /\ phase = "streaming" /\ ~ preparing
    /\ waiting' = FALSE /\ preparing' = TRUE /\ line' = "preparing"
    /\ UNCHANGED <<headless, phase, how, queue, blocks, waveVars, callVars, final,
                   outVars, straggler>>

\* Mutation: the limit is not checked.
EndWithCallsUnlimited(b) ==
    /\ phase = "streaming" /\ preparing
    /\ phase' = "preparing"
    /\ queue' = <<b>>
    /\ UNCHANGED <<headless, how, lineVars, blocks, waveVars, callVars, final, outVars,
                   straggler>>

\* The stream ends in a batch.
EndWithCalls(b) ==
    /\ phase = "streaming" /\ preparing
    /\ Round < MaxRetries
    /\ phase' = "preparing"
    /\ queue' = <<b>>
    /\ UNCHANGED <<headless, how, lineVars, blocks, waveVars, callVars, final, outVars,
                   straggler>>

\* The stream ends in text, or in a batch one round too many, which is
\* answered by a note.
EndWithText ==
    /\ phase = "streaming"
    /\ preparing => Round = MaxRetries
    /\ StopWaiting /\ UNCHANGED preparing
    /\ Conclude("reply")

\* A follow-up's stream breaks: its batch is dropped.
FollowupBroken ==
    /\ phase = "streaming" /\ Round > 0
    /\ StopWaiting /\ UNCHANGED preparing
    /\ Conclude("refused")

----------------------------------------------------------------------------
(* The calls of a batch.                                                   *)

NoResults(b) == [i \in Calls(b) |-> "none"]

\* The tool runner was waited for; the block of the batch is shown.
BeginRound ==
    /\ phase = "preparing"
    /\ LET b == Head(queue)
           shown == Append(blocks, [batch |-> b, results |-> NoResults(b)])
       IN  /\ blocks' = shown /\ Send(shown)
           /\ call' = [i \in Calls(b) |-> "idle"]
           /\ result' = NoResults(b)
    /\ phase' = "tools"
    /\ queue' = <<>>
    /\ ran' = {} /\ wave' = {} /\ serial' = FALSE
    /\ ClearLines
    /\ UNCHANGED <<headless, how, final, straggler>>

WaveOver == phase = "tools" /\ \A i \in wave : call[i] = "done"

\* Mutation: no fallback for a cycle.
NextWaveNoFallback ==
    /\ WaveOver
    /\ LET done == ran \cup wave
       IN  /\ Ready(Batch, done) # {}
           /\ ran' = done
           /\ wave' = Ready(Batch, done)
    /\ UNCHANGED <<headless, phase, how, lineVars, queue, blocks, serial, callVars, final,
                   outVars, straggler>>

\* The calls all of whose dependencies have run; in a cycle the rest, in order.
NextWave ==
    /\ WaveOver
    /\ LET done == ran \cup wave
           rest == Calls(Batch) \ done
           ready == Ready(Batch, done)
       IN  /\ rest # {}
           /\ ran' = done
           /\ serial' = (serial \/ ready = {})
           /\ wave' = IF serial' THEN {First(rest)} ELSE ready
    /\ UNCHANGED <<headless, phase, how, lineVars, queue, blocks, callVars, final,
                   outVars, straggler>>

\* emit_tool_progress: the block gets the results there are.
Progress(returned) ==
    /\ result' = returned
    /\ blocks' = [blocks EXCEPT ![Round].results = returned]
    /\ Send(blocks')

\* run_one_tool, also after its wave was given up.
BeginCall(i) ==
    /\ i \in wave /\ call[i] = "idle"
    /\ call' = [call EXCEPT ![i] = "running"]
    /\ Progress(result)
    /\ UNCHANGED <<headless, phase, how, lineVars, queue, waveVars, final, straggler>>

\* The tool returned or raised, or there is no such tool: all give a result.
EndCall(i, r) ==
    /\ i \in wave /\ call[i] = "running"
    /\ call' = [call EXCEPT ![i] = "done"]
    /\ Progress([result EXCEPT ![i] = r])
    /\ UNCHANGED <<headless, phase, how, lineVars, queue, waveVars, final, straggler>>

\* Mutation: the model is asked again after the first wave.
EndRoundEarly ==
    /\ WaveOver /\ wave # {}
    /\ phase' = "asking"
    /\ blocks' = [blocks EXCEPT ![Round].results = result]
    /\ Send(blocks')
    /\ waiting' = TRUE /\ line' = "waiting"
    /\ UNCHANGED <<headless, how, preparing, queue, waveVars, callVars, final, straggler>>

\* All waves ran: the model is asked again with every result.
EndRound ==
    /\ WaveOver /\ ran \cup wave = Calls(Batch)
    /\ phase' = "asking"
    /\ blocks' = [blocks EXCEPT ![Round].results = result]
    /\ Send(blocks')
    /\ waiting' = TRUE /\ line' = "waiting"
    /\ UNCHANGED <<headless, how, preparing, queue, waveVars, callVars, final, straggler>>

----------------------------------------------------------------------------
(* The end of the job.                                                     *)

\* Mutation: every result is replaced by the note.
NotedAll(results) == [i \in DOMAIN results |-> "note"]

\* Mutation: only calls that gave an empty result are completed.
NotedEmpty(results) ==
    [i \in DOMAIN results |-> IF results[i] = "empty" THEN "note" ELSE results[i]]

\* complete_open_tool_calls: every result that is missing or empty.
Noted(results) ==
    [i \in DOMAIN results |-> IF results[i] \in {"none", "empty"} THEN "note" ELSE results[i]]

\* The handlers of CancelledError and Exception.  An empty result is the same
\* object in the block and in the results of the running batch.
Interrupt(ending) ==
    /\ phase' = "saving" /\ how' = ending
    /\ blocks' = [k \in DOMAIN blocks |-> [blocks[k] EXCEPT !.results = Noted(@)]]
    /\ result' = [i \in DOMAIN result |-> IF result[i] = "empty" THEN "note" ELSE result[i]]
    /\ final' = blocks'
    /\ queue' = <<>>
    /\ IF phase = "streaming" THEN StopWaiting ELSE UNCHANGED <<waiting, line>>
    /\ UNCHANGED <<headless, preparing, waveVars, outVars>>

\* The body of the job, which the handlers guard.
InBody == phase # "over" /\ how \in {"none", "reply", "refused"}

\* Mutation: the calls of the wave are not cancelled.
StopUngathered ==
    /\ InBody
    /\ Interrupt("cancelled")
    /\ UNCHANGED call
    /\ straggler' \in IF headless THEN {<<>>, <<sent>>} ELSE {<<>>}

\* Stop cancels the gathered calls.  A thread that writes an event goes on.
Stop ==
    /\ InBody
    /\ Interrupt("cancelled")
    /\ call' = [i \in DOMAIN call |->
                   IF phase = "tools" /\ call[i] # "done" THEN "gone" ELSE call[i]]
    /\ straggler' \in IF headless THEN {<<>>, <<sent>>} ELSE {<<>>}

\* A call raises past its own handlers; the rest of its wave goes on.
CallRaises(i) ==
    /\ phase = "tools" /\ call[i] = "running"
    /\ Interrupt("failed")
    /\ call' = [call EXCEPT ![i] = "gone"]
    /\ UNCHANGED straggler

\* An exception anywhere else: the first model call, its stream, the ending.
BodyRaises ==
    /\ InBody /\ phase # "tools"
    /\ phase \in {"asking", "streaming"} => Round = 0
    /\ Interrupt("failed")
    /\ UNCHANGED <<call, straggler>>

\* save_final_reply, written or given up.
Save(written) ==
    /\ phase = "saving"
    /\ phase' = "announcing"
    /\ stored' = IF written THEN [blocks |-> final, done |-> TRUE] ELSE stored
    /\ UNCHANGED <<headless, how, lineVars, queue, blocks, waveVars, callVars, final, sent,
                   straggler>>

\* The completion event; a reply has background tasks after it.
Announce ==
    /\ phase = "announcing"
    /\ sent' = final
    /\ stored' = IF headless THEN [blocks |-> final, done |-> TRUE] ELSE stored
    /\ IF how \in {"reply", "refused"}
       THEN phase' = "background" /\ UNCHANGED lineVars
       ELSE phase' = "over" /\ ClearLines
    /\ UNCHANGED <<headless, how, queue, blocks, waveVars, callVars, final, straggler>>

Background ==
    /\ phase = "background"
    /\ phase' = "over"
    /\ ClearLines
    /\ UNCHANGED <<headless, how, queue, blocks, waveVars, callVars, final, outVars,
                   straggler>>

\* Stop during a handler: the job only marks the reply done.  The handler's
\* save may have been in its thread.
StopHandler(written) ==
    /\ phase \in {"saving", "announcing"} /\ how \in {"cancelled", "failed"}
    /\ phase' = "over" /\ how' = "cut"
    /\ stored' = [blocks |-> IF written THEN final ELSE stored.blocks, done |-> TRUE]
    /\ ClearLines
    /\ UNCHANGED <<headless, queue, blocks, waveVars, callVars, final, sent, straggler>>

\* The write of an event whose sender was cancelled.
StragglerWrites ==
    /\ straggler # <<>>
    /\ stored' = [stored EXCEPT !.blocks = Head(straggler)]
    /\ straggler' = <<>>
    /\ UNCHANGED <<headless, phase, how, lineVars, queue, blocks, waveVars, callVars, final,
                   sent>>

----------------------------------------------------------------------------
CallStep(i) ==
    \/ BeginCall(i)
    \/ \E r \in Returned : EndCall(i, r)
    \/ CallRaises(i)

ModelStep ==
    \/ Answer \/ StreamText \/ StreamCalls
    \/ \E b \in Batches : EndWithCalls(b)
    \/ EndWithText \/ FollowupBroken
    \/ \E ending \in {"reply", "refused"} : FollowupRefused(ending)

LoopStep ==
    \/ BeginRound \/ NextWave \/ EndRound
    \/ \E written \in BOOLEAN : Save(written)
    \/ Announce \/ Background

Next ==
    \/ ModelStep
    \/ LoopStep
    \/ \E i \in DOMAIN call : CallStep(i)
    \/ Stop \/ BodyRaises
    \/ \E written \in BOOLEAN : StopHandler(written)
    \/ StragglerWrites

\* The loop is scheduled, and model calls and tools return or time out.
\* Stopping and raising are not fair.
Fairness ==
    /\ WF_vars(ModelStep)
    /\ WF_vars(LoopStep)
    /\ \A i \in UNION {Calls(b) : b \in Batches} :
          WF_vars(i \in DOMAIN call /\ CallStep(i))

Spec == Init /\ [][Next]_vars
FairSpec == Spec /\ Fairness

----------------------------------------------------------------------------
(* Properties.                                                             *)

Open(block) == \E i \in Calls(block.batch) : block.results[i] = "none"
Whole(bs) == \A k \in DOMAIN bs : ~ Open(bs[k])

\* The model is asked again only with a result for every call it made; the
\* providers refuse a conversation with an unanswered tool call.
ModelSeesAllResults == phase \in {"asking", "streaming", "preparing"} => Whole(blocks)

\* A reply that ended on its own or by Stop shows a result for each call, and
\* so does its stored copy ("Mark in-flight tool_calls blocks complete so the
\* UI stops spinning").  The copy of a headless run may be rewritten by a
\* straggler.
EndIsWhole ==
    /\ phase = "over" /\ how \in {"reply", "refused", "cancelled"} => Whole(sent)
    /\ ~ headless => Whole(stored.blocks)

\* A set of calls each of which waits for another one of them.
Cyclic(b) == \E S \in SUBSET Calls(b) : S # {} /\ \A i \in S : Pred(b, i) \cap S # {}

\* A call runs only after every call it depends on has returned.  Only a batch
\* with a cycle falls back to one call at a time, in the order they were issued.
DependenciesFirst ==
    Round > 0 =>
        IF serial
        THEN Cyclic(Batch) /\ \A i, j \in Calls(Batch) : i \in wave /\ j \notin ran => i <= j
        ELSE \A i \in Calls(Batch) : call[i] \in {"running", "done"} =>
                 \A j \in Pred(Batch, i) : call[j] = "done"

\* A reader of files sees the files of every tool issued before it ("Make
\* file-readers wait for other same-turn tools").
ReadersAfterWriters ==
    Round > 0 /\ ~ Cyclic(Batch) =>
        \A i, j \in Calls(Batch) :
            /\ Batch.tool[i] \in Readers /\ call[i] \in {"running", "done"}
            /\ Batch.tool[j] \notin Readers /\ j < i
            => call[j] = "done"

\* A result with content is never replaced or taken back, not even when the
\* job is stopped or calls outlive it.
ResultStays ==
    [][\A k \in DOMAIN blocks : \A i \in Calls(blocks[k].batch) :
          blocks[k].results[i] = "text" => blocks'[k].results[i] = "text"]_vars

\* After the end nothing is sent any more, unless calls outlived a failed job.
QuietAfterTheEnd ==
    [][phase = "over" /\ how \notin {"failed", "cut"} => UNCHANGED <<blocks, sent, line>>]_vars

\* No status line is left on the screen of an ended job.
NoLineLeft == phase = "over" => line = "closed"

\* The job ends: no wave is empty and no cycle of dependencies blocks it.
JobEnds == <>(phase = "over")

=============================================================================
