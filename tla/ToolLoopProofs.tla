--------------------------- MODULE ToolLoopProofs ---------------------------
(***************************************************************************)
(* The safety properties of ToolLoop hold for any batches of calls, any    *)
(* tools that read after their siblings and any limit on the rounds.       *)
(*                                                                         *)
(* What a reply shows at its end depends on every call of the batch that   *)
(* ran when it ended.  The invariant ties the place of a call to its       *)
(* result (Answered), the waves to what has run (Waves), and says when no  *)
(* call can still change the blocks (Settled).                             *)
(***************************************************************************)
EXTENDS ToolLoop, WellFoundedInduction, TLAPS

Block == UNION {[batch : {b}, results : [Calls(b) -> Results]] : b \in Batches}

Early == {"asking", "streaming", "preparing"}
Late == {"saving", "announcing", "background", "over"}

\* The stored reply is a record, and what cancelled events still write is listed.
Shapes ==
    /\ stored \in [blocks : Seq(Block), done : BOOLEAN]
    /\ straggler \in Seq(Seq(Block))

\* A line that is shown is one that a handler knows of.
Lines == ~ waiting /\ ~ preparing => line = "closed"

\* Only an unended job asks the model or runs calls.
Underway ==
    /\ phase \in Early \cup {"tools"} => how = "none"
    /\ phase = "tools" => Round > 0
    /\ phase = "preparing" => queue # <<>> /\ Round < MaxRetries
    /\ phase = "background" => how \in {"reply", "refused"}

\* The result of a call is there when it has returned, and not before.
Answered ==
    Round > 0 => \A i \in Calls(Batch) :
        /\ call[i] \in {"idle", "running"} => result[i] = "none"
        /\ call[i] = "done" => result[i] # "none"
        /\ blocks[Round].results[i] = "text" => result[i] = "text"

\* A wave is what was ready when the waves before it had run.
Waves ==
    Round > 0 =>
        /\ \A i \in ran : call[i] = "done"
        /\ \A i \in Calls(Batch) : call[i] \in {"running", "done"} => i \in ran \cup wave
        /\ ~ serial => \A i \in ran \cup wave : Pred(Batch, i) \subseteq ran
        /\ serial => Cyclic(Batch)
        /\ serial => \A i, j \in Calls(Batch) : i \in wave /\ j \notin ran => i <= j

\* Calls outlive their wave only when one of them raised.
Settled ==
    Round > 0 /\ phase # "tools" /\ how \notin {"failed", "cut"} =>
        \A i \in Calls(Batch) : call[i] \in {"done", "gone"}

\* The blocks that have a result for every call; only headless runs have
\* writes that go on.
Wholes ==
    /\ phase \in Early => Whole(blocks)
    /\ phase = "tools" => \A k \in DOMAIN blocks : k # Round => ~ Open(blocks[k])
    /\ phase \in Late => Whole(final)
    /\ phase = "background" => Whole(sent)
    /\ straggler # <<>> => headless
    /\ EndIsWhole

Inv ==
    /\ TypeOK /\ Shapes /\ Lines /\ NoLineLeft /\ Underway
    /\ Answered /\ Waves /\ Settled /\ Wholes

----------------------------------------------------------------------------

\* What a block is.
LEMMA BlockFacts ==
    /\ \A b \in Batches : \A r \in [Calls(b) -> Results] :
          [batch |-> b, results |-> r] \in Block
    /\ \A bl \in Block :
          /\ bl.batch \in Batches
          /\ bl.results \in [Calls(bl.batch) -> Results]
          /\ \A r \in [Calls(bl.batch) -> Results] : [bl EXCEPT !.results = r] \in Block
          /\ \A r : [bl EXCEPT !.results = r].batch = bl.batch
          /\ \A r : [bl EXCEPT !.results = r].results = r
    /\ Blocks = Seq(Block)
<1>1. Blocks = Seq(Block)
  BY DEF Blocks, Block
<1>2. ASSUME NEW b \in Batches, NEW r \in [Calls(b) -> Results]
      PROVE  [batch |-> b, results |-> r] \in Block
  BY DEF Block
<1>3. ASSUME NEW bl \in Block
      PROVE  /\ bl.batch \in Batches
             /\ bl.results \in [Calls(bl.batch) -> Results]
             /\ \A r \in [Calls(bl.batch) -> Results] : [bl EXCEPT !.results = r] \in Block
             /\ \A r : [bl EXCEPT !.results = r].batch = bl.batch
             /\ \A r : [bl EXCEPT !.results = r].results = r
  <2>1. PICK b \in Batches : bl \in [batch : {b}, results : [Calls(b) -> Results]]
    BY DEF Block
  <2>2. bl.batch = b /\ bl.results \in [Calls(b) -> Results]
    BY <2>1
  <2>3. ASSUME NEW r \in [Calls(b) -> Results]
        PROVE  [bl EXCEPT !.results = r] \in Block
    <3>1. [bl EXCEPT !.results = r] = [batch |-> b, results |-> r]
      BY <2>1
    <3> QED BY <1>2, <3>1
  <2>4. ASSUME NEW r
        PROVE  /\ [bl EXCEPT !.results = r].batch = bl.batch
               /\ [bl EXCEPT !.results = r].results = r
    BY <2>1
  <2> QED BY <2>2, <2>3, <2>4
<1> QED BY <1>1, <1>2, <1>3

\* What a state has that is well typed.
LEMMA StateFacts ==
    ASSUME TypeOK
    PROVE  /\ blocks \in Seq(Block) /\ Round \in Nat /\ DOMAIN blocks = 1..Round
           /\ final \in Seq(Block) /\ sent \in Seq(Block) /\ stored.blocks \in Seq(Block)
           /\ \A k \in DOMAIN straggler : straggler[k] \in Seq(Block)
           /\ Round > 0 => /\ Round \in DOMAIN blocks
                           /\ blocks[Round] \in Block
                           /\ Batch \in Batches
                           /\ blocks[Round].results \in [Calls(Batch) -> Results]
                           /\ Calls(Batch) \subseteq Nat
                           /\ call \in [Calls(Batch) -> {"idle", "running", "done", "gone"}]
                           /\ result \in [Calls(Batch) -> Results]
                           /\ ran \subseteq Calls(Batch) /\ wave \subseteq Calls(Batch)
           /\ Round = 0 => /\ ran = {} /\ wave = {} /\ call = <<>> /\ result = <<>>
                           /\ DOMAIN call = {}
<1>1. \A bs \in Copies : bs \in Seq(Block)
  BY BlockFacts DEF TypeOK
<1>2. /\ blocks \in Seq(Block) /\ final \in Seq(Block) /\ sent \in Seq(Block)
      /\ stored.blocks \in Seq(Block)
      /\ \A k \in DOMAIN straggler : straggler[k] \in Seq(Block)
  BY <1>1 DEF Copies
<1>3. Round \in Nat /\ DOMAIN blocks = 1..Round
  BY <1>2 DEF Round
<1>4. ASSUME Round > 0
      PROVE  /\ Round \in DOMAIN blocks /\ blocks[Round] \in Block
             /\ Batch \in Batches
             /\ blocks[Round].results \in [Calls(Batch) -> Results]
  <2>1. Round \in DOMAIN blocks
    BY <1>3, <1>4
  <2>2. blocks[Round] \in Block
    BY <1>2, <2>1
  <2> QED BY <2>1, <2>2, BlockFacts DEF Batch
<1>5. Round > 0 => Calls(Batch) \subseteq Nat
  BY <1>4, LoopAssumption DEF Calls
<1> QED BY <1>2, <1>3, <1>4, <1>5 DEF TypeOK

\* First takes the first of some numbers.
LEMMA HasFirst ==
    ASSUME NEW S \in SUBSET Nat, S # {}
    PROVE  First(S) \in S /\ \A j \in S : First(S) <= j
<1> DEFINE R == {r \in Nat \X Nat : r[1] < r[2]}
<1>1. PICK i \in S : \A j \in S : ~ (<<j, i>> \in R)
  <2>1. IsWellFoundedOn(R, Nat)
    BY NatLessThanWellFounded DEF OpToRel
  <2> HIDE DEF R
  <2> QED BY <2>1, WFMin
<1>2. \A j \in S : i <= j
  <2>1. SUFFICES ASSUME NEW j \in S, ~ (i <= j) PROVE FALSE
    OBVIOUS
  <2>2. i \in Nat /\ j \in Nat /\ j < i
    BY <2>1
  <2>3. <<j, i>> \in R
    BY <2>2
  <2> QED BY <1>1, <2>3
<1> QED BY <1>1, <1>2 DEF First

----------------------------------------------------------------------------
(* How the blocks change.                                                  *)

\* The results of the last block are written.
LEMMA Progressed ==
    ASSUME TypeOK, Round > 0, NEW r \in [Calls(Batch) -> Results],
           blocks' = [blocks EXCEPT ![Round].results = r]
    PROVE  /\ blocks' \in Seq(Block) /\ Round' = Round /\ Batch' = Batch
           /\ DOMAIN blocks' = DOMAIN blocks
           /\ blocks'[Round].results = r
           /\ \A k \in DOMAIN blocks :
                 /\ blocks'[k].batch = blocks[k].batch
                 /\ k # Round => blocks'[k] = blocks[k]
<1> DEFINE new == [blocks[Round] EXCEPT !.results = r]
<1>1. blocks \in Seq(Block) /\ Round \in DOMAIN blocks /\ blocks[Round] \in Block
  BY StateFacts
<1>2. new \in Block /\ new.batch = Batch /\ new.results = r
  BY <1>1, BlockFacts DEF Batch
<1>3. blocks' = [blocks EXCEPT ![Round] = new]
  OBVIOUS
<1> HIDE DEF new
<1>4. /\ blocks' \in Seq(Block) /\ Len(blocks') = Len(blocks)
      /\ DOMAIN blocks' = DOMAIN blocks
      /\ blocks'[Round] = new
      /\ \A k \in DOMAIN blocks : k # Round => blocks'[k] = blocks[k]
  BY <1>1, <1>2, <1>3
<1>5. Round' = Round
  BY <1>4 DEF Round
<1> QED BY <1>2, <1>4, <1>5 DEF Batch

\* The job is interrupted: every call has a result or a note.
LEMMA Interrupted ==
    ASSUME TypeOK, NEW ending, Interrupt(ending)
    PROVE  /\ blocks' \in Seq(Block) /\ Round' = Round /\ Whole(blocks')
           /\ DOMAIN blocks' = DOMAIN blocks /\ final' = blocks'
           /\ \A k \in DOMAIN blocks :
                 /\ blocks'[k].batch = blocks[k].batch
                 /\ \A i \in Calls(blocks[k].batch) :
                       (blocks'[k].results[i] = "text") <=> (blocks[k].results[i] = "text")
           /\ Round > 0 =>
                 /\ Batch' = Batch
                 /\ result' \in [Calls(Batch) -> Results]
                 /\ \A i \in Calls(Batch) :
                       result'[i] = IF result[i] = "empty" THEN "note" ELSE result[i]
           /\ Round = 0 => result' = <<>>
<1>1. blocks \in Seq(Block) /\ DOMAIN blocks = 1..Round /\ Round \in Nat
  BY StateFacts
<1>2. ASSUME NEW k \in DOMAIN blocks
      PROVE  /\ blocks'[k] \in Block
             /\ blocks'[k].batch = blocks[k].batch
             /\ ~ Open(blocks'[k])
             /\ \A i \in Calls(blocks[k].batch) :
                   (blocks'[k].results[i] = "text") <=> (blocks[k].results[i] = "text")
  <2> DEFINE noted == Noted(blocks[k].results)
  <2>1. blocks[k] \in Block
    BY <1>1
  <2>2. blocks[k].results \in [Calls(blocks[k].batch) -> Results]
    BY <2>1, BlockFacts
  <2>3. /\ noted \in [Calls(blocks[k].batch) -> Results]
        /\ \A i \in Calls(blocks[k].batch) :
              noted[i] = IF blocks[k].results[i] \in {"none", "empty"} THEN "note"
                         ELSE blocks[k].results[i]
    BY <2>2 DEF Noted, Results, Returned
  <2>4. blocks'[k] = [blocks[k] EXCEPT !.results = noted]
    BY DEF Interrupt
  <2>5. blocks'[k] \in Block /\ blocks'[k].batch = blocks[k].batch /\ blocks'[k].results = noted
    <3> HIDE DEF noted
    <3> QED BY <2>1, <2>3, <2>4, BlockFacts
  <2> HIDE DEF noted
  <2> QED BY <2>3, <2>5 DEF Open
<1>3. DOMAIN blocks' = DOMAIN blocks
  BY DEF Interrupt
<1>4. blocks' \in Seq(Block) /\ Len(blocks') = Len(blocks)
  <2>1. blocks' = [k \in 1..Round |-> blocks'[k]]
    BY <1>1 DEF Interrupt
  <2>2. \A k \in 1..Round : blocks'[k] \in Block
    BY <1>1, <1>2
  <2> QED BY <1>1, <2>1, <2>2 DEF Round
<1>5. Round' = Round
  BY <1>4 DEF Round
<1>6. Whole(blocks')
  BY <1>2, <1>3 DEF Whole
<1>7. ASSUME Round > 0
      PROVE  /\ Batch' = Batch
             /\ result' \in [Calls(Batch) -> Results]
             /\ \A i \in Calls(Batch) :
                   result'[i] = IF result[i] = "empty" THEN "note" ELSE result[i]
  <2>1. Round \in DOMAIN blocks /\ result \in [Calls(Batch) -> Results]
    BY <1>7, StateFacts
  <2>2. Batch' = Batch
    BY <1>2, <1>5, <2>1 DEF Batch
  <2>3. result' = [i \in DOMAIN result |-> IF result[i] = "empty" THEN "note" ELSE result[i]]
    BY DEF Interrupt
  <2> QED BY <2>1, <2>2, <2>3 DEF Results, Returned
<1>8. ASSUME Round = 0 PROVE result' = <<>>
  <2>1. result = <<>>
    BY <1>8, StateFacts
  <2> QED BY <2>1 DEF Interrupt
<1>9. final' = blocks'
  BY DEF Interrupt
<1> QED BY <1>2, <1>3, <1>4, <1>5, <1>6, <1>7, <1>8, <1>9

\* A batch is shown.
LEMMA Begun ==
    ASSUME TypeOK, Underway, BeginRound
    PROVE  /\ \E b \in Batches :
                 /\ queue = <<b>> /\ Batch' = b
                 /\ call' = [i \in Calls(b) |-> "idle"]
                 /\ result' = [i \in Calls(b) |-> "none"]
                 /\ blocks' = Append(blocks, [batch |-> b, results |-> NoResults(b)])
           /\ blocks' \in Seq(Block) /\ Round' = Round + 1 /\ Round' <= MaxRetries
           /\ DOMAIN blocks' = 1..(Round + 1)
           /\ \A k \in DOMAIN blocks : blocks'[k] = blocks[k]
<1>1. PICK b \in Batches : queue = <<b>>
  BY DEF TypeOK, Underway, BeginRound
<1> DEFINE new == [batch |-> b, results |-> NoResults(b)]
<1>2. new \in Block /\ new.batch = b
  <2>1. NoResults(b) \in [Calls(b) -> Results]
    BY DEF NoResults, Results
  <2> QED BY <2>1, BlockFacts
<1>3. blocks' = Append(blocks, new)
  BY <1>1 DEF BeginRound
<1>4. blocks \in Seq(Block) /\ Round \in Nat /\ DOMAIN blocks = 1..Round
  BY StateFacts
<1> HIDE DEF new
<1>5. /\ blocks' \in Seq(Block) /\ Len(blocks') = Len(blocks) + 1
      /\ blocks'[Len(blocks) + 1] = new
      /\ \A k \in 1..Len(blocks) : blocks'[k] = blocks[k]
  BY <1>2, <1>3, <1>4
<1>6. Round' = Round + 1 /\ Batch' = b
  BY <1>2, <1>5 DEF Round, Batch
<1>7. Round + 1 <= MaxRetries
  BY <1>4, LoopAssumption DEF Underway, BeginRound
<1>8. call' = [i \in Calls(b) |-> "idle"] /\ result' = [i \in Calls(b) |-> "none"]
  BY <1>1 DEF BeginRound, NoResults
<1> USE DEF new
<1> QED BY <1>1, <1>3, <1>4, <1>5, <1>6, <1>7, <1>8 DEF Round

----------------------------------------------------------------------------
(* Types.                                                                  *)

\* The parts that no call, wave or block is in.
Plain ==
    /\ headless \in BOOLEAN
    /\ phase \in Phases /\ how \in Endings
    /\ waiting \in BOOLEAN /\ preparing \in BOOLEAN
    /\ line \in {"waiting", "preparing", "closed"}
    /\ queue \in {<<>>} \cup {<<b>> : b \in Batches}
    /\ final \in Seq(Block) /\ sent \in Seq(Block)
    /\ stored \in [blocks : Seq(Block), done : BOOLEAN]
    /\ straggler \in Seq(Seq(Block)) /\ Len(straggler) <= 1

\* The round and its calls.
Counted ==
    /\ blocks \in Seq(Block) /\ Round <= MaxRetries
    /\ serial \in BOOLEAN
    /\ Round = 0 => ran = {} /\ wave = {} /\ call = <<>> /\ result = <<>>
    /\ Round > 0 =>
          /\ ran \subseteq Calls(Batch) /\ wave \subseteq Calls(Batch)
          /\ call \in [Calls(Batch) -> {"idle", "running", "done", "gone"}]
          /\ result \in [Calls(Batch) -> Results]

LEMMA TypedIff == TypeOK /\ Shapes <=> Plain /\ Counted
<1>1. ASSUME TypeOK, Shapes PROVE Plain /\ Counted
  BY <1>1, StateFacts DEF TypeOK, Shapes, Plain, Counted
<1>2. ASSUME Plain, Counted PROVE TypeOK /\ Shapes
  <2>1. blocks \in Seq(Block) /\ Round \in Nat
    BY <1>2 DEF Counted, Round
  <2>2. stored.blocks \in Seq(Block) /\ stored.done \in BOOLEAN
    BY <1>2 DEF Plain
  <2>3. \A k \in DOMAIN straggler : straggler[k] \in Seq(Block)
    BY <1>2 DEF Plain
  <2>4. \A bs \in Copies : bs \in Blocks
    BY <1>2, <2>1, <2>2, <2>3, BlockFacts DEF Plain, Copies
  <2> QED BY <1>2, <2>1, <2>2, <2>4 DEF Plain, Counted, TypeOK, Shapes
<1> QED BY <1>1, <1>2

\* A step of one call, with what it shows.
LEMMA CallTyped ==
    ASSUME TypeOK, Shapes, NEW i \in DOMAIN call,
           NEW c \in {"idle", "running", "done", "gone"},
           call' = [call EXCEPT ![i] = c],
           NEW r \in [Calls(Batch) -> Results], Progress(r),
           UNCHANGED waveVars
    PROVE  /\ Round > 0 /\ i \in Calls(Batch)
           /\ Counted'
           /\ sent' \in Seq(Block)
           /\ stored' \in [blocks : Seq(Block), done : BOOLEAN]
<1>1. Round > 0 /\ i \in Calls(Batch)
  <2>1. Round \in Nat /\ Round # 0
    BY StateFacts
  <2> QED BY <2>1, StateFacts
<1>2. blocks' = [blocks EXCEPT ![Round].results = r] /\ result' = r
  BY DEF Progress
<1>3. blocks' \in Seq(Block) /\ Round' = Round /\ Batch' = Batch
  BY <1>1, <1>2, Progressed
<1>4. Counted'
  BY <1>1, <1>2, <1>3, StateFacts DEF TypeOK, Counted, waveVars
<1>5. sent' \in Seq(Block) /\ stored' \in [blocks : Seq(Block), done : BOOLEAN]
  BY <1>3 DEF Progress, Send, Shapes
<1> QED BY <1>1, <1>4, <1>5

\* An interrupt, with what becomes of the calls.
LEMMA InterruptTyped ==
    ASSUME TypeOK, Shapes, NEW ending \in Endings, Interrupt(ending),
           Round > 0 => call' \in [Calls(Batch) -> {"idle", "running", "done", "gone"}],
           Round = 0 => call' = <<>>,
           straggler' \in {straggler, <<>>, <<sent>>}
    PROVE  TypeOK' /\ Shapes'
<1>1. blocks' \in Seq(Block) /\ Round' = Round /\ final' = blocks'
  BY Interrupted
<1>2. Round \in Nat /\ sent \in Seq(Block)
  BY StateFacts
<1>3. Counted'
  BY <1>1, <1>2, Interrupted, StateFacts DEF TypeOK, Counted, Interrupt, waveVars
<1>4. straggler' \in Seq(Seq(Block)) /\ Len(straggler') <= 1
  <2>1. CASE straggler' = straggler
    BY <2>1 DEF TypeOK, Shapes
  <2>2. CASE straggler' = <<>>
    BY <2>2
  <2>3. CASE straggler' = <<sent>>
    BY <1>2, <2>3
  <2> QED BY <2>1, <2>2, <2>3
<1>5. Plain'
  <2>1. /\ headless' = headless /\ phase' \in Phases /\ how' \in Endings
        /\ queue' = <<>> /\ sent' = sent /\ stored' = stored
    BY DEF Interrupt, outVars, Phases
  <2>2. waiting' \in BOOLEAN /\ preparing' \in BOOLEAN
           /\ line' \in {"waiting", "preparing", "closed"}
    BY DEF Interrupt, StopWaiting, TypeOK
  <2> QED BY <1>1, <1>2, <1>4, <2>1, <2>2 DEF Plain, TypeOK, Shapes
<1> QED BY <1>3, <1>5, TypedIff, PTL

\* A step outside the rounds.
LEMMA PlainTyped ==
    ASSUME TypeOK, Shapes, Plain', UNCHANGED <<blocks, waveVars, callVars>>
    PROVE  TypeOK' /\ Shapes'
<1>1. Counted'
  <2>1. Counted
    BY TypedIff
  <2>2. Round' = Round /\ Batch' = Batch
    BY DEF Round, Batch
  <2> QED BY <2>1, <2>2 DEF Counted, waveVars, callVars
<1> QED BY <1>1, TypedIff, PTL

LEMMA TypeStep ==
    ASSUME Inv, [Next]_vars
    PROVE  TypeOK' /\ Shapes'
<1> USE DEF Inv
<1>0. Plain /\ Counted
  BY TypedIff
<1>1. CASE ModelStep
  <2>1. UNCHANGED <<blocks, waveVars, callVars>>
    BY <1>1 DEF ModelStep, Answer, StreamText, StreamCalls, EndWithCalls, EndWithText,
                FollowupBroken, FollowupRefused, Conclude
  <2>2. /\ headless' = headless /\ phase' \in Phases /\ how' \in Endings
        /\ queue' \in {queue} \cup {<<b>> : b \in Batches}
        /\ final' \in {final, blocks} /\ sent' = sent /\ stored' = stored
        /\ straggler' = straggler
    BY <1>0, <1>1 DEF ModelStep, Answer, StreamText, StreamCalls, EndWithCalls,
          EndWithText, FollowupBroken, FollowupRefused, Conclude, outVars, Plain, Phases, Endings
  <2>3. waiting' \in BOOLEAN /\ preparing' \in BOOLEAN
           /\ line' \in {"waiting", "preparing", "closed"}
    BY <1>0, <1>1 DEF ModelStep, Answer, StreamText, StreamCalls, EndWithCalls, EndWithText,
                FollowupBroken, FollowupRefused, lineVars, StopWaiting, Plain
  <2>4. Plain'
    BY <1>0, <2>2, <2>3, StateFacts DEF Plain
  <2> QED BY <2>1, <2>4, PlainTyped
<1>2. CASE BeginRound
  <2>1. blocks' \in Seq(Block) /\ Round' = Round + 1 /\ Round' <= MaxRetries /\ Round \in Nat
    BY <1>2, Begun, StateFacts
  <2>2. PICK b \in Batches :
           /\ queue = <<b>> /\ Batch' = b
           /\ call' = [i \in Calls(b) |-> "idle"]
           /\ result' = [i \in Calls(b) |-> "none"]
    BY <1>2, Begun
  <2>3. ran' = {} /\ wave' = {} /\ serial' = FALSE
    BY <1>2 DEF BeginRound
  <2>4. Counted'
    <3>1. call' \in [Calls(Batch') -> {"idle", "running", "done", "gone"}]
      BY <2>2
    <3>2. result' \in [Calls(Batch') -> Results]
      BY <2>2 DEF Results
    <3>3. Round' # 0
      BY <2>1
    <3>4. /\ ran' \subseteq Calls(Batch') /\ wave' \subseteq Calls(Batch')
          /\ serial' \in BOOLEAN
      BY <2>3
    <3>5. blocks' \in Seq(Block) /\ Round' <= MaxRetries
      BY <2>1
    <3> QED BY <3>1, <3>2, <3>3, <3>4, <3>5 DEF Counted
  <2>5. sent' = blocks' /\ stored' \in {stored, [stored EXCEPT !.blocks = blocks']}
    BY <1>2 DEF BeginRound, Send
  <2>6. stored' \in [blocks : Seq(Block), done : BOOLEAN]
    BY <2>1, <2>5 DEF Shapes
  <2>7. /\ headless' = headless /\ phase' \in Phases /\ how' = how /\ queue' = <<>>
        /\ final' = final /\ straggler' = straggler
        /\ waiting' = FALSE /\ preparing' = FALSE /\ line' \in {line, "closed"}
    BY <1>2 DEF BeginRound, ClearLines, Phases
  <2>8. Plain'
    BY <1>0, <2>1, <2>5, <2>6, <2>7 DEF Plain
  <2> QED BY <2>4, <2>8, TypedIff, PTL
<1>3. CASE NextWave
  <2>1. Round > 0
    BY <1>3 DEF NextWave, WaveOver, Underway
  <2>2. Round' = Round /\ Batch' = Batch
    BY <1>3 DEF NextWave, Round, Batch
  <2>3. ran' \subseteq Calls(Batch) /\ serial' \in BOOLEAN
    BY <1>0, <1>3, <2>1 DEF NextWave, Counted
  <2>4. wave' \subseteq Calls(Batch)
    <3> DEFINE rest == Calls(Batch) \ (ran \cup wave)
    <3>1. rest # {} /\ rest \subseteq Nat
      BY <1>3, <2>1, StateFacts DEF NextWave
    <3>2. First(rest) \in rest
      BY <3>1, HasFirst
    <3>3. wave' \in {{First(rest)}, Ready(Batch, ran \cup wave)}
      BY <1>3 DEF NextWave
    <3> QED BY <3>2, <3>3 DEF Ready
  <2>5. Counted'
    <3>1. blocks' = blocks /\ call' = call /\ result' = result
      BY <1>3 DEF NextWave, callVars
    <3> QED BY <1>0, <2>1, <2>2, <2>3, <2>4, <3>1 DEF Counted
  <2>6. Plain'
    BY <1>0, <1>3 DEF NextWave, Plain, lineVars, outVars
  <2> QED BY <2>5, <2>6, TypedIff, PTL
<1>4. CASE EndRound
  <2>1. Round > 0 /\ result \in [Calls(Batch) -> Results]
    BY <1>4, StateFacts DEF EndRound, WaveOver, Underway
  <2>2. blocks' \in Seq(Block) /\ Round' = Round /\ Batch' = Batch
    BY <1>4, <2>1, Progressed DEF EndRound
  <2>3. Counted'
    BY <1>0, <1>4, <2>2 DEF EndRound, Counted, waveVars, callVars
  <2>4. sent' \in Seq(Block) /\ stored' \in [blocks : Seq(Block), done : BOOLEAN]
    BY <1>4, <2>2 DEF EndRound, Send, Shapes
  <2>5. Plain'
    BY <1>0, <1>4, <2>4 DEF EndRound, Plain, Phases
  <2> QED BY <2>3, <2>5, TypedIff, PTL
<1>5. CASE (\E written \in BOOLEAN : Save(written)) \/ Announce \/ Background
  <2>1. UNCHANGED <<blocks, waveVars, callVars>>
    BY <1>5 DEF Save, Announce, Background
  <2>2. /\ headless' = headless /\ phase' \in Phases /\ how' = how /\ queue' = queue
        /\ final' = final /\ sent' \in {sent, final} /\ straggler' = straggler
        /\ stored' \in {stored, [blocks |-> final, done |-> TRUE]}
    BY <1>5 DEF Save, Announce, Background, outVars, Phases
  <2>3. waiting' \in BOOLEAN /\ preparing' \in BOOLEAN
           /\ line' \in {"waiting", "preparing", "closed"}
    BY <1>0, <1>5 DEF Save, Announce, Background, lineVars, ClearLines, Plain
  <2>4. stored' \in [blocks : Seq(Block), done : BOOLEAN]
    <3>1. CASE stored' = stored
      BY <1>0, <3>1 DEF Plain
    <3>2. CASE stored' = [blocks |-> final, done |-> TRUE]
      BY <1>0, <3>2 DEF Plain
    <3> QED BY <2>2, <3>1, <3>2
  <2>5. Plain'
    BY <1>0, <2>2, <2>3, <2>4 DEF Plain
  <2> QED BY <2>1, <2>5, PlainTyped
<1>6. ASSUME NEW i \in DOMAIN call, CallStep(i) PROVE TypeOK' /\ Shapes'
  <2>0. Round > 0 /\ i \in Calls(Batch) /\ result \in [Calls(Batch) -> Results]
           /\ call \in [Calls(Batch) -> {"idle", "running", "done", "gone"}]
    <3>1. Round \in Nat /\ Round # 0
      BY StateFacts
    <3> QED BY <3>1, StateFacts
  <2>1. CASE BeginCall(i)
    <3>1. Counted' /\ sent' \in Seq(Block) /\ stored' \in [blocks : Seq(Block), done : BOOLEAN]
      BY <2>0, <2>1, CallTyped DEF BeginCall
    <3>2. Plain'
      BY <1>0, <2>1, <3>1 DEF BeginCall, Plain, lineVars
    <3> QED BY <3>1, <3>2, TypedIff, PTL
  <2>2. ASSUME NEW r \in Returned, EndCall(i, r) PROVE TypeOK' /\ Shapes'
    <3>1. [result EXCEPT ![i] = r] \in [Calls(Batch) -> Results]
      BY <2>0 DEF Results
    <3>2. Counted' /\ sent' \in Seq(Block) /\ stored' \in [blocks : Seq(Block), done : BOOLEAN]
      BY <2>2, <3>1, CallTyped DEF EndCall
    <3>3. Plain'
      BY <1>0, <2>2, <3>2 DEF EndCall, Plain, lineVars
    <3> QED BY <3>2, <3>3, TypedIff, PTL
  <2>3. CASE CallRaises(i)
    <3>1. Interrupt("failed") /\ call' = [call EXCEPT ![i] = "gone"] /\ straggler' = straggler
      BY <2>3 DEF CallRaises
    <3>2. call' \in [Calls(Batch) -> {"idle", "running", "done", "gone"}]
      BY <2>0, <3>1
    <3> QED BY <2>0, <3>1, <3>2, InterruptTyped DEF Endings
  <2> QED BY <1>6, <2>1, <2>2, <2>3 DEF CallStep
<1>7. CASE Stop
  <2>1. Round > 0 => call' \in [Calls(Batch) -> {"idle", "running", "done", "gone"}]
    <3>1. SUFFICES ASSUME Round > 0
                   PROVE  call' \in [Calls(Batch) -> {"idle", "running", "done", "gone"}]
      OBVIOUS
    <3>2. call \in [Calls(Batch) -> {"idle", "running", "done", "gone"}]
      BY <3>1, StateFacts
    <3> QED BY <1>7, <3>2 DEF Stop
  <2>2. Round = 0 => call' = <<>>
    BY <1>7, StateFacts DEF Stop
  <2>3. Interrupt("cancelled") /\ straggler' \in {straggler, <<>>, <<sent>>}
    BY <1>7 DEF Stop
  <2> QED BY <2>1, <2>2, <2>3, InterruptTyped DEF Endings
<1>8. CASE BodyRaises
  <2>1. Interrupt("failed") /\ call' = call /\ straggler' = straggler
    BY <1>8 DEF BodyRaises
  <2> QED BY <2>1, InterruptTyped, StateFacts DEF Endings
<1>9. ASSUME NEW written \in BOOLEAN, StopHandler(written) PROVE TypeOK' /\ Shapes'
  <2>1. UNCHANGED <<blocks, waveVars, callVars>>
    BY <1>9 DEF StopHandler
  <2>2. stored' \in [blocks : Seq(Block), done : BOOLEAN]
    BY <1>0, <1>9 DEF StopHandler, Plain
  <2>3. Plain'
    BY <1>0, <1>9, <2>2 DEF StopHandler, ClearLines, Plain, Phases, Endings
  <2> QED BY <2>1, <2>3, PlainTyped
<1>10. CASE StragglerWrites
  <2>1. UNCHANGED <<blocks, waveVars, callVars>>
    BY <1>10 DEF StragglerWrites
  <2>2. Head(straggler) \in Seq(Block)
    BY <1>0, <1>10 DEF StragglerWrites, Plain
  <2>3. stored' \in [blocks : Seq(Block), done : BOOLEAN]
    BY <1>0, <1>10, <2>2 DEF StragglerWrites, Plain
  <2>4. straggler' \in Seq(Seq(Block)) /\ Len(straggler') <= 1
    BY <1>10 DEF StragglerWrites
  <2>5. Plain'
    BY <1>0, <1>10, <2>3, <2>4 DEF StragglerWrites, Plain, lineVars
  <2> QED BY <2>1, <2>5, PlainTyped
<1>11. CASE UNCHANGED vars
  <2>1. Plain'
    BY <1>0, <1>11 DEF vars, Plain
  <2> QED BY <1>11, <2>1, PlainTyped DEF vars, waveVars, callVars
<1> QED BY <1>1, <1>2, <1>3, <1>4, <1>5, <1>6, <1>7, <1>8, <1>9, <1>10, <1>11
        DEF Next, LoopStep

----------------------------------------------------------------------------
(* The status lines, and the place of the job.                             *)

LEMMA LinesStep ==
    ASSUME Inv, [Next]_vars
    PROVE  Lines' /\ NoLineLeft'
<1> USE DEF Inv, Lines, NoLineLeft
<1>1. CASE ModelStep
  <2>1. phase' # "over"
    BY <1>1 DEF ModelStep, Answer, StreamText, StreamCalls, EndWithCalls, EndWithText,
                FollowupBroken, FollowupRefused, Conclude
  <2> QED BY <1>1, <2>1 DEF ModelStep, Answer, StreamText, StreamCalls, EndWithCalls,
                EndWithText, FollowupBroken, FollowupRefused, lineVars, StopWaiting
<1>2. CASE BeginRound \/ NextWave \/ EndRound
  BY <1>2 DEF BeginRound, NextWave, WaveOver, EndRound, lineVars, ClearLines
<1>3. CASE (\E written \in BOOLEAN : Save(written)) \/ Announce \/ Background
  BY <1>3 DEF Save, Announce, Background, lineVars, ClearLines
<1>4. ASSUME NEW i \in DOMAIN call, CallStep(i) PROVE Lines' /\ NoLineLeft'
  <2>1. CASE BeginCall(i) \/ \E r \in Returned : EndCall(i, r)
    BY <2>1 DEF BeginCall, EndCall, lineVars
  <2>2. CASE CallRaises(i)
    BY <2>2 DEF CallRaises, Interrupt, StopWaiting
  <2> QED BY <1>4, <2>1, <2>2 DEF CallStep
<1>5. CASE Stop \/ BodyRaises
  BY <1>5 DEF Stop, BodyRaises, Interrupt, StopWaiting
<1>6. CASE \E written \in BOOLEAN : StopHandler(written)
  BY <1>6 DEF StopHandler, ClearLines
<1>7. CASE StragglerWrites \/ UNCHANGED vars
  BY <1>7 DEF StragglerWrites, lineVars, vars
<1> QED BY <1>1, <1>2, <1>3, <1>4, <1>5, <1>6, <1>7 DEF Next, LoopStep

LEMMA UnderwayStep ==
    ASSUME Inv, [Next]_vars
    PROVE  Underway'
<1> USE DEF Inv, Underway, Early
<1>0. Round \in Nat
  BY StateFacts
<1>1. CASE ModelStep
  <2>1. Round' = Round
    BY <1>1 DEF ModelStep, Answer, StreamText, StreamCalls, EndWithCalls, EndWithText,
                FollowupBroken, FollowupRefused, Conclude, Round
  <2>2. CASE \E b \in Batches : EndWithCalls(b)
    BY <2>1, <2>2 DEF EndWithCalls
  <2> QED BY <1>1, <2>1, <2>2 DEF ModelStep, Answer, StreamText, StreamCalls,
                EndWithText, FollowupBroken, FollowupRefused, Conclude
<1>2. CASE BeginRound
  <2>1. Round' = Round + 1
    BY <1>2, Begun
  <2> QED BY <1>0, <1>2, <2>1 DEF BeginRound
<1>3. CASE NextWave
  BY <1>3 DEF NextWave, WaveOver, Round
<1>4. CASE EndRound
  BY <1>4 DEF EndRound, WaveOver
<1>5. CASE (\E written \in BOOLEAN : Save(written)) \/ Announce \/ Background
  BY <1>5 DEF Save, Announce, Background
<1>6. ASSUME NEW i \in DOMAIN call, CallStep(i) PROVE Underway'
  <2>1. Round > 0 /\ result \in [Calls(Batch) -> Results] /\ i \in Calls(Batch)
    <3>1. Round # 0
      BY StateFacts
    <3> QED BY <1>0, <3>1, StateFacts
  <2>2. CASE BeginCall(i) \/ \E r \in Returned : EndCall(i, r)
    <3>1. PICK r \in [Calls(Batch) -> Results] : Progress(r)
      <4>1. \A r \in Returned : [result EXCEPT ![i] = r] \in [Calls(Batch) -> Results]
        BY <2>1 DEF Results
      <4> QED BY <2>1, <2>2, <4>1 DEF BeginCall, EndCall
    <3>2. Round' = Round
      BY <2>1, <3>1, Progressed DEF Progress
    <3> QED BY <2>2, <3>2 DEF BeginCall, EndCall
  <2>3. CASE CallRaises(i)
    BY <2>3 DEF CallRaises, Interrupt
  <2> QED BY <1>6, <2>2, <2>3 DEF CallStep
<1>7. CASE Stop \/ BodyRaises
  BY <1>7 DEF Stop, BodyRaises, Interrupt
<1>8. CASE \E written \in BOOLEAN : StopHandler(written)
  BY <1>8 DEF StopHandler
<1>9. CASE StragglerWrites \/ UNCHANGED vars
  BY <1>9 DEF StragglerWrites, vars, Round
<1> QED BY <1>1, <1>2, <1>3, <1>4, <1>5, <1>6, <1>7, <1>8, <1>9 DEF Next, LoopStep

----------------------------------------------------------------------------
(* The calls of the last block.                                            *)

\* What a step of one call does to the round.
LEMMA CallMoved ==
    ASSUME Inv, NEW i \in DOMAIN call
    PROVE  /\ Round > 0 /\ i \in Calls(Batch)
           /\ BeginCall(i) \/ (\E r \in Returned : EndCall(i, r)) =>
                 /\ Round' = Round /\ Batch' = Batch
                 /\ blocks'[Round].results = result' /\ sent' = blocks'
                 /\ DOMAIN blocks' = DOMAIN blocks
                 /\ \A k \in DOMAIN blocks : k # Round => blocks'[k] = blocks[k]
                 /\ phase' = phase /\ how' = how /\ headless' = headless
                 /\ final' = final
                 /\ UNCHANGED waveVars
                 /\ \A j \in Calls(Batch) \ {i} : call'[j] = call[j] /\ result'[j] = result[j]
                 /\ i \in wave
           /\ BeginCall(i) => /\ call[i] = "idle" /\ call'[i] = "running"
                              /\ result'[i] = result[i]
           /\ \A r \in Returned : EndCall(i, r) =>
                 call[i] = "running" /\ call'[i] = "done" /\ result'[i] = r
<1> USE DEF Inv
<1>1. /\ Round > 0 /\ i \in Calls(Batch) /\ result \in [Calls(Batch) -> Results]
      /\ call \in [Calls(Batch) -> {"idle", "running", "done", "gone"}]
  <2>1. Round \in Nat /\ Round # 0
    BY StateFacts
  <2> QED BY <2>1, StateFacts
<1>2. ASSUME BeginCall(i)
      PROVE  /\ result' = result /\ call' = [call EXCEPT ![i] = "running"]
             /\ blocks' = [blocks EXCEPT ![Round].results = result] /\ sent' = blocks'
             /\ phase' = phase /\ how' = how /\ headless' = headless /\ final' = final
             /\ UNCHANGED waveVars /\ i \in wave /\ call[i] = "idle"
  BY <1>2 DEF BeginCall, Progress, Send
<1>3. ASSUME NEW r \in Returned, EndCall(i, r)
      PROVE  /\ result' = [result EXCEPT ![i] = r] /\ call' = [call EXCEPT ![i] = "done"]
             /\ blocks' = [blocks EXCEPT ![Round].results = result'] /\ sent' = blocks'
             /\ phase' = phase /\ how' = how /\ headless' = headless /\ final' = final
             /\ UNCHANGED waveVars /\ i \in wave /\ call[i] = "running"
  BY <1>3 DEF EndCall, Progress, Send
<1>4. ASSUME BeginCall(i) \/ \E r \in Returned : EndCall(i, r)
      PROVE  /\ Round' = Round /\ Batch' = Batch
             /\ blocks'[Round].results = result' /\ sent' = blocks'
             /\ DOMAIN blocks' = DOMAIN blocks
             /\ \A k \in DOMAIN blocks : k # Round => blocks'[k] = blocks[k]
             /\ phase' = phase /\ how' = how /\ headless' = headless
             /\ final' = final
             /\ UNCHANGED waveVars
             /\ \A j \in Calls(Batch) \ {i} : call'[j] = call[j] /\ result'[j] = result[j]
             /\ i \in wave
  <2>1. result' \in [Calls(Batch) -> Results]
           /\ blocks' = [blocks EXCEPT ![Round].results = result']
    BY <1>1, <1>2, <1>3, <1>4 DEF Results
  <2>2. /\ Round' = Round /\ Batch' = Batch /\ DOMAIN blocks' = DOMAIN blocks
        /\ blocks'[Round].results = result'
        /\ \A k \in DOMAIN blocks : k # Round => blocks'[k] = blocks[k]
    BY <1>1, <2>1, Progressed
  <2>3. \A j \in Calls(Batch) \ {i} : call'[j] = call[j] /\ result'[j] = result[j]
    BY <1>1, <1>2, <1>3, <1>4
  <2> QED BY <1>2, <1>3, <1>4, <2>2, <2>3
<1>5. ASSUME BeginCall(i)
      PROVE  call[i] = "idle" /\ call'[i] = "running" /\ result'[i] = result[i]
  BY <1>1, <1>2, <1>5
<1>6. ASSUME NEW r \in Returned, EndCall(i, r)
      PROVE  call[i] = "running" /\ call'[i] = "done" /\ result'[i] = r
  BY <1>1, <1>3, <1>6
<1> QED BY <1>1, <1>4, <1>5, <1>6

\* An interrupt takes calls away and leaves what has returned.
LEMMA InterruptCalls ==
    ASSUME Inv, NEW ending, Interrupt(ending),
           Round > 0 => \A i \in Calls(Batch) : call'[i] = call[i] \/ call'[i] = "gone",
           Round > 0 => \A i \in Calls(Batch) : call[i] = "done" => call'[i] = "done"
    PROVE  Answered' /\ Waves'
<1> USE DEF Inv
<1>1. Round' = Round /\ UNCHANGED waveVars
  BY Interrupted DEF Interrupt
<1>2. SUFFICES ASSUME Round > 0 PROVE Answered' /\ Waves'
  BY <1>1 DEF Answered, Waves
<1>3. /\ Batch' = Batch
      /\ \A i \in Calls(Batch) : result'[i] = IF result[i] = "empty" THEN "note" ELSE result[i]
      /\ \A i \in Calls(Batch) :
            (blocks'[Round].results[i] = "text") <=> (blocks[Round].results[i] = "text")
  BY <1>2, Interrupted, StateFacts DEF Batch
<1>4. Answered'
  BY <1>1, <1>2, <1>3 DEF Answered
<1>5. Waves'
  <2>1. ran \subseteq Calls(Batch)
    BY <1>2, StateFacts
  <2> QED BY <1>1, <1>2, <1>3, <2>1 DEF Waves, waveVars
<1> QED BY <1>4, <1>5

\* The calls that a step outside the rounds finds and leaves.
LEMMA SameRound ==
    ASSUME Inv, UNCHANGED <<blocks, waveVars, callVars>>
    PROVE  Answered' /\ Waves' /\ Round' = Round /\ Batch' = Batch
<1>1. Round' = Round /\ Batch' = Batch
  BY DEF Round, Batch
<1>2. Answered'
  BY <1>1 DEF Inv, Answered, callVars
<1>3. Waves'
  BY <1>1 DEF Inv, Waves, callVars, waveVars
<1> QED BY <1>1, <1>2, <1>3

LEMMA CallsStep ==
    ASSUME Inv, [Next]_vars
    PROVE  Answered' /\ Waves' /\ Settled'
<1> USE DEF Inv
<1>0. Round \in Nat
  BY StateFacts
<1>1. CASE ModelStep
  <2>1. UNCHANGED <<blocks, waveVars, callVars>> /\ phase \in Early
    BY <1>1 DEF ModelStep, Answer, StreamText, StreamCalls, EndWithCalls, EndWithText,
                FollowupBroken, FollowupRefused, Conclude, Early
  <2>2. how = "none" /\ phase # "tools"
    BY <2>1 DEF Underway, Early
  <2>3. Answered' /\ Waves' /\ Round' = Round /\ Batch' = Batch
    BY <2>1, SameRound
  <2>4. Settled'
    BY <2>1, <2>2, <2>3 DEF Settled, callVars
  <2> QED BY <2>3, <2>4
<1>2. CASE BeginRound
  <2>1. PICK b \in Batches :
           /\ Batch' = b
           /\ call' = [i \in Calls(b) |-> "idle"]
           /\ result' = [i \in Calls(b) |-> "none"]
           /\ blocks' = Append(blocks, [batch |-> b, results |-> NoResults(b)])
    BY <1>2, Begun
  <2>2. Round' = Round + 1 /\ blocks \in Seq(Block)
    BY <1>2, Begun, StateFacts
  <2>3. blocks'[Round'].results = NoResults(b)
    BY <2>1, <2>2, <1>0 DEF Round
  <2>4. ran' = {} /\ wave' = {} /\ serial' = FALSE /\ phase' = "tools"
    BY <1>2 DEF BeginRound
  <2>5. Answered'
    BY <2>1, <2>3 DEF Answered, NoResults
  <2>6. Waves'
    BY <2>1, <2>4 DEF Waves
  <2>7. Settled'
    BY <2>4 DEF Settled
  <2> QED BY <2>5, <2>6, <2>7
<1>3. CASE NextWave
  <2> DEFINE done == ran \cup wave
             rest == Calls(Batch) \ done
             ready == Ready(Batch, done)
  <2>1. Round > 0 /\ phase = "tools"
    BY <1>3 DEF NextWave, WaveOver, Underway
  <2>2. Round' = Round /\ Batch' = Batch
    BY <1>3 DEF NextWave, Round, Batch
  <2>3. /\ ran \subseteq Calls(Batch) /\ wave \subseteq Calls(Batch)
        /\ Calls(Batch) \subseteq Nat
    BY <2>1, StateFacts
  <2>4. /\ rest # {} /\ ran' = done /\ serial' = (serial \/ ready = {})
        /\ wave' = IF serial' THEN {First(rest)} ELSE ready
        /\ \A i \in wave : call[i] = "done"
    BY <1>3 DEF NextWave, WaveOver
  <2>5. UNCHANGED <<blocks, callVars>> /\ phase' = phase
    BY <1>3 DEF NextWave
  <2>6. Answered'
    BY <2>2, <2>5 DEF Answered, callVars
  <2>7. \A i \in done : call[i] = "done"
    BY <2>1, <2>4 DEF Waves
  <2>8. \A i \in Calls(Batch) : call[i] \in {"running", "done"} => i \in done
    BY <2>1 DEF Waves
  <2>9. ASSUME ~ serial' PROVE \A i \in ran' \cup wave' : Pred(Batch, i) \subseteq ran'
    <3>1. \A i \in done : Pred(Batch, i) \subseteq ran
      BY <2>1, <2>4, <2>9 DEF Waves
    <3>2. \A i \in ready : Pred(Batch, i) \subseteq done
      BY DEF Ready
    <3> QED BY <2>4, <2>9, <3>1, <3>2
  <2>10. ASSUME serial' PROVE Cyclic(Batch)
    <3>1. CASE serial
      BY <2>1, <3>1 DEF Waves
    <3>2. CASE ready = {}
      <4>1. rest \in SUBSET Calls(Batch)
        OBVIOUS
      <4>2. ASSUME NEW i \in rest PROVE Pred(Batch, i) \cap rest # {}
        <5>1. PICK j \in Pred(Batch, i) : j \notin done
          BY <3>2, <4>2 DEF Ready
        <5>2. Pred(Batch, i) \subseteq Calls(Batch)
          BY DEF Pred, ByName
        <5> QED BY <5>1, <5>2
      <4> QED BY <2>4, <4>1, <4>2 DEF Cyclic
    <3> QED BY <2>4, <2>10, <3>1, <3>2
  <2>11. ASSUME serial', NEW i \in Calls(Batch), NEW j \in Calls(Batch),
                i \in wave', j \notin ran'
         PROVE  i <= j
    <3>1. i = First(rest) /\ j \in rest
      BY <2>4, <2>11
    <3>2. rest \in SUBSET Nat
      BY <2>3
    <3> QED BY <2>4, <3>1, <3>2, HasFirst
  <2>12. Waves'
    <3> HIDE DEF done, rest, ready
    <3>1. call' = call /\ ran' = done
      BY <2>4, <2>5 DEF callVars
    <3> QED BY <2>2, <2>7, <2>8, <2>9, <2>10, <2>11, <3>1 DEF Waves
  <2>13. Settled'
    BY <2>1, <2>5 DEF Settled
  <2> QED BY <2>6, <2>12, <2>13
<1>4. CASE EndRound
  <2>1. Round > 0 /\ result \in [Calls(Batch) -> Results] /\ ran \subseteq Calls(Batch)
    BY <1>4, StateFacts DEF EndRound, WaveOver, Underway
  <2>2. Round' = Round /\ Batch' = Batch /\ blocks'[Round].results = result
    BY <1>4, <2>1, Progressed DEF EndRound
  <2>3. UNCHANGED <<waveVars, callVars>>
    BY <1>4 DEF EndRound
  <2>4. Answered'
    BY <2>1, <2>2, <2>3 DEF Answered, callVars
  <2>5. Waves'
    BY <2>1, <2>2, <2>3 DEF Waves, waveVars, callVars
  <2>6. \A i \in Calls(Batch) : call[i] = "done"
    BY <1>4, <2>1 DEF EndRound, WaveOver, Waves
  <2>7. Settled'
    BY <2>2, <2>3, <2>6 DEF Settled, callVars
  <2> QED BY <2>4, <2>5, <2>7
<1>5. CASE (\E written \in BOOLEAN : Save(written)) \/ Announce \/ Background
  <2>1. UNCHANGED <<blocks, waveVars, callVars>> /\ how' = how /\ phase # "tools"
    BY <1>5 DEF Save, Announce, Background
  <2>2. Answered' /\ Waves' /\ Round' = Round /\ Batch' = Batch
    BY <2>1, SameRound
  <2>3. Settled'
    BY <2>1, <2>2 DEF Settled, callVars
  <2> QED BY <2>2, <2>3
<1>6. ASSUME NEW i \in DOMAIN call, CallStep(i) PROVE Answered' /\ Waves' /\ Settled'
  <2>1. Round > 0 /\ i \in Calls(Batch)
    BY CallMoved
  <2>2. CASE BeginCall(i) \/ \E r \in Returned : EndCall(i, r)
    <3>1. /\ Round' = Round /\ Batch' = Batch /\ blocks'[Round].results = result'
          /\ phase' = phase /\ how' = how
          /\ ran' = ran /\ wave' = wave /\ serial' = serial
          /\ \A j \in Calls(Batch) \ {i} : call'[j] = call[j] /\ result'[j] = result[j]
          /\ i \in wave
      BY <2>2, CallMoved DEF waveVars
    <3>2. call[i] \in {"idle", "running"}
             /\ \/ call'[i] = "running" /\ result'[i] = result[i]
                \/ call'[i] = "done" /\ result'[i] # "none"
      BY <2>2, CallMoved DEF Returned
    <3>3. Answered'
      BY <2>1, <3>1, <3>2 DEF Answered
    <3>4. Waves'
      <4>1. i \notin ran
        BY <2>1, <3>2 DEF Waves
      <4>2. ran \subseteq Calls(Batch)
        BY <2>1, StateFacts
      <4>3. call'[i] \in {"running", "done"}
        BY <3>2
      <4> QED BY <2>1, <3>1, <4>1, <4>2, <4>3 DEF Waves
    <3>5. Settled'
      BY <2>1, <3>1, <3>2 DEF Settled
    <3> QED BY <3>3, <3>4, <3>5
  <2>3. CASE CallRaises(i)
    <3>1. /\ Interrupt("failed") /\ call' = [call EXCEPT ![i] = "gone"]
          /\ call[i] = "running" /\ how' = "failed"
      BY <2>3 DEF CallRaises, Interrupt
    <3>2. call \in [Calls(Batch) -> {"idle", "running", "done", "gone"}]
      BY <2>1, StateFacts
    <3>3. Answered' /\ Waves'
      BY <3>1, <3>2, InterruptCalls
    <3> QED BY <3>1, <3>3 DEF Settled
  <2> QED BY <1>6, <2>2, <2>3 DEF CallStep
<1>7. CASE Stop
  <2>1. Interrupt("cancelled") /\ how \in {"none", "reply", "refused"}
    BY <1>7 DEF Stop, InBody
  <2>2. Round > 0 => \A i \in Calls(Batch) :
           call'[i] = IF phase = "tools" /\ call[i] # "done" THEN "gone" ELSE call[i]
    BY <1>7, StateFacts DEF Stop
  <2>3. Answered' /\ Waves'
    BY <2>1, <2>2, InterruptCalls
  <2>4. Settled'
    <3>1. Round' = Round /\ (Round > 0 => Batch' = Batch)
      BY <2>1, Interrupted
    <3> QED BY <2>1, <2>2, <3>1 DEF Settled
  <2> QED BY <2>3, <2>4
<1>8. CASE BodyRaises
  <2>1. Interrupt("failed") /\ call' = call /\ how' = "failed"
    BY <1>8 DEF BodyRaises, Interrupt
  <2>2. Answered' /\ Waves'
    BY <2>1, InterruptCalls
  <2> QED BY <2>1, <2>2 DEF Settled
<1>9. CASE \E written \in BOOLEAN : StopHandler(written)
  <2>1. UNCHANGED <<blocks, waveVars, callVars>> /\ how' = "cut"
    BY <1>9 DEF StopHandler
  <2> QED BY <2>1, SameRound DEF Settled
<1>10. CASE StragglerWrites \/ UNCHANGED vars
  <2>1. UNCHANGED <<blocks, waveVars, callVars, how, phase>>
    BY <1>10 DEF StragglerWrites, vars, waveVars, callVars
  <2>2. Answered' /\ Waves' /\ Round' = Round /\ Batch' = Batch
    BY <2>1, SameRound
  <2>3. Settled'
    BY <2>1, <2>2 DEF Settled, callVars
  <2> QED BY <2>2, <2>3
<1> QED BY <1>1, <1>2, <1>3, <1>4, <1>5, <1>6, <1>7, <1>8, <1>9, <1>10 DEF Next, LoopStep

----------------------------------------------------------------------------
(* The blocks that are whole.                                              *)

\* An interrupt leaves a whole reply to save.
LEMMA InterruptWhole ==
    ASSUME Inv, NEW ending, Interrupt(ending),
           straggler' \in {straggler} \cup (IF headless THEN {<<>>, <<sent>>} ELSE {<<>>})
    PROVE  Wholes'
<1> USE DEF Inv, Wholes
<1>1. final' = blocks' /\ Whole(blocks')
  BY Interrupted
<1>2. phase' = "saving" /\ headless' = headless /\ sent' = sent /\ stored' = stored
  BY DEF Interrupt, outVars
<1>3. EndIsWhole'
  BY <1>2 DEF EndIsWhole
<1>4. straggler' # <<>> => headless'
  BY <1>2
<1>5. phase' \notin Early /\ phase' # "tools" /\ phase' # "background"
  BY <1>2 DEF Early
<1> HIDE DEF EndIsWhole
<1> QED BY <1>1, <1>3, <1>4, <1>5

LEMMA WholesStep ==
    ASSUME Inv, [Next]_vars
    PROVE  Wholes'
<1> USE DEF Inv, Wholes
<1>0. Round \in Nat /\ DOMAIN blocks = 1..Round /\ blocks \in Seq(Block)
  BY StateFacts
<1>1. CASE ModelStep
  <2>1. /\ phase \in Early /\ blocks' = blocks
        /\ headless' = headless /\ sent' = sent /\ stored' = stored /\ straggler' = straggler
    BY <1>1 DEF ModelStep, Answer, StreamText, StreamCalls, EndWithCalls, EndWithText,
                FollowupBroken, FollowupRefused, Conclude, Early, outVars
  <2>2. phase' \in Early \/ (phase' = "saving" /\ final' = blocks)
    <3>0. Answer \/ StreamText \/ StreamCalls \/ (\E b \in Batches : EndWithCalls(b))
             => phase' \in {"streaming", "preparing"}
      BY DEF Answer, StreamText, StreamCalls, EndWithCalls
    <3>1. CASE Answer \/ StreamText \/ StreamCalls \/ \E b \in Batches : EndWithCalls(b)
      BY <3>0, <3>1 DEF Early
    <3>2. CASE \E ending \in Endings : Conclude(ending)
      BY <3>2 DEF Conclude
    <3> QED BY <1>1, <3>1, <3>2 DEF ModelStep, EndWithText, FollowupBroken, FollowupRefused,
                                    Endings
  <2> QED BY <2>1, <2>2 DEF Early, Late, EndIsWhole
<1>2. CASE BeginRound
  <2>1. /\ Round' = Round + 1 /\ DOMAIN blocks' = 1..(Round + 1)
        /\ \A k \in DOMAIN blocks : blocks'[k] = blocks[k]
    BY <1>2, Begun
  <2>2. phase = "preparing" /\ phase' = "tools" /\ headless' = headless /\ straggler' = straggler
           /\ (~ headless => stored' = stored)
    BY <1>2 DEF BeginRound, Send
  <2>3. Whole(blocks)
    BY <2>2 DEF Early
  <2>4. \A k \in DOMAIN blocks' : k # Round' => ~ Open(blocks'[k])
    BY <1>0, <2>1, <2>3 DEF Whole
  <2> QED BY <2>2, <2>4 DEF Early, Late, EndIsWhole
<1>3. CASE NextWave
  <2>1. /\ blocks' = blocks /\ phase' = "tools" /\ phase = "tools" /\ headless' = headless
        /\ stored' = stored /\ straggler' = straggler /\ Round' = Round
    BY <1>3 DEF NextWave, WaveOver, outVars, Round
  <2> QED BY <2>1 DEF Early, Late, EndIsWhole
<1>4. CASE EndRound
  <2>1. Round > 0 /\ result \in [Calls(Batch) -> Results] /\ phase = "tools"
           /\ ran \subseteq Calls(Batch)
    BY <1>4, StateFacts DEF EndRound, WaveOver, Underway
  <2>2. /\ blocks'[Round].batch = Batch /\ blocks'[Round].results = result
        /\ DOMAIN blocks' = DOMAIN blocks
        /\ \A k \in DOMAIN blocks : k # Round => blocks'[k] = blocks[k]
    BY <1>4, <2>1, Progressed, StateFacts DEF EndRound, Batch
  <2>3. \A i \in Calls(Batch) : result[i] # "none"
    BY <1>4, <2>1 DEF EndRound, WaveOver, Waves, Answered
  <2>4. Whole(blocks')
    BY <2>1, <2>2, <2>3 DEF Whole, Open
  <2>5. phase' = "asking" /\ headless' = headless /\ straggler' = straggler
           /\ (~ headless => stored' = stored)
    BY <1>4 DEF EndRound, Send
  <2> QED BY <2>4, <2>5 DEF Late, EndIsWhole
<1>5. CASE \E written \in BOOLEAN : Save(written)
  <2>1. /\ phase = "saving" /\ phase' = "announcing" /\ final' = final
        /\ headless' = headless /\ straggler' = straggler
        /\ stored' = stored \/ stored'.blocks = final
    BY <1>5 DEF Save
  <2> QED BY <2>1 DEF Early, Late, EndIsWhole
<1>6. CASE Announce
  <2>1. /\ phase = "announcing" /\ sent' = final /\ final' = final
        /\ headless' = headless /\ straggler' = straggler
        /\ ~ headless => stored' = stored
        /\ phase' \in {"background", "over"}
    BY <1>6 DEF Announce
  <2> QED BY <2>1 DEF Early, Late, EndIsWhole
<1>7. CASE Background
  <2>1. /\ phase = "background" /\ sent' = sent /\ final' = final
        /\ headless' = headless /\ straggler' = straggler /\ stored' = stored
        /\ phase' = "over"
    BY <1>7 DEF Background, outVars
  <2> QED BY <2>1 DEF Early, Late, EndIsWhole
<1>8. ASSUME NEW i \in DOMAIN call, CallStep(i) PROVE Wholes'
  <2>1. Round > 0 /\ i \in Calls(Batch)
    BY CallMoved
  <2>2. CASE BeginCall(i) \/ \E r \in Returned : EndCall(i, r)
    <3>1. /\ Round' = Round /\ DOMAIN blocks' = DOMAIN blocks
          /\ \A k \in DOMAIN blocks : k # Round => blocks'[k] = blocks[k]
          /\ phase' = phase /\ how' = how /\ headless' = headless /\ final' = final
          /\ call[i] \in {"idle", "running"}
      BY <2>2, CallMoved
    <3>2. phase = "tools" \/ how \in {"failed", "cut"}
      BY <2>1, <3>1 DEF Settled
    <3>3. straggler' = straggler /\ (~ headless => stored' = stored)
      BY <2>2 DEF BeginCall, EndCall, Progress, Send
    <3>4. phase \notin Early /\ phase # "background"
      BY <3>2 DEF Underway, Early
    <3>5. EndIsWhole'
      BY <3>1, <3>2, <3>3 DEF EndIsWhole
    <3> HIDE DEF EndIsWhole
    <3> QED BY <3>1, <3>3, <3>4, <3>5
  <2>3. CASE CallRaises(i)
    BY <2>3, InterruptWhole DEF CallRaises
  <2> QED BY <1>8, <2>2, <2>3 DEF CallStep
<1>9. CASE Stop
  BY <1>9, InterruptWhole DEF Stop
<1>10. CASE BodyRaises
  BY <1>10, InterruptWhole DEF BodyRaises
<1>11. ASSUME NEW written \in BOOLEAN, StopHandler(written) PROVE Wholes'
  <2>1. /\ phase \in Late /\ phase' = "over" /\ how' = "cut" /\ final' = final
        /\ headless' = headless /\ straggler' = straggler
        /\ stored'.blocks \in {final, stored.blocks}
    BY <1>11 DEF StopHandler, Late
  <2> QED BY <2>1 DEF Early, Late, EndIsWhole
<1>12. CASE StragglerWrites
  <2>1. /\ blocks' = blocks /\ phase' = phase /\ how' = how /\ headless' = headless
        /\ final' = final /\ sent' = sent /\ straggler' = <<>> /\ headless /\ Round' = Round
    BY <1>12 DEF StragglerWrites, Round
  <2> QED BY <2>1 DEF EndIsWhole
<1>13. CASE UNCHANGED vars
  BY <1>13 DEF vars, EndIsWhole, Round
<1> QED BY <1>1, <1>2, <1>3, <1>4, <1>5, <1>6, <1>7, <1>8, <1>9, <1>10, <1>11, <1>12, <1>13
        DEF Next, LoopStep

----------------------------------------------------------------------------
(* The theorems.                                                           *)

LEMMA InitInv == Init => Inv
<1> SUFFICES ASSUME Init PROVE Inv
  OBVIOUS
<1>1. blocks = <<>> /\ Round = 0
  BY DEF Init, Round
<1>2. Plain /\ Counted
  <2>1. <<>> \in Seq(Block) /\ <<>> \in Seq(Seq(Block)) /\ Len(<<>>) = 0
    OBVIOUS
  <2>2. Plain
    <3>1. stored \in [blocks : Seq(Block), done : BOOLEAN]
      BY <2>1 DEF Init
    <3>2. /\ headless \in BOOLEAN /\ phase = "asking" /\ how = "none"
          /\ waiting = TRUE /\ preparing = FALSE /\ line = "waiting"
          /\ queue = <<>> /\ final = <<>> /\ sent = <<>> /\ straggler = <<>>
      BY DEF Init
    <3>3. final \in Seq(Block) /\ sent \in Seq(Block)
      BY <2>1, <3>2
    <3>4. straggler \in Seq(Seq(Block)) /\ Len(straggler) <= 1
      BY <2>1, <3>2
    <3>5. queue \in {<<>>} \cup {<<b>> : b \in Batches}
      BY <3>2
    <3>6. phase \in Phases /\ how \in Endings
      BY <3>2 DEF Phases, Endings
    <3> QED BY <3>1, <3>2, <3>3, <3>4, <3>5, <3>6 DEF Plain
  <2>3. Counted
    <3>1. 0 <= MaxRetries
      BY LoopAssumption
    <3>2. /\ ran = {} /\ wave = {} /\ serial = FALSE
          /\ call = <<>> /\ result = <<>>
      BY DEF Init
    <3>3. blocks \in Seq(Block) /\ Round <= MaxRetries /\ ~ (Round > 0)
      BY <1>1, <2>1, <3>1
    <3> QED BY <3>2, <3>3 DEF Counted
  <2> QED BY <2>2, <2>3
<1>3. Whole(blocks) /\ Whole(stored.blocks)
  BY DEF Init, Whole
<1>4. Lines /\ NoLineLeft /\ Underway
  BY DEF Init, Lines, NoLineLeft, Underway, Early
<1>5. Answered /\ Waves /\ Settled
  BY <1>1 DEF Answered, Waves, Settled
<1>6. Wholes
  BY <1>3 DEF Init, Wholes, EndIsWhole, Early, Late
<1> QED BY <1>2, <1>4, <1>5, <1>6, TypedIff DEF Inv

LEMMA InvStep == Inv /\ [Next]_vars => Inv'
<1> SUFFICES ASSUME Inv, [Next]_vars PROVE Inv'
  OBVIOUS
<1>1. TypeOK' /\ Shapes' /\ Lines' /\ NoLineLeft' /\ Underway'
  BY TypeStep, LinesStep, UnderwayStep
<1>2. Answered' /\ Waves' /\ Settled' /\ Wholes'
  BY CallsStep, WholesStep
<1> QED BY <1>1, <1>2 DEF Inv

LEMMA Invariant == Spec => []Inv
<1> QED BY InitInv, InvStep, PTL DEF Spec

\* Every reachable state of the tool loop is well typed, for any batches.
THEOREM TypeCorrect == Spec => []TypeOK
<1>1. Inv => TypeOK
  BY DEF Inv
<1> QED BY <1>1, Invariant, PTL

\* The model is never asked again with a call unanswered.
THEOREM AskedWholeCorrect == Spec => []ModelSeesAllResults
<1>1. Inv => ModelSeesAllResults
  BY DEF Inv, Wholes, ModelSeesAllResults, Early
<1> QED BY <1>1, Invariant, PTL

\* A reply that ends by itself or by Stop shows a result or a note for every call.
THEOREM EndCorrect == Spec => []EndIsWhole
<1>1. Inv => EndIsWhole
  BY DEF Inv, Wholes
<1> QED BY <1>1, Invariant, PTL

\* No call runs before the calls it depends on, except in a batch with a cycle.
THEOREM DependenciesCorrect == Spec => []DependenciesFirst
<1>1. Inv => DependenciesFirst
  <2> SUFFICES ASSUME Inv, Round > 0
               PROVE IF serial
                     THEN Cyclic(Batch) /\ \A i, j \in Calls(Batch) :
                              i \in wave /\ j \notin ran => i <= j
                     ELSE \A i \in Calls(Batch) : call[i] \in {"running", "done"} =>
                              \A j \in Pred(Batch, i) : call[j] = "done"
    BY DEF DependenciesFirst
  <2> QED BY DEF Inv, Waves
<1> QED BY <1>1, Invariant, PTL

\* A reader runs after every writer that was issued before it.
THEOREM ReadersCorrect == Spec => []ReadersAfterWriters
<1>1. Inv => ReadersAfterWriters
  <2> SUFFICES ASSUME Inv, Round > 0, ~ Cyclic(Batch),
                      NEW i \in Calls(Batch), NEW j \in Calls(Batch),
                      Batch.tool[i] \in Readers, call[i] \in {"running", "done"},
                      Batch.tool[j] \notin Readers, j < i
               PROVE  call[j] = "done"
    BY DEF ReadersAfterWriters
  <2>1. Batch.tool[j] \in WithSiblings(Batch, i)
    BY DEF WithSiblings
  <2>2. j \in ByName(Batch, i, Batch.tool[j])
    <3>1. Calls(Batch) \subseteq Nat
      BY StateFacts DEF Inv
    <3>2. j # i
      BY <3>1
    <3> QED BY <3>2 DEF ByName
  <2>3. j \in Pred(Batch, i)
    BY <2>1, <2>2 DEF Pred
  <2> QED BY <2>3 DEF Inv, Waves
<1> QED BY <1>1, Invariant, PTL

\* An ended job leaves no status line.
THEOREM LinesCorrect == Spec => []NoLineLeft
<1>1. Inv => NoLineLeft
  BY DEF Inv
<1> QED BY <1>1, Invariant, PTL

\* A result with content stays, whatever interrupts the job.
THEOREM ResultCorrect == Spec => ResultStays
<1>1. Inv /\ [Next]_vars =>
        [\A k \in DOMAIN blocks : \A i \in Calls(blocks[k].batch) :
            blocks[k].results[i] = "text" => blocks'[k].results[i] = "text"]_vars
  <2> SUFFICES ASSUME Inv, [Next]_vars,
                      NEW k \in DOMAIN blocks, NEW i \in Calls(blocks[k].batch),
                      blocks[k].results[i] = "text"
               PROVE  blocks'[k].results[i] = "text"
    OBVIOUS
  <2> USE DEF Inv
  <2>0. Round \in Nat /\ k \in 1..Round /\ Round > 0 /\ (k = Round => i \in Calls(Batch))
    BY StateFacts DEF Batch
  <2>1. CASE ModelStep
    BY <2>1 DEF ModelStep, Answer, StreamText, StreamCalls, EndWithCalls, EndWithText,
                FollowupBroken, FollowupRefused, Conclude
  <2>2. CASE BeginRound
    BY <2>2, Begun
  <2>3. CASE NextWave \/ (\E written \in BOOLEAN : Save(written)) \/ Announce \/ Background
    BY <2>3 DEF NextWave, Save, Announce, Background
  <2>4. CASE EndRound
    <3>1. blocks' = [blocks EXCEPT ![Round].results = result]
      BY <2>4 DEF EndRound
    <3>2. result \in [Calls(Batch) -> Results]
      BY <2>0, StateFacts
    <3>3. blocks'[Round].results = result /\ (k # Round => blocks'[k] = blocks[k])
      BY <2>0, <3>1, <3>2, Progressed
    <3> QED BY <2>0, <3>3 DEF Answered
  <2>5. ASSUME NEW c \in DOMAIN call, CallStep(c)
        PROVE  blocks'[k].results[i] = "text"
    <3>1. CASE BeginCall(c) \/ \E r \in Returned : EndCall(c, r)
      <4>1. /\ blocks'[Round].results = result' /\ (k # Round => blocks'[k] = blocks[k])
            /\ \A j \in Calls(Batch) \ {c} : result'[j] = result[j]
            /\ call[c] \in {"idle", "running"} /\ c \in Calls(Batch)
        BY <3>1, CallMoved
      <4>2. result[c] = "none"
        BY <2>0, <4>1 DEF Answered
      <4> QED BY <2>0, <4>1, <4>2 DEF Answered
    <3>2. CASE CallRaises(c)
      BY <3>2, Interrupted DEF CallRaises
    <3> QED BY <2>5, <3>1, <3>2 DEF CallStep
  <2>6. CASE Stop \/ BodyRaises
    BY <2>6, Interrupted DEF Stop, BodyRaises
  <2>7. CASE (\E written \in BOOLEAN : StopHandler(written)) \/ StragglerWrites
             \/ UNCHANGED vars
    BY <2>7 DEF StopHandler, StragglerWrites, vars
  <2> QED BY <2>1, <2>2, <2>3, <2>4, <2>5, <2>6, <2>7 DEF Next, LoopStep
<1> QED BY <1>1, Invariant, PTL DEF Spec, ResultStays

\* After its end a job that did not fail changes nothing on the screen.
THEOREM QuietCorrect == Spec => QuietAfterTheEnd
<1>1. Inv /\ [Next]_vars =>
        [phase = "over" /\ how \notin {"failed", "cut"} => UNCHANGED <<blocks, sent, line>>]_vars
  <2> SUFFICES ASSUME Inv, [Next]_vars, phase = "over", how \notin {"failed", "cut"}
               PROVE  UNCHANGED <<blocks, sent, line>>
    OBVIOUS
  <2>1. ASSUME NEW c \in DOMAIN call, CallStep(c) PROVE FALSE
    <3>1. Round > 0 /\ c \in Calls(Batch)
      BY CallMoved
    <3>2. call[c] \notin {"idle", "running"}
      BY <3>1 DEF Inv, Settled
    <3> QED BY <2>1, <3>2 DEF CallStep, BeginCall, EndCall, CallRaises
  <2>2. StragglerWrites \/ UNCHANGED vars
    BY <2>1 DEF Next, ModelStep, LoopStep, Answer, StreamText, StreamCalls, EndWithCalls,
          EndWithText, FollowupBroken, FollowupRefused, BeginRound, NextWave, WaveOver, EndRound,
          Save, Announce, Background, Stop, BodyRaises, InBody, StopHandler
  <2> QED BY <2>2 DEF StragglerWrites, vars, lineVars
<1> QED BY <1>1, Invariant, PTL DEF Spec, QuietAfterTheEnd
=============================================================================
