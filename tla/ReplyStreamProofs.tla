--------------------------- MODULE ReplyStreamProofs ---------------------------
(***************************************************************************)
(* A streamed part is in one place at a time, and the saving of a reply    *)
(* implements PartLog, for any number of parts, saves and attempts.        *)
(*                                                                         *)
(* Neither OneHand nor EachPartInOnePlace is inductive: what a writer does *)
(* to a part depends on who else may still write its batch.  The invariant *)
(* follows batches: each has at most one hand (OneHand), each part that    *)
(* was folded is in one batch that somebody took or will take (Batches,    *)
(* Owners), and the parts of a batch are unwritten while a writer that has *)
(* the batch is still to write it, and settled afterwards (Places).        *)
(***************************************************************************)
EXTENDS ReplyStream, WellFoundedInduction, TLAPS

\* Every folded part is in one batch.
Batches ==
    /\ \A b, p \in Parts : p \in batch[b] => Folded(p)
    /\ \A p \in 1..emitted : Folded(p) => \E b \in Parts : p \in batch[b]
    /\ \A b, c, p \in Parts : p \in batch[b] /\ p \in batch[c] => b = c

\* Somebody has, or had, every batch with parts, and the one that is folded into.
Owners ==
    /\ \A b \in Parts : batch[b] # {} =>
          \/ pending = b
          \/ \E k \in Parts : taken[k] = b
          \/ \E s \in Saves : save[s].hand = b
    /\ ~ LoopIdle => folding = pending \/ \E k \in Parts : taken[k] = folding

\* Only a writer that took a batch has one.
Hands ==
    /\ \A k \in Parts :
          /\ flush[k] # "none" => Folded(k)
          /\ taken[k] # Nothing => flush[k] \in {"holding", "writing", "done"}
    /\ \A s \in Saves : save[s].hand # Nothing => s \in Begun

\* Final saves follow one another.
Jobs ==
    /\ \A s \in Begun, r \in Saves : r < s => r \in Begun
    /\ \A s \in Saves : save[s].state = "attempting" => job = "saving" /\ Latest(s)
    /\ job = "saving" => \E s \in Saves : save[s].state = "attempting"

\* A batch that will still be written.
Live(b) ==
    \/ pending = b
    \/ \E k \in Flushing : taken[k] = b
    \/ \E s \in Saving : save[s].hand = b

Untouched(p) == stored.count[p] = 0 /\ p \notin lost

Settled(p) ==
    \/ stored.count[p] = 1 /\ p \notin lost
    \/ stored.count[p] = 0 /\ p \in lost

Places ==
    /\ \A b, p \in Parts : p \in batch[b] => IF Live(b) THEN Untouched(p) ELSE Settled(p)
    /\ \A p \in Parts : (\A b \in Parts : p \notin batch[b]) => Untouched(p)

Inv == TypeOK /\ OneHand /\ Batches /\ Owners /\ Hands /\ Jobs /\ Places

----------------------------------------------------------------------------

\* Among finitely many parts one is the last.
LEMMA HasLast ==
    ASSUME NEW n \in Nat, NEW S \in SUBSET (1..n), S # {}
    PROVE  \E p \in S : \A q \in S : q <= p
<1> DEFINE R == {r \in Nat \X Nat : r[1] < r[2]}
           T == {n - p : p \in S}
<1>1. IsWellFoundedOn(R, Nat)
  BY NatLessThanWellFounded DEF OpToRel
<1>2. S \subseteq Nat /\ \A p \in S : n - p \in Nat
  OBVIOUS
<1>3. T \subseteq Nat /\ T # {}
  BY <1>2
<1>4. PICK m \in T : \A k \in T : ~ (<<k, m>> \in R)
  <2> HIDE DEF R, T
  <2> QED BY <1>1, <1>3, WFMin
<1>5. PICK p \in S : m = n - p
  OBVIOUS
<1>6. ASSUME NEW q \in S PROVE q <= p
  <2>1. n - q \in T /\ n - q \in Nat /\ n - p \in Nat
    BY <1>2
  <2>2. ~ (n - q < n - p)
    BY <1>4, <1>5, <2>1
  <2> QED BY <1>2, <2>2
<1> QED BY <1>6

\* What a merge does to the stored reply.
LEMMA MergedFacts ==
    ASSUME TypeOK, NEW b \in 0..emitted
    PROVE  /\ InHand(b) \subseteq 1..emitted
           /\ Merged(stored, b) \in [count : [Parts -> Nat], status : 0..emitted, done : BOOLEAN]
           /\ Merged(stored, b).count =
                 [p \in Parts |-> IF p \in InHand(b) THEN stored.count[p] + 1
                                  ELSE stored.count[p]]
           /\ Merged(stored, b).done = stored.done
<1> DEFINE parts == IF b = Nothing THEN {} ELSE batch[b]
           shown == parts \cap statuses
           last == IF shown = {} THEN stored.status
                   ELSE CHOOSE p \in shown : \A q \in shown : q <= p
           count == [p \in Parts |-> IF p \in parts THEN stored.count[p] + 1
                                     ELSE stored.count[p]]
<1>1. emitted \in Nat /\ emitted <= MaxParts
  BY StreamAssumption DEF TypeOK
<1>2. InHand(b) = parts /\ parts \subseteq 1..emitted
  <2>1. b # Nothing => b \in Parts
    BY <1>1, StreamAssumption DEF Parts, Nothing
  <2> QED BY <2>1 DEF InHand, TypeOK
<1>3. last \in 0..emitted
  <2>1. CASE shown = {}
    BY <2>1 DEF TypeOK
  <2>2. CASE shown # {}
    <3>1. shown \in SUBSET (1..emitted)
      BY <1>2
    <3>2. \E p \in shown : \A q \in shown : q <= p
      <4> HIDE DEF shown
      <4> QED BY <1>1, <2>2, <3>1, HasLast
    <3>3. last \in shown
      BY <2>2, <3>2
    <3> QED BY <3>1, <3>3
  <2> QED BY <2>1, <2>2
<1>4. count \in [Parts -> Nat]
  BY DEF TypeOK
<1>5. Merged(stored, b) = [stored EXCEPT !.count = count, !.status = last]
  BY DEF Merged
<1> HIDE DEF count, last, shown, parts
<1>6. Merged(stored, b).count = count /\ Merged(stored, b).done = stored.done
         /\ Merged(stored, b) \in [count : [Parts -> Nat], status : 0..emitted, done : BOOLEAN]
  BY <1>3, <1>4, <1>5 DEF TypeOK
<1> QED BY <1>2, <1>6 DEF count

\* A step that writes nothing and leaves every batch with the same prospects.
LEMMA SameProspects ==
    ASSUME Places, UNCHANGED <<batch, lost>>, stored'.count = stored.count,
           \A b \in Parts : batch[b] # {} => (Live(b)' <=> Live(b))
    PROVE  Places'
<1>1. \A p : Untouched(p)' <=> Untouched(p)
  BY DEF Untouched
<1>2. \A p : Settled(p)' <=> Settled(p)
  BY DEF Settled
<1>3. \A b, p \in Parts :
         p \in batch'[b] => IF Live(b)' THEN Untouched(p)' ELSE Settled(p)'
  <2> SUFFICES ASSUME NEW b \in Parts, NEW p \in Parts, p \in batch[b]
               PROVE  IF Live(b)' THEN Untouched(p)' ELSE Settled(p)'
    OBVIOUS
  <2> QED BY <1>1, <1>2 DEF Places
<1>4. \A p \in Parts : (\A b \in Parts : p \notin batch'[b]) => Untouched(p)'
  BY <1>1 DEF Places
<1> QED BY <1>3, <1>4 DEF Places

\* The write of a batch, or its failure, settles the parts of that batch and no others.
LEMMA WriteSettles ==
    ASSUME TypeOK, Batches, Places, NEW b \in 0..emitted, b # Nothing => Live(b),
           UNCHANGED batch,
           \A c \in Parts : Live(c)' <=> (Live(c) /\ c # b),
           \/ /\ lost' = lost
              /\ stored'.count = [p \in Parts |-> IF p \in InHand(b) THEN stored.count[p] + 1
                                                  ELSE stored.count[p]]
           \/ stored'.count = stored.count /\ lost' = lost \cup InHand(b)
    PROVE  Places'
<1>0. b # Nothing => b \in Parts
  BY StreamAssumption DEF Parts, Nothing, TypeOK
<1>1. \A p \in Parts : p \in InHand(b) <=> b # Nothing /\ p \in batch[b]
  BY DEF InHand
<1>2. \A p \in Parts : p \notin InHand(b) =>
         (Untouched(p)' <=> Untouched(p)) /\ (Settled(p)' <=> Settled(p))
  BY DEF Untouched, Settled
<1>3. \A p \in Parts : p \in InHand(b) => Untouched(p)
  BY <1>0, <1>1 DEF Places
<1>4. \A p \in Parts : p \in InHand(b) => Settled(p)'
  BY <1>3 DEF Untouched, Settled
<1>5. ASSUME NEW c \in Parts, NEW p \in Parts, p \in batch[c]
      PROVE  IF Live(c)' THEN Untouched(p)' ELSE Settled(p)'
  <2>1. CASE p \in InHand(b)
    <3>1. c = b
      BY <1>0, <1>1, <1>5, <2>1 DEF Batches
    <3> QED BY <1>4, <2>1, <3>1
  <2>2. CASE p \notin InHand(b)
    <3>1. c # b
      BY <1>0, <1>1, <1>5, <2>2 DEF Nothing, Parts
    <3> QED BY <1>2, <1>5, <2>2, <3>1 DEF Places
  <2> QED BY <2>1, <2>2
<1>6. ASSUME NEW p \in Parts, \A c \in Parts : p \notin batch[c] PROVE Untouched(p)'
  <2>1. p \notin InHand(b)
    BY <1>0, <1>1, <1>6
  <2> QED BY <1>2, <1>6, <2>1 DEF Places
<1> QED BY <1>5, <1>6 DEF Places

\* Types.
LEMMA TypeStep == TypeOK /\ [Next]_vars => TypeOK'
<1> SUFFICES ASSUME TypeOK, [Next]_vars PROVE TypeOK'
  OBVIOUS
<1>0. /\ emitted \in Nat /\ emitted <= MaxParts /\ MaxParts \in Nat
      /\ \A n \in 0..emitted : n # Nothing => n \in Parts /\ n \in 1..emitted
  BY StreamAssumption DEF TypeOK, Parts, Nothing
<1> USE DEF loopVars, saveVars
<1>1. ASSUME NEW i \in BOOLEAN, Emit(i) PROVE TypeOK'
  <2>1. emitted' \in 0..MaxParts /\ emitted' = emitted + 1
    BY <1>0, <1>1 DEF Emit
  <2>2. 0..emitted \subseteq 0..emitted' /\ 1..emitted \subseteq 1..emitted'
           /\ emitted' \in 1..emitted'
    BY <1>0, <2>1
  <2>3. statuses' \subseteq 1..emitted'
    BY <1>1, <2>1, <2>2 DEF Emit, TypeOK
  <2>4. folding' \in 0..emitted' /\ pending' \in 0..emitted'
    BY <1>1, <2>1, <2>2 DEF Emit, TypeOK
  <2>5. batch' \in [Parts -> SUBSET (1..emitted')] /\ taken' \in [Parts -> 0..emitted']
    BY <1>1, <2>2 DEF Emit, TypeOK
  <2>6. save' \in [Saves -> [state : SaveState, hand : 0..emitted', tries : 0..Attempts]]
    BY <1>1, <2>2 DEF Emit, TypeOK
  <2>7. stored' \in [count : [Parts -> Nat], status : 0..emitted', done : BOOLEAN]
    BY <1>1, <2>2 DEF Emit, TypeOK
  <2>8. slot' \in 0..emitted' /\ flush' \in [Parts -> FlushState] /\ job' \in JobState
           /\ lost' \subseteq 1..emitted'
    BY <1>1, <2>2 DEF Emit, TypeOK
  <2> QED BY <2>1, <2>3, <2>4, <2>5, <2>6, <2>7, <2>8 DEF TypeOK
<1>2. CASE Fold
  <2>1. folding \in Parts /\ emitted \in 1..emitted /\ emitted \in Parts
    BY <1>0, <1>2 DEF Fold, LoopIdle, TypeOK, Nothing, Parts
  <2>2. batch' \in [Parts -> SUBSET (1..emitted)]
    BY <1>2, <2>1 DEF Fold, TypeOK
  <2>3. slot' \in 0..emitted /\ flush' \in [Parts -> FlushState]
    BY <1>2, <2>1 DEF Fold, TypeOK, FlushState
  <2>4. folding' \in 0..emitted /\ lost' \subseteq 1..emitted
    BY <1>0, <1>2, <2>1 DEF Fold, TypeOK, Nothing
  <2> QED BY <1>2, <2>2, <2>3, <2>4 DEF Fold, TypeOK
<1>3. ASSUME NEW k \in Parts, StartFlush(k) \/ PopBatch(k) \/ PopSlot(k) PROVE TypeOK'
  <2>1. flush' \in [Parts -> FlushState] /\ taken' \in [Parts -> 0..emitted]
           /\ pending' \in 0..emitted /\ slot' \in 0..emitted
    BY <1>0, <1>3 DEF StartFlush, PopBatch, PopSlot, TypeOK, FlushState, Nothing
  <2>2. UNCHANGED <<loopVars, batch, saveVars, stored, lost>>
    BY <1>3 DEF StartFlush, PopBatch, PopSlot
  <2> QED BY <2>1, <2>2 DEF TypeOK
<1>4. ASSUME NEW k \in Parts, NEW o \in Outcomes, MergeFlush(k, o) PROVE TypeOK'
  <2>1. taken[k] \in 0..emitted
    BY DEF TypeOK
  <2>2. InHand(taken[k]) \subseteq 1..emitted
           /\ Merged(stored, taken[k]) \in
                 [count : [Parts -> Nat], status : 0..emitted, done : BOOLEAN]
    BY <2>1, MergedFacts
  <2>3. lost' \subseteq 1..emitted
           /\ stored' \in [count : [Parts -> Nat], status : 0..emitted, done : BOOLEAN]
    BY <1>4, <2>2 DEF MergeFlush, TypeOK
  <2>4. flush' \in [Parts -> FlushState]
    BY <1>4 DEF MergeFlush, TypeOK, FlushState
  <2> QED BY <1>4, <2>3, <2>4 DEF MergeFlush, TypeOK
<1>5. ASSUME NEW s \in Saves, BeginSave(s) PROVE TypeOK'
  <2>1. flush' \in [Parts -> FlushState]
    BY <1>5 DEF BeginSave, TypeOK, FlushState
  <2>2. save' \in [Saves -> [state : SaveState, hand : 0..emitted, tries : 0..Attempts]]
    BY <1>5, StreamAssumption DEF BeginSave, TypeOK, SaveState
  <2>3. job' \in JobState /\ slot' \in 0..emitted /\ pending' \in 0..emitted
    BY <1>0, <1>5 DEF BeginSave, JobState, Nothing
  <2> QED BY <1>5, <2>1, <2>2, <2>3 DEF BeginSave, TypeOK
<1>6. ASSUME NEW s \in Saves, NEW o \in Outcomes, SaveAttempt(s, o) \/ OrphanWrite(s, o)
      PROVE  TypeOK'
  <2>1. save[s].hand \in 0..emitted
    BY DEF TypeOK
  <2>2. InHand(save[s].hand) \subseteq 1..emitted
           /\ Merged(stored, save[s].hand) \in
                 [count : [Parts -> Nat], status : 0..emitted, done : BOOLEAN]
    BY <2>1, MergedFacts
  <2>3. lost' \subseteq 1..emitted
    BY <1>6, <2>2 DEF SaveAttempt, OrphanWrite, TypeOK
  <2>4. stored' \in [count : [Parts -> Nat], status : 0..emitted, done : BOOLEAN]
    <3>1. stored' = stored \/ SaveWritten(s)
      BY <1>6 DEF SaveAttempt, OrphanWrite
    <3>2. SaveWritten(s) =>
             stored' \in [count : [Parts -> Nat], status : 0..emitted, done : BOOLEAN]
      BY <2>2 DEF SaveWritten
    <3> QED BY <3>1, <3>2 DEF TypeOK
  <2>5. save' \in [Saves -> [state : SaveState, hand : 0..emitted, tries : 0..Attempts]]
    BY <1>6, StreamAssumption DEF SaveAttempt, OrphanWrite, AttemptsLeft, TypeOK, SaveState
  <2>6. job' \in JobState
    BY <1>6 DEF SaveAttempt, OrphanWrite, TypeOK, JobState
  <2>7. UNCHANGED <<loopVars, batch, pending, slot, flush, taken>>
    BY <1>6 DEF SaveAttempt, OrphanWrite
  <2> QED BY <2>3, <2>4, <2>5, <2>6, <2>7 DEF TypeOK
<1>7. ASSUME NEW s \in Saves, StopSave(s) PROVE TypeOK'
  <2>1. save[s].hand \in 0..emitted
    BY DEF TypeOK
  <2>2. InHand(save[s].hand) \subseteq 1..emitted
    BY <2>1, MergedFacts
  <2>3. save' \in [Saves -> [state : SaveState, hand : 0..emitted, tries : 0..Attempts]]
    <3>1. save' \in {[save EXCEPT ![s].state = end] : end \in {"orphan", "over"}}
      BY <1>7 DEF StopSave
    <3>2. PICK end \in {"orphan", "over"} : save' = [save EXCEPT ![s].state = end]
      BY <3>1
    <3>3. end \in SaveState
      BY DEF SaveState
    <3>4. save \in [Saves -> [state : SaveState, hand : 0..emitted, tries : 0..Attempts]]
      BY DEF TypeOK
    <3>5. [save[s] EXCEPT !.state = end]
              \in [state : SaveState, hand : 0..emitted, tries : 0..Attempts]
      BY <3>3, <3>4
    <3> HIDE DEF SaveState
    <3> QED BY <3>2, <3>4, <3>5
  <2>4. lost' \subseteq 1..emitted /\ job' \in JobState
    BY <1>7, <2>2 DEF StopSave, TypeOK, JobState
  <2> QED BY <1>7, <2>3, <2>4 DEF StopSave, TypeOK
<1>8. CASE UNCHANGED vars
  BY <1>8 DEF vars, TypeOK
<1> QED BY <1>1, <1>2, <1>3, <1>4, <1>5, <1>6, <1>7, <1>8 DEF Next, FlushStep, SaveStep

LEMMA InitInv == Init => Inv
<1> SUFFICES ASSUME Init PROVE Inv
  OBVIOUS
<1>1. TypeOK
  BY StreamAssumption DEF Init, TypeOK, Nothing, NoSave, FlushState, JobState, SaveState
<1>2. OneHand /\ Batches /\ Owners /\ Hands
  BY DEF Init, OneHand, Batches, Owners, Hands, LoopIdle, Nothing, NoSave, Begun
<1>3. Jobs
  BY DEF Init, Jobs, Begun, NoSave
<1>4. Places
  BY DEF Init, Places, Untouched
<1> QED BY <1>1, <1>2, <1>3, <1>4 DEF Inv

\* The numbers of a state, as every step uses them.
LEMMA Numbers ==
    ASSUME Inv
    PROVE  /\ emitted \in Nat /\ MaxParts \in Nat /\ emitted <= MaxParts
           /\ Nothing = 0 /\ Parts = 1..MaxParts /\ 1..emitted \subseteq Parts
           /\ pending \in 0..emitted /\ folding \in 0..emitted
           /\ \A k \in Parts : taken[k] \in 0..emitted
           /\ \A s \in Saves : save[s].hand \in 0..emitted
           /\ \A b \in Parts : b > emitted => batch[b] = {}
<1>1. /\ emitted \in Nat /\ MaxParts \in Nat /\ emitted <= MaxParts
      /\ Nothing = 0 /\ Parts = 1..MaxParts /\ 1..emitted \subseteq Parts
  BY StreamAssumption DEF Inv, TypeOK, Parts, Nothing
<1>2. /\ pending \in 0..emitted /\ folding \in 0..emitted
      /\ \A k \in Parts : taken[k] \in 0..emitted
      /\ \A s \in Saves : save[s].hand \in 0..emitted
  BY DEF Inv, TypeOK
<1>3. ASSUME NEW b \in Parts, b > emitted PROVE batch[b] = {}
  <2>1. pending # b /\ (\A k \in Parts : taken[k] # b) /\ (\A s \in Saves : save[s].hand # b)
    BY <1>1, <1>2, <1>3
  <2> QED BY <2>1 DEF Inv, Owners
<1> QED BY <1>1, <1>2, <1>3

LEMMA EmitInv == ASSUME Inv, NEW i \in BOOLEAN, Emit(i) PROVE Inv'
<1>1. TypeOK'
  BY TypeStep DEF Inv, Next
<1>2. /\ folding = Nothing /\ emitted' = emitted + 1 /\ emitted + 1 \in Parts
      /\ pending' = IF pending = Nothing THEN emitted + 1 ELSE pending
      /\ folding' = pending' /\ folding' # Nothing
      /\ UNCHANGED <<batch, flush, taken, job, save, stored, lost>>
  BY Numbers DEF Emit, LoopIdle, saveVars
<1>3. \A p \in 1..emitted : Folded(p)'
  BY <1>2, Numbers DEF Folded
<1>4. OneHand'
  <2>1. \A k \in Parts : taken[k] # emitted + 1
    BY Numbers
  <2>2. \A s \in Saves : save[s].hand # emitted + 1
    BY Numbers
  <2> QED BY <1>2, <2>1, <2>2, Numbers DEF Inv, OneHand
<1>5. Batches'
  <2>1. \A b, p \in Parts : p \in batch[b] => Folded(p)'
    BY <1>3, Numbers DEF Inv, TypeOK
  <2>2. \A p \in 1..emitted' : Folded(p)' => p \in 1..emitted /\ Folded(p)
    BY <1>2, Numbers DEF Folded, LoopIdle
  <2> QED BY <1>2, <2>1, <2>2 DEF Inv, Batches
<1>6. Owners'
  BY <1>2 DEF Inv, Owners, LoopIdle, Nothing, Parts
<1>7. Hands'
  <2>1. \A k \in Parts : Folded(k) => Folded(k)'
    BY <1>2, <1>3, Numbers DEF Folded
  <2> QED BY <1>2, <2>1 DEF Inv, Hands, Begun
<1>8. Jobs'
  BY <1>2 DEF Inv, Jobs, Begun, Latest
<1>9. Places'
  <2>1. ASSUME NEW b \in Parts, batch[b] # {} PROVE Live(b)' <=> Live(b)
    <3>1. b # emitted + 1 /\ b # Nothing
      BY <2>1, Numbers
    <3>2. pending' = b <=> pending = b
      BY <1>2, <3>1
    <3> QED BY <1>2, <3>2 DEF Live, Flushing, Saving
  <2> QED BY <1>2, <2>1, SameProspects DEF Inv
<1> QED BY <1>1, <1>4, <1>5, <1>6, <1>7, <1>8, <1>9 DEF Inv

LEMMA FoldInv == ASSUME Inv, Fold PROVE Inv'
<1>1. TypeOK'
  BY TypeStep DEF Inv, Next
<1>2. /\ ~ LoopIdle /\ folding # Nothing /\ folding \in Parts
      /\ folding' = Nothing /\ emitted \in Parts
      /\ UNCHANGED <<emitted, pending, taken, job, save, stored>>
  BY Numbers DEF Fold, LoopIdle, saveVars
<1>3. /\ batch'[folding] = batch[folding] \cup {emitted}
      /\ \A b \in Parts \ {folding} : batch'[b] = batch[b]
  BY <1>2 DEF Fold, Inv, TypeOK
<1>4. ~ Folded(emitted) /\ (\A p \in Parts : Folded(p)' <=> Folded(p) \/ p = emitted)
  BY <1>2, Numbers DEF Folded, LoopIdle
<1>5. \A b \in Parts : emitted \notin batch[b]
  BY <1>2, <1>4 DEF Inv, Batches
<1>6. flush[emitted] = "none" /\ taken[emitted] = Nothing
  BY <1>2, <1>4 DEF Inv, Hands
<1>7. \A k \in Parts : flush'[k] = flush[k] \/ (k = emitted /\ flush'[k] = "waiting")
  BY <1>2 DEF Fold, Inv, TypeOK
<1>8. OneHand'
  BY <1>2 DEF Inv, OneHand
<1>9. Batches'
  <2>1. \A b, p \in Parts : p \in batch'[b] <=> p \in batch[b] \/ (b = folding /\ p = emitted)
    BY <1>3
  <2>2. \A b, p \in Parts : p \in batch'[b] => Folded(p)'
    BY <1>4, <2>1 DEF Inv, Batches
  <2>3. \A p \in 1..emitted : Folded(p)' => \E b \in Parts : p \in batch'[b]
    BY <1>2, <1>4, <2>1, Numbers DEF Inv, Batches
  <2>4. \A b, c, p \in Parts : p \in batch'[b] /\ p \in batch'[c] => b = c
    BY <1>5, <2>1 DEF Inv, Batches
  <2> QED BY <1>2, <2>2, <2>3, <2>4 DEF Batches
<1>10. Owners'
  <2>1. LoopIdle'
    BY <1>2 DEF LoopIdle
  <2>2. \/ pending = folding
        \/ \E k \in Parts : taken[k] = folding
    BY <1>2 DEF Inv, Owners
  <2> QED BY <1>2, <1>3, <2>1, <2>2 DEF Inv, Owners
<1>11. Hands'
  <2>1. \A k \in Parts : flush'[k] # "none" => Folded(k)'
    BY <1>4, <1>7 DEF Inv, Hands
  <2>2. \A k \in Parts : taken[k] # Nothing => flush'[k] \in {"holding", "writing", "done"}
    BY <1>6, <1>7 DEF Inv, Hands
  <2> QED BY <1>2, <2>1, <2>2 DEF Inv, Hands, Begun
<1>12. Jobs'
  BY <1>2 DEF Inv, Jobs, Begun, Latest
<1>13. Places'
  <2>1. \A k \in Parts : k \in Flushing' <=> k \in Flushing
    BY <1>6, <1>7 DEF Flushing
  <2>2. \A b : Live(b)' <=> Live(b)
    BY <1>2, <2>1 DEF Live, Flushing, Saving
  <2>3. \A p \in Parts \ {emitted} :
           (Untouched(p)' <=> Untouched(p)) /\ (Settled(p)' <=> Settled(p))
    BY <1>2 DEF Fold, Untouched, Settled
  <2>4. Untouched(emitted)
    BY <1>2, <1>5 DEF Inv, Places
  <2>5. IF Live(folding) THEN Untouched(emitted)' ELSE Settled(emitted)'
    <3>1. CASE Finished(folding)
      <4>1. PICK k \in Parts : taken[k] = folding /\ flush[k] = "done"
        BY <3>1 DEF Finished
      <4>2. ~ Live(folding)
        <5>1. pending # folding /\ \A s \in Saves : save[s].hand # folding
          BY <1>2, <4>1 DEF Inv, OneHand
        <5>2. \A l \in Parts : taken[l] = folding => l = k
          BY <1>2, <4>1 DEF Inv, OneHand
        <5> QED BY <4>1, <5>1, <5>2 DEF Live, Flushing, Saving
      <4>3. Settled(emitted)'
        BY <1>2, <2>4, <3>1 DEF Fold, Untouched, Settled
      <4> QED BY <4>2, <4>3
    <3>2. CASE ~ Finished(folding)
      <4>1. Live(folding)
        <5>1. pending = folding \/ \E k \in Parts : taken[k] = folding
          BY <1>2 DEF Inv, Owners
        <5>2. \A k \in Parts : taken[k] = folding => k \in Flushing
          BY <1>2, <3>2 DEF Inv, Hands, Finished, Flushing
        <5> QED BY <5>1, <5>2 DEF Live
      <4>2. Untouched(emitted)'
        BY <1>2, <2>4, <3>2 DEF Fold, Untouched
      <4> QED BY <4>1, <4>2
    <3> QED BY <3>1, <3>2
  <2>6. ASSUME NEW b \in Parts, NEW p \in Parts, p \in batch'[b]
        PROVE  IF Live(b)' THEN Untouched(p)' ELSE Settled(p)'
    <3>1. CASE p = emitted
      <4>1. b = folding
        BY <1>3, <1>5, <2>6, <3>1
      <4> QED BY <1>2, <2>2, <2>5, <3>1, <4>1 DEF Untouched, Settled
    <3>2. CASE p # emitted
      <4>1. p \in batch[b]
        BY <1>3, <2>6, <3>2
      <4> QED BY <2>2, <2>3, <3>2, <4>1 DEF Inv, Places
    <3> QED BY <3>1, <3>2
  <2>7. ASSUME NEW p \in Parts, \A b \in Parts : p \notin batch'[b] PROVE Untouched(p)'
    <3>1. p # emitted /\ \A b \in Parts : p \notin batch[b]
      BY <1>2, <1>3, <2>7
    <3> QED BY <2>3, <3>1 DEF Inv, Places
  <2> QED BY <2>6, <2>7 DEF Places
<1> QED BY <1>1, <1>8, <1>9, <1>10, <1>11, <1>12, <1>13 DEF Inv

\* A flush in its thread, up to its write.
LEMMA FlushInv ==
    ASSUME Inv, NEW k \in Parts, StartFlush(k) \/ PopBatch(k) \/ PopSlot(k)
    PROVE  Inv'
<1>1. TypeOK'
  BY TypeStep DEF Inv, Next, FlushStep
<1>2. /\ UNCHANGED <<emitted, folding, batch, job, save, stored, lost>>
      /\ \A l \in Parts \ {k} : flush'[l] = flush[l] /\ taken'[l] = taken[l]
      /\ \/ /\ flush[k] = "waiting" /\ flush'[k] = "started"
            /\ pending' = pending /\ taken' = taken
         \/ /\ flush[k] = "started" /\ flush'[k] = "holding"
            /\ pending' = Nothing /\ taken'[k] = pending
         \/ /\ flush[k] = "holding" /\ flush'[k] = "writing"
            /\ pending' = pending /\ taken' = taken
  BY DEF StartFlush, PopBatch, PopSlot, loopVars, saveVars, Inv, TypeOK
<1>3. flush[k] \in {"waiting", "started"} => taken[k] = Nothing
  BY DEF Inv, Hands
<1>4. OneHand'
  <2>1. CASE pending' = pending /\ taken' = taken
    BY <1>2, <2>1 DEF Inv, OneHand
  <2>2. CASE pending' = Nothing /\ taken'[k] = pending
    <3>1. \A l, m \in Parts : l # m /\ taken'[l] # Nothing => taken'[l] # taken'[m]
      BY <1>2, <2>2 DEF Inv, OneHand
    <3>2. \A l \in Parts, s \in Saves : taken'[l] # Nothing => taken'[l] # save[s].hand
      BY <1>2, <2>2 DEF Inv, OneHand
    <3>3. \A s, r \in Saves : s # r /\ save[s].hand # Nothing => save[s].hand # save[r].hand
      BY DEF Inv, OneHand
    <3> QED BY <1>2, <2>2, <3>1, <3>2, <3>3 DEF OneHand
  <2> QED BY <1>2, <2>1, <2>2
<1>5. Batches'
  BY <1>2 DEF Inv, Batches, Folded, LoopIdle
<1>6. Owners'
  <2>1. \A b \in Parts : pending = b => pending' = b \/ taken'[k] = b
    BY <1>2
  <2>2. \A b \in Parts, l \in Parts : taken[l] = b => taken'[l] = b
    BY <1>2, <1>3, Numbers
  <2>3. ~ LoopIdle => folding \in Parts
    BY Numbers DEF LoopIdle
  <2> QED BY <1>2, <2>1, <2>2, <2>3 DEF Inv, Owners, LoopIdle
<1>7. Hands'
  BY <1>2 DEF Inv, Hands, Folded, LoopIdle, Begun
<1>8. Jobs'
  BY <1>2 DEF Inv, Jobs, Begun, Latest
<1>9. Places'
  <2>1. ASSUME NEW b \in Parts PROVE Live(b)' <=> Live(b)
    <3>0. b # Nothing
      BY Numbers
    <3>1. CASE flush[k] = "started"
      <4>1. k \in Flushing' /\ k \notin Flushing
              /\ \A l \in Parts \ {k} : l \in Flushing' <=> l \in Flushing
        BY <1>2, <3>1 DEF Flushing
      <4>2. (\E l \in Flushing' : taken'[l] = b) <=>
               taken'[k] = b \/ \E l \in Flushing : taken[l] = b
        BY <1>2, <4>1 DEF Flushing
      <4>3. pending' = Nothing /\ taken'[k] = pending
        BY <1>2, <3>1
      <4> QED BY <1>2, <3>0, <4>2, <4>3 DEF Live, Saving
    <3>2. CASE flush[k] # "started"
      <4>1. taken' = taken /\ pending' = pending
        BY <1>2, <3>2
      <4>2. \A l \in Parts : taken[l] = b => (l \in Flushing' <=> l \in Flushing)
        BY <1>2, <1>3, <3>0, <3>2 DEF Flushing
      <4> QED BY <1>2, <4>1, <4>2 DEF Live, Saving, Flushing
    <3> QED BY <3>1, <3>2
  <2> QED BY <1>2, <2>1, SameProspects DEF Inv
<1> QED BY <1>1, <1>4, <1>5, <1>6, <1>7, <1>8, <1>9 DEF Inv

\* The write of a flush.
LEMMA MergeInv == ASSUME Inv, NEW k \in Parts, NEW o \in Outcomes, MergeFlush(k, o) PROVE Inv'
<1>1. TypeOK'
  BY TypeStep DEF Inv, Next, FlushStep
<1>2. /\ UNCHANGED <<emitted, folding, batch, pending, taken, job, save>>
      /\ flush[k] = "writing" /\ flush'[k] = "done"
      /\ \A l \in Parts \ {k} : flush'[l] = flush[l]
  BY DEF MergeFlush, loopVars, saveVars, Inv, TypeOK
<1>3. taken[k] \in 0..emitted
  BY Numbers
<1>4. \/ /\ lost' = lost
         /\ stored'.count = [p \in Parts |-> IF p \in InHand(taken[k]) THEN stored.count[p] + 1
                                             ELSE stored.count[p]]
      \/ stored'.count = stored.count /\ lost' = lost \cup InHand(taken[k])
  BY <1>3, MergedFacts DEF MergeFlush, Inv
<1>5. OneHand' /\ Batches'
  BY <1>2 DEF Inv, OneHand, Batches, Folded, LoopIdle
<1>6. Owners' /\ Hands'
  BY <1>2 DEF Inv, Owners, Hands, Folded, LoopIdle, Begun
<1>7. Jobs'
  BY <1>2 DEF Inv, Jobs, Begun, Latest
<1>8. Places'
  <2>1. k \in Flushing /\ \A l \in Parts : l \in Flushing' <=> l \in Flushing /\ l # k
    BY <1>2 DEF Flushing
  <2>2. taken[k] # Nothing => Live(taken[k])
    BY <2>1 DEF Live
  <2>3. ASSUME NEW c \in Parts PROVE Live(c)' <=> Live(c) /\ c # taken[k]
    <3>1. CASE c = taken[k]
      <4>1. taken[k] # Nothing
        BY <3>1, Numbers
      <4>2. pending # c /\ (\A s \in Saves : save[s].hand # c)
              /\ \A l \in Parts : taken[l] = c => l = k
        BY <3>1, <4>1 DEF Inv, OneHand
      <4> QED BY <1>2, <2>1, <3>1, <4>2 DEF Live, Saving, Flushing
    <3>2. CASE c # taken[k]
      BY <1>2, <2>1, <3>2 DEF Live, Saving, Flushing
    <3> QED BY <3>1, <3>2
  <2>4. PICK b \in 0..emitted : b = taken[k]
    BY <1>3
  <2> QED BY <1>2, <1>4, <2>2, <2>3, <2>4, WriteSettles DEF Inv
<1> QED BY <1>1, <1>5, <1>6, <1>7, <1>8 DEF Inv

\* A final save begins with the batch it finds pending.
LEMMA BeginInv == ASSUME Inv, NEW s \in Saves, BeginSave(s) PROVE Inv'
<1>1. TypeOK'
  BY TypeStep DEF Inv, Next
<1>2. /\ LoopIdle /\ job # "saving" /\ job' = "saving" /\ pending' = Nothing
      /\ UNCHANGED <<emitted, folding, batch, taken, stored, lost>>
      /\ save[s].state = "none" /\ \A r \in Saves : r < s => r \in Begun
      /\ save'[s] = [state |-> "attempting", hand |-> pending, tries |-> 1]
      /\ \A r \in Saves \ {s} : save'[r] = save[r]
      /\ \A l \in Parts : flush'[l] = flush[l] \/ (flush[l] = "waiting" /\ flush'[l] = "done")
  BY DEF BeginSave, loopVars, Inv, TypeOK
<1>3. save[s].hand = Nothing /\ s \notin Begun
         /\ \A l \in Parts : flush[l] = "waiting" => taken[l] = Nothing
  BY <1>2 DEF Inv, Hands, Begun
<1>4. OneHand'
  <2>1. \A r, q \in Saves :
           r # q /\ save'[r].hand # Nothing => save'[r].hand # save'[q].hand
    BY <1>2 DEF Inv, OneHand
  <2>2. \A l \in Parts, r \in Saves : taken[l] # Nothing => taken[l] # save'[r].hand
    BY <1>2 DEF Inv, OneHand
  <2> QED BY <1>2, <2>1, <2>2 DEF Inv, OneHand
<1>5. Batches'
  BY <1>2 DEF Inv, Batches, Folded, LoopIdle
<1>6. Owners'
  <2>1. \A b \in Parts, r \in Saves : save[r].hand = b => save'[r].hand = b
    BY <1>2, <1>3, Numbers
  <2>2. LoopIdle'
    BY <1>2 DEF LoopIdle
  <2> QED BY <1>2, <2>1, <2>2 DEF Inv, Owners
<1>7. Hands'
  <2>1. \A r \in Saves : r \in Begun' <=> r \in Begun \/ r = s
    BY <1>2 DEF Begun
  <2> QED BY <1>2, <1>3, <2>1 DEF Inv, Hands, Folded, LoopIdle
<1>8. Jobs'
  <2>1. \A r \in Saves : r \in Begun' <=> r \in Begun \/ r = s
    BY <1>2 DEF Begun
  <2>2. \A r \in Begun : r < s
    BY <1>3 DEF Inv, Jobs, Saves, Begun
  <2>3. Latest(s)'
    BY <2>1, <2>2 DEF Latest, Begun, Saves
  <2>4. \A r \in Saves : save[r].state # "attempting"
    BY <1>2 DEF Inv, Jobs
  <2>5. \A q \in Begun', r \in Saves : r < q => r \in Begun'
    BY <1>2, <2>1 DEF Inv, Jobs, Begun
  <2> QED BY <1>2, <2>3, <2>4, <2>5 DEF Jobs
<1>9. Places'
  <2>1. ASSUME NEW b \in Parts PROVE Live(b)' <=> Live(b)
    <3>0. b # Nothing
      BY Numbers
    <3>1. s \in Saving' /\ s \notin Saving
            /\ \A r \in Saves \ {s} : r \in Saving' <=> r \in Saving
      BY <1>2 DEF Saving
    <3>2. (\E r \in Saving' : save'[r].hand = b) <=>
             pending = b \/ \E r \in Saving : save[r].hand = b
      BY <1>2, <3>1 DEF Saving
    <3>3. \A l \in Parts : taken[l] = b => (l \in Flushing' <=> l \in Flushing)
      BY <1>2, <1>3, <3>0 DEF Flushing
    <3> QED BY <1>2, <3>0, <3>2, <3>3 DEF Live, Flushing
  <2> QED BY <1>2, <2>1, SameProspects DEF Inv
<1> QED BY <1>1, <1>4, <1>5, <1>6, <1>7, <1>8, <1>9 DEF Inv

\* A step of a final save that has its batch: it keeps it to write, or settles it.
LEMMA SaveMoves ==
    ASSUME Inv, TypeOK', Jobs', NEW s \in Saves,
           save[s].state \in {"attempting", "orphan"},
           save'[s].hand = save[s].hand,
           \A r \in Saves \ {s} : save'[r] = save[r],
           UNCHANGED <<emitted, folding, batch, pending, flush, taken>>,
           \/ /\ save'[s].state \in {"attempting", "orphan"}
              /\ lost' = lost /\ stored'.count = stored.count
           \/ /\ save'[s].state = "over"
              /\ \/ /\ lost' = lost
                    /\ stored'.count = [p \in Parts |-> IF p \in InHand(save[s].hand)
                                                        THEN stored.count[p] + 1
                                                        ELSE stored.count[p]]
                 \/ stored'.count = stored.count /\ lost' = lost \cup InHand(save[s].hand)
    PROVE  Inv'
<1>1. \A r \in Saves : save'[r].hand = save[r].hand
  OBVIOUS
<1>2. OneHand'
  BY <1>1 DEF Inv, OneHand
<1>3. Batches'
  BY DEF Inv, Batches, Folded, LoopIdle
<1>4. Owners'
  BY <1>1 DEF Inv, Owners, LoopIdle
<1>5. Hands'
  <2>1. \A r \in Saves : r \in Begun => r \in Begun'
    BY DEF Begun
  <2> QED BY <1>1, <2>1 DEF Inv, Hands, Folded, LoopIdle
<1>6. Places'
  <2>1. CASE save'[s].state \in {"attempting", "orphan"}
    <3>1. lost' = lost /\ stored'.count = stored.count
      BY <2>1
    <3>2. \A r \in Saves : r \in Saving' <=> r \in Saving
      BY <2>1 DEF Saving
    <3>3. \A b \in Parts : Live(b)' <=> Live(b)
      BY <1>1, <3>2 DEF Live, Flushing, Saving
    <3> QED BY <3>1, <3>3, SameProspects DEF Inv
  <2>2. CASE save'[s].state = "over"
    <3>1. s \in Saving /\ \A r \in Saves : r \in Saving' <=> r \in Saving /\ r # s
      BY <2>2 DEF Saving
    <3>2. save[s].hand # Nothing => Live(save[s].hand)
      BY <3>1 DEF Live
    <3>3. ASSUME NEW c \in Parts PROVE Live(c)' <=> Live(c) /\ c # save[s].hand
      <4>1. CASE c = save[s].hand
        <5>1. save[s].hand # Nothing
          BY <4>1, Numbers
        <5>2. pending # c /\ (\A l \in Parts : taken[l] # c)
                /\ \A r \in Saves : save[r].hand = c => r = s
          BY <4>1, <5>1 DEF Inv, OneHand
        <5> QED BY <1>1, <3>1, <4>1, <5>2 DEF Live, Saving, Flushing
      <4>2. CASE c # save[s].hand
        BY <1>1, <3>1, <4>2 DEF Live, Saving, Flushing
      <4> QED BY <4>1, <4>2
    <3>4. PICK b \in 0..emitted : b = save[s].hand
      BY Numbers
    <3> QED BY <2>2, <3>2, <3>3, <3>4, WriteSettles DEF Inv
  <2> QED BY <2>1, <2>2
<1> QED BY <1>2, <1>3, <1>4, <1>5, <1>6 DEF Inv

LEMMA AttemptInv ==
    ASSUME Inv, NEW s \in Saves, NEW o \in Outcomes, SaveAttempt(s, o)
    PROVE  Inv'
<1>1. TypeOK'
  BY TypeStep DEF Inv, Next, SaveStep
<1>2. save[s].hand \in 0..emitted
  BY Numbers
<1>3. /\ save[s].state = "attempting" /\ save'[s].hand = save[s].hand
      /\ \A r \in Saves \ {s} : save'[r] = save[r]
      /\ UNCHANGED <<emitted, folding, batch, pending, flush, taken>>
      /\ \/ /\ save'[s].state = "attempting" /\ job' = job
            /\ lost' = lost /\ stored' = stored
         \/ /\ save'[s].state = "over" /\ job' = "closing"
            /\ \/ lost' = lost /\ SaveWritten(s)
               \/ stored' = stored /\ lost' = lost \cup InHand(save[s].hand)
  BY DEF SaveAttempt, loopVars, Outcomes, Inv, TypeOK
<1>4. SaveWritten(s) =>
         stored'.count = [p \in Parts |-> IF p \in InHand(save[s].hand)
                                          THEN stored.count[p] + 1 ELSE stored.count[p]]
  BY <1>2, MergedFacts DEF SaveWritten, Inv
<1>5. \A r \in Saves : r \in Begun' <=> r \in Begun
  BY <1>3 DEF Begun
<1>6. \A r \in Saves : Latest(r)' <=> Latest(r)
  BY <1>5 DEF Latest, Begun
<1>7. Jobs'
  <2>1. \A q \in Begun', r \in Saves : r < q => r \in Begun'
    BY <1>5 DEF Inv, Jobs, Begun
  <2>2. CASE save'[s].state = "attempting" /\ job' = job
    <3>1. \A r \in Saves : save'[r].state = save[r].state
      BY <1>3, <2>2
    <3> QED BY <1>6, <2>1, <2>2, <3>1 DEF Inv, Jobs
  <2>3. CASE save'[s].state = "over" /\ job' = "closing"
    <3>1. \A r \in Saves : save[r].state = "attempting" => r = s
      BY <1>3 DEF Inv, Jobs, Latest, Begun, Saves
    <3>2. \A r \in Saves : save'[r].state # "attempting"
      BY <1>3, <2>3, <3>1
    <3> QED BY <2>1, <2>3, <3>2 DEF Jobs
  <2> QED BY <1>3, <2>2, <2>3
<1> QED BY <1>1, <1>3, <1>4, <1>7, SaveMoves

LEMMA OrphanInv ==
    ASSUME Inv, NEW s \in Saves, NEW o \in Outcomes, OrphanWrite(s, o)
    PROVE  Inv'
<1>1. TypeOK'
  BY TypeStep DEF Inv, Next, SaveStep
<1>2. save[s].hand \in 0..emitted
  BY Numbers
<1>3. /\ save[s].state = "orphan" /\ save'[s].hand = save[s].hand
      /\ \A r \in Saves \ {s} : save'[r] = save[r]
      /\ UNCHANGED <<emitted, folding, batch, pending, flush, taken, job>>
      /\ save'[s].state = "over"
      /\ \/ lost' = lost /\ SaveWritten(s)
         \/ stored' = stored /\ lost' = lost \cup InHand(save[s].hand)
  BY DEF OrphanWrite, loopVars, Outcomes, Inv, TypeOK
<1>4. SaveWritten(s) =>
         stored'.count = [p \in Parts |-> IF p \in InHand(save[s].hand)
                                          THEN stored.count[p] + 1 ELSE stored.count[p]]
  BY <1>2, MergedFacts DEF SaveWritten, Inv
<1>5. \A r \in Saves : (r \in Begun' <=> r \in Begun)
         /\ (save'[r].state = "attempting" <=> save[r].state = "attempting")
  BY <1>3 DEF Begun
<1>6. Jobs'
  <2>1. \A r \in Saves : Latest(r)' <=> Latest(r)
    BY <1>5 DEF Latest, Begun
  <2>2. \A q \in Begun', r \in Saves : r < q => r \in Begun'
    BY <1>5 DEF Inv, Jobs, Begun
  <2> QED BY <1>3, <1>5, <2>1, <2>2 DEF Inv, Jobs
<1> QED BY <1>1, <1>3, <1>4, <1>6, SaveMoves

LEMMA StopInv == ASSUME Inv, NEW s \in Saves, StopSave(s) PROVE Inv'
<1>1. TypeOK'
  BY TypeStep DEF Inv, Next
<1>2. save[s].state = "attempting" /\ \A r \in Saves : save[r].state = "attempting" => r = s
  BY DEF StopSave, Inv, Jobs, Latest, Begun, Saves
<1>3. /\ save'[s].hand = save[s].hand
      /\ \A r \in Saves \ {s} : save'[r] = save[r]
      /\ UNCHANGED <<emitted, folding, batch, pending, flush, taken, stored>>
      /\ job' = "stopped"
      /\ \/ save'[s].state = "orphan" /\ lost' = lost
         \/ save'[s].state = "over" /\ lost' = lost \cup InHand(save[s].hand)
  BY DEF StopSave, loopVars, Inv, TypeOK
<1>4. Jobs'
  <2>1. \A r \in Saves : (r \in Begun' <=> r \in Begun) /\ save'[r].state # "attempting"
    BY <1>2, <1>3 DEF Begun
  <2>2. \A q \in Begun', r \in Saves : r < q => r \in Begun'
    BY <2>1 DEF Inv, Jobs, Begun
  <2> QED BY <1>3, <2>1, <2>2 DEF Jobs
<1> QED BY <1>1, <1>2, <1>3, <1>4, SaveMoves

LEMMA NextInv == Inv /\ [Next]_vars => Inv'
<1> SUFFICES ASSUME Inv, [Next]_vars PROVE Inv'
  OBVIOUS
<1>1. CASE UNCHANGED vars
  <2>1. TypeOK' /\ OneHand'
    BY <1>1 DEF vars, Inv, TypeOK, OneHand
  <2>2. Batches' /\ Owners' /\ Hands'
    BY <1>1 DEF vars, Inv, Batches, Owners, Hands, Folded, LoopIdle, Begun
  <2>3. Jobs'
    BY <1>1 DEF vars, Inv, Jobs, Begun, Latest
  <2>4. \A b : Live(b)' <=> Live(b)
    BY <1>1 DEF vars, Live, Flushing, Saving
  <2>5. Places'
    BY <1>1, <2>4, SameProspects DEF vars, Inv
  <2> QED BY <2>1, <2>2, <2>3, <2>5 DEF Inv
<1> QED
  BY <1>1, EmitInv, FoldInv, FlushInv, MergeInv, BeginInv, AttemptInv, OrphanInv, StopInv
     DEF Next, FlushStep, SaveStep

\* The invariant holds in every reachable state, for any number of parts and saves.
THEOREM Invariant == Spec => []Inv
<1>1. Init => Inv
  BY InitInv
<1>2. Inv /\ [Next]_vars => Inv'
  BY NextInv
<1> QED BY <1>1, <1>2, PTL DEF Spec

\* Types.
THEOREM TypeCorrect == Spec => []TypeOK
<1>1. Inv => TypeOK
  BY DEF Inv
<1> QED BY <1>1, Invariant, PTL

\* No two writers ever have the same batch.
THEOREM OneHandCorrect == Spec => []OneHand
<1>1. Inv => OneHand
  BY DEF Inv
<1> QED BY <1>1, Invariant, PTL

\* A part is waiting exactly while the batch it was folded into is live.
LEMMA WaitsInItsBatch ==
    ASSUME Inv, NEW b \in Parts, NEW p \in Parts, p \in batch[b]
    PROVE  Waiting(p) <=> Live(b)
<1>1. \A c \in 0..emitted : p \in InHand(c) <=> c = b
  <2> TAKE c \in 0..emitted
  <2>1. c # Nothing => c \in Parts
    BY Numbers
  <2>2. b # Nothing
    BY Numbers
  <2> QED BY <2>1, <2>2 DEF InHand, Inv, Batches
<1>2. p \in InHand(pending) <=> pending = b
  BY <1>1, Numbers
<1>3. \A k \in Flushing : p \in InHand(taken[k]) <=> taken[k] = b
  BY <1>1, Numbers DEF Flushing
<1>4. \A s \in Saving : p \in InHand(save[s].hand) <=> save[s].hand = b
  BY <1>1, Numbers DEF Saving
<1> QED BY <1>2, <1>3, <1>4 DEF Waiting, Live

\* Nothing vanishes between the steps of the writers, and nothing is counted twice.
THEOREM PlaceCorrect == Spec => []EachPartInOnePlace
<1>1. Inv => EachPartInOnePlace
  <2> SUFFICES ASSUME Inv, NEW p \in 1..emitted, Folded(p)
               PROVE  \/ Waiting(p) /\ stored.count[p] = 0 /\ p \notin lost
                      \/ stored.count[p] = 1 /\ ~ Waiting(p) /\ p \notin lost
                      \/ p \in lost /\ ~ Waiting(p) /\ stored.count[p] = 0
    BY DEF EachPartInOnePlace
  <2>1. p \in Parts
    BY Numbers
  <2>2. PICK b \in Parts : p \in batch[b]
    BY DEF Inv, Batches
  <2>3. Waiting(p) <=> Live(b)
    BY <2>1, <2>2, WaitsInItsBatch
  <2>4. IF Live(b) THEN Untouched(p) ELSE Settled(p)
    BY <2>1, <2>2 DEF Inv, Places
  <2> QED BY <2>3, <2>4 DEF Untouched, Settled
<1> QED BY <1>1, Invariant, PTL

----------------------------------------------------------------------------
(* Saving implements the log of parts.                                     *)

\* Parts of a batch that is to be written are open in the log.
LEMMA LiveIsOpen ==
    ASSUME Inv, NEW b \in 0..emitted, b # Nothing => Live(b)
    PROVE  InHand(b) \in SUBSET Log!Open
<1> SUFFICES ASSUME NEW p \in InHand(b) PROVE p \in Log!Open
  OBVIOUS
<1>1. b \in Parts /\ p \in batch[b] /\ b # Nothing
  BY Numbers DEF InHand
<1>2. p \in 1..emitted /\ p \in Parts
  BY <1>1, Numbers DEF Inv, TypeOK
<1>3. Untouched(p)
  BY <1>1, <1>2 DEF Inv, Places
<1> QED BY <1>2, <1>3 DEF Log!Open, Untouched

\* Writing a live batch, or giving it up, is a step of the log.
LEMMA SettlingIsLogged ==
    ASSUME Inv, NEW b \in 0..emitted, b # Nothing => Live(b), emitted' = emitted,
           \/ /\ lost' = lost
              /\ stored'.count = [p \in Parts |-> IF p \in InHand(b) THEN stored.count[p] + 1
                                                  ELSE stored.count[p]]
           \/ stored'.count = stored.count /\ lost' = lost \cup InHand(b)
    PROVE  Log!Next
<1>1. InHand(b) \in SUBSET Log!Open
  BY LiveIsOpen
<1>2. CASE lost' = lost
         /\ stored'.count = [p \in Parts |-> IF p \in InHand(b) THEN stored.count[p] + 1
                                             ELSE stored.count[p]]
  <2>1. \A p \in InHand(b) : stored.count[p] = 0
    BY <1>1 DEF Log!Open
  <2>2. stored'.count = [p \in Parts |-> IF p \in InHand(b) THEN 1 ELSE stored.count[p]]
    BY <1>2, <2>1
  <2>3. Log!Write
    BY <1>1, <1>2, <2>2 DEF Log!Write
  <2> QED BY <2>3 DEF Log!Next
<1>3. CASE stored'.count = stored.count /\ lost' = lost \cup InHand(b)
  <2>1. Log!GiveUp
    BY <1>1, <1>3 DEF Log!GiveUp
  <2> QED BY <2>1 DEF Log!Next
<1> QED BY <1>2, <1>3

LEMMA StepIsLogged == Inv /\ [Next]_vars => [Log!Next]_(Log!vars)
<1> SUFFICES ASSUME Inv, [Next]_vars PROVE Log!Next \/ UNCHANGED Log!vars
  OBVIOUS
<1>1. ASSUME NEW i \in BOOLEAN, Emit(i) PROVE Log!Next
  <2>1. emitted' = emitted + 1 /\ emitted + 1 \in Parts /\ UNCHANGED <<stored, lost>>
    BY <1>1, Numbers DEF Emit
  <2>2. emitted + 1 \in Parts \ (1..emitted) /\ 1..emitted' = (1..emitted) \cup {emitted + 1}
    BY <2>1, Numbers
  <2>3. Log!Emit
    BY <2>1, <2>2 DEF Log!Emit
  <2> QED BY <2>3 DEF Log!Next
<1>2. CASE Fold
  <2>1. emitted \in Parts /\ emitted \in 1..emitted /\ ~ Folded(emitted)
    BY <1>2, Numbers DEF Fold, LoopIdle, Folded
  <2>2. \A b \in Parts : emitted \notin batch[b]
    BY <2>1 DEF Inv, Batches
  <2>3. {emitted} \in SUBSET Log!Open
    BY <2>1, <2>2 DEF Inv, Places, Untouched, Log!Open
  <2>4. CASE Finished(folding)
    <3>1. Log!GiveUp
      BY <1>2, <2>3, <2>4 DEF Fold, Log!GiveUp
    <3> QED BY <3>1 DEF Log!Next
  <2>5. CASE ~ Finished(folding)
    BY <1>2, <2>5 DEF Fold, Log!vars
  <2> QED BY <2>4, <2>5
<1>3. ASSUME NEW k \in Parts, StartFlush(k) \/ PopBatch(k) \/ PopSlot(k)
      PROVE  UNCHANGED Log!vars
  BY <1>3 DEF StartFlush, PopBatch, PopSlot, loopVars, Log!vars
<1>4. ASSUME NEW k \in Parts, NEW o \in Outcomes, MergeFlush(k, o) PROVE Log!Next
  <2>1. taken[k] \in 0..emitted /\ (taken[k] # Nothing => Live(taken[k]))
    BY <1>4, Numbers DEF MergeFlush, Live, Flushing
  <2>2. \/ /\ lost' = lost
           /\ stored'.count = [p \in Parts |-> IF p \in InHand(taken[k])
                                               THEN stored.count[p] + 1 ELSE stored.count[p]]
        \/ stored'.count = stored.count /\ lost' = lost \cup InHand(taken[k])
    BY <1>4, <2>1, MergedFacts DEF MergeFlush, Inv
  <2>3. emitted' = emitted
    BY <1>4 DEF MergeFlush, loopVars
  <2> QED BY <2>1, <2>2, <2>3, SettlingIsLogged
<1>5. ASSUME NEW s \in Saves, BeginSave(s) PROVE UNCHANGED Log!vars
  BY <1>5 DEF BeginSave, loopVars, Log!vars
<1>6. ASSUME NEW s \in Saves, NEW o \in Outcomes, SaveAttempt(s, o) \/ OrphanWrite(s, o)
      PROVE  Log!Next \/ UNCHANGED Log!vars
  <2>1. save[s].hand \in 0..emitted /\ (save[s].hand # Nothing => Live(save[s].hand))
    BY <1>6, Numbers DEF SaveAttempt, OrphanWrite, Live, Saving
  <2>2. \/ stored' = stored /\ lost' = lost
        \/ lost' = lost /\ SaveWritten(s)
        \/ stored' = stored /\ lost' = lost \cup InHand(save[s].hand)
    BY <1>6 DEF SaveAttempt, OrphanWrite
  <2>3. SaveWritten(s) =>
           stored'.count = [p \in Parts |-> IF p \in InHand(save[s].hand)
                                            THEN stored.count[p] + 1 ELSE stored.count[p]]
    BY <2>1, MergedFacts DEF SaveWritten, Inv
  <2>4. emitted' = emitted
    BY <1>6 DEF SaveAttempt, OrphanWrite, loopVars
  <2>5. CASE stored' = stored /\ lost' = lost
    BY <2>4, <2>5 DEF Log!vars
  <2>6. CASE (lost' = lost /\ SaveWritten(s))
             \/ (stored' = stored /\ lost' = lost \cup InHand(save[s].hand))
    BY <2>1, <2>3, <2>4, <2>6, SettlingIsLogged
  <2> QED BY <2>2, <2>5, <2>6
<1>7. ASSUME NEW s \in Saves, StopSave(s) PROVE Log!Next \/ UNCHANGED Log!vars
  <2>1. save[s].state = "attempting"
    BY <1>7 DEF StopSave, Inv, Jobs, Latest, Begun, Saves
  <2>2. save[s].hand \in 0..emitted /\ (save[s].hand # Nothing => Live(save[s].hand))
    BY <2>1, Numbers DEF Live, Saving
  <2>3. emitted' = emitted /\ stored' = stored
           /\ (lost' = lost \/ lost' = lost \cup InHand(save[s].hand))
    BY <1>7 DEF StopSave, loopVars
  <2>4. CASE lost' = lost
    BY <2>3, <2>4 DEF Log!vars
  <2>5. CASE lost' = lost \cup InHand(save[s].hand)
    BY <2>2, <2>3, <2>5, SettlingIsLogged
  <2> QED BY <2>3, <2>4, <2>5
<1>8. CASE UNCHANGED vars
  BY <1>8 DEF vars, Log!vars
<1> QED BY <1>1, <1>2, <1>3, <1>4, <1>5, <1>6, <1>7, <1>8 DEF Next, FlushStep, SaveStep

\* The flushes, the retried saves and Stop implement a log in which each part is
\* written once or given up.
THEOREM LogCorrect == Spec => LogSpec
<1>1. Init => Log!Init
  BY StreamAssumption DEF Init, Log!Init
<1>2. Inv /\ [Next]_vars => [Log!Next]_(Log!vars)
  BY StepIsLogged
<1> QED BY <1>1, <1>2, Invariant, PTL DEF Spec, LogSpec, Log!Spec

=============================================================================
