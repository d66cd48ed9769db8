-------------------------- MODULE LiveOrderProofs --------------------------
(***************************************************************************)
(* No download rewinds a copy, and a turn that is sent again ends its      *)
(* branch: what documents, events and copies on their way may still say,   *)
(* for any number of tabs and messages.                                    *)
(*                                                                         *)
(* A download is taken over when its revision is not older than the copy's *)
(* (PutChat), but a copy's revision is not that of a document: a completion *)
(* event moves it.  So the invariant relates what is finished to revisions: *)
(* a document that shows a reply running is older than everything that     *)
(* shows it finished (Before), and a copy that still shows it running has  *)
(* the completion event on its way (EntryOk, QueueOk).  All of this is     *)
(* about replies nobody deleted: a turn event that arrives after its       *)
(* messages were deleted brings them back, unfinished, into the copy.      *)
(*                                                                         *)
(* The predicates have the server's state as parameters: R the row, run    *)
(* the running replies, D the ids that were deleted, docs the row and the  *)
(* documents on their way.  A step is then a chain of small changes.       *)
(***************************************************************************)
EXTENDS LiveChatProofs

Shows(d, i)   == i \in DOMAIN d.messages /\ d.messages[i].done
Running(d, i) == i \in DOMAIN d.messages /\ ~ d.messages[i].done

\* Every document that shows i running is older than v.
Before(docs, i, v) == \A d \in docs : Running(d, i) => d.revision < v

PromptsDone(d) == \A p \in Prompts : ~ Running(d, p)

IsDone(e, r)  == e.kind = "done" /\ e.reply = r
Pending(s, r) == \E n \in DOMAIN s : IsDone(s[n], r)

\* The row and the documents read from it.
StoreOk(R, run, D, docs) ==
    /\ R \in docs /\ docs \subseteq Document /\ R.revision > 0
    /\ run \subseteq Replies \cap (DOMAIN R.messages \cup D)
    /\ \A r \in run \ D : Running(R, r)
    /\ \A d \in docs :
          /\ d.revision <= R.revision
          /\ d.revision = R.revision => d.messages = R.messages
          /\ DOMAIN d.messages \subseteq DOMAIN R.messages \cup D
          /\ PromptsDone(d)
          /\ \A i \in Replies \ D : Shows(d, i) => Before(docs, i, d.revision)

\* The entry x of a tab with the events s on their way to it.
EntryOk(x, s, R, D, docs) ==
    /\ x \in Entry /\ x.revision <= R.revision
    /\ DOMAIN x.messages \subseteq DOMAIN R.messages \cup D \cup x.unsent
    /\ PromptsDone(x)
    /\ \A i \in Replies \ D :
          /\ Shows(x, i) => Before(docs, i, x.revision)
          /\ Shows(R, i) /\ ~ Pending(s, i) => ~ Running(x, i) /\ Before(docs, i, x.revision)
          /\ Shows(R, i) /\ x.revision = R.revision
                => ~ Running(x, i) /\ (i \notin DOMAIN x.messages => ~ Pending(s, i))

\* The events on their way to a tab: completions in the order of their
\* revisions, and after each turn its completion, unless the reply still runs.
QueueOk(s, R, run, D, docs) ==
    /\ s \in Seq(Event)
    /\ \A n \in DOMAIN s : s[n].kind = "done" =>
          /\ s[n].revision <= R.revision
          /\ s[n].reply \in DOMAIN R.messages \cup D
          /\ s[n].reply \notin D => Before(docs, s[n].reply, s[n].revision)
          /\ \A m \in DOMAIN s : m < n /\ s[m].kind = "done" => s[m].revision < s[n].revision
    /\ \A n \in DOMAIN s : s[n].kind = "turn" =>
          /\ s[n].turn.user \in DOMAIN R.messages \cup D
          /\ s[n].turn.reply \in DOMAIN R.messages \cup D
          /\ \/ s[n].turn.reply \in run
             \/ \E m \in DOMAIN s : n < m /\ IsDone(s[m], s[n].turn.reply)

----------------------------------------------------------------------------
(* Fewer documents, and a write.                                           *)

LEMMA EntryFacts ==
    ASSUME NEW x \in Entry
    PROVE  /\ x.revision \in Nat /\ x.messages \in Messages /\ DOMAIN x.messages \subseteq Ids
           /\ x.unsent \subseteq Ids /\ x.live \in Replies \cup {None}
           /\ x.leaf \in Ids \cup {None} /\ x.later \in Nat
           /\ IsMessages(x.messages)
           /\ \A i \in DOMAIN x.messages : x.messages[i] \in Message
BY MessagesAre DEF Entry

LEMMA DocumentFacts ==
    ASSUME NEW d \in Document
    PROVE  /\ d.revision \in Nat /\ d.messages \in Messages /\ DOMAIN d.messages \subseteq Ids
           /\ IsMessages(d.messages)
           /\ \A i \in DOMAIN d.messages : d.messages[i] \in Message
BY MessagesAre DEF Document

\* Once before v, before anything newer.
LEMMA BeforeGrows ==
    ASSUME NEW docs, docs \subseteq Document, NEW i, NEW v \in Nat, NEW w \in Nat, v <= w,
           Before(docs, i, v)
    PROVE  Before(docs, i, w)
BY DocumentFacts DEF Before

LEMMA FewerDocuments ==
    ASSUME NEW R, NEW run, NEW D, NEW docs, NEW fewer, R \in fewer, fewer \subseteq docs
    PROVE  /\ StoreOk(R, run, D, docs) => StoreOk(R, run, D, fewer)
           /\ \A x, s : EntryOk(x, s, R, D, docs) => EntryOk(x, s, R, D, fewer)
           /\ \A s : QueueOk(s, R, run, D, docs) => QueueOk(s, R, run, D, fewer)
<1>1. \A i, v : Before(docs, i, v) => Before(fewer, i, v)
  BY DEF Before
<1>2. StoreOk(R, run, D, docs) => StoreOk(R, run, D, fewer)
  BY <1>1 DEF StoreOk
<1>3. ASSUME NEW x, NEW s, EntryOk(x, s, R, D, docs) PROVE EntryOk(x, s, R, D, fewer)
  BY <1>1, <1>3 DEF EntryOk
<1>4. ASSUME NEW s, QueueOk(s, R, run, D, docs) PROVE QueueOk(s, R, run, D, fewer)
  BY <1>1, <1>4 DEF QueueOk
<1> QED BY <1>2, <1>3, <1>4

\* A commit: R becomes R2.  Replies `started` are stored, running, for the first
\* time; `finished` ones end; every other reply keeps its flag.
Writes(R, run, D, R2, run2, D2, started, finished) ==
    /\ R2 \in Document /\ R2.revision = R.revision + 1
    /\ D2 = D \cup (DOMAIN R.messages \ DOMAIN R2.messages)
    /\ started \subseteq Replies \ (DOMAIN R.messages \cup D)
    /\ \A i \in started : Running(R2, i)
    /\ finished \subseteq run
    /\ \A i \in finished : Shows(R2, i)
    /\ \A i \in Replies \ (D2 \cup started \cup finished) :
          i \in DOMAIN R2.messages =>
             i \in DOMAIN R.messages /\ R2.messages[i].done = R.messages[i].done
    /\ run2 = (run \cup started) \ finished
    /\ PromptsDone(R2)

\* The old documents say of a reply what they said; the new row shows nothing
\* running that anything old shows finished.
LEMMA BeforeCommit ==
    ASSUME NEW R, NEW run, NEW D, NEW docs, StoreOk(R, run, D, docs),
           NEW R2, NEW run2, NEW D2, NEW started, NEW finished,
           Writes(R, run, D, R2, run2, D2, started, finished),
           NEW docs2, docs2 \subseteq docs \cup {R2},
           NEW i \in Replies \ D2, i \notin started,
           NEW v \in Nat, v <= R.revision, Before(docs, i, v)
    PROVE  Before(docs2, i, v)
<1>1. SUFFICES ASSUME Running(R2, i) PROVE FALSE
  BY DEF Before
<1>2. i \notin finished
  BY <1>1 DEF Writes, Running, Shows
<1>3. Running(R, i)
  BY <1>1, <1>2 DEF Writes, Running
<1>4. R.revision < v /\ R.revision \in Nat
  BY <1>3, DocumentFacts DEF Before, StoreOk
<1> QED BY <1>4

LEMMA StoreCommitted ==
    ASSUME NEW R, NEW run, NEW D, NEW docs, StoreOk(R, run, D, docs),
           NEW R2, NEW run2, NEW D2, NEW started, NEW finished,
           Writes(R, run, D, R2, run2, D2, started, finished),
           NEW docs2, docs2 \subseteq docs \cup {R2}, R2 \in docs2
    PROVE  StoreOk(R2, run2, D2, docs2)
<1>1. /\ R \in Document /\ R2 \in Document /\ docs2 \subseteq Document
      /\ R.revision \in Nat /\ R2.revision = R.revision + 1
  BY DocumentFacts DEF StoreOk, Writes
<1>2. DOMAIN R.messages \cup D \subseteq DOMAIN R2.messages \cup D2 /\ D \subseteq D2
  BY DEF Writes
<1>3. run2 \subseteq Replies \cap (DOMAIN R2.messages \cup D2)
  <2>1. run \subseteq Replies \cap (DOMAIN R2.messages \cup D2)
    BY <1>2 DEF StoreOk
  <2>2. started \subseteq Replies \cap DOMAIN R2.messages
    BY DEF Writes, Running
  <2> QED BY <2>1, <2>2 DEF Writes
<1>4. ASSUME NEW r \in run2 \ D2 PROVE Running(R2, r)
  <2>1. CASE r \in started
    BY <2>1 DEF Writes
  <2>2. CASE r \notin started
    <3>1. r \in run \ D /\ r \notin finished /\ r \in Replies
      BY <1>2, <1>3, <1>4, <2>2 DEF Writes
    <3>2. Running(R, r) /\ r \in DOMAIN R2.messages
      BY <1>3, <1>4, <3>1 DEF StoreOk
    <3> QED BY <1>4, <2>2, <3>1, <3>2 DEF Writes, Running
  <2> QED BY <2>1, <2>2
<1>5. ASSUME NEW d \in docs2
      PROVE  /\ d.revision <= R2.revision
             /\ d.revision = R2.revision => d.messages = R2.messages
             /\ DOMAIN d.messages \subseteq DOMAIN R2.messages \cup D2
             /\ PromptsDone(d)
             /\ \A i \in Replies \ D2 : Shows(d, i) => Before(docs2, i, d.revision)
  <2>1. CASE d = R2
    <3>1. ASSUME NEW i \in Replies \ D2, Shows(d, i) PROVE Before(docs2, i, d.revision)
      <4>1. SUFFICES ASSUME NEW e \in docs2, Running(e, i) PROVE e.revision < R2.revision
        BY <2>1 DEF Before
      <4>2. e # R2
        BY <2>1, <3>1, <4>1 DEF Shows, Running
      <4>3. e \in docs
        BY <4>2
      <4> QED BY <1>1, <4>3, DocumentFacts DEF StoreOk
    <3> QED BY <1>1, <2>1, <3>1 DEF Writes
  <2>2. CASE d # R2
    <3>1. d \in docs /\ d \in Document /\ d.revision \in Nat
      BY <1>1, <1>5, <2>2, DocumentFacts
    <3>2. /\ d.revision <= R.revision /\ PromptsDone(d)
          /\ DOMAIN d.messages \subseteq DOMAIN R.messages \cup D
      BY <3>1 DEF StoreOk
    <3>3. ASSUME NEW i \in Replies \ D2, Shows(d, i) PROVE Before(docs2, i, d.revision)
      <4>1. i \notin started
        BY <3>2, <3>3 DEF Writes, Shows
      <4>2. Before(docs, i, d.revision)
        BY <1>2, <3>1, <3>3 DEF StoreOk
      <4> QED BY <3>1, <3>2, <4>1, <4>2, BeforeCommit
    <3> QED BY <1>1, <1>2, <3>1, <3>2, <3>3
  <2> QED BY <2>1, <2>2
<1>6. R2.revision > 0
  BY <1>1
<1> QED BY <1>1, <1>3, <1>4, <1>5, <1>6 DEF StoreOk

\* A tab that shows no new reply finished stays in order, with the events it is sent.
LEMMA EntryCommitted ==
    ASSUME NEW R, NEW run, NEW D, NEW docs, StoreOk(R, run, D, docs),
           NEW R2, NEW run2, NEW D2, NEW started, NEW finished,
           Writes(R, run, D, R2, run2, D2, started, finished),
           NEW docs2, docs2 \subseteq docs \cup {R2},
           NEW x, NEW s, EntryOk(x, s, R, D, docs), \A i \in started : ~ Shows(x, i),
           NEW s2, \A i \in Replies : Pending(s, i) => Pending(s2, i),
           \A i \in finished : Pending(s2, i)
    PROVE  EntryOk(x, s2, R2, D2, docs2)
<1>1. /\ R.revision \in Nat /\ R2.revision = R.revision + 1
      /\ x \in Entry /\ x.revision \in Nat /\ x.revision <= R.revision
  BY DocumentFacts, EntryFacts DEF StoreOk, Writes, EntryOk
<1>2. DOMAIN R.messages \cup D \subseteq DOMAIN R2.messages \cup D2 /\ D \subseteq D2
  BY DEF Writes
<1>3. ASSUME NEW i \in Replies \ D2, Shows(x, i) PROVE Before(docs2, i, x.revision)
  <2>1. Before(docs, i, x.revision) /\ i \notin started
    BY <1>2, <1>3 DEF EntryOk
  <2> QED BY <1>1, <2>1, BeforeCommit
<1>4. ASSUME NEW i \in Replies \ D2, Shows(R2, i), ~ Pending(s2, i)
      PROVE  ~ Running(x, i) /\ Before(docs2, i, x.revision)
  <2>1. i \notin started /\ i \notin finished
    BY <1>4 DEF Writes, Shows, Running
  <2>2. Shows(R, i) /\ ~ Pending(s, i)
    BY <1>4, <2>1 DEF Writes, Shows
  <2>3. ~ Running(x, i) /\ Before(docs, i, x.revision)
    BY <1>2, <2>2 DEF EntryOk
  <2> QED BY <1>1, <2>1, <2>3, BeforeCommit
<1>5. x.revision <= R2.revision /\ x.revision # R2.revision
  BY <1>1
<1>6. DOMAIN x.messages \subseteq DOMAIN R2.messages \cup D2 \cup x.unsent
  BY <1>2 DEF EntryOk
<1> QED BY <1>1, <1>3, <1>4, <1>5, <1>6 DEF EntryOk

\* The events on their way, with what a commit sends.
LEMMA QueueCommitted ==
    ASSUME NEW R, NEW run, NEW D, NEW docs, StoreOk(R, run, D, docs),
           NEW R2, NEW run2, NEW D2, NEW started, NEW finished,
           Writes(R, run, D, R2, run2, D2, started, finished),
           NEW docs2, docs2 \subseteq docs \cup {R2}, R2 \in docs2,
           NEW s, QueueOk(s, R, run, D, docs),
           NEW sent \in Seq(Event), Len(sent) <= 1,
           \A n \in DOMAIN sent :
              \/ /\ sent[n].kind = "turn"
                 /\ sent[n].turn.user \in DOMAIN R2.messages
                 /\ sent[n].turn.reply \in started \ finished
              \/ /\ sent[n].kind = "done"
                 /\ sent[n].reply \in finished /\ sent[n].revision = R2.revision,
           \A r \in finished : Pending(sent, r)
    PROVE  /\ QueueOk(s \o sent, R2, run2, D2, docs2)
           /\ \A r \in Replies : Pending(s, r) => Pending(s \o sent, r)
           /\ \A r \in finished : Pending(s \o sent, r)
<1> DEFINE q == s \o sent
<1>1. /\ R \in Document /\ R2 \in Document /\ docs \subseteq Document /\ docs2 \subseteq Document
      /\ R.revision \in Nat /\ R2.revision = R.revision + 1
  BY DocumentFacts DEF StoreOk, Writes
<1>2. DOMAIN R.messages \cup D \subseteq DOMAIN R2.messages \cup D2 /\ D \subseteq D2
  BY DEF Writes
<1>3. /\ s \in Seq(Event) /\ q \in Seq(Event) /\ Len(s) \in Nat /\ Len(sent) \in Nat
      /\ DOMAIN s = 1..Len(s) /\ DOMAIN sent = 1..Len(sent) /\ DOMAIN q = 1..(Len(s) + Len(sent))
      /\ \A n \in DOMAIN s : n \in DOMAIN q /\ q[n] = s[n]
      /\ \A n \in DOMAIN sent : Len(s) + n \in DOMAIN q /\ q[Len(s) + n] = sent[n]
  BY DEF QueueOk
<1>4. ASSUME NEW n \in DOMAIN q
      PROVE  \/ n \in DOMAIN s /\ q[n] = s[n]
             \/ n = Len(s) + 1 /\ 1 \in DOMAIN sent /\ q[n] = sent[1]
  <2>1. CASE n <= Len(s)
    BY <1>3, <1>4, <2>1
  <2>2. CASE n > Len(s)
    <3>1. n = Len(s) + 1 /\ 1 \in DOMAIN sent
      BY <1>3, <1>4, <2>2
    <3> QED BY <1>3, <3>1
  <2> QED BY <1>3, <1>4, <2>1, <2>2
<1>5. /\ \A r \in Replies : Pending(s, r) => Pending(q, r)
      /\ \A r : Pending(sent, r) => Pending(q, r)
  BY <1>3 DEF Pending
<1>6. \A r \in finished : \E m \in DOMAIN q : m = Len(s) + 1 /\ IsDone(q[m], r)
  <2>1. SUFFICES ASSUME NEW r \in finished
                 PROVE  \E m \in DOMAIN q : m = Len(s) + 1 /\ IsDone(q[m], r)
    OBVIOUS
  <2>2. PICK n \in DOMAIN sent : IsDone(sent[n], r)
    BY DEF Pending
  <2>3. n = 1
    BY <1>3, <2>2
  <2> QED BY <1>3, <2>2, <2>3
<1> HIDE DEF q
<1>7. ASSUME NEW n \in DOMAIN q, q[n].kind = "done"
      PROVE  /\ q[n].revision <= R2.revision
             /\ q[n].reply \in DOMAIN R2.messages \cup D2
             /\ q[n].reply \notin D2 => Before(docs2, q[n].reply, q[n].revision)
             /\ \A m \in DOMAIN q : m < n /\ q[m].kind = "done" => q[m].revision < q[n].revision
  <2>1. \A m \in DOMAIN s : s[m].kind = "done" =>
           /\ s[m].reply \in Replies /\ s[m].revision \in Nat /\ s[m].revision <= R.revision
    BY <1>3 DEF QueueOk, Event
  <2>2. CASE n \in DOMAIN s /\ q[n] = s[n]
    <3>1. /\ s[n].reply \in Replies /\ s[n].revision \in Nat /\ s[n].revision <= R.revision
          /\ s[n].reply \in DOMAIN R.messages \cup D
          /\ s[n].reply \notin D => Before(docs, s[n].reply, s[n].revision)
      BY <1>7, <2>1, <2>2 DEF QueueOk
    <3>2. ASSUME s[n].reply \notin D2 PROVE Before(docs2, s[n].reply, s[n].revision)
      <4>1. s[n].reply \in Replies \ D2 /\ s[n].reply \notin started
        BY <1>2, <3>1, <3>2 DEF Writes
      <4> QED BY <1>2, <3>1, <3>2, <4>1, BeforeCommit
    <3>3. ASSUME NEW m \in DOMAIN q, m < n, q[m].kind = "done"
          PROVE  q[m].revision < q[n].revision
      <4>1. m \in DOMAIN s /\ q[m] = s[m]
        BY <1>3, <1>4, <2>2, <3>3
      <4> QED BY <1>7, <2>2, <3>3, <4>1 DEF QueueOk
    <3> QED BY <1>1, <1>2, <2>2, <3>1, <3>2, <3>3
  <2>3. CASE n = Len(s) + 1 /\ 1 \in DOMAIN sent /\ q[n] = sent[1]
    <3>1. q[n].reply \in finished /\ q[n].revision = R2.revision
      BY <1>7, <2>3
    <3>2. q[n].reply \in DOMAIN R2.messages /\ ~ Running(R2, q[n].reply)
      BY <3>1 DEF Writes, Shows, Running
    <3>3. Before(docs2, q[n].reply, R2.revision)
      <4>1. SUFFICES ASSUME NEW d \in docs2, Running(d, q[n].reply) PROVE d.revision < R2.revision
        BY DEF Before
      <4>2. d \in docs
        BY <3>2, <4>1
      <4>3. d.revision <= R.revision /\ d.revision \in Nat
        BY <1>1, <4>2, DocumentFacts DEF StoreOk
      <4> QED BY <1>1, <4>3
    <3>4. ASSUME NEW m \in DOMAIN q, m < n, q[m].kind = "done"
          PROVE  q[m].revision < q[n].revision
      <4>1. m \in DOMAIN s /\ q[m] = s[m]
        BY <1>3, <1>4, <2>3, <3>4
      <4>2. s[m].revision \in Nat /\ s[m].revision <= R.revision
        BY <2>1, <3>4, <4>1
      <4> QED BY <1>1, <3>1, <4>1, <4>2
    <3> QED BY <1>1, <3>1, <3>2, <3>3, <3>4
  <2> QED BY <1>4, <2>2, <2>3
<1>8. ASSUME NEW n \in DOMAIN q, q[n].kind = "turn"
      PROVE  /\ q[n].turn.user \in DOMAIN R2.messages \cup D2
             /\ q[n].turn.reply \in DOMAIN R2.messages \cup D2
             /\ \/ q[n].turn.reply \in run2
                \/ \E m \in DOMAIN q : n < m /\ IsDone(q[m], q[n].turn.reply)
  <2>1. CASE n \in DOMAIN s /\ q[n] = s[n]
    <3>1. /\ s[n].turn.user \in DOMAIN R.messages \cup D
          /\ s[n].turn.reply \in DOMAIN R.messages \cup D
          /\ \/ s[n].turn.reply \in run
             \/ \E m \in DOMAIN s : n < m /\ IsDone(s[m], s[n].turn.reply)
      BY <1>8, <2>1 DEF QueueOk
    <3>2. CASE s[n].turn.reply \in finished
      <4>1. \E m \in DOMAIN q : m = Len(s) + 1 /\ IsDone(q[m], s[n].turn.reply)
        BY <1>6, <3>2
      <4>2. n < Len(s) + 1
        BY <1>3, <2>1
      <4> QED BY <1>2, <2>1, <3>1, <4>1, <4>2
    <3>3. CASE s[n].turn.reply \notin finished /\ s[n].turn.reply \in run
      BY <1>2, <2>1, <3>1, <3>3 DEF Writes
    <3>4. CASE \E m \in DOMAIN s : n < m /\ IsDone(s[m], s[n].turn.reply)
      <4>1. \E m \in DOMAIN q : n < m /\ IsDone(q[m], q[n].turn.reply)
        BY <1>3, <2>1, <3>4 DEF q
      <4> QED BY <1>2, <2>1, <3>1, <4>1
    <3> QED BY <3>1, <3>2, <3>3, <3>4
  <2>2. CASE n = Len(s) + 1 /\ 1 \in DOMAIN sent /\ q[n] = sent[1]
    <3>1. /\ q[n].turn.user \in DOMAIN R2.messages
          /\ q[n].turn.reply \in started \ finished
      BY <1>8, <2>2
    <3> QED BY <3>1 DEF Writes, Running
  <2> QED BY <1>4, <2>1, <2>2
<1>9. QueueOk(q, R2, run2, D2, docs2)
  BY <1>3, <1>7, <1>8 DEF QueueOk
<1> QED BY <1>5, <1>9 DEF q

\* What is left when the oldest event has arrived.
LEMMA QueueTail ==
    ASSUME NEW R, NEW run, NEW D, NEW docs, NEW s, QueueOk(s, R, run, D, docs), s # <<>>
    PROVE  /\ QueueOk(Tail(s), R, run, D, docs)
           /\ \A r : Pending(s, r) <=> IsDone(Head(s), r) \/ Pending(Tail(s), r)
           /\ Head(s) \in Event /\ 1 \in DOMAIN s /\ Head(s) = s[1]
<1> DEFINE q == Tail(s)
<1>1. /\ s \in Seq(Event) /\ q \in Seq(Event) /\ 1 \in DOMAIN s /\ Head(s) = s[1]
      /\ Head(s) \in Event
      /\ \A n \in DOMAIN q : n \in Nat /\ n + 1 \in DOMAIN s /\ q[n] = s[n + 1]
      /\ \A n \in DOMAIN s : n \in Nat /\ (n = 1 \/ (n > 1 /\ n - 1 \in DOMAIN q /\ q[n - 1] = s[n]))
  BY DEF QueueOk
<1> HIDE DEF q
<1>2. ASSUME NEW n \in DOMAIN q, q[n].kind = "done"
      PROVE  /\ q[n].revision <= R.revision
             /\ q[n].reply \in DOMAIN R.messages \cup D
             /\ q[n].reply \notin D => Before(docs, q[n].reply, q[n].revision)
             /\ \A m \in DOMAIN q : m < n /\ q[m].kind = "done" => q[m].revision < q[n].revision
  <2>1. n + 1 \in DOMAIN s /\ s[n + 1].kind = "done" /\ q[n] = s[n + 1]
    BY <1>1, <1>2
  <2>2. ASSUME NEW m \in DOMAIN q, m < n, q[m].kind = "done" PROVE q[m].revision < q[n].revision
    <3>1. m + 1 \in DOMAIN s /\ m + 1 < n + 1 /\ s[m + 1].kind = "done" /\ q[m] = s[m + 1]
      BY <1>1, <1>2, <2>2
    <3> QED BY <2>1, <3>1 DEF QueueOk
  <2> QED BY <2>1, <2>2 DEF QueueOk
<1>3. ASSUME NEW n \in DOMAIN q, q[n].kind = "turn"
      PROVE  /\ q[n].turn.user \in DOMAIN R.messages \cup D
             /\ q[n].turn.reply \in DOMAIN R.messages \cup D
             /\ \/ q[n].turn.reply \in run
                \/ \E m \in DOMAIN q : n < m /\ IsDone(q[m], q[n].turn.reply)
  <2>1. n \in Nat /\ n + 1 \in DOMAIN s /\ s[n + 1].kind = "turn" /\ q[n] = s[n + 1]
    BY <1>1, <1>3
  <2>2. ASSUME NEW m \in DOMAIN s, n + 1 < m, IsDone(s[m], s[n + 1].turn.reply)
        PROVE  \E k \in DOMAIN q : n < k /\ IsDone(q[k], q[n].turn.reply)
    <3>1. m \in Nat /\ m # 1 /\ m - 1 \in DOMAIN q /\ n < m - 1 /\ q[m - 1] = s[m]
      BY <1>1, <2>1, <2>2
    <3> QED BY <2>1, <2>2, <3>1
  <2> QED BY <2>1, <2>2 DEF QueueOk
<1>4. \A r : Pending(s, r) <=> IsDone(Head(s), r) \/ Pending(q, r)
  BY <1>1 DEF Pending
<1>5. QueueOk(q, R, run, D, docs)
  BY <1>1, <1>2, <1>3 DEF QueueOk
<1> QED BY <1>1, <1>4, <1>5 DEF q

----------------------------------------------------------------------------
(* What arrives at a copy.                                                 *)

\* The ids a history names: its messages and the children they list.
Mentions(m) == DOMAIN m \cup UNION {m[i].kids : i \in DOMAIN m}

\* A merged copy says of each message what the document says, or else what the
\* copy said of a message that is unsent or awaited; only the awaited reply,
\* when the document has it running, may be missing.
LEMMA DownloadedEffect ==
    ASSUME NEW x \in Entry, NEW d \in Document
    PROVE  LET y == Downloaded(x, d)
               own == (x.unsent \cap DOMAIN x.messages) \ DOMAIN d.messages
           IN  /\ y \in Entry /\ y.revision = d.revision /\ y.unsent = own
               /\ y.live \in {x.live, None} /\ y.leaf = x.leaf /\ y.later = x.later
               /\ \A i \in DOMAIN y.messages :
                     \/ /\ i \in DOMAIN d.messages
                        /\ y.messages[i].done = d.messages[i].done
                     \/ /\ i \notin DOMAIN d.messages /\ i \in DOMAIN x.messages
                        /\ y.messages[i].done = x.messages[i].done
                        /\ i \in own \/ i = x.live
               /\ own \subseteq DOMAIN y.messages
               /\ \A i \in DOMAIN d.messages \ DOMAIN y.messages : i = x.live /\ Running(d, i)
               /\ \A i \in (DOMAIN d.messages \cap DOMAIN y.messages) \ {x.live} :
                     d.messages[i].kids \subseteq y.messages[i].kids
               /\ Mentions(y.messages) \subseteq Mentions(x.messages) \cup Mentions(d.messages)
<1> DEFINE ended(m)  == x.live \in DOMAIN m /\ m[x.live].done
           streaming == {x.live} \ (IF ended(x.messages) \/ ended(d.messages)
                                    THEN {x.live} ELSE {None})
           own    == (x.unsent \cap DOMAIN x.messages) \ DOMAIN d.messages
           kept   == own \cup (streaming \cap DOMAIN x.messages)
           all    == (DOMAIN d.messages \ streaming) \cup kept
           merged == [i \in all |-> IF i \in kept THEN x.messages[i] ELSE d.messages[i]]
           new    == [i \in all |->
                        [merged[i] EXCEPT !.kids = @ \cup {k \in own : merged[k].parent = i}]]
           live   == IF streaming = {} THEN None ELSE x.live
           y == [x EXCEPT !.revision = d.revision, !.messages = new, !.unsent = own,
                          !.live = live]
<1>1. Downloaded(x, d) = y
  BY DEF Downloaded
<1>2. /\ x.messages \in Messages /\ DOMAIN x.messages \subseteq Ids
      /\ d.messages \in Messages /\ DOMAIN d.messages \subseteq Ids /\ d.revision \in Nat
      /\ x.live \in Replies \cup {None} /\ x.unsent \subseteq Ids
      /\ \A i \in DOMAIN x.messages : x.messages[i] \in Message
      /\ \A i \in DOMAIN d.messages : d.messages[i] \in Message
  BY EntryFacts, DocumentFacts
<1>3. /\ kept \subseteq DOMAIN x.messages /\ own \subseteq kept /\ own \subseteq Ids
      /\ all \subseteq Ids /\ own \cap DOMAIN d.messages = {}
  BY <1>2
<1>4. /\ streaming \subseteq {x.live}
      /\ streaming # {} => ~ ended(x.messages) /\ ~ ended(d.messages)
  OBVIOUS
<1>5. \A i \in all : merged[i] \in Message
  BY <1>2, <1>3
<1>6. \A i \in all : merged[i] = IF i \in kept THEN x.messages[i] ELSE d.messages[i]
  OBVIOUS
<1> HIDE DEF merged
<1>7. ASSUME NEW i \in all
      PROVE  /\ new[i] \in Message /\ new[i].done = merged[i].done
             /\ new[i].kids = merged[i].kids \cup {k \in own : merged[k].parent = i}
  <2> DEFINE k == merged[i].kids \cup {j \in own : merged[j].parent = i}
  <2>1. new[i] = [merged[i] EXCEPT !.kids = k]
    BY <1>7
  <2>2. k \subseteq Ids /\ merged[i] \in Message
    BY <1>3, <1>5, <1>7 DEF Message
  <2> HIDE DEF k, new
  <2>3. new[i] \in Message /\ new[i].done = merged[i].done /\ new[i].kids = k
    BY <2>1, <2>2 DEF Message
  <2> QED BY <2>3 DEF k
<1>8. new \in Messages /\ DOMAIN new = all
  <2> HIDE DEF all, own
  <2>1. DOMAIN new = all /\ new \in [all -> Message]
    BY <1>7
  <2> HIDE DEF new
  <2> QED BY <1>3, <2>1 DEF Messages
<1> HIDE DEF new
<1>9. live \in Replies \cup {None} /\ live \in {x.live, None}
  BY <1>2
<1>10. /\ y \in Entry /\ y.messages = new /\ y.live = live /\ y.revision = d.revision
       /\ y.unsent = own /\ y.leaf = x.leaf /\ y.later = x.later
  <2> HIDE DEF own, live
  <2> QED BY <1>2, <1>3, <1>8, <1>9 DEF Entry
<1> HIDE DEF y, live
<1>11. ASSUME NEW i \in all
       PROVE  \/ i \in DOMAIN d.messages /\ new[i].done = d.messages[i].done
              \/ /\ i \notin DOMAIN d.messages /\ i \in DOMAIN x.messages
                 /\ new[i].done = x.messages[i].done
                 /\ i \in own \/ i = x.live
  <2>1. CASE i \notin kept
    <3>1. i \in DOMAIN d.messages /\ new[i].done = d.messages[i].done
      BY <1>6, <1>7, <2>1
    <3> QED BY <3>1
  <2>2. CASE i \in kept /\ i \in DOMAIN d.messages
    <3>1. i \in streaming /\ i = x.live /\ i \in DOMAIN x.messages
      BY <1>3, <1>4, <2>2
    <3>2. ~ x.messages[i].done /\ ~ d.messages[i].done
      BY <1>4, <2>2, <3>1
    <3>3. x.messages[i] \in Message /\ d.messages[i] \in Message
      BY <1>2, <2>2, <3>1
    <3>4. new[i].done = x.messages[i].done
      BY <1>6, <1>7, <2>2
    <3> QED BY <2>2, <3>2, <3>3, <3>4 DEF Message
  <2>3. CASE i \in kept /\ i \notin DOMAIN d.messages
    <3>1. i \in DOMAIN x.messages /\ (i \in own \/ i = x.live)
      BY <1>3, <1>4, <2>3
    <3>2. new[i].done = x.messages[i].done
      BY <1>6, <1>7, <2>3
    <3> QED BY <2>3, <3>1, <3>2
  <2> QED BY <2>1, <2>2, <2>3
<1>12. ASSUME NEW i \in DOMAIN d.messages, i \notin all PROVE i = x.live /\ Running(d, i)
  <2>1. i \in streaming
    BY <1>12
  <2> QED BY <1>4, <1>12, <2>1 DEF Running
<1>13. ASSUME NEW i \in DOMAIN d.messages, i \in all, i # x.live
       PROVE  d.messages[i].kids \subseteq new[i].kids
  <2>1. i \notin kept
    BY <1>4, <1>13
  <2> QED BY <1>6, <1>7, <1>13, <2>1
<1>14. Mentions(new) \subseteq Mentions(x.messages) \cup Mentions(d.messages)
  <2>1. ASSUME NEW k, NEW i \in all, k \in new[i].kids
        PROVE  k \in Mentions(x.messages) \cup Mentions(d.messages)
    <3>1. k \in merged[i].kids \/ k \in own
      BY <1>7, <2>1
    <3>2. CASE k \in own
      BY <3>2 DEF Mentions
    <3>3. CASE k \in merged[i].kids /\ i \in kept
      BY <1>3, <1>6, <3>3 DEF Mentions
    <3>4. CASE k \in merged[i].kids /\ i \notin kept
      <4>1. i \in DOMAIN d.messages /\ k \in d.messages[i].kids
        BY <1>6, <3>4
      <4> QED BY <4>1 DEF Mentions
    <3> QED BY <3>1, <3>2, <3>3, <3>4
  <2>2. all \subseteq Mentions(x.messages) \cup Mentions(d.messages)
    BY <1>3 DEF Mentions
  <2> HIDE DEF all
  <2> QED BY <1>8, <2>1, <2>2 DEF Mentions
<1>15. own \subseteq all
  BY <1>3
<1> HIDE DEF all, own
<1>16. \A i \in DOMAIN y.messages :
          \/ i \in DOMAIN d.messages /\ y.messages[i].done = d.messages[i].done
          \/ /\ i \notin DOMAIN d.messages /\ i \in DOMAIN x.messages
             /\ y.messages[i].done = x.messages[i].done
             /\ i \in own \/ i = x.live
  BY <1>8, <1>10, <1>11
<1>17. /\ own \subseteq DOMAIN y.messages
       /\ \A i \in DOMAIN d.messages \ DOMAIN y.messages : i = x.live /\ Running(d, i)
       /\ \A i \in (DOMAIN d.messages \cap DOMAIN y.messages) \ {x.live} :
             d.messages[i].kids \subseteq y.messages[i].kids
       /\ Mentions(y.messages) \subseteq Mentions(x.messages) \cup Mentions(d.messages)
  BY <1>8, <1>10, <1>12, <1>13, <1>14, <1>15
<1>18. y.live \in {x.live, None}
  BY <1>9, <1>10
<1> QED BY <1>1, <1>10, <1>16, <1>17, <1>18 DEF own

\* From x to y the copy is not rewound; D are the ids that were deleted.
Forward(x, y, D) ==
    /\ x.revision <= y.revision
    /\ \A i \in (DOMAIN x.messages \cap DOMAIN y.messages) \ D : Shows(x, i) => Shows(y, i)

\* A copy that is as new as the row, or gets there, by a document on its way.
LEMMA DownloadedOk ==
    ASSUME NEW R, NEW run, NEW D, NEW docs, StoreOk(R, run, D, docs),
           NEW x, NEW s, EntryOk(x, s, R, D, docs), NEW d \in docs, x.revision <= d.revision
    PROVE  /\ EntryOk(Downloaded(x, d), s, R, D, docs)
           /\ Forward(x, Downloaded(x, d), D)
<1> DEFINE y == Downloaded(x, d)
           own == (x.unsent \cap DOMAIN x.messages) \ DOMAIN d.messages
<1>1. /\ x \in Entry /\ d \in Document /\ x.revision \in Nat /\ d.revision \in Nat
      /\ docs \subseteq Document /\ d.revision <= R.revision
      /\ x.revision <= R.revision /\ R.revision \in Nat
  BY EntryFacts, DocumentFacts DEF EntryOk, StoreOk
<1>2. /\ y \in Entry /\ y.revision = d.revision /\ y.unsent = own
      /\ \A i \in DOMAIN y.messages :
            \/ i \in DOMAIN d.messages /\ y.messages[i].done = d.messages[i].done
            \/ /\ i \notin DOMAIN d.messages /\ i \in DOMAIN x.messages
               /\ y.messages[i].done = x.messages[i].done
               /\ i \in own \/ i = x.live
      /\ \A i \in DOMAIN d.messages \ DOMAIN y.messages : i = x.live /\ Running(d, i)
  BY <1>1, DownloadedEffect
<1> HIDE DEF y
<1>3. \A i : Running(y, i) => Running(d, i) \/ Running(x, i)
  BY <1>2 DEF Running
<1>4. \A i : Shows(y, i) => Shows(d, i) \/ Shows(x, i)
  BY <1>2 DEF Shows
<1>5. DOMAIN y.messages \subseteq DOMAIN R.messages \cup D \cup y.unsent
  <2>1. SUFFICES ASSUME NEW i \in DOMAIN y.messages, i \notin DOMAIN d.messages, i \notin own
                 PROVE  i \in DOMAIN R.messages \cup D
    BY <1>2 DEF StoreOk
  <2>2. i \in DOMAIN x.messages /\ i \notin x.unsent
    BY <1>2, <2>1
  <2> QED BY <2>2 DEF EntryOk
<1>6. PromptsDone(y)
  BY <1>3 DEF PromptsDone, EntryOk, StoreOk
<1>7. ASSUME NEW i \in Replies \ D, Before(docs, i, x.revision)
      PROVE  Before(docs, i, y.revision) /\ ~ Running(d, i)
  <2>1. Before(docs, i, y.revision)
    BY <1>1, <1>2, <1>7, BeforeGrows
  <2> QED BY <1>1, <1>7, <2>1 DEF Before
<1>8. ASSUME NEW i \in Replies \ D, Shows(y, i) PROVE Before(docs, i, y.revision)
  BY <1>2, <1>4, <1>7, <1>8 DEF EntryOk, StoreOk
<1>9. ASSUME NEW i \in Replies \ D, Shows(R, i), ~ Pending(s, i)
      PROVE  ~ Running(y, i) /\ Before(docs, i, y.revision)
  BY <1>3, <1>7, <1>9 DEF EntryOk
<1>10. ASSUME NEW i \in Replies \ D, Shows(R, i), y.revision = R.revision
       PROVE  ~ Running(y, i) /\ i \in DOMAIN y.messages
  <2>1. Shows(d, i) /\ ~ Running(d, i)
    BY <1>2, <1>10 DEF StoreOk, Shows, Running
  <2>2. i \in DOMAIN d.messages
    BY <2>1 DEF Shows
  <2> QED BY <1>2, <2>1, <2>2 DEF Running
<1>11. EntryOk(y, s, R, D, docs)
  BY <1>1, <1>2, <1>5, <1>6, <1>8, <1>9, <1>10 DEF EntryOk
<1>12. ASSUME NEW i \in (DOMAIN x.messages \cap DOMAIN y.messages) \ D, Shows(x, i)
       PROVE  Shows(y, i)
  <2>1. SUFFICES ASSUME Running(y, i) PROVE FALSE
    BY <1>12 DEF Shows, Running
  <2>2. Running(d, i)
    BY <1>3, <1>12, <2>1 DEF Shows, Running
  <2>3. i \in Ids
    BY <1>1, <1>12, EntryFacts
  <2>4. CASE i \in Prompts
    BY <1>6, <2>1, <2>4 DEF PromptsDone
  <2>5. CASE i \in Replies
    BY <1>7, <1>12, <2>2, <2>5 DEF EntryOk
  <2> QED BY <2>3, <2>4, <2>5 DEF Ids
<1>13. Forward(x, y, D)
  BY <1>2, <1>12 DEF Forward
<1> QED BY <1>11, <1>13 DEF y

LEMMA PutChatOk ==
    ASSUME NEW R, NEW run, NEW D, NEW docs, StoreOk(R, run, D, docs),
           NEW x, NEW s, EntryOk(x, s, R, D, docs), NEW d \in docs
    PROVE  /\ EntryOk(PutChat(x, d), s, R, D, docs)
           /\ Forward(x, PutChat(x, d), D)
<1>1. x.revision \in Nat /\ d.revision \in Nat
  BY EntryFacts, DocumentFacts DEF EntryOk, StoreOk
<1>2. CASE d.revision < x.revision
  BY <1>1, <1>2 DEF PutChat, Forward
<1>3. CASE ~ d.revision < x.revision
  BY <1>1, <1>3, DownloadedOk DEF PutChat
<1> QED BY <1>2, <1>3

\* A change that ends no message and leaves the revision: some messages may go,
\* unless the copy is as new as the row.
LEMMA SameFlags ==
    ASSUME NEW R, NEW D, NEW docs, NEW x, NEW s, EntryOk(x, s, R, D, docs),
           NEW y \in Entry, y.revision = x.revision, y.unsent = x.unsent,
           DOMAIN y.messages \subseteq DOMAIN x.messages,
           \A i \in DOMAIN y.messages : y.messages[i].done = x.messages[i].done,
           DOMAIN y.messages = DOMAIN x.messages \/ x.revision # R.revision
    PROVE  EntryOk(y, s, R, D, docs) /\ Forward(x, y, D)
<1>1. \A i : /\ Running(y, i) => Running(x, i)
             /\ Shows(y, i) => Shows(x, i)
  BY DEF Running, Shows
<1>2. Forward(x, y, D)
  BY EntryFacts DEF Forward, Shows, EntryOk
<1>3. EntryOk(y, s, R, D, docs)
  BY <1>1 DEF EntryOk, PromptsDone
<1> QED BY <1>2, <1>3

\* A turn that is shown before it is sent; its reply is in no document.
LEMMA ShownOk ==
    ASSUME NEW R, NEW D, NEW docs, NEW x, NEW s, EntryOk(x, s, R, D, docs),
           NEW t \in Turn, t.reply \notin DOMAIN R.messages,
           NEW y \in Entry, y.revision = x.revision,
           y.unsent = x.unsent \cup {t.user, t.reply},
           DOMAIN y.messages = DOMAIN x.messages \cup {t.user, t.reply},
           \A i \in DOMAIN x.messages : y.messages[i].done = x.messages[i].done,
           ~ Running(y, t.user), Running(y, t.reply)
    PROVE  EntryOk(y, s, R, D, docs) /\ Forward(x, y, D)
<1>1. /\ \A i : Running(y, i) => Running(x, i) \/ i = t.reply
      /\ \A i : Shows(y, i) => Shows(x, i) \/ i = t.user
      /\ t.user \in Prompts /\ t.user \notin Replies /\ t.reply \notin Prompts
      /\ ~ Shows(R, t.reply)
  BY TurnFacts, HistoryAssumption DEF Running, Shows
<1>2. Forward(x, y, D)
  BY EntryFacts DEF Forward, Shows, EntryOk
<1>3. PromptsDone(y)
  BY <1>1 DEF EntryOk, PromptsDone
<1>4. EntryOk(y, s, R, D, docs)
  BY <1>1, <1>3 DEF EntryOk
<1> QED BY <1>2, <1>4

\* A turn that failed: its reply, in no document, ends here.
LEMMA FailedOk ==
    ASSUME NEW R, NEW D, NEW docs, R \in docs, NEW x, NEW s, EntryOk(x, s, R, D, docs),
           NEW t \in Turn, \A d \in docs : t.reply \notin DOMAIN d.messages
    PROVE  LET y == Failed(x, t)
           IN  /\ EntryOk(y, s, R, D, docs) /\ Forward(x, y, D)
               /\ y \in Entry /\ y.unsent = x.unsent /\ y.revision = x.revision
               /\ y.later = x.later /\ y.live \in {x.live, None}
               /\ DOMAIN y.messages = DOMAIN x.messages
               /\ \A i \in DOMAIN x.messages : y.messages[i].kids = x.messages[i].kids
<1> DEFINE m == IF t.reply \in DOMAIN x.messages
                THEN [x.messages EXCEPT ![t.reply].done = TRUE] ELSE x.messages
           live == IF x.live = t.reply THEN None ELSE x.live
           z == [x EXCEPT !.messages = m, !.live = live]
           y == Failed(x, t)
<1>0. x \in Entry
  BY DEF EntryOk
<1>1. /\ x.revision \in Nat /\ x.messages \in Messages /\ IsMessages(x.messages)
      /\ \A i \in DOMAIN x.messages : x.messages[i] \in Message
      /\ x.live \in Replies \cup {None}
  BY <1>0, EntryFacts
<1>2. y = z
  BY <1>0 DEF Failed, Entry
<1>3. /\ m \in Messages /\ DOMAIN m = DOMAIN x.messages
      /\ \A j \in DOMAIN m : /\ m[j].kids = x.messages[j].kids
                             /\ j # t.reply => m[j].done = x.messages[j].done
                             /\ j = t.reply => m[j].done
  <2>1. \A w \in Message : /\ [w EXCEPT !.done = TRUE] \in Message
                           /\ [w EXCEPT !.done = TRUE].kids = w.kids
                           /\ [w EXCEPT !.done = TRUE].done
    BY DEF Message
  <2> QED BY <1>1, <2>1, MessagesAre DEF IsMessages
<1> HIDE DEF m
<1>4. /\ z \in Entry /\ z.messages = m /\ z.revision = x.revision /\ z.unsent = x.unsent
      /\ z.later = x.later /\ z.live \in {x.live, None}
  BY <1>0, <1>1, <1>3 DEF Entry
<1> HIDE DEF z, y
<1>5. /\ \A i : Running(y, i) => Running(x, i)
      /\ \A i : Shows(y, i) => Shows(x, i) \/ i = t.reply
      /\ \A i : Shows(x, i) => Shows(y, i)
  BY <1>2, <1>3, <1>4 DEF Running, Shows
<1>6. \A v : Before(docs, t.reply, v)
  BY DEF Before, Running
<1>7. EntryOk(y, s, R, D, docs)
  BY <1>2, <1>3, <1>4, <1>5, <1>6 DEF EntryOk, PromptsDone
<1>8. Forward(x, y, D)
  BY <1>1, <1>2, <1>4, <1>5 DEF Forward
<1> QED BY <1>2, <1>3, <1>4, <1>7, <1>8 DEF y

LEMMA LinkMentions ==
    ASSUME NEW m, IsMessages(m), NEW p \in Ids \cup {None}, NEW k \in Ids
    PROVE  Mentions(LinkChild(m, p, k)) \subseteq Mentions(m) \cup {k}
<1> DEFINE n == LinkChild(m, p, k)
<1>1. DOMAIN n = DOMAIN m
  BY LinkChildType
<1>2. \A j \in DOMAIN m : m[j] \in Message
  BY DEF IsMessages
<1>3. \A j \in DOMAIN m : n[j].kids \subseteq m[j].kids \cup {k}
  BY <1>2 DEF LinkChild, IsMessages, Message
<1> HIDE DEF n
<1> QED BY <1>1, <1>3 DEF Mentions, n

LEMMA PutMentions ==
    ASSUME NEW m, NEW i, NEW x
    PROVE  Mentions(Put(m, i, x)) \subseteq Mentions(m) \cup {i} \cup x.kids
<1>1. /\ DOMAIN Put(m, i, x) = DOMAIN m \cup {i}
      /\ \A j \in DOMAIN m \cup {i} : Put(m, i, x)[j] = IF j = i THEN x ELSE m[j]
  BY DEF Put
<1> QED BY <1>1 DEF Mentions

\* A turn that arrives: its prompt is finished, and it names its own ids only.
LEMMA AdoptedEffect ==
    ASSUME NEW m, IsMessages(m), NEW t \in Turn, ~ t.done
    PROVE  /\ t.user \notin DOMAIN m => Adopted(m, t)[t.user].done
           /\ Mentions(Adopted(m, t)) \subseteq Mentions(m) \cup {t.user, t.reply}
<1> DEFINE prompt == [parent |-> t.parent, kids |-> {t.reply}, text |-> t.text, done |-> TRUE]
           listed == LinkChild(m, t.user, t.reply)
           put    == Put(m, t.user, prompt)
           prompted == IF t.user \in DOMAIN m THEN listed ELSE put
           reply == [parent |-> t.user, kids |-> {}, text |-> Blank, done |-> t.done]
           replied == IF t.reply \in DOMAIN m THEN Parented(prompted, t.reply, t.user)
                      ELSE Put(prompted, t.reply, reply)
<1>1. /\ t.user \in Ids /\ t.reply \in Ids /\ t.user # t.reply
      /\ t.parent \in Ids \cup {None} /\ t.text \in Texts /\ t.done \in BOOLEAN
  BY TurnFacts
<1>2. prompt \in Message /\ reply \in Message /\ prompt.kids = {t.reply} /\ reply.kids = {}
  BY <1>1, HistoryAssumption DEF Message
<1>3. Adopted(m, t) = LinkChild(replied, replied[t.user].parent, t.user)
  BY DEF Adopted, LinkChild
<1>4. /\ IsMessages(listed) /\ DOMAIN listed = DOMAIN m
      /\ Mentions(listed) \subseteq Mentions(m) \cup {t.reply}
  <2>1. t.user \in Ids \cup {None}
    BY <1>1
  <2>2. IsMessages(listed) /\ DOMAIN listed = DOMAIN m
    BY <1>1, <2>1, LinkKeepsDone
  <2>3. Mentions(listed) \subseteq Mentions(m) \cup {t.reply}
    BY <1>1, <2>1, LinkMentions
  <2> QED BY <2>2, <2>3
<1>5. /\ IsMessages(put) /\ DOMAIN put = DOMAIN m \cup {t.user} /\ put[t.user].done
      /\ Mentions(put) \subseteq Mentions(m) \cup {t.user, t.reply}
  <2>1. put[t.user] = prompt /\ prompt.done
    BY DEF Put
  <2> HIDE DEF prompt
  <2>2. IsMessages(put) /\ DOMAIN put = DOMAIN m \cup {t.user}
    <3>1. IsMessages(put)
      BY <1>1, <1>2, PutType
    <3>2. DOMAIN put = DOMAIN m \cup {t.user}
      BY DEF Put
    <3> QED BY <3>1, <3>2
  <2>3. Mentions(put) \subseteq Mentions(m) \cup {t.user} \cup prompt.kids
    BY PutMentions
  <2> QED BY <1>2, <2>1, <2>2, <2>3
<1> HIDE DEF listed, put
<1>6. /\ IsMessages(prompted) /\ DOMAIN prompted = DOMAIN m \cup {t.user}
      /\ t.user \notin DOMAIN m => prompted[t.user].done
      /\ Mentions(prompted) \subseteq Mentions(m) \cup {t.user, t.reply}
  BY <1>4, <1>5
<1> HIDE DEF prompted, reply
<1>7. /\ IsMessages(replied) /\ t.user \in DOMAIN replied
      /\ t.user \notin DOMAIN m => replied[t.user].done
      /\ Mentions(replied) \subseteq Mentions(m) \cup {t.user, t.reply}
  <2>1. CASE t.reply \in DOMAIN m
    <3> DEFINE named == Parented(prompted, t.reply, t.user)
    <3>1. replied = named
      BY <2>1
    <3>2. /\ IsMessages(named) /\ DOMAIN named = DOMAIN prompted
          /\ \A j \in DOMAIN prompted : /\ named[j].done = prompted[j].done
                                      /\ named[j].kids = prompted[j].kids
      BY <1>1, <1>6, <2>1, ParentedFacts
    <3>3. Mentions(named) \subseteq Mentions(prompted)
      BY <3>2 DEF Mentions
    <3> HIDE DEF named, replied
    <3> QED BY <1>6, <2>1, <3>1, <3>2, <3>3
  <2>2. CASE t.reply \notin DOMAIN m
    <3> DEFINE n == Put(prompted, t.reply, reply)
    <3>1. replied = n
      BY <2>2
    <3>2. IsMessages(n)
      BY <1>1, <1>2, <1>6, PutType
    <3>3. DOMAIN n = DOMAIN prompted \cup {t.reply} /\ n[t.user] = prompted[t.user]
      BY <1>1, <1>6 DEF Put
    <3>4. Mentions(n) \subseteq Mentions(prompted) \cup {t.reply} \cup reply.kids
      BY PutMentions
    <3> HIDE DEF n, replied
    <3> QED BY <1>2, <1>6, <3>1, <3>2, <3>3, <3>4
  <2> QED BY <2>1, <2>2
<1> HIDE DEF replied
<1>8. replied[t.user].parent \in Ids \cup {None}
  BY <1>7 DEF IsMessages, Message
<1> DEFINE adopted == LinkChild(replied, replied[t.user].parent, t.user)
<1>9. \A j \in DOMAIN replied : adopted[j].done = replied[j].done
  BY <1>1, <1>7, <1>8, LinkKeepsDone
<1>10. Mentions(adopted) \subseteq Mentions(replied) \cup {t.user}
  BY <1>1, <1>7, <1>8, LinkMentions
<1>11. Adopted(m, t) = adopted
  BY <1>3
<1> HIDE DEF adopted
<1> QED BY <1>7, <1>9, <1>10, <1>11

\* The oldest event, a turn: the reply it brings runs, or is about to be
\* finished by a later event, or was deleted.
LEMMA TurnArrivedOk ==
    ASSUME NEW R, NEW run, NEW D, NEW docs, StoreOk(R, run, D, docs),
           NEW x, NEW s, EntryOk(x, s, R, D, docs), QueueOk(s, R, run, D, docs), s # <<>>,
           NEW t, Head(s).kind = "turn", Head(s).turn = t, t \in Turn, ~ t.done
    PROVE  LET y == TurnArrived(x, t)
           IN  /\ EntryOk(y, Tail(s), R, D, docs) /\ Forward(x, y, D)
               /\ y \in Entry /\ y.unsent = x.unsent \ {t.user, t.reply}
               /\ y.live = x.live /\ DOMAIN y.messages = DOMAIN x.messages \cup {t.user, t.reply}
               /\ \A i \in DOMAIN x.messages : y.messages[i].done = x.messages[i].done
               /\ Mentions(y.messages) \subseteq Mentions(x.messages) \cup {t.user, t.reply}
<1> DEFINE m == Adopted(x.messages, t)
           leaf == IF x.live = None /\ (x.leaf = None \/ Extends(m, x.leaf, t.reply))
                   THEN t.reply ELSE x.leaf
           z == [x EXCEPT !.messages = m, !.unsent = @ \ {t.user, t.reply}, !.leaf = leaf]
           y == TurnArrived(x, t)
<1>0. x \in Entry
  BY DEF EntryOk
<1>1. /\ x.revision \in Nat /\ x.messages \in Messages /\ IsMessages(x.messages)
      /\ DOMAIN x.messages \subseteq Ids
      /\ \A i \in DOMAIN x.messages : x.messages[i] \in Message
      /\ x.live \in Replies \cup {None} /\ x.unsent \subseteq Ids /\ x.leaf \in Ids \cup {None}
  BY <1>0, EntryFacts
<1>2. y = z
  BY <1>0 DEF TurnArrived, Entry
<1>3. /\ IsMessages(m) /\ DOMAIN m = DOMAIN x.messages \cup {t.user, t.reply}
      /\ \A j \in DOMAIN x.messages : m[j].done = x.messages[j].done
      /\ t.user \notin DOMAIN x.messages => m[t.user].done
      /\ Mentions(m) \subseteq Mentions(x.messages) \cup {t.user, t.reply}
      /\ t.reply \notin DOMAIN x.messages => ~ m[t.reply].done
  <2> DEFINE n == x.messages
  <2>1. IsMessages(n)
    BY <1>1
  <2> HIDE DEF n
  <2>2. /\ IsMessages(Adopted(n, t)) /\ DOMAIN Adopted(n, t) = DOMAIN n \cup {t.user, t.reply}
        /\ \A j \in DOMAIN n : Adopted(n, t)[j].done = n[j].done
        /\ t.reply \notin DOMAIN n => ~ Adopted(n, t)[t.reply].done
    BY <2>1, AdoptedGood
  <2>3. /\ t.user \notin DOMAIN n => Adopted(n, t)[t.user].done
        /\ Mentions(Adopted(n, t)) \subseteq Mentions(n) \cup {t.user, t.reply}
    BY <2>1, AdoptedEffect
  <2> QED BY <2>2, <2>3 DEF n
<1> HIDE DEF m
<1>4. leaf \in Ids \cup {None} /\ m \in Messages
  BY <1>1, <1>3, TurnFacts, MessagesAre
<1> HIDE DEF leaf
<1>5. /\ z \in Entry /\ z.messages = m /\ z.live = x.live /\ z.revision = x.revision
      /\ z.unsent = x.unsent \ {t.user, t.reply}
  BY <1>0, <1>4 DEF Entry
<1> HIDE DEF z, y
<1>6. /\ \A i : Running(y, i) => Running(x, i) \/ (i = t.reply /\ t.reply \notin DOMAIN x.messages)
      /\ \A i : Shows(y, i) => Shows(x, i) \/ i = t.user
      /\ \A i : Shows(x, i) => Shows(y, i)
  BY <1>2, <1>3, <1>5 DEF Running, Shows
<1>7. /\ t.user \in Prompts /\ t.reply \in Replies /\ t.user \notin Replies /\ t.reply \notin Prompts
  BY TurnFacts, HistoryAssumption
<1>8. /\ 1 \in DOMAIN s /\ s[1].kind = "turn" /\ s[1].turn = t
      /\ \A r : Pending(s, r) <=> Pending(Tail(s), r)
  BY QueueTail DEF IsDone
<1>9. /\ t.user \in DOMAIN R.messages \cup D /\ t.reply \in DOMAIN R.messages \cup D
      /\ t.reply \in run \/ Pending(s, t.reply)
  BY <1>8 DEF QueueOk, Pending
<1>10. ASSUME t.reply \notin D, Shows(R, t.reply) PROVE Pending(s, t.reply)
  BY <1>7, <1>9, <1>10 DEF StoreOk, Running, Shows
<1>11. PromptsDone(y)
  BY <1>6, <1>7 DEF PromptsDone, EntryOk
<1>12. DOMAIN y.messages \subseteq DOMAIN R.messages \cup D \cup y.unsent
  BY <1>2, <1>3, <1>5, <1>9 DEF EntryOk
<1>13. ASSUME NEW i \in Replies \ D
       PROVE  /\ Shows(y, i) => Before(docs, i, y.revision)
              /\ Shows(R, i) /\ ~ Pending(Tail(s), i)
                    => ~ Running(y, i) /\ Before(docs, i, y.revision)
              /\ Shows(R, i) /\ y.revision = R.revision
                    => ~ Running(y, i) /\ (i \notin DOMAIN y.messages => ~ Pending(Tail(s), i))
  <2>1. y.revision = x.revision /\ DOMAIN x.messages \subseteq DOMAIN y.messages
    BY <1>2, <1>3, <1>5
  <2>2. Shows(y, i) => Before(docs, i, y.revision)
    BY <1>6, <1>7, <2>1 DEF EntryOk
  <2>3. ASSUME Shows(R, i), ~ Pending(Tail(s), i)
        PROVE  ~ Running(y, i) /\ Before(docs, i, y.revision)
    BY <1>6, <1>8, <1>10, <2>1, <2>3 DEF EntryOk
  <2>4. ASSUME Shows(R, i), y.revision = R.revision
        PROVE  ~ Running(y, i) /\ (i \notin DOMAIN y.messages => ~ Pending(Tail(s), i))
    <3>1. ~ Running(x, i) /\ (i \notin DOMAIN x.messages => ~ Pending(s, i))
      BY <2>1, <2>4 DEF EntryOk
    <3> QED BY <1>6, <1>8, <1>10, <2>1, <2>4, <3>1
  <2> QED BY <2>2, <2>3, <2>4
<1>14. EntryOk(y, Tail(s), R, D, docs)
  BY <1>2, <1>5, <1>11, <1>12, <1>13 DEF EntryOk
<1>15. Forward(x, y, D)
  BY <1>1, <1>2, <1>5, <1>6 DEF Forward
<1> QED BY <1>2, <1>3, <1>5, <1>14, <1>15 DEF y

\* The oldest event, a completion: the reply is finished, or not shown.
LEMMA CompletedOk ==
    ASSUME NEW R, NEW run, NEW D, NEW docs, StoreOk(R, run, D, docs),
           NEW x, NEW s, EntryOk(x, s, R, D, docs), QueueOk(s, R, run, D, docs), s # <<>>,
           NEW e, Head(s) = e, e.kind = "done"
    PROVE  LET y == Completed(x, e)
           IN  /\ EntryOk(y, Tail(s), R, D, docs) /\ Forward(x, y, D)
               /\ y \in Entry /\ y.unsent = x.unsent
               /\ y.live \in {x.live, None} /\ DOMAIN y.messages = DOMAIN x.messages
               /\ \A i \in DOMAIN x.messages :
                     /\ y.messages[i].kids = x.messages[i].kids
                     /\ i # e.reply => y.messages[i].done = x.messages[i].done
               /\ e.reply \in DOMAIN R.messages \cup D
<1> DEFINE waiting == e.reply \in DOMAIN x.messages /\ ~ x.messages[e.reply].done
           ended == [x.messages EXCEPT ![e.reply].text = e.text, ![e.reply].done = TRUE]
           m == IF waiting THEN ended ELSE x.messages
           live == IF waiting /\ x.live = e.reply THEN None ELSE x.live
           z == [x EXCEPT !.messages = m, !.live = live]
           y == Completed(x, e)
<1>0. x \in Entry
  BY DEF EntryOk
<1>1. /\ x.revision \in Nat /\ x.messages \in Messages /\ IsMessages(x.messages)
      /\ DOMAIN x.messages \subseteq Ids
      /\ \A i \in DOMAIN x.messages : x.messages[i] \in Message
      /\ x.live \in Replies \cup {None} /\ x.later \in Nat
  BY <1>0, EntryFacts
<1>2. /\ e \in Event /\ e.reply \in Replies /\ e.text \in Texts /\ e.revision \in Nat
      /\ 1 \in DOMAIN s /\ s[1] = e
      /\ \A r : Pending(s, r) <=> r = e.reply \/ Pending(Tail(s), r)
  <2>1. /\ e \in Event /\ 1 \in DOMAIN s /\ s[1] = e
        /\ \A r : Pending(s, r) <=> IsDone(e, r) \/ Pending(Tail(s), r)
    BY QueueTail
  <2> QED BY <2>1 DEF Event, IsDone
<1>3. /\ m \in Messages /\ DOMAIN m = DOMAIN x.messages
      /\ \A j \in DOMAIN m : /\ m[j].kids = x.messages[j].kids
                             /\ j # e.reply => m[j].done = x.messages[j].done
                             /\ j = e.reply => m[j].done
  <2>1. \A w \in Message : /\ [w EXCEPT !.text = e.text, !.done = TRUE] \in Message
                           /\ [w EXCEPT !.text = e.text, !.done = TRUE].kids = w.kids
                           /\ [w EXCEPT !.text = e.text, !.done = TRUE].done
    BY <1>2 DEF Message
  <2>2. CASE waiting
    <3>1. ended = [x.messages EXCEPT ![e.reply] =
                      [x.messages[e.reply] EXCEPT !.text = e.text, !.done = TRUE]]
      BY <1>1, <2>2 DEF Message
    <3> DEFINE w == [x.messages[e.reply] EXCEPT !.text = e.text, !.done = TRUE]
    <3>2. w \in Message /\ w.kids = x.messages[e.reply].kids /\ w.done
      <4>1. x.messages[e.reply] \in Message
        BY <1>1, <2>2
      <4> QED BY <2>1, <4>1, Zenon
    <3> HIDE DEF w
    <3>3. /\ ended \in [DOMAIN x.messages -> Message]
          /\ \A j \in DOMAIN x.messages : ended[j] = IF j = e.reply THEN w ELSE x.messages[j]
      <4>1. ended = [x.messages EXCEPT ![e.reply] = w]
        BY <3>1 DEF w
      <4> HIDE DEF ended
      <4> QED BY <1>1, <2>2, <3>2, <4>1 DEF IsMessages
    <3>4. m = ended
      BY <2>2
    <3> HIDE DEF ended, m
    <3>5. m \in Messages /\ DOMAIN m = DOMAIN x.messages
      BY <1>1, <3>3, <3>4 DEF Messages
    <3> QED BY <3>2, <3>3, <3>4, <3>5
  <2>3. CASE ~ waiting
    BY <1>1, <2>3
  <2> QED BY <2>2, <2>3
<1>4. live \in Replies \cup {None} /\ live \in {x.live, None}
  BY <1>1
<1>5. /\ z \in Entry /\ z.messages = m /\ z.live = live /\ z.unsent = x.unsent
      /\ z.revision = x.revision /\ z.later = x.later
  <2> HIDE DEF m, live
  <2> QED BY <1>0, <1>3, <1>4 DEF Entry
<1> DEFINE finished == IF waiting THEN [x EXCEPT !.messages[e.reply].text = e.text,
                                          !.messages[e.reply].done = TRUE,
                                          !.live = IF @ = e.reply THEN None ELSE @]
                       ELSE x
<1>6. finished = z
  <2>1. CASE ~ waiting
    BY <1>0, <2>1 DEF Entry
  <2>2. CASE waiting
    <3>1. m = ended /\ live = IF x.live = e.reply THEN None ELSE x.live
      BY <2>2
    <3> HIDE DEF m, live
    <3> QED BY <1>0, <2>2, <3>1 DEF Entry
  <2> QED BY <2>1, <2>2
<1> DEFINE later == IF z.later <= e.revision THEN 0 ELSE z.later
           newer == [z EXCEPT !.revision = e.revision, !.later = later]
<1>7. /\ y \in Entry /\ y.messages = m /\ y.live = live /\ y.unsent = x.unsent
      /\ y.revision \in {x.revision, e.revision}
      /\ x.revision <= y.revision /\ e.revision <= y.revision
  <2> DEFINE last == IF finished.later <= e.revision THEN 0 ELSE finished.later
  <2>0. y = IF e.revision < x.revision THEN finished
            ELSE [finished EXCEPT !.revision = e.revision, !.later = last]
    BY DEF Completed
  <2> HIDE DEF y, z, m, live, waiting, finished
  <2>1. y = IF e.revision < x.revision THEN z ELSE newer
    BY <1>6, <2>0, Zenon
  <2>2. later \in Nat
    BY <1>1, <1>5
  <2> HIDE DEF later
  <2>3. /\ newer \in Entry /\ newer.messages = m /\ newer.live = live
        /\ newer.unsent = x.unsent /\ newer.revision = e.revision
    BY <1>2, <1>5, <2>2 DEF Entry
  <2> HIDE DEF newer
  <2>4. CASE e.revision < x.revision
    <3>1. y = z
      BY <2>1, <2>4
    <3> QED BY <1>1, <1>2, <1>5, <2>4, <3>1
  <2>5. CASE ~ e.revision < x.revision
    <3>1. y = newer
      BY <2>1, <2>5
    <3> QED BY <1>1, <1>2, <2>3, <2>5, <3>1
  <2> QED BY <2>4, <2>5
<1> HIDE DEF m, live, waiting, finished, y, z, later, newer
<1>8. x.revision <= y.revision /\ e.revision <= y.revision /\ y.revision \in Nat
  BY <1>1, <1>2, <1>7
<1>9. /\ \A i : Running(y, i) => Running(x, i) /\ i # e.reply
      /\ \A i : Shows(y, i) => Shows(x, i) \/ i = e.reply
      /\ \A i : Shows(x, i) => Shows(y, i)
  BY <1>3, <1>7 DEF Running, Shows
<1>10. /\ e.revision <= R.revision /\ e.reply \in DOMAIN R.messages \cup D
       /\ e.reply \notin D => Before(docs, e.reply, e.revision)
  BY <1>2 DEF QueueOk
<1>11. docs \subseteq Document /\ R.revision \in Nat /\ x.revision <= R.revision
  BY DocumentFacts DEF StoreOk, EntryOk
<1>12. \A i : Before(docs, i, x.revision) => Before(docs, i, y.revision)
  BY <1>1, <1>8, <1>11, BeforeGrows
<1>13. e.reply \notin D => Before(docs, e.reply, y.revision)
  BY <1>2, <1>8, <1>10, <1>11, BeforeGrows
<1>14. ASSUME NEW i \in Replies \ D
       PROVE  /\ Shows(y, i) => Before(docs, i, y.revision)
              /\ Shows(R, i) /\ ~ Pending(Tail(s), i)
                    => ~ Running(y, i) /\ Before(docs, i, y.revision)
              /\ Shows(R, i) /\ y.revision = R.revision
                    => ~ Running(y, i) /\ (i \notin DOMAIN y.messages => ~ Pending(Tail(s), i))
  <2>1. Shows(y, i) => Before(docs, i, y.revision)
    BY <1>9, <1>12, <1>13 DEF EntryOk
  <2>2. ASSUME Shows(R, i), ~ Pending(Tail(s), i)
        PROVE  ~ Running(y, i) /\ Before(docs, i, y.revision)
    BY <1>2, <1>9, <1>12, <1>13, <2>2 DEF EntryOk
  <2>3. ASSUME Shows(R, i), y.revision = R.revision
        PROVE  ~ Running(y, i) /\ (i \notin DOMAIN y.messages => ~ Pending(Tail(s), i))
    \* The completion of the newest revision is the last one.
    <3>1. CASE y.revision = e.revision
      <4>1. e.revision = R.revision
        BY <2>3, <3>1
      <4>2. ~ Pending(Tail(s), i)
        <5>1. SUFFICES ASSUME NEW n \in DOMAIN Tail(s), Tail(s)[n].kind = "done" PROVE FALSE
          BY DEF Pending, IsDone
        <5>2. n \in Nat /\ n + 1 \in DOMAIN s /\ s[n + 1] = Tail(s)[n] /\ 1 < n + 1
          BY DEF QueueOk
        <5>3. e.revision < s[n + 1].revision /\ s[n + 1].revision <= R.revision
          BY <1>2, <5>1, <5>2 DEF QueueOk
        <5>4. s[n + 1].revision \in Nat
          BY <5>1, <5>2 DEF QueueOk, Event
        <5> QED BY <1>11, <4>1, <5>3, <5>4
      <4> QED BY <2>2, <2>3, <4>2
    <3>2. CASE y.revision = x.revision
      <4>1. x.revision = R.revision
        BY <2>3, <3>2
      <4>2. ~ Running(x, i) /\ (i \notin DOMAIN x.messages => ~ Pending(s, i))
        BY <2>3, <4>1 DEF EntryOk
      <4> QED BY <1>2, <1>3, <1>7, <1>9, <4>2
    <3> QED BY <1>7, <3>1, <3>2
  <2> QED BY <2>1, <2>2, <2>3
<1>15. EntryOk(y, Tail(s), R, D, docs)
  <2>1. y.revision <= R.revision
    BY <1>7, <1>10, <1>11
  <2>2. PromptsDone(y) /\ DOMAIN y.messages \subseteq DOMAIN R.messages \cup D \cup y.unsent
    BY <1>3, <1>7, <1>9 DEF EntryOk, PromptsDone
  <2> QED BY <1>7, <1>14, <2>1, <2>2 DEF EntryOk
<1>16. Forward(x, y, D)
  BY <1>8, <1>9 DEF Forward
<1> QED BY <1>3, <1>4, <1>7, <1>10, <1>15, <1>16 DEF y

----------------------------------------------------------------------------
(* What is written.                                                        *)

\* A new turn: the prompt is finished, the reply runs, the rest is as it was,
\* but for the parent, which lists the prompt.
LEMMA AppendTurnEffect ==
    ASSUME NEW m, IsMessages(m), NEW t \in Turn, ~ t.done,
           t.user \notin DOMAIN m, t.reply \notin DOMAIN m
    PROVE  LET n == AppendTurn(m, t)
           IN  /\ IsMessages(n) /\ DOMAIN n = DOMAIN m \cup {t.user, t.reply}
               /\ \A j \in DOMAIN m : n[j].done = m[j].done
               /\ \A j \in DOMAIN m \ {t.parent} : n[j].kids = m[j].kids
               /\ t.parent \in DOMAIN m => n[t.parent].kids = m[t.parent].kids \cup {t.user}
               /\ n[t.user].done
               /\ ~ n[t.reply].done
               /\ Mentions(n) \subseteq Mentions(m) \cup {t.user, t.reply}
<1> DEFINE prompt == [parent |-> t.parent, kids |-> {t.reply}, text |-> t.text, done |-> TRUE]
           reply  == [parent |-> t.user, kids |-> {}, text |-> Blank, done |-> t.done]
           put    == Put(m, t.user, prompt)
           w      == LinkChild(put, t.parent, t.user)
           n      == Put(w, t.reply, reply)
<1>1. /\ t.user \in Ids /\ t.reply \in Ids /\ t.user # t.reply
      /\ t.parent \in Ids \cup {None} /\ t.text \in Texts /\ t.done \in BOOLEAN
  BY TurnFacts
<1>2. /\ prompt \in Message /\ reply \in Message
      /\ prompt.kids = {t.reply} /\ reply.kids = {} /\ prompt.done /\ ~ reply.done
      /\ prompt.parent = t.parent
  BY <1>1, HistoryAssumption DEF Message
<1>3. /\ IsMessages(put) /\ DOMAIN put = DOMAIN m \cup {t.user} /\ put[t.user] = prompt
      /\ \A j \in DOMAIN m : put[j] = m[j]
      /\ Mentions(put) \subseteq Mentions(m) \cup {t.user, t.reply}
  <2> HIDE DEF prompt
  <2>1. IsMessages(put)
    BY <1>1, <1>2, PutType
  <2>2. /\ DOMAIN put = DOMAIN m \cup {t.user} /\ put[t.user] = prompt
        /\ \A j \in DOMAIN m : put[j] = m[j]
    BY DEF Put
  <2>3. Mentions(put) \subseteq Mentions(m) \cup {t.user} \cup prompt.kids
    BY PutMentions
  <2> QED BY <1>2, <2>1, <2>2, <2>3
<1> HIDE DEF put, prompt
<1>4. /\ IsMessages(w) /\ DOMAIN w = DOMAIN put
      /\ Mentions(w) \subseteq Mentions(put) \cup {t.user}
      /\ \A j \in DOMAIN put : /\ w[j].done = put[j].done /\ w[j].parent = put[j].parent
                               /\ w[j].kids = IF j = t.parent THEN put[j].kids \cup {t.user}
                                                              ELSE put[j].kids
  <2>0. IsMessages(put) /\ t.parent \in Ids \cup {None} /\ t.user \in Ids
    BY <1>1, <1>3
  <2>1. IsMessages(w) /\ DOMAIN w = DOMAIN put
    BY <2>0, LinkKeepsDone
  <2>2. Mentions(w) \subseteq Mentions(put) \cup {t.user}
    BY <2>0, LinkMentions
  <2>3. \A j \in DOMAIN put :
           w[j] = IF j = t.parent THEN [put[j] EXCEPT !.kids = @ \cup {t.user}] ELSE put[j]
    BY DEF LinkChild
  <2>4. \A z \in Message : /\ [z EXCEPT !.kids = @ \cup {t.user}].done = z.done
                           /\ [z EXCEPT !.kids = @ \cup {t.user}].parent = z.parent
                           /\ [z EXCEPT !.kids = @ \cup {t.user}].kids = z.kids \cup {t.user}
    BY DEF Message
  <2>5. \A j \in DOMAIN put : put[j] \in Message
    BY <1>3 DEF IsMessages
  <2> HIDE DEF w
  <2> QED BY <2>1, <2>2, <2>3, <2>4, <2>5
<1> HIDE DEF w
<1>5. AppendTurn(m, t) = n
  <2>1. WithPrompt(m, t) = w
    BY DEF WithPrompt, w, put, prompt
  <2> QED BY <1>1, <1>3, <1>4, <2>1 DEF AppendTurn
<1>6. /\ IsMessages(n) /\ DOMAIN n = DOMAIN w \cup {t.reply} /\ n[t.reply] = reply
      /\ \A j \in DOMAIN w \ {t.reply} : n[j] = w[j]
      /\ Mentions(n) \subseteq Mentions(w) \cup {t.reply}
  <2> HIDE DEF reply
  <2>1. IsMessages(n)
    BY <1>1, <1>2, <1>3, <1>4, PutType
  <2>2. /\ DOMAIN n = DOMAIN w \cup {t.reply} /\ n[t.reply] = reply
        /\ \A j \in DOMAIN w \ {t.reply} : n[j] = w[j]
    BY DEF Put
  <2>3. Mentions(n) \subseteq Mentions(w) \cup {t.reply} \cup reply.kids
    BY PutMentions
  <2> QED BY <1>2, <2>1, <2>2, <2>3
<1> HIDE DEF n, reply
<1>7. \A j \in DOMAIN m : /\ n[j].done = m[j].done
                          /\ n[j].kids = IF j = t.parent THEN m[j].kids \cup {t.user} ELSE m[j].kids
  BY <1>1, <1>3, <1>4, <1>6
<1>8. n[t.user].done /\ n[t.user].parent = t.parent /\ ~ n[t.reply].done
  <2>1. n[t.user] = w[t.user]
    BY <1>1, <1>3, <1>4, <1>6
  <2>2. w[t.user].done = prompt.done /\ w[t.user].parent = prompt.parent
    BY <1>3, <1>4
  <2> QED BY <1>2, <1>6, <2>1, <2>2
<1>9. DOMAIN n = DOMAIN m \cup {t.user, t.reply}
  BY <1>3, <1>4, <1>6
<1>10. Mentions(n) \subseteq Mentions(m) \cup {t.user, t.reply}
  BY <1>3, <1>4, <1>6
<1> QED BY <1>5, <1>6, <1>7, <1>8, <1>9, <1>10

\* A commit of messages m: the row R becomes R2, and D2 the deleted ids.
Written(R, D, R2, D2, m) ==
    /\ R2 = [revision |-> R.revision + 1, messages |-> m]
    /\ D2 = D \cup (DOMAIN R.messages \ DOMAIN R2.messages)

LEMMA TurnWrites ==
    ASSUME NEW R, NEW run, NEW D, NEW docs, StoreOk(R, run, D, docs),
           NEW t \in Turn, ~ t.done, {t.user, t.reply} \cap (DOMAIN R.messages \cup D) = {},
           NEW R2, NEW D2, Written(R, D, R2, D2, AppendTurn(R.messages, t))
    PROVE  Writes(R, run, D, R2, run \cup {t.reply}, D2, {t.reply}, {})
<1> USE DEF Written
<1>1. /\ R \in Document /\ R.revision \in Nat /\ IsMessages(R.messages) /\ PromptsDone(R)
  BY DocumentFacts DEF StoreOk
<1>2. /\ IsMessages(R2.messages) /\ DOMAIN R2.messages = DOMAIN R.messages \cup {t.user, t.reply}
      /\ \A j \in DOMAIN R.messages : R2.messages[j].done = R.messages[j].done
      /\ R2.messages[t.user].done /\ ~ R2.messages[t.reply].done
  <2> DEFINE m == R.messages
  <2>1. IsMessages(m) /\ t.user \notin DOMAIN m /\ t.reply \notin DOMAIN m
    BY <1>1
  <2> DEFINE n == AppendTurn(m, t)
  <2>2. R2.messages = n
    OBVIOUS
  <2> HIDE DEF m
  <2>3. /\ IsMessages(n) /\ DOMAIN n = DOMAIN m \cup {t.user, t.reply}
        /\ \A j \in DOMAIN m : n[j].done = m[j].done
        /\ n[t.user].done /\ ~ n[t.reply].done
    BY <2>1, AppendTurnEffect
  <2> HIDE DEF n
  <2> QED BY <2>2, <2>3 DEF m
<1>3. R2 \in Document /\ R2.revision = R.revision + 1
  BY <1>1, <1>2, MessagesAre DEF Document
<1>4. t.user \in Prompts /\ t.user \notin Replies /\ t.reply \in Replies /\ t.reply \notin Prompts
  BY TurnFacts, HistoryAssumption
<1>5. PromptsDone(R2)
  BY <1>1, <1>2, <1>4 DEF PromptsDone, Running
<1>6. Running(R2, t.reply)
  BY <1>2 DEF Running
<1> QED BY <1>2, <1>3, <1>4, <1>5, <1>6 DEF Writes

LEMMA FinishWrites ==
    ASSUME NEW R, NEW run, NEW D, NEW docs, StoreOk(R, run, D, docs),
           NEW r \in run, NEW text \in Texts,
           NEW R2, NEW D2, Written(R, D, R2, D2, SavedReply(R.messages, r, text))
    PROVE  /\ Writes(R, run, D, R2, run \ {r}, D2, {}, {r})
           /\ Mentions(R2.messages) \subseteq Mentions(R.messages) \cup {r}
<1> USE DEF Written
<1> DEFINE new == [MessageOrStub(R.messages, r) EXCEPT !.text = text, !.done = TRUE]
<1>1. /\ R \in Document /\ R.revision \in Nat /\ IsMessages(R.messages) /\ PromptsDone(R)
      /\ r \in Replies /\ r \notin Prompts /\ r \in Ids
  BY DocumentFacts, HistoryAssumption DEF StoreOk, Ids
<1>2. /\ new \in Message /\ new.done /\ new.kids = MessageOrStub(R.messages, r).kids
  BY <1>1, MessageOrStubType DEF Message
<1>3. R2.messages = Put(R.messages, r, new)
  BY DEF SavedReply
<1>4. new.kids \subseteq Mentions(R.messages)
  BY <1>2 DEF MessageOrStub, Stub, Mentions
<1> HIDE DEF new
<1>5. IsMessages(R2.messages)
  <2> DEFINE m == R.messages
  <2>1. IsMessages(m)
    BY <1>1
  <2> HIDE DEF m
  <2>2. IsMessages(Put(m, r, new))
    BY <1>1, <1>2, <2>1, PutType
  <2> QED BY <1>3, <2>2 DEF m
<1>6. /\ DOMAIN R2.messages = DOMAIN R.messages \cup {r} /\ R2.messages[r] = new
      /\ \A j \in DOMAIN R.messages \ {r} : R2.messages[j] = R.messages[j]
  BY <1>3 DEF Put
<1>7. Mentions(R2.messages) \subseteq Mentions(R.messages) \cup {r}
  <2>1. Mentions(Put(R.messages, r, new)) \subseteq Mentions(R.messages) \cup {r} \cup new.kids
    BY PutMentions
  <2> QED BY <1>3, <1>4, <2>1
<1>8. R2 \in Document /\ R2.revision = R.revision + 1
  BY <1>1, <1>5, MessagesAre DEF Document
<1>9. PromptsDone(R2) /\ Shows(R2, r)
  BY <1>1, <1>2, <1>6 DEF PromptsDone, Running, Shows
<1> QED BY <1>1, <1>6, <1>7, <1>8, <1>9 DEF Writes

\* A patch that is stored comes from a copy as new as the row, which says of
\* every stored message what the row says.
LEMMA PatchWrites ==
    ASSUME NEW R, NEW run, NEW D, NEW docs, StoreOk(R, run, D, docs),
           NEW x, NEW s, EntryOk(x, s, R, D, docs), x.revision = R.revision,
           NEW upsert, IsMessages(upsert), DOMAIN upsert \subseteq DOMAIN x.messages,
           DOMAIN upsert \cap x.unsent = {},
           \A i \in DOMAIN upsert : upsert[i].done = x.messages[i].done,
           NEW del,
           NEW R2, NEW D2, Written(R, D, R2, D2, HistoryPatch(R.messages, upsert, del))
    PROVE  Writes(R, run, D, R2, run, D2, {}, {})
<1> USE DEF Written
<1>1. /\ R \in Document /\ R.revision \in Nat /\ IsMessages(R.messages) /\ PromptsDone(R)
      /\ x \in Entry /\ PromptsDone(x)
      /\ \A i \in DOMAIN x.messages : x.messages[i] \in Message
      /\ \A i \in DOMAIN R.messages : R.messages[i] \in Message
  BY DocumentFacts, EntryFacts DEF StoreOk, EntryOk
<1>2. /\ IsMessages(R2.messages)
      /\ DOMAIN R2.messages = (DOMAIN R.messages \ del) \cup DOMAIN upsert
      /\ \A j \in DOMAIN upsert : R2.messages[j] = upsert[j]
      /\ \A j \in (DOMAIN R.messages \ del) \ DOMAIN upsert :
            R2.messages[j] = [R.messages[j] EXCEPT !.kids = @ \ del]
  <2> DEFINE m == R.messages
             n == HistoryPatch(m, upsert, del)
  <2>1. IsMessages(m) /\ R2.messages = n
    BY <1>1
  <2> HIDE DEF m
  <2>2. IsMessages(n)
    BY <2>1, HistoryPatchType
  <2>3. /\ DOMAIN n = (DOMAIN m \ del) \cup DOMAIN upsert
        /\ \A j \in DOMAIN upsert : n[j] = upsert[j]
        /\ \A j \in (DOMAIN m \ del) \ DOMAIN upsert : n[j] = [m[j] EXCEPT !.kids = @ \ del]
    BY DEF HistoryPatch, Prune
  <2> HIDE DEF n
  <2> QED BY <2>1, <2>2, <2>3 DEF m
<1>3. \A j \in (DOMAIN R.messages \ del) \ DOMAIN upsert : R2.messages[j].done = R.messages[j].done
  <2>1. \A z \in Message : [z EXCEPT !.kids = @ \ del].done = z.done
    BY DEF Message
  <2> QED BY <1>1, <1>2, <2>1
<1>4. R2 \in Document /\ R2.revision = R.revision + 1
  BY <1>1, <1>2, MessagesAre DEF Document
<1>5. PromptsDone(R2)
  BY <1>1, <1>2, <1>3 DEF PromptsDone, Running
<1>6. ASSUME NEW i \in Replies \ D2, i \in DOMAIN R2.messages
      PROVE  i \in DOMAIN R.messages /\ R2.messages[i].done = R.messages[i].done
  <2>1. CASE i \notin DOMAIN upsert
    BY <1>2, <1>3, <1>6, <2>1
  <2>2. CASE i \in DOMAIN upsert
    <3>1. i \in DOMAIN x.messages /\ i \notin x.unsent /\ i \notin D
      BY <1>6, <2>2
    <3>2. i \in DOMAIN R.messages
      BY <3>1 DEF EntryOk
    <3>3. R2.messages[i].done = x.messages[i].done
      BY <1>2, <2>2
    <3>4. x.messages[i].done \in BOOLEAN /\ R.messages[i].done \in BOOLEAN
      BY <1>1, <3>1, <3>2 DEF Message
    <3>5. CASE R.messages[i].done
      <4>1. Shows(R, i)
        BY <3>2, <3>5 DEF Shows
      <4>2. ~ Running(x, i)
        BY <1>6, <3>1, <4>1 DEF EntryOk
      <4> QED BY <3>1, <3>2, <3>3, <3>4, <3>5, <4>2 DEF Running
    <3>6. CASE ~ R.messages[i].done
      <4>1. Running(R, i)
        BY <3>2, <3>6 DEF Running
      <4>2. ~ Before(docs, i, x.revision)
        BY <1>1, <4>1 DEF Before, StoreOk
      <4>3. ~ Shows(x, i)
        BY <1>6, <3>1, <4>2 DEF EntryOk
      <4> QED BY <3>1, <3>2, <3>3, <3>4, <3>6, <4>3 DEF Shows
    <3> QED BY <3>5, <3>6
  <2> QED BY <2>1, <2>2
<1> QED BY <1>4, <1>5, <1>6 DEF Writes

LEMMA PatchMentions ==
    ASSUME NEW m, IsMessages(m), NEW upsert, NEW del
    PROVE  Mentions(HistoryPatch(m, upsert, del)) \subseteq Mentions(m) \cup Mentions(upsert)
<1> DEFINE n == HistoryPatch(m, upsert, del)
<1>1. /\ DOMAIN n = (DOMAIN m \ del) \cup DOMAIN upsert
      /\ \A j \in DOMAIN upsert : n[j] = upsert[j]
      /\ \A j \in (DOMAIN m \ del) \ DOMAIN upsert : n[j] = [m[j] EXCEPT !.kids = @ \ del]
  BY DEF HistoryPatch, Prune
<1>2. \A z \in Message : [z EXCEPT !.kids = @ \ del].kids \subseteq z.kids
  BY DEF Message
<1>3. \A j \in (DOMAIN m \ del) \ DOMAIN upsert : n[j].kids \subseteq m[j].kids
  BY <1>1, <1>2 DEF IsMessages
<1> HIDE DEF n
<1>4. \A j \in DOMAIN n : n[j].kids \subseteq Mentions(m) \cup Mentions(upsert)
  BY <1>1, <1>3 DEF Mentions
<1>5. DOMAIN n \subseteq Mentions(m) \cup Mentions(upsert)
  BY <1>1 DEF Mentions
<1> QED BY <1>4, <1>5 DEF Mentions, n

\* What a tab shows of its own edit, deletion, or moved turn: only parents,
\* children and texts change, and messages go.
Reshaped(x, y) ==
    /\ y \in Entry /\ y.revision = x.revision /\ y.unsent = x.unsent
    /\ y.live = x.live /\ y.later = x.later
    /\ DOMAIN y.messages \subseteq DOMAIN x.messages
    /\ \A i \in DOMAIN y.messages : y.messages[i].done = x.messages[i].done
    /\ Mentions(y.messages) \subseteq Mentions(x.messages)

\* A patch as the tab builds it, from the messages it shows.
BuiltFrom(upsert, m) ==
    /\ IsMessages(upsert) /\ DOMAIN upsert \subseteq DOMAIN m
    /\ \A i \in DOMAIN upsert : upsert[i].done = m[i].done
    /\ Mentions(upsert) \subseteq Mentions(m)

LEMMA EditEffect ==
    ASSUME NEW x \in Entry, NEW i \in DOMAIN x.messages, NEW text \in Texts,
           NEW upsert, upsert = EditUpsert(x.messages, i, text),
           NEW y, y = [x EXCEPT !.messages[i] = upsert[i]]
    PROVE  /\ BuiltFrom(upsert, x.messages)
           /\ Reshaped(x, y) /\ DOMAIN y.messages = DOMAIN x.messages
<1> DEFINE new == [x.messages[i] EXCEPT !.text = text]
           m == [x.messages EXCEPT ![i] = new]
           z == [x EXCEPT !.messages = m]
<1>1. /\ x.messages \in Messages /\ IsMessages(x.messages)
      /\ \A j \in DOMAIN x.messages : x.messages[j] \in Message
  BY EntryFacts
<1>2. new \in Message /\ new.done = x.messages[i].done /\ new.kids = x.messages[i].kids
  <2>1. \A w \in Message : /\ [w EXCEPT !.text = text] \in Message
                           /\ [w EXCEPT !.text = text].done = w.done
                           /\ [w EXCEPT !.text = text].kids = w.kids
    BY DEF Message
  <2>2. x.messages[i] \in Message
    BY <1>1
  <2> QED BY <2>1, <2>2, Zenon
<1>3. DOMAIN upsert = {i} /\ upsert[i] = new /\ i \in Ids
  BY <1>1 DEF EditUpsert, IsMessages
<1>4. IsMessages(upsert)
  <2> DEFINE n == x.messages
  <2>1. IsMessages(n) /\ i \in DOMAIN n
    BY <1>1
  <2>2. upsert = EditUpsert(n, i, text)
    OBVIOUS
  <2> HIDE DEF n
  <2>3. IsMessages(EditUpsert(n, i, text))
    BY <2>1, EditUpsertType
  <2> QED BY <2>2, <2>3
<1>5. y = z
  BY <1>3 DEF Entry
<1> HIDE DEF new
<1>6. BuiltFrom(upsert, x.messages)
  BY <1>2, <1>3, <1>4 DEF BuiltFrom, Mentions
<1>7. /\ m \in [DOMAIN x.messages -> Message]
      /\ \A j \in DOMAIN x.messages : /\ m[j].done = x.messages[j].done
                                      /\ m[j].kids = x.messages[j].kids
  BY <1>1, <1>2 DEF IsMessages
<1> HIDE DEF m
<1>8. m \in Messages /\ DOMAIN m = DOMAIN x.messages
  BY <1>1, <1>7 DEF Messages, IsMessages
<1>9. /\ z \in Entry /\ z.messages = m /\ z.revision = x.revision /\ z.unsent = x.unsent
      /\ z.live = x.live /\ z.later = x.later
  BY <1>8 DEF Entry
<1> HIDE DEF z
<1>10. Mentions(m) \subseteq Mentions(x.messages)
  BY <1>7, <1>8 DEF Mentions
<1> QED BY <1>5, <1>6, <1>7, <1>8, <1>9, <1>10 DEF Reshaped

\* Entry x with other messages, showing another one.
Showing(x, m, leaf) == [x EXCEPT !.messages = m, !.leaf = leaf]

\* What a deletion leaves of the messages m.
Left(m, upsert, del) ==
    [j \in DOMAIN m \ del |-> IF j \in DOMAIN upsert THEN upsert[j] ELSE m[j]]

LEMMA ReshapedTo ==
    ASSUME NEW x \in Entry, NEW m \in Messages, DOMAIN m \subseteq DOMAIN x.messages,
           \A j \in DOMAIN m : /\ m[j].done = x.messages[j].done
                               /\ m[j].kids \subseteq Mentions(x.messages),
           NEW leaf \in Ids \cup {None}
    PROVE  Reshaped(x, Showing(x, m, leaf))
<1> DEFINE y == Showing(x, m, leaf)
<1>1. /\ y \in Entry /\ y.messages = m /\ y.revision = x.revision /\ y.unsent = x.unsent
      /\ y.live = x.live /\ y.later = x.later
  BY DEF Entry, Showing
<1> HIDE DEF y
<1>2. Mentions(m) \subseteq Mentions(x.messages)
  BY DEF Mentions
<1> QED BY <1>1, <1>2 DEF Reshaped, y

LEMMA DeleteEffect ==
    ASSUME NEW x \in Entry, NEW i \in DOMAIN x.messages, NEW del
    PROVE  LET m      == x.messages
               upsert == DeleteUpsert(m, i)
               rest   == Left(m, upsert, del)
           IN  /\ BuiltFrom(upsert, m) /\ rest \in Messages
               /\ \A j \in DOMAIN rest : /\ j \in DOMAIN m /\ rest[j].done = m[j].done
                                         /\ rest[j].kids \subseteq Mentions(m)
<1> DEFINE m      == x.messages
           upsert == DeleteUpsert(m, i)
           rest   == Left(m, upsert, del)
<1>0. /\ m = x.messages /\ i \in DOMAIN m /\ upsert = DeleteUpsert(m, i)
      /\ rest = [j \in DOMAIN m \ del |-> IF j \in DOMAIN upsert THEN upsert[j] ELSE m[j]]
  BY DEF Left
<1> HIDE DEF m, upsert, rest
<1> USE <1>0
<1>1. /\ m \in Messages /\ IsMessages(m) /\ \A j \in DOMAIN m : m[j] \in Message
      /\ DOMAIN m \subseteq Ids
  BY EntryFacts
<1>2. IsMessages(upsert) /\ DOMAIN upsert \subseteq DOMAIN m
  BY <1>1, DeleteUpsertType
<1>3. /\ Grandchildren(m, i) \subseteq Mentions(m)
      /\ \A j \in DOMAIN m : m[j].kids \subseteq Mentions(m)
  BY DEF Grandchildren, Mentions
<1>4. ASSUME NEW j \in DOMAIN upsert
      PROVE  upsert[j].done = m[j].done /\ upsert[j].kids \subseteq Mentions(m)
  <2> DEFINE k == (m[j].kids \ {i}) \cup Grandchildren(m, i)
  <2>1. m[j] \in Message /\ j \in DOMAIN m
    BY <1>1, <1>2
  <2>2. \/ upsert[j] = [m[j] EXCEPT !.kids = k]
        \/ upsert[j] = [m[j] EXCEPT !.parent = m[i].parent]
    BY <1>2 DEF DeleteUpsert
  <2>3. k \subseteq Mentions(m)
    BY <1>3, <2>1
  <2> HIDE DEF k
  <2>4. \A z \in Message : \A c, p : /\ [z EXCEPT !.kids = c].done = z.done
                                     /\ [z EXCEPT !.kids = c].kids = c
                                     /\ [z EXCEPT !.parent = p].done = z.done
                                     /\ [z EXCEPT !.parent = p].kids = z.kids
    BY DEF Message
  <2>5. /\ [m[j] EXCEPT !.kids = k].done = m[j].done /\ [m[j] EXCEPT !.kids = k].kids = k
        /\ [m[j] EXCEPT !.parent = m[i].parent].done = m[j].done
        /\ [m[j] EXCEPT !.parent = m[i].parent].kids = m[j].kids
    BY <2>1, <2>4
  <2> QED BY <1>3, <2>1, <2>2, <2>3, <2>5
<1>5. BuiltFrom(upsert, m)
  BY <1>2, <1>4 DEF BuiltFrom, Mentions
<1>6. /\ DOMAIN rest \subseteq DOMAIN m
      /\ \A j \in DOMAIN rest : /\ rest[j] \in Message /\ rest[j].done = m[j].done
                                /\ rest[j].kids \subseteq Mentions(m)
  BY <1>1, <1>2, <1>3, <1>4 DEF IsMessages
<1>7. rest \in Messages
  <2>1. rest \in [DOMAIN rest -> Message]
    BY <1>6
  <2> QED BY <1>1, <1>6, <2>1 DEF Messages
<1> QED BY <1>5, <1>6, <1>7 DEF m, upsert, rest

LEMMA MovedEffect ==
    ASSUME NEW x \in Entry, NEW t \in Turn, NEW end \in Ends(x, t)
    PROVE  /\ Reshaped(x, MovedUnder(x, t, end))
           /\ DOMAIN MovedUnder(x, t, end).messages = DOMAIN x.messages
           /\ end \in Ids \cup {None}
<1> DEFINE away == [x.messages EXCEPT ![t.user].parent = end]
           cut == [away EXCEPT ![t.parent].kids = @ \ {t.user}]
           m == LinkChild(cut, end, t.user)
           y == [x EXCEPT !.messages = m]
<1>0. /\ x.messages \in Messages /\ IsMessages(x.messages)
      /\ \A i \in DOMAIN x.messages : x.messages[i] \in Message
      /\ DOMAIN x.messages \subseteq Ids
      /\ t.user \in Ids /\ t.parent \in Ids \cup {None}
  BY EntryFacts, TurnFacts
<1>1. \/ end = t.parent
      \/ t.user \in DOMAIN x.messages /\ t.parent \in DOMAIN x.messages /\ end \in DOMAIN x.messages
  BY BranchEnds DEF Ends
<1>2. end \in Ids \cup {None}
  BY <1>0, <1>1
<1>3. CASE end = t.parent
  BY <1>2, <1>3 DEF MovedUnder, Reshaped
<1>4. CASE end # t.parent
  <2>1. t.user \in DOMAIN x.messages /\ t.parent \in DOMAIN x.messages
    BY <1>1, <1>4
  <2>2. MovedUnder(x, t, end) = y
    BY <1>4 DEF MovedUnder
  <2>3. \A z \in Message : /\ [z EXCEPT !.parent = end] \in Message
                           /\ [z EXCEPT !.parent = end].done = z.done
                           /\ [z EXCEPT !.parent = end].kids = z.kids
                           /\ [z EXCEPT !.kids = @ \ {t.user}] \in Message
                           /\ [z EXCEPT !.kids = @ \ {t.user}].done = z.done
                           /\ [z EXCEPT !.kids = @ \ {t.user}].kids \subseteq z.kids
    BY <1>2 DEF Message
  <2>4. /\ away \in [DOMAIN x.messages -> Message]
        /\ \A j \in DOMAIN x.messages : /\ away[j].done = x.messages[j].done
                                        /\ away[j].kids = x.messages[j].kids
    BY <1>0, <2>1, <2>3 DEF IsMessages
  <2> HIDE DEF away
  <2>5. /\ cut \in [DOMAIN x.messages -> Message]
        /\ \A j \in DOMAIN x.messages : /\ cut[j].done = x.messages[j].done
                                        /\ cut[j].kids \subseteq x.messages[j].kids
    <3> DEFINE new == [away[t.parent] EXCEPT !.kids = @ \ {t.user}]
    <3>1. away[t.parent] \in Message
      BY <2>1, <2>4
    <3>2. /\ new \in Message /\ new.done = away[t.parent].done
          /\ new.kids \subseteq away[t.parent].kids
      BY <2>3, <3>1
    <3>3. cut = [away EXCEPT ![t.parent] = new]
      OBVIOUS
    <3> HIDE DEF new, cut
    <3> QED BY <2>1, <2>4, <3>2, <3>3
  <2> HIDE DEF cut
  <2>6. IsMessages(cut) /\ DOMAIN cut = DOMAIN x.messages
    BY <1>0, <2>5 DEF IsMessages
  <2>7. /\ IsMessages(m) /\ DOMAIN m = DOMAIN x.messages
        /\ \A j \in DOMAIN x.messages : m[j].done = x.messages[j].done
    <3>1. t.user \in Ids /\ end \in Ids \cup {None} /\ IsMessages(cut)
      BY <1>0, <1>2, <2>6
    <3>2. /\ IsMessages(m) /\ DOMAIN m = DOMAIN cut
          /\ \A j \in DOMAIN cut : m[j].done = cut[j].done
      BY <3>1, LinkKeepsDone
    <3> HIDE DEF m
    <3> QED BY <2>5, <2>6, <3>2
  <2>8. Mentions(m) \subseteq Mentions(x.messages)
    <3>1. Mentions(m) \subseteq Mentions(cut) \cup {t.user}
      BY <1>0, <1>2, <2>6, LinkMentions
    <3>2. Mentions(cut) \subseteq Mentions(x.messages)
      BY <2>5, <2>6 DEF Mentions
    <3> QED BY <2>1, <3>1, <3>2 DEF Mentions
  <2> HIDE DEF m
  <2>9. m \in Messages
    BY <2>7, MessagesAre
  <2>10. /\ y \in Entry /\ y.messages = m /\ y.revision = x.revision /\ y.unsent = x.unsent
         /\ y.live = x.live /\ y.later = x.later
    BY <2>9 DEF Entry
  <2> HIDE DEF y
  <2> QED BY <1>2, <2>2, <2>7, <2>8, <2>10 DEF Reshaped
<1> QED BY <1>3, <1>4

----------------------------------------------------------------------------
(* The invariant.                                                          *)

Documents ==
    {row, NoDocument} \cup {reading[c] : c \in Tabs} \cup {saved[c] : c \in Tabs}

Store  == StoreOk(row, running, deleted, Documents)
Copies == \A c \in Tabs : EntryOk(tab[c], events[c], row, deleted, Documents)
Queues == \A c \in Tabs : QueueOk(events[c], row, running, deleted, Documents)

\* Every id the server has had, or named as a child.
Known == deleted \cup UNION {Mentions(d.messages) : d \in Documents}

Own(t) == {t.user, t.reply}

\* A refused turn that waits for the download: its two messages are in its tab
\* and nowhere else.
Waiting(x, t) ==
    /\ Own(t) \subseteq x.unsent \cap DOMAIN x.messages
    /\ Running(x, t.reply) /\ x.live \in {t.reply, None} /\ t.parent \in Replies

Minted ==
    /\ Known \subseteq used
    /\ \A c \in Tabs : Mentions(tab[c].messages) \cup tab[c].unsent \subseteq used

Fresh ==
    \A c \in Tabs : resend[c] # NoTurn =>
        /\ Own(resend[c]) \cap Known = {}
        /\ \A o \in Tabs \ {c} : Own(resend[c]) \cap Mentions(tab[o].messages) = {}
        /\ Waiting(tab[c], resend[c])

Order == Store /\ Copies /\ Queues /\ Minted /\ Fresh

\* No copy is rewound.
Onward == \A c \in Tabs : Forward(tab[c], tab'[c], deleted')

LEMMA DocumentsAre ==
    /\ row \in Documents /\ NoDocument \in Documents
    /\ \A c \in Tabs : reading[c] \in Documents /\ saved[c] \in Documents
BY DEF Documents

LEMMA DocumentsMove ==
    ASSUME NEW docs, NoDocument \in docs, row' \in docs,
           \A c \in Tabs : reading'[c] \in docs /\ saved'[c] \in docs
    PROVE  Documents' \subseteq docs /\ row' \in Documents'
BY DEF Documents

LEMMA KnownMentions ==
    ASSUME NEW d \in Documents
    PROVE  Mentions(d.messages) \subseteq Known /\ DOMAIN d.messages \subseteq Known
           /\ deleted \subseteq Known
BY DEF Known, Mentions

LEMMA KnownStep ==
    ASSUME NEW new, Documents' \subseteq Documents \cup {row'},
           Mentions(row'.messages) \subseteq Known \cup new, deleted' \subseteq Known
    PROVE  Known' \subseteq Known \cup new
<1>1. \A d \in Documents' : Mentions(d.messages) \subseteq Known \cup new
  BY DEF Known
<1> QED BY <1>1 DEF Known

\* Ids stay minted and refused turns fresh when what is new is minted, and is not
\* of a turn that still waits.
LEMMA IdsStep ==
    ASSUME Inv, Minted, Fresh, used \subseteq used', NEW new \in SUBSET used',
           Known' \subseteq Known \cup new,
           NEW b \in Tabs, NEW y, tab' = [tab EXCEPT ![b] = y],
           Mentions(y.messages) \subseteq Mentions(tab[b].messages) \cup Known \cup new,
           y.unsent \subseteq used',
           \A c \in Tabs : resend'[c] # NoTurn =>
              resend'[c] = resend[c] /\ Own(resend[c]) \cap new = {},
           resend'[b] # NoTurn => Waiting(y, resend[b])
    PROVE  Minted' /\ Fresh'
<1>1. \A c \in Tabs : tab'[c] = IF c = b THEN y ELSE tab[c]
  BY DEF Inv, TabsGood
<1>2. Minted'
  <2>1. Known' \subseteq used'
    BY DEF Minted
  <2>2. ASSUME NEW c \in Tabs PROVE Mentions(tab'[c].messages) \cup tab'[c].unsent \subseteq used'
    BY <1>1 DEF Minted
  <2> QED BY <2>1, <2>2 DEF Minted
<1>3. ASSUME NEW c \in Tabs, resend'[c] # NoTurn
      PROVE  /\ Own(resend'[c]) \cap Known' = {}
             /\ \A o \in Tabs \ {c} : Own(resend'[c]) \cap Mentions(tab'[o].messages) = {}
             /\ Waiting(tab'[c], resend'[c])
  <2>1. /\ resend'[c] = resend[c] /\ Own(resend[c]) \cap new = {}
        /\ Own(resend[c]) \cap Known = {} /\ Waiting(tab[c], resend[c])
        /\ \A o \in Tabs \ {c} : Own(resend[c]) \cap Mentions(tab[o].messages) = {}
    BY <1>3 DEF Fresh
  <2>2. ASSUME NEW o \in Tabs \ {c} PROVE Own(resend'[c]) \cap Mentions(tab'[o].messages) = {}
    BY <1>1, <2>1
  <2>3. Waiting(tab'[c], resend'[c])
    BY <1>1, <1>3, <2>1
  <2> QED BY <2>1, <2>2, <2>3
<1>4. Fresh'
  BY <1>3 DEF Fresh
<1> QED BY <1>2, <1>4

\* A step that writes nothing: one tab changes, and some documents may be gone.
LEMMA QuietStep ==
    ASSUME Inv, Store, Copies, Queues, UNCHANGED <<row, running, deleted>>,
           Documents' \subseteq Documents, row' \in Documents',
           NEW b \in Tabs, NEW y, tab' = [tab EXCEPT ![b] = y],
           EntryOk(y, events'[b], row, deleted, Documents), Forward(tab[b], y, deleted),
           QueueOk(events'[b], row, running, deleted, Documents),
           \A c \in Tabs \ {b} : events'[c] = events[c]
    PROVE  Store' /\ Copies' /\ Queues' /\ Onward
<1>1. \A c \in Tabs : tab'[c] = IF c = b THEN y ELSE tab[c]
  BY DEF Inv, TabsGood
<1>2. row \in Documents'
  OBVIOUS
<1>3. /\ StoreOk(row, running, deleted, Documents) => StoreOk(row, running, deleted, Documents')
      /\ \A x, s : EntryOk(x, s, row, deleted, Documents) => EntryOk(x, s, row, deleted, Documents')
      /\ \A s : QueueOk(s, row, running, deleted, Documents)
                   => QueueOk(s, row, running, deleted, Documents')
  BY <1>2, FewerDocuments
<1>4. Store'
  BY <1>3 DEF Store
<1>5. Copies'
  BY <1>1, <1>3 DEF Copies
<1>6. Queues'
  BY <1>3 DEF Queues
<1>7. \A c \in Tabs : tab[c].revision <= tab[c].revision
  BY GoodFacts DEF Inv, TabsGood
<1>8. Onward
  BY <1>1, <1>7 DEF Onward, Forward
<1> QED BY <1>4, <1>5, <1>6, <1>8

\* What a commit leaves in order: the store, the events, and every copy that
\* shows no started reply finished.
LEMMA CommitStep ==
    ASSUME Inv, Store, Queues, NEW m, NEW sent \in Seq(Event), Len(sent) <= 1, Commit(m, sent),
           NEW started, NEW finished,
           Writes(row, running, deleted, row', running', deleted', started, finished),
           \A n \in DOMAIN sent :
              \/ /\ sent[n].kind = "turn"
                 /\ sent[n].turn.user \in DOMAIN row'.messages
                 /\ sent[n].turn.reply \in started \ finished
              \/ /\ sent[n].kind = "done"
                 /\ sent[n].reply \in finished /\ sent[n].revision = row'.revision,
           \A r \in finished : Pending(sent, r),
           Documents' \subseteq Documents \cup {row'}, row' \in Documents'
    PROVE  /\ Store' /\ Queues'
           /\ \A c \in Tabs : \A x : EntryOk(x, events[c], row, deleted, Documents)
                 /\ (\A i \in started : ~ Shows(x, i))
                 => EntryOk(x, events'[c], row', deleted', Documents')
<1>1. StoreOk(row, running, deleted, Documents)
  BY DEF Store
<1>2. \A c \in Tabs : events'[c] = events[c] \o sent
  BY DEF Commit
<1>3. Store'
  BY <1>1, StoreCommitted DEF Store
<1>4. ASSUME NEW c \in Tabs
      PROVE  /\ QueueOk(events[c] \o sent, row', running', deleted', Documents')
             /\ \A r \in Replies : Pending(events[c], r) => Pending(events[c] \o sent, r)
             /\ \A r \in finished : Pending(events[c] \o sent, r)
  <2>1. QueueOk(events[c], row, running, deleted, Documents)
    BY DEF Queues
  <2> QED BY <1>1, <2>1, QueueCommitted
<1>5. Queues'
  BY <1>2, <1>4 DEF Queues
<1>6. ASSUME NEW c \in Tabs, NEW x, EntryOk(x, events[c], row, deleted, Documents),
             \A i \in started : ~ Shows(x, i)
      PROVE  EntryOk(x, events'[c], row', deleted', Documents')
  <2> DEFINE s == events[c]
             s2 == events'[c]
  <2>1. /\ EntryOk(x, s, row, deleted, Documents)
        /\ \A r \in Replies : Pending(s, r) => Pending(s2, r)
        /\ \A r \in finished : Pending(s2, r)
    BY <1>2, <1>4, <1>6
  <2> HIDE DEF s, s2
  <2>2. EntryOk(x, s2, row', deleted', Documents')
    BY <1>1, <1>6, <2>1, EntryCommitted
  <2> QED BY <2>2 DEF s2
<1> QED BY <1>3, <1>5, <1>6

----------------------------------------------------------------------------
(* Each step.                                                              *)

\* The note of a newer revision is cleared.
LEMMA Noted ==
    ASSUME NEW R, NEW D, NEW docs, NEW s, NEW x, NEW y, EntryOk(y, s, R, D, docs),
           Forward(x, y, D), NEW z, z = [y EXCEPT !.later = 0]
    PROVE  /\ EntryOk(z, s, R, D, docs) /\ Forward(x, z, D)
           /\ z.messages = y.messages /\ z.unsent = y.unsent /\ z.live = y.live
           /\ z.revision = y.revision
           /\ \A t : Waiting(y, t) => Waiting(z, t)
<1>1. /\ z \in Entry /\ z.revision = y.revision /\ z.messages = y.messages
      /\ z.unsent = y.unsent /\ z.live = y.live
  BY DEF EntryOk, Entry
<1>2. \A i : /\ Running(z, i) <=> Running(y, i)
             /\ Shows(z, i) <=> Shows(y, i)
  BY <1>1 DEF Running, Shows
<1>3. EntryOk(z, s, R, D, docs)
  BY <1>1, <1>2 DEF EntryOk, PromptsDone
<1>4. Forward(x, z, D)
  BY <1>1, <1>2 DEF Forward
<1>5. \A t : Waiting(y, t) => Waiting(z, t)
  BY <1>1, <1>2 DEF Waiting
<1> QED BY <1>1, <1>3, <1>4, <1>5

\* A download that is merged or too old names nothing new, and a refused turn
\* goes on waiting.
LEMMA PutChatIds ==
    ASSUME NEW x \in Entry, NEW d \in Document
    PROVE  LET y == PutChat(x, d)
           IN  /\ Mentions(y.messages) \subseteq Mentions(x.messages) \cup Mentions(d.messages)
               /\ y.unsent \subseteq x.unsent
               /\ \A t : Waiting(x, t) /\ Own(t) \cap Mentions(d.messages) = {} => Waiting(y, t)
<1> DEFINE y == PutChat(x, d)
<1>1. CASE d.revision < x.revision
  BY <1>1 DEF PutChat
<1>2. CASE ~ d.revision < x.revision
  <2> DEFINE own == (x.unsent \cap DOMAIN x.messages) \ DOMAIN d.messages
  <2>1. y = Downloaded(x, d)
    BY <1>2 DEF PutChat
  <2> HIDE DEF y
  <2>2. /\ y.unsent = own /\ y.live \in {x.live, None} /\ own \subseteq DOMAIN y.messages
        /\ Mentions(y.messages) \subseteq Mentions(x.messages) \cup Mentions(d.messages)
        /\ \A i \in DOMAIN y.messages :
              \/ i \in DOMAIN d.messages /\ y.messages[i].done = d.messages[i].done
              \/ /\ i \notin DOMAIN d.messages /\ i \in DOMAIN x.messages
                 /\ y.messages[i].done = x.messages[i].done
                 /\ i \in own \/ i = x.live
    BY <2>1, DownloadedEffect
  <2>3. ASSUME NEW t, Waiting(x, t), Own(t) \cap Mentions(d.messages) = {} PROVE Waiting(y, t)
    <3>1. Own(t) \cap DOMAIN d.messages = {} /\ Own(t) \subseteq own
      BY <2>3 DEF Mentions, Waiting
    <3>2. Running(y, t.reply)
      <4>1. t.reply \in own /\ t.reply \in DOMAIN x.messages /\ ~ x.messages[t.reply].done
        BY <2>3, <3>1 DEF Waiting, Running, Own
      <4>2. t.reply \in DOMAIN y.messages /\ t.reply \notin DOMAIN d.messages
        BY <2>2, <4>1
      <4> QED BY <2>2, <4>1, <4>2 DEF Running
    <3>3. y.live \in {t.reply, None} /\ t.parent \in Replies
      BY <2>2, <2>3 DEF Waiting
    <3> QED BY <2>2, <3>1, <3>2, <3>3 DEF Waiting
  <2> QED BY <2>2, <2>3 DEF y
<1> QED BY <1>1, <1>2

LEMMA RefetchedFrom ==
    ASSUME Inv, UNCHANGED row, NEW b \in Tabs, Refetch(b) \/ UNCHANGED reading,
           \A c \in Tabs : saved'[c] \in Documents
    PROVE  Documents' \subseteq Documents /\ row' \in Documents'
<1>1. \A c \in Tabs : reading'[c] \in {reading[c], row}
  BY DEF Refetch, Inv, ReadGood
<1>2. \A c \in Tabs : reading'[c] \in Documents
  BY <1>1, DocumentsAre
<1> QED BY <1>2, DocumentsAre, DocumentsMove

\* A tab takes over an entry, and nothing is written.
LEMMA QuietIds ==
    ASSUME Inv, Minted, Fresh, used \subseteq used', NEW new \in SUBSET used',
           UNCHANGED <<row, deleted>>, Documents' \subseteq Documents,
           NEW b \in Tabs, NEW y, tab' = [tab EXCEPT ![b] = y],
           Mentions(y.messages) \subseteq Mentions(tab[b].messages) \cup Known \cup new,
           y.unsent \subseteq used',
           \A c \in Tabs : resend'[c] # NoTurn =>
              resend'[c] = resend[c] /\ Own(resend[c]) \cap new = {},
           resend'[b] # NoTurn => Waiting(y, resend[b])
    PROVE  Minted' /\ Fresh'
<1>1. Mentions(row'.messages) \subseteq Known \cup new /\ deleted' \subseteq Known
  BY DocumentsAre, KnownMentions DEF Known
<1>2. Known' \subseteq Known \cup new
  BY <1>1, KnownStep
<1> QED BY <1>2, IdsStep

LEMMA UpdateStep ==
    ASSUME Inv, Order, used \subseteq used', NEW new \in SUBSET used',
           UNCHANGED <<row, running, deleted, resend>>, \A c \in Tabs : saved'[c] \in Documents,
           NEW b \in Tabs, NEW y, Update(b, y),
           EntryOk(y, events'[b], row, deleted, Documents), Forward(tab[b], y, deleted),
           QueueOk(events'[b], row, running, deleted, Documents),
           \A c \in Tabs \ {b} : events'[c] = events[c],
           Mentions(y.messages) \subseteq Mentions(tab[b].messages) \cup Known \cup new,
           y.unsent \subseteq used',
           \A c \in Tabs : resend[c] # NoTurn => Own(resend[c]) \cap new = {},
           resend[b] # NoTurn => Waiting(y, resend[b])
    PROVE  Order' /\ Onward
<1>1. PICK z \in {y, [y EXCEPT !.later = 0]} : tab' = [tab EXCEPT ![b] = z]
  BY DEF Update
<1>2. Documents' \subseteq Documents /\ row' \in Documents'
  <2>1. Refetch(b) \/ UNCHANGED reading
    BY DEF Update
  <2> QED BY <2>1, RefetchedFrom
<1>3. /\ EntryOk(z, events'[b], row, deleted, Documents) /\ Forward(tab[b], z, deleted)
      /\ z.messages = y.messages /\ z.unsent = y.unsent
      /\ \A t : Waiting(y, t) => Waiting(z, t)
  <2>1. CASE z = y
    BY <2>1
  <2>2. CASE z = [y EXCEPT !.later = 0]
    BY <2>2, Noted
  <2> QED BY <2>1, <2>2
<1>4. Store' /\ Copies' /\ Queues' /\ Onward
  BY <1>1, <1>2, <1>3, QuietStep DEF Order
<1>5. Minted' /\ Fresh'
  BY <1>1, <1>2, <1>3, QuietIds DEF Order
<1> QED BY <1>4, <1>5 DEF Order

LEMMA OrderSaved == ASSUME Inv, Order, NEW b \in Tabs, ReceiveSaved(b) PROVE Order' /\ Onward
<1> DEFINE x == tab[b]
           d == saved[b]
           y == PutChat(x, d)
<1>1. /\ Update(b, y) /\ saved' = [saved EXCEPT ![b] = NoDocument]
      /\ UNCHANGED <<row, running, used, resend, events, told, deleted>>
  BY DEF ReceiveSaved
<1>2. \A c \in Tabs : saved'[c] \in Documents
  BY <1>1, DocumentsAre DEF Inv, SavedGood
<1>3. /\ StoreOk(row, running, deleted, Documents) /\ d \in Documents
      /\ EntryOk(x, events[b], row, deleted, Documents)
      /\ QueueOk(events[b], row, running, deleted, Documents)
  BY DocumentsAre DEF Order, Store, Copies, Queues
<1> HIDE DEF x, d
<1>4. EntryOk(y, events[b], row, deleted, Documents) /\ Forward(x, y, deleted)
  BY <1>3, PutChatOk
<1>5. x \in Entry /\ d \in Document
  BY <1>3 DEF EntryOk, StoreOk
<1>6. /\ Mentions(y.messages) \subseteq Mentions(x.messages) \cup Mentions(d.messages)
      /\ y.unsent \subseteq x.unsent
      /\ \A t : Waiting(x, t) /\ Own(t) \cap Mentions(d.messages) = {} => Waiting(y, t)
  BY <1>3, <1>5, PutChatIds
<1>7. Mentions(d.messages) \subseteq Known
  BY <1>3, KnownMentions
<1> HIDE DEF y
<1>8. Mentions(y.messages) \subseteq Mentions(x.messages) \cup Known \cup {}
  BY <1>6, <1>7
<1>9. y.unsent \subseteq used'
  BY <1>1, <1>6 DEF Order, Minted, x
<1>10. resend[b] # NoTurn => Waiting(y, resend[b])
  BY <1>6, <1>7 DEF Order, Fresh, x
<1> QED BY <1>1, <1>2, <1>3, <1>4, <1>8, <1>9, <1>10, UpdateStep DEF x

\* A refused turn goes on waiting in an entry that keeps its messages.
LEMMA WaitingKept ==
    ASSUME NEW x, NEW y, NEW t, Waiting(x, t), Own(t) \cap x.unsent \subseteq y.unsent,
           Own(t) \cap DOMAIN x.messages \subseteq DOMAIN y.messages,
           y.messages[t.reply].done = x.messages[t.reply].done, y.live \in {x.live, None}
    PROVE  Waiting(y, t)
BY DEF Waiting, Running, Own

LEMMA OrderDeliver == ASSUME Inv, Order, NEW b \in Tabs, Deliver(b) PROVE Order' /\ Onward
<1> DEFINE x == tab[b]
           s == events[b]
           e == Head(s)
           y == IF e.kind = "turn" THEN TurnArrived(x, e.turn) ELSE Completed(x, e)
<1>1. /\ s # <<>> /\ Update(b, y) /\ events' = [events EXCEPT ![b] = Tail(@)]
      /\ UNCHANGED <<row, running, used, resend, saved, told, deleted>>
  BY DEF Deliver
<1>2. \A c \in Tabs : saved'[c] \in Documents
  BY <1>1, DocumentsAre
<1>3. events'[b] = Tail(s) /\ \A c \in Tabs \ {b} : events'[c] = events[c]
  BY <1>1 DEF Inv, SentGood
<1>4. /\ StoreOk(row, running, deleted, Documents)
      /\ EntryOk(x, s, row, deleted, Documents)
      /\ QueueOk(s, row, running, deleted, Documents)
  BY DEF Order, Store, Copies, Queues
<1>5. \A i \in DOMAIN row.messages \cup deleted : i \in Known
  BY DocumentsAre, KnownMentions
<1>6. GoodEvent(e, used)
  <2>1. \A n \in DOMAIN s : GoodEvent(s[n], used)
    BY DEF Inv, SentGood
  <2>2. 1 \in DOMAIN s /\ e = s[1]
    BY <1>1, <1>4, QueueTail
  <2> QED BY <2>1, <2>2
<1>7. \A c \in Tabs : resend[c] # NoTurn => Own(resend[c]) \cap Known = {}
  BY DEF Order, Fresh
<1>8. resend[b] # NoTurn => Waiting(x, resend[b])
  BY DEF Order, Fresh
<1>9. x.unsent \subseteq used
  BY DEF Order, Minted
<1>10. QueueOk(Tail(s), row, running, deleted, Documents)
  BY <1>1, <1>4, QueueTail
<1>11. /\ EntryOk(y, Tail(s), row, deleted, Documents) /\ Forward(x, y, deleted)
       /\ Mentions(y.messages) \subseteq Mentions(x.messages) \cup Known \cup {}
       /\ y.unsent \subseteq used'
       /\ resend[b] # NoTurn => Waiting(y, resend[b])
  <2>1. CASE e.kind = "turn"
    <3> DEFINE t == e.turn
    <3>1. t \in Turn /\ ~ t.done
      BY <1>6, <2>1 DEF GoodEvent, GoodTurn
    <3>2. y = TurnArrived(x, t)
      BY <2>1
    <3>3. t.user \in Known /\ t.reply \in Known
      <4>1. 1 \in DOMAIN s /\ e = s[1]
        BY <1>1, <1>4, QueueTail
      <4>2. s[1].turn.user \in DOMAIN row.messages \cup deleted
            /\ s[1].turn.reply \in DOMAIN row.messages \cup deleted
        BY <1>4, <2>1, <4>1 DEF QueueOk
      <4> QED BY <1>5, <4>1, <4>2
    <3> HIDE DEF x, s, y
    <3>4. Head(s).kind = "turn" /\ Head(s).turn = t
      BY <2>1 DEF e
    <3> HIDE DEF e, t
    <3>5. /\ EntryOk(y, Tail(s), row, deleted, Documents) /\ Forward(x, y, deleted)
          /\ y.unsent = x.unsent \ {t.user, t.reply}
          /\ y.live = x.live /\ DOMAIN y.messages = DOMAIN x.messages \cup {t.user, t.reply}
          /\ \A i \in DOMAIN x.messages : y.messages[i].done = x.messages[i].done
          /\ Mentions(y.messages) \subseteq Mentions(x.messages) \cup {t.user, t.reply}
      BY <1>1, <1>4, <3>1, <3>2, <3>4, TurnArrivedOk
    <3>6. ASSUME resend[b] # NoTurn PROVE Waiting(y, resend[b])
      <4>1. Own(resend[b]) \cap Known = {} /\ Waiting(x, resend[b])
        BY <1>7, <1>8, <3>6
      <4>2. Own(resend[b]) \cap x.unsent \subseteq y.unsent
        BY <3>3, <3>5, <4>1
      <4>3. resend[b].reply \in DOMAIN x.messages
        BY <4>1 DEF Waiting, Own
      <4> QED BY <3>5, <4>1, <4>2, <4>3, WaitingKept
    <3> QED BY <1>1, <1>9, <3>3, <3>5, <3>6
  <2>2. CASE e.kind # "turn"
    <3>1. e.kind = "done"
      BY <1>6, <2>2 DEF GoodEvent, Event
    <3>2. y = Completed(x, e)
      BY <2>2
    <3> HIDE DEF x, s, y
    <3>3. Head(s) = e
      BY DEF e
    <3> HIDE DEF e
    <3>4. /\ EntryOk(y, Tail(s), row, deleted, Documents) /\ Forward(x, y, deleted)
          /\ y.unsent = x.unsent
          /\ y.live \in {x.live, None} /\ DOMAIN y.messages = DOMAIN x.messages
          /\ \A i \in DOMAIN x.messages :
                /\ y.messages[i].kids = x.messages[i].kids
                /\ i # e.reply => y.messages[i].done = x.messages[i].done
          /\ e.reply \in DOMAIN row.messages \cup deleted
      BY <1>1, <1>4, <3>1, <3>2, <3>3, CompletedOk
    <3>5. Mentions(y.messages) = Mentions(x.messages)
      BY <3>4 DEF Mentions
    <3>6. ASSUME resend[b] # NoTurn PROVE Waiting(y, resend[b])
      <4>1. Own(resend[b]) \cap Known = {} /\ Waiting(x, resend[b])
        BY <1>7, <1>8, <3>6
      <4>2. resend[b].reply # e.reply
        BY <1>5, <3>4, <4>1 DEF Own
      <4>3. resend[b].reply \in DOMAIN x.messages
        BY <4>1 DEF Waiting, Own
      <4> QED BY <3>4, <4>1, <4>2, <4>3, WaitingKept
    <3> QED BY <1>1, <1>9, <3>4, <3>5, <3>6
  <2> QED BY <2>1, <2>2
<1> HIDE DEF y
<1>12. QueueOk(events'[b], row, running, deleted, Documents)
  BY <1>3, <1>10
<1>13. EntryOk(y, events'[b], row, deleted, Documents)
  BY <1>3, <1>11
<1>14. Forward(tab[b], y, deleted)
  BY <1>11
<1>15. Mentions(y.messages) \subseteq Mentions(tab[b].messages) \cup Known \cup {}
  BY <1>11
<1>16. \A c \in Tabs : resend[c] # NoTurn => Own(resend[c]) \cap {} = {}
  OBVIOUS
<1>17. used \subseteq used' /\ {} \in SUBSET used'
  BY <1>1
<1> QED BY <1>1, <1>2, <1>3, <1>11, <1>12, <1>13, <1>14, <1>15, <1>16, <1>17, UpdateStep

\* Only the note of a newer revision changes.
LEMMA Renoted ==
    ASSUME NEW R, NEW D, NEW docs, NEW s, NEW x, EntryOk(x, s, R, D, docs),
           NEW later \in Nat, NEW z, z = [x EXCEPT !.later = later]
    PROVE  /\ EntryOk(z, s, R, D, docs) /\ Forward(x, z, D)
           /\ z.messages = x.messages /\ z.unsent = x.unsent
           /\ \A t : Waiting(x, t) => Waiting(z, t)
<1>1. /\ z \in Entry /\ z.revision = x.revision /\ z.messages = x.messages
      /\ z.unsent = x.unsent /\ z.live = x.live
  BY DEF EntryOk, Entry
<1>2. \A i : /\ Running(z, i) <=> Running(x, i)
             /\ Shows(z, i) <=> Shows(x, i)
  BY <1>1 DEF Running, Shows
<1>3. EntryOk(z, s, R, D, docs)
  BY <1>1, <1>2 DEF EntryOk, PromptsDone
<1>4. x.revision <= z.revision
  BY <1>1, EntryFacts DEF EntryOk
<1>5. Forward(x, z, D)
  BY <1>1, <1>2, <1>4 DEF Forward
<1>6. \A t : Waiting(x, t) => Waiting(z, t)
  BY <1>1, <1>2 DEF Waiting
<1> QED BY <1>1, <1>3, <1>5, <1>6

\* A step of one tab that changes no more than that note.
LEMMA NoteStep ==
    ASSUME Inv, Order, UNCHANGED <<row, running, used, resend, saved, events, deleted>>,
           NEW b \in Tabs, Refetch(b) \/ UNCHANGED reading,
           NEW later \in Nat, tab' = [tab EXCEPT ![b] = [tab[b] EXCEPT !.later = later]]
    PROVE  Order' /\ Onward
<1> DEFINE z == [tab[b] EXCEPT !.later = later]
<1>1. Documents' \subseteq Documents /\ row' \in Documents'
  BY DocumentsAre, RefetchedFrom
<1>2. /\ EntryOk(tab[b], events[b], row, deleted, Documents)
      /\ QueueOk(events[b], row, running, deleted, Documents)
  BY DEF Order, Copies, Queues
<1>3. tab' = [tab EXCEPT ![b] = z]
  OBVIOUS
<1>4. /\ EntryOk(z, events[b], row, deleted, Documents) /\ Forward(tab[b], z, deleted)
      /\ z.messages = tab[b].messages /\ z.unsent = tab[b].unsent
      /\ \A t : Waiting(tab[b], t) => Waiting(z, t)
  BY <1>2, Renoted
<1> HIDE DEF z
<1>5. Store' /\ Copies' /\ Queues' /\ Onward
  BY <1>1, <1>2, <1>3, <1>4, QuietStep DEF Order
<1>6. /\ Mentions(z.messages) \subseteq Mentions(tab[b].messages) \cup Known \cup {}
      /\ z.unsent \subseteq used'
      /\ resend'[b] # NoTurn => Waiting(z, resend[b])
  BY <1>4 DEF Order, Minted, Fresh
<1>7. /\ used \subseteq used' /\ {} \in SUBSET used' /\ UNCHANGED <<row, deleted>>
      /\ \A c \in Tabs : resend'[c] # NoTurn =>
            resend'[c] = resend[c] /\ Own(resend[c]) \cap {} = {}
      /\ Minted /\ Fresh
  BY DEF Order
<1>8. Minted' /\ Fresh'
  BY <1>1, <1>3, <1>6, <1>7, QuietIds
<1> QED BY <1>5, <1>8 DEF Order

LEMMA OrderOpen == ASSUME Inv, Order, NEW b \in Tabs, Open(b) PROVE Order' /\ Onward
<1>1. /\ tab' = [tab EXCEPT ![b] = [tab[b] EXCEPT !.later = 0]] /\ Refetch(b)
      /\ UNCHANGED <<row, running, used, resend, saved, events, deleted>>
  BY DEF Open
<1>2. 0 \in Nat
  OBVIOUS
<1> QED BY <1>1, <1>2, NoteStep

LEMMA OrderPing == ASSUME Inv, Order, NEW b \in Tabs, Ping(b) PROVE Order' /\ Onward
<1> DEFINE later == IF told[b] > tab[b].revision /\ told[b] > tab[b].later
                    THEN told[b] ELSE tab[b].later
<1>1. /\ tab' = [tab EXCEPT ![b] = [tab[b] EXCEPT !.later = later]]
      /\ UNCHANGED <<row, running, used, resend, reading, saved, events, deleted>>
  BY DEF Ping, Inv, TabsGood
<1>2. later \in Nat
  BY GoodFacts DEF Inv, TabsGood, SentGood
<1> HIDE DEF later
<1> QED BY <1>1, <1>2, NoteStep

\* Nothing changes.
LEMMA OrderStutter == ASSUME Inv, Order, UNCHANGED vars PROVE Order' /\ Onward
<1>1. Documents' = Documents /\ Known' = Known
  BY DEF Documents, Known, vars
<1>2. Store' /\ Copies' /\ Queues'
  BY <1>1 DEF Order, Store, Copies, Queues, vars
<1>3. Minted' /\ Fresh'
  BY <1>1 DEF Order, Minted, Fresh, vars
<1>4. \A c \in Tabs : tab[c].revision <= tab[c].revision
  BY GoodFacts DEF Inv, TabsGood
<1>5. Onward
  BY <1>4 DEF Onward, Forward, vars
<1> QED BY <1>2, <1>3, <1>5 DEF Order

LEMMA OrderFinish == ASSUME Inv, Order, NEW r \in Replies, FinishReply(r) PROVE Order' /\ Onward
<1> USE DEF Order
<1>0. PICK text \in Texts :
        Commit(SavedReply(row.messages, r, text),
               <<[kind |-> "done", reply |-> r, text |-> text, revision |-> row.revision + 1]>>)
  BY DEF FinishReply
<1> DEFINE m    == SavedReply(row.messages, r, text)
           sent == <<[kind |-> "done", reply |-> r, text |-> text,
                      revision |-> row.revision + 1]>>
<1>1. Commit(m, sent)
  BY <1>0
<1>2. /\ r \in running /\ running' = running \ {r}
      /\ UNCHANGED <<used, tab, resend, reading, saved>>
  BY DEF FinishReply
<1>3. StoreOk(row, running, deleted, Documents)
  BY DEF Store
<1>4. Written(row, deleted, row', deleted', SavedReply(row.messages, r, text))
  BY <1>1 DEF Commit, Written
<1>5. /\ Writes(row, running, deleted, row', running', deleted', {}, {r})
      /\ Mentions(row'.messages) \subseteq Mentions(row.messages) \cup {r}
  <2>1. /\ Writes(row, running, deleted, row', running \ {r}, deleted', {}, {r})
        /\ Mentions(row'.messages) \subseteq Mentions(row.messages) \cup {r}
    BY <1>2, <1>3, <1>4, FinishWrites
  <2> QED BY <1>2, <2>1
<1>6. /\ sent \in Seq(Event) /\ Len(sent) <= 1
      /\ \A n \in DOMAIN sent : /\ sent[n].kind = "done"
                                /\ sent[n].reply \in {r} /\ sent[n].revision = row'.revision
      /\ \A q \in {r} : Pending(sent, q)
  <2>1. row.revision \in Nat
    BY <1>3, DocumentFacts DEF StoreOk
  <2>2. [kind |-> "done", reply |-> r, text |-> text, revision |-> row.revision + 1] \in Event
    BY <2>1 DEF Event
  <2>3. /\ sent \in Seq(Event) /\ Len(sent) = 1 /\ DOMAIN sent = {1}
        /\ sent[1].kind = "done" /\ sent[1].reply = r /\ sent[1].revision = row.revision + 1
    BY <1>1, <2>2
  <2>4. row'.revision = row.revision + 1
    BY <1>4 DEF Written
  <2> HIDE DEF sent
  <2> QED BY <2>3, <2>4 DEF Pending, IsDone
<1>7. Documents' \subseteq Documents \cup {row'} /\ row' \in Documents'
  BY <1>2 DEF Documents
<1>8. /\ Store' /\ Queues'
      /\ \A c \in Tabs : \A x : EntryOk(x, events[c], row, deleted, Documents)
            /\ (\A i \in {} : ~ Shows(x, i))
            => EntryOk(x, events'[c], row', deleted', Documents')
  <2>1. \A n \in DOMAIN sent :
           \/ /\ sent[n].kind = "turn"
              /\ sent[n].turn.user \in DOMAIN row'.messages
              /\ sent[n].turn.reply \in {} \ {r}
           \/ /\ sent[n].kind = "done"
              /\ sent[n].reply \in {r} /\ sent[n].revision = row'.revision
    BY <1>6
  <2>2. /\ Inv /\ Store /\ Queues /\ sent \in Seq(Event) /\ Len(sent) <= 1
        /\ Writes(row, running, deleted, row', running', deleted', {}, {r})
        /\ \A q \in {r} : Pending(sent, q)
    BY <1>5, <1>6
  <2> HIDE DEF m, sent, Order
  <2> QED BY <1>1, <1>7, <2>1, <2>2, CommitStep
<1>9. Copies'
  <2>1. \A c \in Tabs : EntryOk(tab[c], events[c], row, deleted, Documents)
    BY DEF Copies
  <2> QED BY <1>2, <1>8, <2>1 DEF Copies
<1>10. Known' \subseteq Known
  <2>1. r \in Known
    BY <1>2, <1>3, DocumentsAre, KnownMentions DEF StoreOk
  <2>2. Mentions(row'.messages) \subseteq Known \cup {} /\ deleted' \subseteq Known
    BY <1>4, <1>5, <2>1, DocumentsAre, KnownMentions DEF Written
  <2>3. Known' \subseteq Known \cup {}
    BY <1>7, <2>2, KnownStep
  <2> QED BY <2>3
<1>11. Minted' /\ Fresh'
  BY <1>2, <1>10 DEF Minted, Fresh
<1>12. Onward
  <2>1. \A c \in Tabs : tab[c].revision <= tab[c].revision
    BY GoodFacts DEF Inv, TabsGood
  <2> QED BY <1>2, <2>1 DEF Onward, Forward
<1> QED BY <1>8, <1>9, <1>11, <1>12

\* A history patch.  Stored, it says of every message what the tab said of it,
\* and the tab had the row's revision; refused, the tab had another one.
LEMMA OrderPatch ==
    ASSUME Inv, Order, NEW b \in Tabs, NEW shown, NEW upsert, NEW del,
           Patch(b, shown, upsert, del), UNCHANGED <<used, resend>>,
           BuiltFrom(upsert, tab[b].messages), Reshaped(tab[b], shown)
    PROVE  Order' /\ Onward
<1> DEFINE x   == tab[b]
           s   == events[b]
           new == Mentions(x.messages)
<1>1. /\ resend[b] = NoTurn /\ DOMAIN upsert \cap x.unsent = {}
      /\ tab' = [tab EXCEPT ![b] = shown]
  BY DEF Patch
<1>2. /\ StoreOk(row, running, deleted, Documents)
      /\ EntryOk(x, s, row, deleted, Documents)
      /\ QueueOk(s, row, running, deleted, Documents)
      /\ Store /\ Copies /\ Queues /\ Minted /\ Fresh
  BY DEF Order, Store, Copies, Queues
<1>3. /\ shown \in Entry /\ shown.revision = x.revision /\ shown.unsent = x.unsent
      /\ DOMAIN shown.messages \subseteq DOMAIN x.messages
      /\ \A i \in DOMAIN shown.messages : shown.messages[i].done = x.messages[i].done
      /\ Mentions(shown.messages) \subseteq Mentions(x.messages)
  BY DEF Reshaped
<1>4. /\ \A c \in Tabs : resend'[c] # NoTurn =>
            resend'[c] = resend[c] /\ Own(resend[c]) \cap new = {}
      /\ used \subseteq used' /\ new \in SUBSET used' /\ shown.unsent \subseteq used'
      /\ resend'[b] # NoTurn => Waiting(shown, resend[b])
  BY <1>1, <1>2, <1>3 DEF Fresh, Minted
<1>5. Mentions(shown.messages) \subseteq Mentions(tab[b].messages) \cup Known \cup new
  BY <1>3
<1>6. CASE shown.revision = row.revision
  <2>1. /\ Commit(HistoryPatch(row.messages, upsert, del), <<>>)
        /\ saved' = [saved EXCEPT ![b] = row'] /\ UNCHANGED <<running, reading>>
    BY <1>6 DEF Patch
  <2>2. Written(row, deleted, row', deleted', HistoryPatch(row.messages, upsert, del))
    BY <2>1 DEF Commit, Written
  <2>3. Writes(row, running, deleted, row', running', deleted', {}, {})
    <3>1. /\ IsMessages(upsert) /\ DOMAIN upsert \subseteq DOMAIN x.messages
          /\ \A i \in DOMAIN upsert : upsert[i].done = x.messages[i].done
          /\ x.revision = row.revision
      BY <1>3, <1>6 DEF BuiltFrom
    <3> HIDE DEF x, s
    <3>2. Writes(row, running, deleted, row', running, deleted', {}, {})
      BY <1>1, <1>2, <2>2, <3>1, PatchWrites
    <3> QED BY <2>1, <3>2
  <2>4. Documents' \subseteq Documents \cup {row'} /\ row' \in Documents'
    <3>1. \A c \in Tabs : saved'[c] \in {saved[c], row'}
      BY <2>1 DEF Inv, SavedGood
    <3> QED BY <2>1, <3>1 DEF Documents
  <2>5. /\ Store' /\ Queues'
        /\ \A c \in Tabs : \A z : EntryOk(z, events[c], row, deleted, Documents)
              => EntryOk(z, events'[c], row', deleted', Documents')
    <3> DEFINE sent == <<>>
    <3>1. sent \in Seq(Event) /\ Len(sent) <= 1 /\ DOMAIN sent = {} /\ Commit(HistoryPatch(row.messages, upsert, del), sent)
      BY <2>1
    <3> HIDE DEF sent
    <3>2. /\ \A n \in DOMAIN sent :
              \/ /\ sent[n].kind = "turn"
                 /\ sent[n].turn.user \in DOMAIN row'.messages
                 /\ sent[n].turn.reply \in {} \ {}
              \/ /\ sent[n].kind = "done"
                 /\ sent[n].reply \in {} /\ sent[n].revision = row'.revision
          /\ \A r \in {} : Pending(sent, r)
      BY <3>1
    <3>3. /\ Store' /\ Queues'
          /\ \A c \in Tabs : \A z : EntryOk(z, events[c], row, deleted, Documents)
                /\ (\A i \in {} : ~ Shows(z, i))
                => EntryOk(z, events'[c], row', deleted', Documents')
      BY <1>2, <2>3, <2>4, <3>1, <3>2, CommitStep
    <3> QED BY <3>3
  <2>6. EntryOk(shown, events'[b], row', deleted', Documents') /\ Forward(x, shown, deleted')
    <3> DEFINE s2 == events'[b]
    <3>1. EntryOk(x, s2, row', deleted', Documents')
      BY <1>2, <2>5
    <3>2. x.revision # row'.revision
      <4>1. row.revision \in Nat
        BY <1>2, DocumentFacts DEF StoreOk
      <4> QED BY <1>3, <1>6, <2>2, <4>1 DEF Written
    <3> HIDE DEF s2, x
    <3>3. EntryOk(shown, s2, row', deleted', Documents') /\ Forward(x, shown, deleted')
      BY <1>3, <3>1, <3>2, SameFlags
    <3> QED BY <3>3 DEF s2
  <2>7. \A c \in Tabs : tab'[c] = IF c = b THEN shown ELSE tab[c]
    BY <1>1 DEF Inv, TabsGood
  <2>8. Copies'
    BY <1>2, <2>5, <2>6, <2>7 DEF Copies
  <2>9. Onward
    <3>1. \A c \in Tabs : tab[c].revision <= tab[c].revision
      BY GoodFacts DEF Inv, TabsGood
    <3> QED BY <2>6, <2>7, <3>1 DEF Onward, Forward
  <2>10. Known' \subseteq Known \cup new
    <3>1. Mentions(row'.messages) \subseteq Mentions(row.messages) \cup Mentions(upsert)
      <4>1. IsMessages(row.messages)
        BY <1>2, DocumentFacts DEF StoreOk
      <4> QED BY <2>2, <4>1, PatchMentions DEF Written
    <3>2. Mentions(upsert) \subseteq new
      BY DEF BuiltFrom
    <3>3. Mentions(row'.messages) \subseteq Known \cup new /\ deleted' \subseteq Known
      BY <2>2, <3>1, <3>2, DocumentsAre, KnownMentions DEF Written
    <3> HIDE DEF new
    <3> QED BY <2>4, <3>3, KnownStep
  <2>11. Minted' /\ Fresh'
    <3> HIDE DEF new
    <3> QED BY <1>1, <1>2, <1>4, <1>5, <2>10, IdsStep
  <2> QED BY <2>5, <2>8, <2>9, <2>11 DEF Order
<1>7. CASE shown.revision # row.revision
  <2>1. /\ Refuse(shown.revision) /\ Refetch(b) /\ UNCHANGED saved
    BY <1>7 DEF Patch
  <2>2. UNCHANGED <<row, running, deleted, events>>
    BY <2>1 DEF Refuse
  <2>3. Documents' \subseteq Documents /\ row' \in Documents'
    BY <2>1, <2>2, DocumentsAre, RefetchedFrom
  <2>4. EntryOk(shown, s, row, deleted, Documents) /\ Forward(x, shown, deleted)
    <3>1. x.revision # row.revision
      BY <1>3, <1>7
    <3> HIDE DEF x, s
    <3> QED BY <1>2, <1>3, <3>1, SameFlags
  <2>5. Store' /\ Copies' /\ Queues' /\ Onward
    <3>1. /\ EntryOk(shown, events'[b], row, deleted, Documents)
          /\ Forward(tab[b], shown, deleted)
          /\ QueueOk(events'[b], row, running, deleted, Documents)
          /\ \A c \in Tabs \ {b} : events'[c] = events[c]
      BY <1>2, <2>2, <2>4
    <3>2. UNCHANGED <<row, running, deleted>>
      BY <2>2
    <3> QED BY <1>1, <1>2, <2>3, <3>1, <3>2, QuietStep
  <2>6. Minted' /\ Fresh'
    <3>1. UNCHANGED <<row, deleted>>
      BY <2>2
    <3> HIDE DEF new
    <3> QED BY <1>1, <1>2, <1>4, <1>5, <2>3, <3>1, QuietIds
  <2> QED BY <2>5, <2>6 DEF Order
<1> QED BY <1>6, <1>7

LEMMA OrderEdit ==
    ASSUME Inv, Order, NEW b \in Tabs, NEW i \in Ids, NEW text \in Texts, Edit(b, i, text)
    PROVE  Order' /\ Onward
<1> DEFINE x      == tab[b]
           upsert == EditUpsert(x.messages, i, text)
           shown  == [x EXCEPT !.messages[i] = upsert[i]]
<1>1. i \in DOMAIN x.messages /\ Patch(b, shown, upsert, {})
  BY DEF Edit
<1>2. UNCHANGED <<used, resend>>
  BY <1>1 DEF Patch
<1>3. x \in Entry
  BY DEF Inv, TabsGood
<1>4. BuiltFrom(upsert, x.messages) /\ Reshaped(x, shown)
  <2>1. upsert = EditUpsert(x.messages, i, text) /\ shown = [x EXCEPT !.messages[i] = upsert[i]]
    OBVIOUS
  <2> HIDE DEF x, upsert, shown
  <2> QED BY <1>1, <1>3, <2>1, EditEffect
<1> HIDE DEF upsert, shown
<1> QED BY <1>1, <1>2, <1>4, OrderPatch

LEMMA OrderDelete ==
    ASSUME Inv, Order, NEW b \in Tabs, NEW i \in Ids, Delete(b, i) PROVE Order' /\ Onward
<1> DEFINE x      == tab[b]
           upsert == DeleteUpsert(x.messages, i)
           del    == DeletedWith(x.messages, i)
           rest   == Left(x.messages, upsert, del)
<1>1. i \in DOMAIN x.messages
  BY DEF Delete
<1>2. PICK end \in EndsShown(rest, x.messages[i].parent) :
         Patch(b, Showing(x, rest, end), upsert, del)
  BY Zenon DEF Delete, Left, Showing
<1> DEFINE shown == Showing(x, rest, end)
<1>3. x \in Entry
  BY DEF Inv, TabsGood
<1>4. /\ BuiltFrom(upsert, x.messages) /\ rest \in Messages
      /\ \A j \in DOMAIN rest : /\ j \in DOMAIN x.messages
                                /\ rest[j].done = x.messages[j].done
                                /\ rest[j].kids \subseteq Mentions(x.messages)
  <2> HIDE DEF x
  <2> QED BY <1>1, <1>3, DeleteEffect
<1>5. end \in Ids \cup {None}
  <2> HIDE DEF rest
  <2>1. DOMAIN rest \subseteq Ids
    BY <1>4, MessagesAre
  <2> QED BY <1>2, <2>1, BranchEnds DEF EndsShown
<1>6. Reshaped(x, shown)
  <2> HIDE DEF rest, x
  <2>1. DOMAIN rest \subseteq DOMAIN x.messages
    BY <1>4
  <2> QED BY <1>3, <1>4, <1>5, <2>1, ReshapedTo
<1>7. Patch(b, shown, upsert, del)
  BY <1>2
<1> HIDE DEF upsert, del, rest, shown
<1>8. UNCHANGED <<used, resend>>
  BY <1>7 DEF Patch
<1> QED BY <1>4, <1>6, <1>7, <1>8, OrderPatch

\* What a new turn makes of the entry of its tab.
LEMMA ShownEffect ==
    ASSUME NEW x \in Entry, NEW t \in Turn, ~ t.done, Own(t) \cap DOMAIN x.messages = {}
    PROVE  LET y == Shown(x, t)
           IN  /\ y \in Entry /\ y.revision = x.revision /\ y.live = t.reply
               /\ y.unsent = x.unsent \cup {t.user, t.reply}
               /\ DOMAIN y.messages = DOMAIN x.messages \cup {t.user, t.reply}
               /\ \A i \in DOMAIN x.messages : y.messages[i].done = x.messages[i].done
               /\ ~ Running(y, t.user) /\ Running(y, t.reply)
               /\ Mentions(y.messages) \subseteq Mentions(x.messages) \cup Own(t)
<1> DEFINE m == x.messages
           n == AppendTurn(m, t)
           y == Shown(x, t)
<1>1. IsMessages(m) /\ t.user \notin DOMAIN m /\ t.reply \notin DOMAIN m
  BY EntryFacts DEF Own
<1> HIDE DEF m
<1>2. /\ IsMessages(n) /\ DOMAIN n = DOMAIN m \cup {t.user, t.reply}
      /\ \A j \in DOMAIN m : n[j].done = m[j].done
      /\ n[t.user].done /\ ~ n[t.reply].done
      /\ Mentions(n) \subseteq Mentions(m) \cup {t.user, t.reply}
  <2>1. /\ IsMessages(n) /\ DOMAIN n = DOMAIN m \cup {t.user, t.reply}
        /\ \A j \in DOMAIN m : n[j].done = m[j].done
        /\ n[t.user].done /\ ~ n[t.reply].done
    BY <1>1, AppendTurnEffect
  <2>2. Mentions(n) \subseteq Mentions(m) \cup {t.user, t.reply}
    BY <1>1, AppendTurnEffect
  <2> QED BY <2>1, <2>2
<1> HIDE DEF n
<1>3. n \in Messages /\ t.user \in Ids /\ t.reply \in Ids /\ t.reply \in Replies
  BY <1>2, MessagesAre, TurnFacts
<1>4. /\ y \in Entry /\ y.messages = n /\ y.revision = x.revision /\ y.live = t.reply
      /\ y.unsent = x.unsent \cup {t.user, t.reply}
  BY <1>3 DEF Entry, Shown, n, m
<1> HIDE DEF y
<1>5. ~ Running(y, t.user) /\ Running(y, t.reply)
  BY <1>2, <1>4 DEF Running
<1> QED BY <1>2, <1>4, <1>5 DEF Own, y, m

\* A turn is stored, and its tab shows it unfinished.
LEMMA OrderStored ==
    ASSUME Inv, Order, used \subseteq used', UNCHANGED saved,
           \A c \in Tabs : reading'[c] \in Documents,
           NEW b \in Tabs, NEW t \in Turn, ~ t.done, StoreTurn(t),
           Own(t) \subseteq used', Own(t) \cap Known = {},
           NEW y, tab' = [tab EXCEPT ![b] = y],
           EntryOk(y, events[b], row, deleted, Documents), Forward(tab[b], y, deleted),
           ~ Shows(y, t.reply), \A c \in Tabs \ {b} : ~ Shows(tab[c], t.reply),
           Mentions(y.messages) \subseteq Mentions(tab[b].messages) \cup Known \cup Own(t),
           y.unsent \subseteq used', resend'[b] = NoTurn,
           \A c \in Tabs : resend'[c] # NoTurn =>
              resend'[c] = resend[c] /\ Own(resend[c]) \cap Own(t) = {}
    PROVE  Order' /\ Onward
<1> DEFINE e    == [kind |-> "turn", turn |-> t]
           sent == <<e>>
           m    == AppendTurn(row.messages, t)
<1>1. /\ StoreOk(row, running, deleted, Documents) /\ Store /\ Copies /\ Queues /\ Minted /\ Fresh
      /\ \A c \in Tabs : EntryOk(tab[c], events[c], row, deleted, Documents)
  BY DEF Order, Store, Copies
<1>2. Commit(m, sent) /\ running' = running \cup {t.reply}
  BY DEF StoreTurn
<1>3. Written(row, deleted, row', deleted', AppendTurn(row.messages, t))
  BY <1>2 DEF Commit, Written
<1>4. {t.user, t.reply} \cap (DOMAIN row.messages \cup deleted) = {}
  BY DocumentsAre, KnownMentions DEF Own
<1>5. Writes(row, running, deleted, row', running', deleted', {t.reply}, {})
  <2>1. Writes(row, running, deleted, row', running \cup {t.reply}, deleted', {t.reply}, {})
    <3>1. t \in Turn /\ ~ t.done
      OBVIOUS
    <3>2. StoreOk(row, running, deleted, Documents)
      BY <1>1
    <3> QED BY ONLY <1>3, <1>4, <3>1, <3>2, TurnWrites
  <2> QED BY <1>2, <2>1
<1>6. /\ t.user \in DOMAIN row'.messages
      /\ Mentions(row'.messages) \subseteq Mentions(row.messages) \cup Own(t)
  <2> DEFINE stored == row.messages
             n      == AppendTurn(stored, t)
  <2>1. /\ IsMessages(stored) /\ row'.messages = n
        /\ t.user \notin DOMAIN stored /\ t.reply \notin DOMAIN stored
    BY <1>1, <1>3, <1>4, DocumentFacts DEF StoreOk, Written
  <2> HIDE DEF stored
  <2>2. DOMAIN n = DOMAIN stored \cup {t.user, t.reply}
    BY <2>1, AppendTurnEffect
  <2>3. Mentions(n) \subseteq Mentions(stored) \cup {t.user, t.reply}
    BY <2>1, AppendTurnEffect
  <2> HIDE DEF n
  <2> QED BY <2>1, <2>2, <2>3 DEF Own, stored
<1>7. /\ sent \in Seq(Event) /\ Len(sent) <= 1
      /\ \A n \in DOMAIN sent :
            \/ /\ sent[n].kind = "turn"
               /\ sent[n].turn.user \in DOMAIN row'.messages
               /\ sent[n].turn.reply \in {t.reply} \ {}
            \/ /\ sent[n].kind = "done"
               /\ sent[n].reply \in {} /\ sent[n].revision = row'.revision
      /\ \A q \in {} : Pending(sent, q)
  <2>1. e \in Event /\ e.kind = "turn" /\ e.turn = t
    BY DEF Event
  <2> HIDE DEF e
  <2>2. sent \in Seq(Event) /\ Len(sent) = 1 /\ DOMAIN sent = {1} /\ sent[1] = e
    BY <2>1
  <2> HIDE DEF sent
  <2> QED BY <1>6, <2>1, <2>2
<1>8. Documents' \subseteq Documents \cup {row'} /\ row' \in Documents'
  BY DEF Documents
<1> HIDE DEF sent, m
<1>9. /\ Store' /\ Queues'
      /\ \A c \in Tabs : \A x : EntryOk(x, events[c], row, deleted, Documents)
            /\ (\A i \in {t.reply} : ~ Shows(x, i))
            => EntryOk(x, events'[c], row', deleted', Documents')
  <2> DEFINE started  == {t.reply}
             finished == {}
  <2>1. /\ Inv /\ Store /\ Queues /\ sent \in Seq(Event) /\ Len(sent) <= 1 /\ Commit(m, sent)
        /\ Writes(row, running, deleted, row', running', deleted', started, finished)
        /\ \A q \in finished : Pending(sent, q)
    BY <1>1, <1>2, <1>5, <1>7
  <2>2. \A n \in DOMAIN sent :
           \/ /\ sent[n].kind = "turn"
              /\ sent[n].turn.user \in DOMAIN row'.messages
              /\ sent[n].turn.reply \in started \ finished
           \/ /\ sent[n].kind = "done"
              /\ sent[n].reply \in finished /\ sent[n].revision = row'.revision
    BY <1>7
  <2> HIDE DEF started, finished
  <2>3. /\ Store' /\ Queues'
        /\ \A c \in Tabs : \A x : EntryOk(x, events[c], row, deleted, Documents)
              /\ (\A i \in started : ~ Shows(x, i))
              => EntryOk(x, events'[c], row', deleted', Documents')
    BY <1>8, <2>1, <2>2, CommitStep
  <2> QED BY <2>3 DEF started
<1>10. \A c \in Tabs : tab'[c] = IF c = b THEN y ELSE tab[c]
  BY DEF Inv, TabsGood
<1>11. Copies'
  <2>1. EntryOk(y, events'[b], row', deleted', Documents')
    BY <1>9
  <2>2. \A c \in Tabs \ {b} : EntryOk(tab[c], events'[c], row', deleted', Documents')
    BY <1>1, <1>9
  <2> QED BY <1>10, <2>1, <2>2 DEF Copies
<1>12. Onward
  <2>1. \A c \in Tabs : tab[c].revision <= tab[c].revision
    BY GoodFacts DEF Inv, TabsGood
  <2>2. deleted \subseteq deleted'
    BY <1>3 DEF Written
  <2> QED BY <1>10, <2>1, <2>2 DEF Onward, Forward
<1>13. Known' \subseteq Known \cup Own(t)
  <2>1. Mentions(row'.messages) \subseteq Known \cup Own(t) /\ deleted' \subseteq Known
    BY <1>3, <1>6, DocumentsAre, KnownMentions DEF Written
  <2> QED BY <1>8, <2>1, KnownStep
<1>14. Minted' /\ Fresh'
  <2>1. Own(t) \in SUBSET used' /\ (resend'[b] # NoTurn => Waiting(y, resend[b]))
    OBVIOUS
  <2> QED BY <1>1, <1>13, <2>1, IdsStep
<1> QED BY <1>9, <1>11, <1>12, <1>14 DEF Order

LEMMA OrderSend ==
    ASSUME Inv, Order, NEW b \in Tabs, NEW t \in Turn, Send(b, t) PROVE Order' /\ Onward
<1> DEFINE x == tab[b]
           s == events[b]
           y == Shown(x, t)
<1>1. /\ resend[b] = NoTurn /\ ~ t.done /\ t.parent \in Replies
      /\ t.user \notin used /\ t.reply \notin used
      /\ used' = used \cup {t.user, t.reply} /\ UNCHANGED saved
  BY DEF Send
<1>2. \/ /\ StoreTurn(t) /\ tab' = [tab EXCEPT ![b] = y] /\ UNCHANGED <<resend, reading>>
      \/ /\ Refuse(y.revision) /\ tab' = [tab EXCEPT ![b] = y]
         /\ resend' = [resend EXCEPT ![b] = t] /\ Refetch(b)
      \/ /\ Refuse(y.revision) /\ Update(b, Failed(y, t)) /\ UNCHANGED resend
  BY DEF Send
<1>3. /\ StoreOk(row, running, deleted, Documents) /\ row \in Documents
      /\ EntryOk(x, s, row, deleted, Documents)
      /\ QueueOk(s, row, running, deleted, Documents)
      /\ Store /\ Copies /\ Queues /\ Minted /\ Fresh
  BY DocumentsAre DEF Order, Store, Copies, Queues
<1>4. /\ Own(t) \cap used = {} /\ Own(t) \subseteq used' /\ used \subseteq used'
      /\ Own(t) \cap Known = {} /\ Own(t) \cap DOMAIN x.messages = {}
      /\ \A c \in Tabs : Own(t) \cap Mentions(tab[c].messages) = {}
      /\ \A c \in Tabs : resend[c] # NoTurn => Own(resend[c]) \cap Own(t) = {}
  <2>1. Own(t) \cap used = {} /\ Own(t) \subseteq used' /\ used \subseteq used'
    BY <1>1 DEF Own
  <2>2. \A c \in Tabs : Mentions(tab[c].messages) \cup tab[c].unsent \subseteq used
    BY <1>3 DEF Minted
  <2>3. \A c \in Tabs : resend[c] # NoTurn => Own(resend[c]) \subseteq tab[c].unsent
    BY <1>3 DEF Fresh, Waiting
  <2>4. DOMAIN x.messages \subseteq Mentions(x.messages)
    BY DEF Mentions
  <2>5. Known \subseteq used
    BY <1>3 DEF Minted
  <2> QED BY <2>1, <2>2, <2>3, <2>4, <2>5
<1> HIDE DEF x, s
<1>5. /\ y \in Entry /\ y.revision = x.revision /\ y.live = t.reply
      /\ y.unsent = x.unsent \cup {t.user, t.reply}
      /\ DOMAIN y.messages = DOMAIN x.messages \cup {t.user, t.reply}
      /\ \A i \in DOMAIN x.messages : y.messages[i].done = x.messages[i].done
      /\ ~ Running(y, t.user) /\ Running(y, t.reply)
      /\ Mentions(y.messages) \subseteq Mentions(x.messages) \cup Own(t)
  <2>1. x \in Entry
    BY <1>3 DEF EntryOk
  <2> QED BY <1>1, <1>4, <2>1, ShownEffect
<1> HIDE DEF y
<1>6. EntryOk(y, s, row, deleted, Documents) /\ Forward(x, y, deleted)
  <2>1. t.reply \notin DOMAIN row.messages
    BY <1>3, <1>4, KnownMentions DEF Own
  <2> QED BY <1>3, <1>5, <2>1, ShownOk
<1>7. /\ Mentions(y.messages) \subseteq Mentions(x.messages) \cup Known \cup Own(t)
      /\ y.unsent \subseteq used'
  BY <1>3, <1>4, <1>5 DEF Minted, Own, x
<1>8. CASE StoreTurn(t) /\ tab' = [tab EXCEPT ![b] = y] /\ UNCHANGED <<resend, reading>>
  <2>1. ~ Shows(y, t.reply) /\ \A c \in Tabs \ {b} : ~ Shows(tab[c], t.reply)
    BY <1>4, <1>5 DEF Shows, Running, Own, Mentions
  <2>2. UNCHANGED saved /\ \A c \in Tabs : reading'[c] \in Documents
    BY <1>1, <1>8, DocumentsAre
  <2>3. /\ resend'[b] = NoTurn
        /\ \A c \in Tabs : resend'[c] # NoTurn =>
              resend'[c] = resend[c] /\ Own(resend[c]) \cap Own(t) = {}
    BY <1>1, <1>4, <1>8
  <2>4. EntryOk(y, events[b], row, deleted, Documents) /\ Forward(tab[b], y, deleted)
    BY <1>6 DEF x, s
  <2>5. Mentions(y.messages) \subseteq Mentions(tab[b].messages) \cup Known \cup Own(t)
    BY <1>7 DEF x
  <2>6. ~ t.done /\ StoreTurn(t) /\ tab' = [tab EXCEPT ![b] = y]
    BY <1>1, <1>8
  <2> QED BY <1>4, <1>7, <2>1, <2>2, <2>3, <2>4, <2>5, <2>6, OrderStored
<1>9. ASSUME Refuse(y.revision) PROVE UNCHANGED <<row, running, deleted, events>>
  BY <1>9 DEF Refuse
<1>10. CASE /\ Refuse(y.revision) /\ tab' = [tab EXCEPT ![b] = y]
            /\ resend' = [resend EXCEPT ![b] = t] /\ Refetch(b)
  <2>0. UNCHANGED <<row, running, deleted, events>>
    BY <1>9, <1>10
  <2>1. Documents' \subseteq Documents /\ row' \in Documents'
    BY <1>1, <1>10, <2>0, DocumentsAre, RefetchedFrom
  <2>2. Store' /\ Copies' /\ Queues' /\ Onward
    <3>1. /\ EntryOk(y, events'[b], row, deleted, Documents) /\ Forward(tab[b], y, deleted)
          /\ QueueOk(events'[b], row, running, deleted, Documents)
          /\ \A c \in Tabs \ {b} : events'[c] = events[c]
          /\ UNCHANGED <<row, running, deleted>> /\ tab' = [tab EXCEPT ![b] = y]
      BY <1>3, <1>6, <1>10, <2>0 DEF x, s
    <3> QED BY <1>3, <2>1, <3>1, QuietStep
  <2>3. Known' \subseteq Known
    BY <2>0, <2>1 DEF Known
  <2>4. /\ \A c \in Tabs : tab'[c] = IF c = b THEN y ELSE tab[c]
        /\ \A c \in Tabs : resend'[c] = IF c = b THEN t ELSE resend[c]
    BY <1>10 DEF Inv, TabsGood, ResendGood
  <2>5. Minted'
    <3>1. Known' \subseteq used'
      BY <1>3, <1>4, <2>3 DEF Minted
    <3>2. \A c \in Tabs : Mentions(tab'[c].messages) \cup tab'[c].unsent \subseteq used'
      BY <1>3, <1>4, <1>5, <1>7, <2>4 DEF Minted, x
    <3> QED BY <3>1, <3>2 DEF Minted
  <2>6. ASSUME NEW c \in Tabs, resend'[c] # NoTurn
        PROVE  /\ Own(resend'[c]) \cap Known' = {}
               /\ \A o \in Tabs \ {c} : Own(resend'[c]) \cap Mentions(tab'[o].messages) = {}
               /\ Waiting(tab'[c], resend'[c])
    <3>1. CASE c = b
      <4>1. resend'[c] = t /\ tab'[c] = y /\ \A o \in Tabs \ {c} : tab'[o] = tab[o]
        BY <2>4, <3>1
      <4>2. Waiting(y, t)
        BY <1>1, <1>5 DEF Waiting, Own
      <4> QED BY <1>4, <2>3, <4>1, <4>2
    <3>2. CASE c # b
      <4>1. /\ resend'[c] = resend[c] /\ tab'[c] = tab[c] /\ resend[c] # NoTurn
            /\ Own(resend[c]) \cap Known = {} /\ Waiting(tab[c], resend[c])
            /\ \A o \in Tabs \ {c} : Own(resend[c]) \cap Mentions(tab[o].messages) = {}
        BY <1>3, <2>4, <2>6, <3>2 DEF Fresh
      <4>2. Own(resend[c]) \cap Mentions(y.messages) = {}
        BY <1>4, <1>5, <3>2, <4>1 DEF x
      <4>3. \A o \in Tabs \ {c} : Own(resend[c]) \cap Mentions(tab'[o].messages) = {}
        BY <2>4, <4>1, <4>2
      <4> QED BY <2>3, <4>1, <4>3
    <3> QED BY <3>1, <3>2
  <2>7. Fresh'
    BY <2>6 DEF Fresh
  <2> QED BY <2>2, <2>5, <2>7 DEF Order
<1>11. CASE Refuse(y.revision) /\ Update(b, Failed(y, t)) /\ UNCHANGED resend
  <2> DEFINE z == Failed(y, t)
  <2>0. UNCHANGED <<row, running, deleted, events>>
    BY <1>9, <1>11
  <2>1. \A d \in Documents : t.reply \notin DOMAIN d.messages
    BY <1>4, KnownMentions DEF Own
  <2>2. /\ EntryOk(z, s, row, deleted, Documents) /\ Forward(y, z, deleted)
        /\ z.unsent = y.unsent /\ DOMAIN z.messages = DOMAIN y.messages
        /\ \A i \in DOMAIN y.messages : z.messages[i].kids = y.messages[i].kids
        /\ z.revision = y.revision
    BY <1>3, <1>6, <2>1, FailedOk
  <2> HIDE DEF z
  <2>3. Forward(x, z, deleted)
    <3>1. x.revision \in Nat /\ y.revision = x.revision /\ z.revision = y.revision
      BY <1>3, <1>5, <2>2, EntryFacts DEF EntryOk
    <3> QED BY <1>5, <1>6, <2>2, <3>1 DEF Forward, Shows
  <2>4. Mentions(z.messages) = Mentions(y.messages)
    BY <2>2 DEF Mentions
  <2>5. /\ EntryOk(z, events'[b], row, deleted, Documents) /\ Forward(tab[b], z, deleted)
        /\ QueueOk(events'[b], row, running, deleted, Documents)
        /\ \A c \in Tabs \ {b} : events'[c] = events[c]
    BY <1>3, <2>0, <2>2, <2>3 DEF x, s
  <2>6. /\ Mentions(z.messages) \subseteq Mentions(tab[b].messages) \cup Known \cup Own(t)
        /\ z.unsent \subseteq used' /\ Own(t) \in SUBSET used'
        /\ resend[b] # NoTurn => Waiting(z, resend[b])
    BY <1>1, <1>4, <1>7, <2>2, <2>4 DEF x
  <2>7. /\ UNCHANGED <<row, running, deleted, resend>> /\ Update(b, z)
        /\ \A c \in Tabs : saved'[c] \in Documents
    BY <1>1, <1>11, <2>0, DocumentsAre DEF z
  <2> QED BY <1>4, <2>5, <2>6, <2>7, UpdateStep
<1> QED BY <1>2, <1>8, <1>10, <1>11

\* A tab takes over an entry when a download arrives, and nothing is written.
LEMMA OrderTaken ==
    ASSUME Inv, Order, UNCHANGED <<row, running, used, saved, events, deleted>>,
           \A c \in Tabs : reading'[c] \in Documents,
           NEW b \in Tabs, NEW y, tab' = [tab EXCEPT ![b] = y],
           EntryOk(y, events[b], row, deleted, Documents), Forward(tab[b], y, deleted),
           Mentions(y.messages) \subseteq Mentions(tab[b].messages) \cup Known,
           y.unsent \subseteq used,
           resend'[b] = NoTurn, \A c \in Tabs : resend'[c] \in {resend[c], NoTurn}
    PROVE  Order' /\ Onward
<1>1. Documents' \subseteq Documents /\ row' \in Documents'
  BY DocumentsAre, DocumentsMove
<1>2. QueueOk(events[b], row, running, deleted, Documents)
  BY DEF Order, Queues
<1>3. Store' /\ Copies' /\ Queues' /\ Onward
  BY <1>1, <1>2, QuietStep DEF Order
<1>4. /\ used \subseteq used' /\ {} \in SUBSET used' /\ UNCHANGED <<row, deleted>>
      /\ \A c \in Tabs : resend'[c] # NoTurn =>
            resend'[c] = resend[c] /\ Own(resend[c]) \cap {} = {}
      /\ Minted /\ Fresh
      /\ Mentions(y.messages) \subseteq Mentions(tab[b].messages) \cup Known \cup {}
      /\ y.unsent \subseteq used'
      /\ resend'[b] # NoTurn => Waiting(y, resend[b])
  BY DEF Order
<1>5. Minted' /\ Fresh'
  BY <1>1, <1>4, QuietIds
<1> QED BY <1>3, <1>5 DEF Order

LEMMA ForwardOn ==
    ASSUME NEW x, NEW y, NEW z, NEW D, Forward(x, y, D), Forward(y, z, D),
           x.revision \in Nat, y.revision \in Nat, z.revision \in Nat,
           DOMAIN z.messages \subseteq DOMAIN y.messages
    PROVE  Forward(x, z, D)
BY DEF Forward, Shows

\* What the download makes of the entry, the note of a newer revision cleared.
TakenOver(b) ==
    LET put == PutChat(tab[b], reading[b])
    IN  IF Behind(b, put) THEN [put EXCEPT !.later = 0] ELSE put

LEMMA TakenOverOk ==
    ASSUME Inv, Order, NEW b \in Tabs
    PROVE  LET x == TakenOver(b)
           IN  /\ EntryOk(x, events[b], row, deleted, Documents)
               /\ Forward(tab[b], x, deleted)
               /\ Mentions(x.messages) \subseteq Mentions(tab[b].messages) \cup Known
               /\ x.unsent \subseteq used
               /\ resend[b] # NoTurn => Waiting(x, resend[b])
<1> DEFINE w   == tab[b]
           s   == events[b]
           d   == reading[b]
           put == PutChat(w, d)
           x   == TakenOver(b)
<1>1. /\ StoreOk(row, running, deleted, Documents) /\ d \in Documents
      /\ EntryOk(w, s, row, deleted, Documents)
      /\ w.unsent \subseteq used
      /\ resend[b] # NoTurn => Own(resend[b]) \cap Known = {} /\ Waiting(w, resend[b])
  BY DocumentsAre DEF Order, Store, Copies, Minted, Fresh
<1>2. x \in {put, [put EXCEPT !.later = 0]}
  BY DEF TakenOver
<1> HIDE DEF w, s, d, x
<1>3. EntryOk(put, s, row, deleted, Documents) /\ Forward(w, put, deleted)
  BY <1>1, PutChatOk
<1>4. w \in Entry /\ d \in Document
  BY <1>1 DEF EntryOk, StoreOk
<1>5. /\ Mentions(put.messages) \subseteq Mentions(w.messages) \cup Mentions(d.messages)
      /\ put.unsent \subseteq w.unsent
      /\ \A t : Waiting(w, t) /\ Own(t) \cap Mentions(d.messages) = {} => Waiting(put, t)
  BY <1>4, PutChatIds
<1>6. Mentions(d.messages) \subseteq Known
  BY <1>1, KnownMentions
<1> HIDE DEF put
<1>7. /\ EntryOk(x, s, row, deleted, Documents) /\ Forward(w, x, deleted)
      /\ x.messages = put.messages /\ x.unsent = put.unsent
      /\ \A t : Waiting(put, t) => Waiting(x, t)
  <2>1. CASE x = put
    BY <1>3, <2>1
  <2>2. CASE x = [put EXCEPT !.later = 0]
    BY <1>3, <2>2, Noted
  <2> QED BY <1>2, <2>1, <2>2
<1>8. resend[b] # NoTurn => Waiting(x, resend[b])
  BY <1>1, <1>5, <1>6, <1>7
<1>9. Mentions(x.messages) \subseteq Mentions(w.messages) \cup Known /\ x.unsent \subseteq used
  BY <1>1, <1>5, <1>6, <1>7
<1> QED BY <1>7, <1>8, <1>9 DEF w, s, x

LEMMA OrderDocument ==
    ASSUME Inv, Order, NEW b \in Tabs, ReceiveDocument(b) PROVE Order' /\ Onward
<1> DEFINE x == TakenOver(b)
           t == resend[b]
           s == events[b]
<1>1. /\ EntryOk(x, s, row, deleted, Documents)
      /\ Forward(tab[b], x, deleted)
      /\ Mentions(x.messages) \subseteq Mentions(tab[b].messages) \cup Known
      /\ x.unsent \subseteq used
      /\ t # NoTurn => Waiting(x, t)
  BY TakenOverOk
<1>2. /\ UNCHANGED <<used, saved>> /\ reading' = [reading EXCEPT ![b] = NoDocument]
      /\ \/ t = NoTurn /\ tab' = [tab EXCEPT ![b] = x] /\ Idle /\ UNCHANGED resend
         \/ t # NoTurn /\ \E end \in Ends(x, t) :
              LET moved == [t EXCEPT !.parent = end]
                  y     == MovedUnder(x, t, end)
                  sent  == Stores(moved, y.revision)
              IN  /\ resend' = [resend EXCEPT ![b] = NoTurn]
                  /\ tab' = [tab EXCEPT ![b] = IF sent THEN y ELSE Failed(y, t)]
                  /\ IF sent THEN StoreTurn(moved) ELSE Refuse(y.revision)
  BY Zenon DEF ReceiveDocument, TakenOver
<1> HIDE DEF x
<1>3. \A c \in Tabs : reading'[c] \in Documents
  BY <1>2, DocumentsAre DEF Inv, ReadGood
<1>4. CASE t = NoTurn
  <2>1. /\ tab' = [tab EXCEPT ![b] = x] /\ UNCHANGED resend
        /\ UNCHANGED <<row, running, used, saved, events, deleted>>
    BY <1>2, <1>4 DEF Idle
  <2>2. resend'[b] = NoTurn /\ \A c \in Tabs : resend'[c] \in {resend[c], NoTurn}
    BY <1>4, <2>1
  <2> QED BY <1>1, <1>3, <2>1, <2>2, OrderTaken
<1>5. CASE t # NoTurn
  <2>1. PICK end \in Ends(x, t) :
           LET moved == [t EXCEPT !.parent = end]
               y     == MovedUnder(x, t, end)
               sent  == Stores(moved, y.revision)
           IN  /\ resend' = [resend EXCEPT ![b] = NoTurn]
               /\ tab' = [tab EXCEPT ![b] = IF sent THEN y ELSE Failed(y, t)]
               /\ IF sent THEN StoreTurn(moved) ELSE Refuse(y.revision)
    BY <1>2, <1>5
  <2> DEFINE moved == [t EXCEPT !.parent = end]
             y     == MovedUnder(x, t, end)
             z     == Failed(y, t)
  <2>2. \/ tab' = [tab EXCEPT ![b] = y] /\ StoreTurn(moved)
        \/ tab' = [tab EXCEPT ![b] = z] /\ Refuse(y.revision)
    BY <2>1
  <2>3. /\ resend'[b] = NoTurn
        /\ \A c \in Tabs \ {b} : resend'[c] = resend[c]
    BY <2>1 DEF Inv, ResendGood
  <2>4. t \in Turn /\ ~ t.done
    BY <1>5 DEF Inv, ResendGood, GoodTurn
  <2>5. x \in Entry
    BY <1>1 DEF EntryOk
  <2>6. /\ Own(t) \cap Known = {} /\ Waiting(x, t)
        /\ \A c \in Tabs \ {b} : Own(t) \cap Mentions(tab[c].messages) = {}
        /\ \A c \in Tabs \ {b} : resend[c] # NoTurn => Own(resend[c]) \cap Own(t) = {}
    <3>1. /\ Own(t) \cap Known = {}
          /\ \A c \in Tabs \ {b} : Own(t) \cap Mentions(tab[c].messages) = {}
      BY <1>5 DEF Order, Fresh
    <3>2. \A c \in Tabs : resend[c] # NoTurn => Own(resend[c]) \subseteq Mentions(tab[c].messages)
      BY DEF Order, Fresh, Waiting, Mentions
    <3> QED BY <1>1, <1>5, <3>1, <3>2
  <2> HIDE DEF t
  <2>7. /\ Reshaped(x, y) /\ DOMAIN y.messages = DOMAIN x.messages /\ end \in Ids \cup {None}
    BY <2>4, <2>5, MovedEffect
  <2>8. moved \in Turn /\ ~ moved.done /\ Own(moved) = Own(t) /\ moved.reply = t.reply
    BY <2>4, <2>7 DEF Turn, Own
  <2> HIDE DEF moved, y
  <2>9. /\ y \in Entry /\ y.revision = x.revision /\ y.unsent = x.unsent /\ y.live = x.live
        /\ \A i \in DOMAIN y.messages : y.messages[i].done = x.messages[i].done
        /\ Mentions(y.messages) \subseteq Mentions(x.messages)
    BY <2>7 DEF Reshaped
  <2>10. EntryOk(y, s, row, deleted, Documents) /\ Forward(x, y, deleted)
    <3> HIDE DEF s
    <3>1. DOMAIN y.messages \subseteq DOMAIN x.messages
          /\ (DOMAIN y.messages = DOMAIN x.messages \/ x.revision # row.revision)
      BY <2>7
    <3> QED BY <1>1, <2>9, <3>1, SameFlags
  <2>11. Forward(tab[b], y, deleted)
    <3>1. tab[b].revision \in Nat /\ x.revision \in Nat /\ y.revision \in Nat
      BY <2>5, <2>9, EntryFacts DEF Inv, TabsGood
    <3> QED BY <1>1, <2>7, <2>10, <3>1, ForwardOn
  <2>12. Waiting(y, t)
    <3>1. t.reply \in DOMAIN x.messages
      BY <2>6 DEF Waiting, Own
    <3> QED BY <2>6, <2>7, <2>9, <3>1, WaitingKept
  <2>13. /\ Mentions(y.messages) \subseteq Mentions(tab[b].messages) \cup Known
         /\ y.unsent \subseteq used
    BY <1>1, <2>9
  <2>14. CASE tab' = [tab EXCEPT ![b] = y] /\ StoreTurn(moved)
    <3>1. ~ Shows(y, moved.reply) /\ \A c \in Tabs \ {b} : ~ Shows(tab[c], moved.reply)
      BY <2>6, <2>8, <2>12 DEF Waiting, Running, Shows, Own, Mentions
    <3>2. Own(moved) \subseteq used' /\ used \subseteq used' /\ y.unsent \subseteq used'
      BY <1>2, <2>8, <2>12, <2>13 DEF Waiting
    <3>3. Mentions(y.messages) \subseteq Mentions(tab[b].messages) \cup Known \cup Own(moved)
      BY <2>13
    <3>4. \A c \in Tabs : resend'[c] # NoTurn =>
             resend'[c] = resend[c] /\ Own(resend[c]) \cap Own(moved) = {}
      BY <2>3, <2>6, <2>8
    <3>5. Own(moved) \cap Known = {} /\ UNCHANGED saved
      BY <1>2, <2>6, <2>8
    <3> QED BY <1>3, <2>3, <2>8, <2>10, <2>11, <2>14, <3>1, <3>2, <3>3, <3>4, <3>5, OrderStored
  <2>15. CASE tab' = [tab EXCEPT ![b] = z] /\ Refuse(y.revision)
    <3>1. \A d \in Documents : t.reply \notin DOMAIN d.messages
      BY <2>6, KnownMentions DEF Own
    <3>2. /\ EntryOk(z, s, row, deleted, Documents) /\ Forward(y, z, deleted)
          /\ z.unsent = y.unsent /\ DOMAIN z.messages = DOMAIN y.messages
          /\ \A i \in DOMAIN y.messages : z.messages[i].kids = y.messages[i].kids
          /\ z.revision = y.revision
      <4>1. t \in Turn /\ row \in Documents /\ EntryOk(y, s, row, deleted, Documents)
        BY <2>4, <2>10, DocumentsAre
      <4> HIDE DEF s
      <4> QED BY <3>1, <4>1, FailedOk
    <3>3. Forward(tab[b], z, deleted)
      <4>1. tab[b].revision \in Nat /\ y.revision \in Nat /\ z.revision \in Nat
        BY <2>9, <3>2, EntryFacts DEF Inv, TabsGood
      <4> HIDE DEF z
      <4> QED BY <2>11, <3>2, <4>1, ForwardOn
    <3> HIDE DEF z
    <3>4. /\ Mentions(z.messages) \subseteq Mentions(tab[b].messages) \cup Known
          /\ z.unsent \subseteq used
      <4>1. Mentions(z.messages) = Mentions(y.messages)
        BY <3>2 DEF Mentions
      <4> QED BY <2>13, <3>2, <4>1
    <3>5. UNCHANGED <<row, running, used, saved, events, deleted>>
      BY <1>2, <2>15 DEF Refuse
    <3>6. \A c \in Tabs : resend'[c] \in {resend[c], NoTurn}
      BY <2>3
    <3> QED BY <1>3, <2>3, <2>15, <3>2, <3>3, <3>4, <3>5, <3>6, OrderTaken
  <2> QED BY <2>2, <2>14, <2>15
<1> QED BY <1>4, <1>5

LEMMA InitOrder == Init => Order
<1> SUFFICES ASSUME Init PROVE Order
  OBVIOUS
<1>1. PICK u \in Prompts, r \in Replies, text \in Texts \ {Blank} :
        LET prompt == [parent |-> None, kids |-> {r}, text |-> text, done |-> TRUE]
            reply  == [parent |-> u, kids |-> {}, text |-> text, done |-> TRUE]
        IN  /\ row = [revision |-> 1,
                      messages |-> [i \in {u, r} |-> IF i = u THEN prompt ELSE reply]]
            /\ running = {} /\ used = {u, r}
            /\ tab = [b \in Tabs |-> [revision |-> 1, messages |-> row.messages, leaf |-> r,
                                      later |-> 0, live |-> None, unsent |-> {}]]
            /\ resend = [b \in Tabs |-> NoTurn]
            /\ reading = [b \in Tabs |-> NoDocument]
            /\ saved = [b \in Tabs |-> NoDocument]
            /\ events = [b \in Tabs |-> <<>>]
            /\ told = [b \in Tabs |-> 0]
            /\ deleted = {}
  BY DEF Init
<1> DEFINE prompt == [parent |-> None, kids |-> {r}, text |-> text, done |-> TRUE]
           reply  == [parent |-> u, kids |-> {}, text |-> text, done |-> TRUE]
           m == [i \in {u, r} |-> IF i = u THEN prompt ELSE reply]
<1>2. /\ row = [revision |-> 1, messages |-> m] /\ used = {u, r}
      /\ running = {} /\ deleted = {}
      /\ \A c \in Tabs : /\ tab[c].revision = 1 /\ tab[c].messages = row.messages
                         /\ tab[c].unsent = {}
                         /\ resend[c] = NoTurn /\ events[c] = <<>>
                         /\ reading[c] = NoDocument /\ saved[c] = NoDocument
  BY <1>1
<1>3. /\ DOMAIN m = {u, r} /\ \A i \in DOMAIN m : m[i].done
      /\ Mentions(m) \subseteq used
  BY <1>2 DEF Mentions
<1> HIDE DEF m
<1>4. Inv
  BY InitInv
<1>5. Documents = {row, NoDocument}
  BY <1>2 DEF Documents
<1>6. /\ row \in Document /\ NoDocument \in Document
      /\ DOMAIN NoDocument.messages = {} /\ NoDocument.revision = 0
      /\ row.revision = 1 /\ row.messages = m
  BY <1>2, <1>4, NothingGood, EmptyMessages DEF Inv, RowGood, GoodDocument, NoDocument
<1>7. \A d \in Documents : \A i : ~ Running(d, i)
  BY <1>3, <1>5, <1>6 DEF Running
<1>8. \A i, v : Before(Documents, i, v)
  BY <1>7 DEF Before
<1>9. Store
  <2>1. \A d \in Documents :
           /\ d.revision <= row.revision /\ (d.revision = row.revision => d.messages = row.messages)
           /\ DOMAIN d.messages \subseteq DOMAIN row.messages
    BY <1>5, <1>6
  <2>2. /\ row \in Documents /\ Documents \subseteq Document /\ row.revision > 0
        /\ running = {} /\ \A d \in Documents : PromptsDone(d)
    BY <1>2, <1>5, <1>6, <1>7 DEF PromptsDone
  <2> QED BY <1>8, <2>1, <2>2 DEF Store, StoreOk
<1>10. Copies
  <2> SUFFICES ASSUME NEW c \in Tabs PROVE EntryOk(tab[c], events[c], row, deleted, Documents)
    BY DEF Copies
  <2>1. tab[c] \in Entry /\ tab[c].revision = 1 /\ tab[c].messages = m /\ events[c] = <<>>
    BY <1>2, <1>4, <1>6 DEF Inv, TabsGood
  <2>2. \A i : ~ Running(tab[c], i)
    BY <1>3, <2>1 DEF Running
  <2>3. \A i : ~ Pending(events[c], i)
    BY <2>1 DEF Pending
  <2> QED BY <1>6, <1>8, <2>1, <2>2, <2>3 DEF EntryOk, PromptsDone
<1>11. Queues
  <2> SUFFICES ASSUME NEW c \in Tabs
               PROVE  QueueOk(events[c], row, running, deleted, Documents)
    BY DEF Queues
  <2>0. DOMAIN <<>> = {} /\ <<>> \in Seq(Event)
    OBVIOUS
  <2>1. DOMAIN events[c] = {} /\ events[c] \in Seq(Event)
    BY <1>2, <2>0
  <2> QED BY <2>1 DEF QueueOk
<1>12. Minted
  <2>1. \A d \in Documents : Mentions(d.messages) \subseteq used
    BY <1>3, <1>5, <1>6 DEF Mentions
  <2> QED BY <1>2, <1>3, <1>6, <2>1 DEF Minted, Known
<1>13. Fresh
  BY <1>2 DEF Fresh
<1> QED BY <1>9, <1>10, <1>11, <1>12, <1>13 DEF Order

LEMMA NextOrder == Inv /\ Order /\ [Next]_vars => Order' /\ Onward
<1> SUFFICES ASSUME Inv, Order, [Next]_vars PROVE Order' /\ Onward
  OBVIOUS
<1>1. CASE \E b \in Tabs : UserStep(b)
  BY <1>1, OrderSend, OrderEdit, OrderDelete, OrderOpen DEF UserStep
<1>2. CASE \E b \in Tabs : ReceiveDocument(b) \/ ReceiveSaved(b) \/ Deliver(b) \/ Ping(b)
  BY <1>2, OrderDocument, OrderSaved, OrderDeliver, OrderPing
<1>3. CASE \E r \in Replies : FinishReply(r)
  BY <1>3, OrderFinish
<1>4. CASE UNCHANGED vars
  BY <1>4, OrderStutter
<1> QED BY <1>1, <1>2, <1>3, <1>4 DEF Next

\* What documents, events and copies on their way may still say (Order).
THEOREM OrderInvariant == Spec => []Order
<1>1. Inv /\ Order /\ [Next]_vars => Order'
  BY NextOrder
<1> QED BY Invariant, InitOrder, <1>1, PTL DEF Spec

----------------------------------------------------------------------------
(* The theorems.                                                           *)

\* No download rewinds a copy: its revision does not fall and never passes the
\* row's, and a reply nobody deleted that it shows finished is not shown running
\* again (NoRewind).
THEOREM RewindCorrect == Spec => NoRewind
<1>1. Inv /\ Order /\ [Next]_vars =>
        [\A b \in Tabs :
            /\ tab[b].revision <= tab'[b].revision /\ tab'[b].revision <= row'.revision
            /\ \A i \in (DOMAIN tab[b].messages \cap DOMAIN tab'[b].messages) \ deleted' :
                  tab[b].messages[i].done => tab'[b].messages[i].done]_vars
  <2> SUFFICES ASSUME Inv, Order, [Next]_vars, NEW b \in Tabs
               PROVE  /\ tab[b].revision <= tab'[b].revision
                      /\ tab'[b].revision <= row'.revision
                      /\ \A i \in (DOMAIN tab[b].messages \cap DOMAIN tab'[b].messages) \ deleted' :
                            tab[b].messages[i].done => tab'[b].messages[i].done
    OBVIOUS
  <2>1. Order' /\ Onward
    BY NextOrder
  <2>2. Forward(tab[b], tab'[b], deleted')
    BY <2>1 DEF Onward
  <2>3. tab'[b].revision <= row'.revision
    BY <2>1 DEF Order, Copies, EntryOk
  <2> QED BY <2>2, <2>3 DEF Forward, Shows
<1> QED BY Invariant, OrderInvariant, <1>1, PTL DEF Spec, NoRewind

\* A branch's end has no children that are sent.
LEMMA EndsBelowLeaf ==
    ASSUME NEW m, NEW i, NEW skip, NEW end \in EndsBelow(m, i, skip)
    PROVE  end \in DOMAIN m /\ (m[end].kids \cap DOMAIN m) \ skip = {}
BY DEF EndsBelow

\* A new prompt is under the message it follows.
LEMMA AppendedUnder ==
    ASSUME NEW m, IsMessages(m), NEW t \in Turn,
           t.user \notin DOMAIN m, t.reply \notin DOMAIN m, t.parent # t.user
    PROVE  AppendTurn(m, t)[t.user].parent = t.parent
BY TurnFacts DEF AppendTurn, WithPrompt, LinkChild, Put

\* A turn that is stored after a download is added after a message that has no
\* stored children.
LEMMA ResentAtEnd ==
    ASSUME Inv, Order, NEW b \in Tabs, ReceiveDocument(b), row' # row,
           tab[b].revision <= reading[b].revision
    PROVE  LET m == row'.messages
               u == resend[b].user
           IN  m[m[u].parent].kids \cap DOMAIN m = {u}
<1> DEFINE w == tab[b]
           d == reading[b]
           x == TakenOver(b)
           t == resend[b]
           R == row.messages
<1>1. t # NoTurn /\ \E end \in Ends(x, t) :
         LET moved == [t EXCEPT !.parent = end]
             y     == MovedUnder(x, t, end)
         IN  Stores(moved, y.revision) /\ StoreTurn(moved)
  BY Zenon DEF ReceiveDocument, TakenOver, Idle, Refuse
<1>2. PICK end \in Ends(x, t) :
         LET moved == [t EXCEPT !.parent = end]
             y     == MovedUnder(x, t, end)
         IN  Stores(moved, y.revision) /\ StoreTurn(moved)
  BY <1>1
<1> DEFINE moved == [t EXCEPT !.parent = end]
           y     == MovedUnder(x, t, end)
<1>3. /\ StoreOk(row, running, deleted, Documents) /\ d \in Documents
      /\ w \in Entry /\ d \in Document
      /\ Own(t) \cap Known = {} /\ Waiting(w, t)
      /\ Waiting(x, t) /\ x \in Entry
  BY <1>1, DocumentsAre, TakenOverOk DEF Order, Store, Copies, EntryOk, StoreOk, Fresh
<1>4. t \in Turn /\ ~ t.done
  BY <1>1 DEF Inv, ResendGood, GoodTurn
\* The copy took over the document, and the document is the row.
<1>5. /\ x.messages = Downloaded(w, d).messages /\ x.unsent = Downloaded(w, d).unsent
      /\ x.revision = d.revision
  <2> DEFINE put == Downloaded(w, d)
  <2>1. PutChat(w, d) = put
    BY <1>3, EntryFacts, DocumentFacts DEF PutChat
  <2>2. x \in {put, [put EXCEPT !.later = 0]}
    BY <2>1 DEF TakenOver
  <2>3. put \in Entry /\ put.revision = d.revision
    BY <1>3, DownloadedEffect
  <2> HIDE DEF put
  <2>4. \A z \in Entry : /\ [z EXCEPT !.later = 0].messages = z.messages
                         /\ [z EXCEPT !.later = 0].unsent = z.unsent
                         /\ [z EXCEPT !.later = 0].revision = z.revision
    BY DEF Entry
  <2> QED BY <2>2, <2>3, <2>4 DEF put
<1> HIDE DEF x, w, d, t
<1> DEFINE own == (w.unsent \cap DOMAIN w.messages) \ DOMAIN d.messages
<1>6. /\ x.unsent = own
      /\ \A i \in DOMAIN d.messages \ DOMAIN x.messages : i = w.live
      /\ \A i \in (DOMAIN d.messages \cap DOMAIN x.messages) \ {w.live} :
            d.messages[i].kids \subseteq x.messages[i].kids
  <2> DEFINE put == Downloaded(w, d)
  <2>1. /\ put.unsent = own
        /\ \A i \in DOMAIN d.messages \ DOMAIN put.messages : i = w.live /\ Running(d, i)
        /\ \A i \in (DOMAIN d.messages \cap DOMAIN put.messages) \ {w.live} :
              d.messages[i].kids \subseteq put.messages[i].kids
    BY <1>3, DownloadedEffect
  <2> HIDE DEF put
  <2>2. x.messages = put.messages /\ x.unsent = put.unsent
    BY <1>5 DEF put
  <2> QED BY <2>1, <2>2
<1>7. /\ Reshaped(x, y) /\ end \in Ids \cup {None}
  BY <1>3, <1>4, MovedEffect
<1>8. moved \in Turn /\ ~ moved.done /\ moved.user = t.user /\ moved.reply = t.reply
      /\ moved.parent = end
  BY <1>4, <1>7 DEF Turn
<1>9. /\ y.revision = row.revision /\ (end = None \/ end \in DOMAIN row.messages)
      /\ row'.messages = AppendTurn(row.messages, moved)
  BY <1>2, <1>8 DEF Stores, StoreTurn, Commit
<1> HIDE DEF y, moved
<1>10. d.messages = R
  BY <1>3, <1>5, <1>7, <1>9 DEF Reshaped, StoreOk
<1>11. /\ w.live \notin DOMAIN R /\ t.user \notin Mentions(R) /\ t.reply \notin Mentions(R)
       /\ DOMAIN R \subseteq Mentions(R) /\ IsMessages(R) /\ DOMAIN R \subseteq Ids
  <2>1. Mentions(R) \subseteq Known /\ DOMAIN R \subseteq Mentions(R)
    BY DocumentsAre, KnownMentions DEF Mentions
  <2>2. IsMessages(R) /\ DOMAIN R \subseteq Ids
    BY <1>3, DocumentFacts DEF StoreOk
  <2>3. w.live \in {t.reply, None} /\ None \notin Ids
    BY <1>3, HistoryAssumption DEF Waiting, Ids
  <2> QED BY <1>3, <2>1, <2>2, <2>3 DEF Own
<1>12. \A i \in DOMAIN R : /\ i \in DOMAIN x.messages /\ i \notin own
                           /\ R[i].kids \subseteq x.messages[i].kids
  BY <1>6, <1>10, <1>11
\* So the turn was moved to an end of its branch, which is stored.
<1>13. end \in EndsBelow(x.messages, t.parent, x.unsent)
  <2>1. t.user \in x.unsent /\ t.user \in DOMAIN x.messages /\ t.parent \in Replies
    BY <1>3 DEF Waiting, Own
  <2>2. t.parent \in DOMAIN x.messages
    <3>1. CASE t.parent \notin DOMAIN x.messages
      <4>1. end = t.parent
        BY <1>2, <3>1 DEF Ends
      <4>2. end # None
        BY <2>1, <4>1, HistoryAssumption
      <4> QED BY <1>9, <1>12, <4>1, <4>2
    <3> QED BY <3>1
  <2> QED BY <1>2, <2>1, <2>2 DEF Ends
<1>14. end \in DOMAIN R /\ (x.messages[end].kids \cap DOMAIN x.messages) \ own = {}
  <2>1. end \in DOMAIN x.messages /\ (x.messages[end].kids \cap DOMAIN x.messages) \ x.unsent = {}
    BY <1>13, EndsBelowLeaf
  <2>2. end # None
    BY <1>3, <2>1, EntryFacts, HistoryAssumption DEF Ids
  <2> QED BY <1>6, <1>9, <2>1, <2>2
<1>15. R[end].kids \cap DOMAIN R = {}
  BY <1>12, <1>14
<1> HIDE DEF R, own
<1>16. LET n == AppendTurn(R, moved)
       IN  n[n[t.user].parent].kids \cap DOMAIN n = {t.user}
  <2> DEFINE n == AppendTurn(R, moved)
             u == t.user
  <2>1. /\ moved.user \notin DOMAIN R /\ moved.reply \notin DOMAIN R
        /\ moved.parent \in DOMAIN R /\ moved.parent # moved.user
    BY <1>8, <1>11, <1>14
  <2>2. /\ DOMAIN n = DOMAIN R \cup {moved.user, moved.reply}
        /\ n[moved.parent].kids = R[moved.parent].kids \cup {moved.user}
        /\ n[moved.user].parent = moved.parent
    <3>0. moved \in Turn /\ ~ moved.done /\ IsMessages(R)
      BY <1>8, <1>11
    <3>1. DOMAIN n = DOMAIN R \cup {moved.user, moved.reply}
      BY <2>1, <3>0, AppendTurnEffect
    <3>2. moved.parent \in DOMAIN R =>
             n[moved.parent].kids = R[moved.parent].kids \cup {moved.user}
      BY <2>1, <3>0, AppendTurnEffect
    <3>3. n[moved.user].parent = moved.parent
      BY <2>1, <3>0, AppendedUnder
    <3> QED BY <2>1, <3>1, <3>2, <3>3
  <2>3. R[end].kids \subseteq Mentions(R)
    BY <1>14 DEF Mentions
  <2> HIDE DEF n
  <2> QED BY <1>8, <1>11, <1>14, <1>15, <2>2, <2>3 DEF n
<1> QED BY <1>9, <1>16 DEF R, t

\* A turn refused by a conflict and sent again after a download the copy took
\* over is added after the newest message of its branch (ResentTurnEndsTheBranch).
THEOREM ResentCorrect == Spec => ResentTurnEndsTheBranch
<1>1. Inv /\ Order /\ [Next]_vars =>
        [\A b \in Tabs :
            ReceiveDocument(b) /\ row' # row /\ tab[b].revision <= reading[b].revision
               => LET m == row'.messages
                      u == resend[b].user
                  IN  m[m[u].parent].kids \cap DOMAIN m = {u}]_vars
  BY ResentAtEnd
<1> QED BY Invariant, OrderInvariant, <1>1, PTL DEF Spec, ResentTurnEndsTheBranch
=============================================================================
