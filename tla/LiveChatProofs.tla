--------------------------- MODULE LiveChatProofs ---------------------------
(***************************************************************************)
(* What a tab shows of its own, for any number of tabs and messages: an    *)
(* unsent message and the reply the tab waits for leave its screen only    *)
(* when the user deletes them.                                             *)
(*                                                                         *)
(* Both follow from one step at a time, given what an entry is (Good): its *)
(* messages are ids that some tab has minted, and the reply it waits for   *)
(* is not shown finished.  The latter needs that ids are minted once, so   *)
(* Good is stated relative to the ids used.                                *)
(***************************************************************************)
EXTENDS LiveChat, ChatHistoryProofs

Messages == UNION {[S -> Message] : S \in SUBSET Ids}

Document == [revision : Nat, messages : Messages]

Entry == [revision : Nat, messages : Messages, leaf : Ids \cup {None}, later : Nat,
          live : Replies \cup {None}, unsent : SUBSET Ids]

Event == [kind : {"turn"}, turn : Turn]
            \cup [kind : {"done"}, reply : Replies, text : Texts, revision : Nat]

\* The reply this tab waits for is not shown finished.
Waits(x) == x.live \in DOMAIN x.messages => ~ x.messages[x.live].done

Good(x, ids) == x \in Entry /\ DOMAIN x.messages \subseteq ids /\ Waits(x)

GoodDocument(d, ids) == d \in Document /\ DOMAIN d.messages \subseteq ids

\* A turn on its way runs.
GoodTurn(t, ids) == t \in Turn /\ ~ t.done /\ t.user \in ids /\ t.reply \in ids

GoodEvent(e, ids) == e \in Event /\ (e.kind = "turn" => GoodTurn(e.turn, ids))

IdsGood    == used \subseteq Ids /\ running \subseteq Replies \cap used
RowGood    == GoodDocument(row, used) /\ deleted \subseteq used
TabsGood   == tab \in [Tabs -> Entry] /\ \A b \in Tabs : Good(tab[b], used)
ReadGood   == reading \in [Tabs -> Document] /\ \A b \in Tabs : GoodDocument(reading[b], used)
SavedGood  == saved \in [Tabs -> Document] /\ \A b \in Tabs : GoodDocument(saved[b], used)
ResendGood ==
    /\ resend \in [Tabs -> Turn \cup {NoTurn}]
    /\ \A b \in Tabs : resend[b] # NoTurn => GoodTurn(resend[b], used)
SentGood   ==
    /\ events \in [Tabs -> Seq(Event)]
    /\ \A b \in Tabs : \A n \in DOMAIN events[b] : GoodEvent(events[b][n], used)
    /\ told \in [Tabs -> Nat]

Inv == IdsGood /\ RowGood /\ TabsGood /\ ReadGood /\ SavedGood /\ ResendGood /\ SentGood

\* From x to y no unsent message and no awaited reply leaves the screen.
Keeps(x, y) ==
    /\ x.unsent \cap DOMAIN x.messages \subseteq DOMAIN y.messages
    /\ x.live \in DOMAIN x.messages => x.live \in DOMAIN y.messages

TabsKeep == \A b \in Tabs : Keeps(tab[b], tab'[b])

----------------------------------------------------------------------------
(* What an entry becomes.                                                  *)

LEMMA MessagesAre ==
    /\ \A m : m \in Messages <=> IsMessages(m)
    /\ \A m \in Messages : DOMAIN m \subseteq Ids /\ \A i \in DOMAIN m : m[i] \in Message
BY DEF Messages, IsMessages

LEMMA EmptyMessages == NoMessages \in Messages /\ DOMAIN NoMessages = {}
<1>1. NoMessages \in [{} -> Message] /\ DOMAIN NoMessages = {}
  BY DEF NoMessages
<1> QED BY <1>1 DEF Messages

\* More ids keep what is good.
LEMMA GoodGrows ==
    ASSUME NEW ids, NEW more, ids \subseteq more
    PROVE  /\ \A x : Good(x, ids) => Good(x, more)
           /\ \A d : GoodDocument(d, ids) => GoodDocument(d, more)
           /\ \A t : GoodTurn(t, ids) => GoodTurn(t, more)
           /\ \A e : GoodEvent(e, ids) => GoodEvent(e, more)
BY DEF Good, GoodDocument, GoodTurn, GoodEvent

\* A download keeps what is unsent and the reply that is awaited.
LEMMA DownloadedGood ==
    ASSUME NEW ids, NEW x, Good(x, ids), NEW d, GoodDocument(d, ids)
    PROVE  /\ Good(Downloaded(x, d), ids) /\ Keeps(x, Downloaded(x, d))
           /\ Downloaded(x, d).revision = d.revision
<1> DEFINE ended(m)  == x.live \in DOMAIN m /\ m[x.live].done
           streaming == {x.live} \ (IF ended(x.messages) \/ ended(d.messages)
                                    THEN {x.live} ELSE {None})
           own    == (x.unsent \cap DOMAIN x.messages) \ DOMAIN d.messages
           kept   == own \cup (streaming \cap DOMAIN x.messages)
           merged == [i \in (DOMAIN d.messages \ streaming) \cup kept |->
                        IF i \in kept THEN x.messages[i] ELSE d.messages[i]]
           new    == [i \in DOMAIN merged |->
                        [merged[i] EXCEPT !.kids = @ \cup {k \in own : merged[k].parent = i}]]
           live   == IF streaming = {} THEN None ELSE x.live
           y == [x EXCEPT !.revision = d.revision, !.messages = new, !.unsent = own,
                          !.live = live]
<1>1. Downloaded(x, d) = y
  BY DEF Downloaded
<1>2. /\ x \in Entry /\ x.messages \in Messages /\ DOMAIN x.messages \subseteq ids
      /\ d.messages \in Messages /\ DOMAIN d.messages \subseteq ids /\ d.revision \in Nat
      /\ x.live \in Replies \cup {None} /\ x.unsent \subseteq Ids
  BY DEF Good, GoodDocument, Document, Entry
<1>3. DOMAIN merged = (DOMAIN d.messages \ streaming) \cup kept /\ DOMAIN new = DOMAIN merged
  OBVIOUS
<1>4. kept \subseteq DOMAIN x.messages
  OBVIOUS
<1>5. \A i \in DOMAIN merged : merged[i] \in Message
  BY <1>2, <1>4, MessagesAre
<1>6. own \subseteq Ids /\ DOMAIN merged \subseteq Ids /\ DOMAIN merged \subseteq ids
  BY <1>2, <1>4, MessagesAre
<1>7. ASSUME NEW i \in DOMAIN merged
      PROVE  new[i] \in Message /\ new[i].done = merged[i].done
  <2> DEFINE k == merged[i].kids \cup {j \in own : merged[j].parent = i}
  <2>1. new[i] = [merged[i] EXCEPT !.kids = k]
    BY <1>7
  <2>2. k \subseteq Ids /\ merged[i] \in Message
    BY <1>5, <1>6, <1>7 DEF Message
  <2> HIDE DEF k, merged, new
  <2> QED BY <2>1, <2>2 DEF Message
<1>8. new \in Messages
  <2> HIDE DEF merged, own
  <2>1. new \in [DOMAIN merged -> Message]
    BY <1>7
  <2> QED BY <1>6, <2>1 DEF Messages
<1>9. live \in Replies \cup {None}
  BY <1>2
<1>10. /\ y \in Entry /\ y.messages = new /\ y.live = live /\ y.revision = d.revision
       /\ y.unsent = own
  <2> HIDE DEF new, own, live
  <2> QED BY <1>2, <1>6, <1>8, <1>9 DEF Entry
<1>11. None \notin DOMAIN x.messages
  BY <1>2, MessagesAre, HistoryAssumption DEF Ids
<1>12. x.live \in DOMAIN x.messages => ~ ended(x.messages)
  BY DEF Good, Waits
<1>13. ASSUME x.live \in DOMAIN x.messages PROVE x.live \in DOMAIN new
  <2>1. CASE ended(d.messages)
    <3>1. streaming = {}
      BY <2>1
    <3> QED BY <1>3, <2>1, <3>1
  <2>2. CASE ~ ended(d.messages)
    <3>1. streaming = {x.live}
      BY <1>11, <1>12, <1>13, <2>2
    <3> QED BY <1>3, <1>13, <3>1
  <2> QED BY <2>1, <2>2
<1>14. x.unsent \cap DOMAIN x.messages \subseteq DOMAIN new
  <2>1. SUFFICES ASSUME NEW i \in x.unsent \cap DOMAIN x.messages PROVE i \in DOMAIN new
    OBVIOUS
  <2>2. CASE i \in DOMAIN d.messages /\ i \notin streaming
    BY <1>3, <2>2
  <2>3. CASE i \in streaming
    BY <1>3, <2>3
  <2>4. CASE i \notin DOMAIN d.messages
    BY <1>3, <2>4
  <2> QED BY <2>2, <2>3, <2>4
<1>15. Waits(y)
  <2>0. SUFFICES live \in DOMAIN new => ~ new[live].done
    <3> HIDE DEF y, new, live
    <3> QED BY <1>10 DEF Waits
  <2>1. SUFFICES ASSUME live \in DOMAIN new PROVE ~ new[live].done
    OBVIOUS
  <2>2. None \notin DOMAIN new
    BY <1>3, <1>6, HistoryAssumption DEF Ids
  <2>3. streaming # {} /\ live = x.live /\ streaming = {x.live}
    BY <2>1, <2>2
  <2>4. live \in kept /\ live \in DOMAIN x.messages
    BY <1>3, <1>4, <2>1, <2>3
  <2>5. new[live].done = x.messages[live].done
    <3>1. live \in DOMAIN merged /\ merged[live] = x.messages[live]
      BY <1>3, <2>1, <2>4
    <3>2. new[live].done = merged[live].done
      BY <1>7, <3>1
    <3> HIDE DEF live, merged, new
    <3> QED BY <3>1, <3>2
  <2> QED BY <1>12, <2>3, <2>4, <2>5
<1>16. Good(y, ids) /\ Keeps(x, y)
  <2> HIDE DEF y, new, live
  <2> QED BY <1>3, <1>6, <1>10, <1>13, <1>14, <1>15 DEF Good, Keeps
<1> QED BY <1>1, <1>10, <1>16

\* So does a document that is merged or too old.
LEMMA PutChatGood ==
    ASSUME NEW ids, NEW x, Good(x, ids), NEW d, GoodDocument(d, ids)
    PROVE  Good(PutChat(x, d), ids) /\ Keeps(x, PutChat(x, d))
<1>1. CASE d.revision < x.revision
  BY <1>1 DEF PutChat, Keeps
<1>2. CASE ~ d.revision < x.revision
  BY <1>2, DownloadedGood DEF PutChat
<1> QED BY <1>1, <1>2

\* What else an entry becomes: other messages, another screen, another note.
LEMMA GoodWith ==
    ASSUME NEW ids, NEW x, Good(x, ids),
           NEW m \in Messages, DOMAIN m \subseteq ids,
           NEW leaf \in Ids \cup {None}, NEW later \in Nat, NEW live \in Replies \cup {None},
           NEW unsent \in SUBSET Ids, live \in DOMAIN m => ~ m[live].done
    PROVE  Good([x EXCEPT !.messages = m, !.leaf = leaf, !.later = later, !.live = live,
                          !.unsent = unsent], ids)
BY DEF Good, Entry, Waits

LEMMA GoodFacts ==
    ASSUME NEW ids, NEW x, Good(x, ids)
    PROVE  /\ x \in Entry /\ x.revision \in Nat /\ x.messages \in Messages
           /\ IsMessages(x.messages) /\ DOMAIN x.messages \subseteq Ids
           /\ DOMAIN x.messages \subseteq ids
           /\ \A i \in DOMAIN x.messages : x.messages[i] \in Message
           /\ x.leaf \in Ids \cup {None} /\ x.later \in Nat
           /\ x.live \in Replies \cup {None} /\ x.unsent \subseteq Ids
           /\ x.live \in DOMAIN x.messages => ~ x.messages[x.live].done
BY MessagesAre DEF Good, Entry, Waits

LEMMA TurnFacts ==
    ASSUME NEW t \in Turn
    PROVE  /\ t.user \in Prompts /\ t.reply \in Replies /\ t.user \in Ids /\ t.reply \in Ids
           /\ t.parent \in Ids \cup {None} /\ t.text \in Texts /\ t.done \in BOOLEAN
           /\ t.user # t.reply /\ t # NoTurn
<1>1. DOMAIN NoTurn = {"user"} /\ DOMAIN t = {"user", "reply", "parent", "text", "done"}
  BY DEF NoTurn, Turn
<1> QED BY <1>1, HistoryAssumption DEF Turn, Ids

\* Linking a child ends no message.
LEMMA LinkKeepsDone ==
    ASSUME NEW m, IsMessages(m), NEW p \in Ids \cup {None}, NEW k \in Ids
    PROVE  /\ IsMessages(LinkChild(m, p, k)) /\ DOMAIN LinkChild(m, p, k) = DOMAIN m
           /\ \A j \in DOMAIN m : LinkChild(m, p, k)[j].done = m[j].done
<1>1. \A j \in DOMAIN m : m[j] \in Message
  BY DEF IsMessages
<1>4. \A j \in DOMAIN m : LinkChild(m, p, k)[j].done = m[j].done
  BY <1>1 DEF LinkChild, IsMessages, Message
<1>5. IsMessages(LinkChild(m, p, k)) /\ DOMAIN LinkChild(m, p, k) = DOMAIN m
  BY LinkChildType
<1> QED BY <1>4, <1>5

LEMMA ParentedFacts ==
    ASSUME NEW m, IsMessages(m), NEW j \in DOMAIN m, NEW u \in Ids
    PROVE  /\ IsMessages(Parented(m, j, u)) /\ DOMAIN Parented(m, j, u) = DOMAIN m
           /\ \A i \in DOMAIN m : /\ Parented(m, j, u)[i].done = m[i].done
                                /\ Parented(m, j, u)[i].kids = m[i].kids
<1>1. m \in [DOMAIN m -> Message] /\ DOMAIN m \subseteq Ids
  BY DEF IsMessages
<1>2. m[j] \in Message
  BY <1>1
<1> DEFINE up == IF m[j].parent = None THEN u ELSE m[j].parent
           child == [m[j] EXCEPT !.parent = up]
<1>3. child \in Message /\ child.done = m[j].done /\ child.kids = m[j].kids
  BY <1>2 DEF Message
<1>4. Parented(m, j, u) = [m EXCEPT ![j] = child]
  BY DEF Parented
<1> HIDE DEF child
<1> QED BY <1>1, <1>3, <1>4 DEF IsMessages

\* A turn that arrives adds its two messages and ends none.
LEMMA AdoptedGood ==
    ASSUME NEW m, IsMessages(m), NEW t \in Turn, ~ t.done
    PROVE  /\ IsMessages(Adopted(m, t))
           /\ DOMAIN Adopted(m, t) = DOMAIN m \cup {t.user, t.reply}
           /\ \A j \in DOMAIN m : Adopted(m, t)[j].done = m[j].done
           /\ t.reply \notin DOMAIN m => ~ Adopted(m, t)[t.reply].done
<1> DEFINE prompt == [parent |-> t.parent, kids |-> {t.reply}, text |-> t.text, done |-> TRUE]
           listed == [m EXCEPT ![t.user].kids = @ \cup {t.reply}]
           prompted == IF t.user \in DOMAIN m THEN listed ELSE Put(m, t.user, prompt)
           reply == [parent |-> t.user, kids |-> {}, text |-> Blank, done |-> t.done]
           replied == IF t.reply \in DOMAIN m THEN Parented(prompted, t.reply, t.user)
                      ELSE Put(prompted, t.reply, reply)
<1>1. /\ t.user \in Ids /\ t.reply \in Ids /\ t.user # t.reply
      /\ t.parent \in Ids \cup {None} /\ t.text \in Texts /\ t.done \in BOOLEAN
  BY TurnFacts
<1>2. prompt \in Message /\ reply \in Message /\ ~ reply.done
  BY <1>1, HistoryAssumption DEF Message
<1>3. /\ IsMessages(prompted) /\ DOMAIN prompted = DOMAIN m \cup {t.user}
      /\ \A j \in DOMAIN m : prompted[j].done = m[j].done
  <2>1. CASE t.user \in DOMAIN m
    <3>1. listed = LinkChild(m, t.user, t.reply)
      BY <2>1 DEF LinkChild
    <3> HIDE DEF listed
    <3>2. prompted = LinkChild(m, t.user, t.reply)
      BY <2>1, <3>1
    <3>3. t.user \in Ids \cup {None} /\ DOMAIN m \cup {t.user} = DOMAIN m
      BY <1>1, <2>1
    <3> DEFINE link == LinkChild(m, t.user, t.reply)
    <3>4. IsMessages(link) /\ DOMAIN link = DOMAIN m
      BY <1>1, <3>3, LinkKeepsDone
    <3>5. \A j \in DOMAIN m : link[j].done = m[j].done
      BY <1>1, <3>3, LinkKeepsDone
    <3> HIDE DEF link, prompted
    <3> QED BY <3>2, <3>3, <3>4, <3>5 DEF link
  <2>2. CASE t.user \notin DOMAIN m
    <3> HIDE DEF prompt
    <3> DEFINE put == Put(m, t.user, prompt)
    <3>1. prompted = put
      BY <2>2
    <3>4. t.user \in Ids /\ prompt \in Message
      BY <1>1, <1>2
    <3>5. IsMessages(put)
      BY <3>4, PutType
    <3>2. DOMAIN put = DOMAIN m \cup {t.user}
      BY DEF Put
    <3>3. \A j \in DOMAIN m : put[j] = m[j]
      BY <2>2 DEF Put
    <3> HIDE DEF put, prompted
    <3> QED BY <3>1, <3>2, <3>3, <3>5
  <2> QED BY <2>1, <2>2
<1>4. /\ IsMessages(replied) /\ DOMAIN replied = DOMAIN m \cup {t.user, t.reply}
      /\ \A j \in DOMAIN m : replied[j].done = m[j].done
      /\ t.reply \notin DOMAIN m => ~ replied[t.reply].done
  <2> HIDE DEF prompted, reply
  <2>1. CASE t.reply \in DOMAIN m
    <3> DEFINE named == Parented(prompted, t.reply, t.user)
    <3>1. replied = named
      BY <2>1
    <3>2. t.reply \in DOMAIN prompted
      BY <1>3, <2>1
    <3>3. IsMessages(named) /\ DOMAIN named = DOMAIN prompted
      BY <1>1, <1>3, <3>2, ParentedFacts
    <3>4. \A j \in DOMAIN prompted : /\ named[j].done = prompted[j].done
                                     /\ named[j].kids = prompted[j].kids
      BY <1>1, <1>3, <3>2, ParentedFacts
    <3> HIDE DEF named, replied
    <3> QED BY <1>3, <2>1, <3>1, <3>3, <3>4
  <2>2. CASE t.reply \notin DOMAIN m
    <3> DEFINE put == Put(prompted, t.reply, reply)
    <3>1. replied = put
      BY <2>2
    <3>2. IsMessages(put)
      BY <1>1, <1>2, <1>3, PutType
    <3>3. DOMAIN put = DOMAIN prompted \cup {t.reply} /\ put[t.reply] = reply
      BY DEF Put
    <3>4. \A j \in DOMAIN m : put[j] = prompted[j]
      BY <1>3, <2>2 DEF Put
    <3> HIDE DEF put, replied
    <3> QED BY <1>2, <1>3, <3>1, <3>2, <3>3, <3>4
  <2> QED BY <2>1, <2>2
<1>5. Adopted(m, t) = LinkChild(replied, replied[t.user].parent, t.user)
  BY DEF Adopted
<1> HIDE DEF replied
<1>6. replied[t.user].parent \in Ids \cup {None}
  BY <1>1, <1>4 DEF IsMessages, Message
<1> DEFINE adopted == LinkChild(replied, replied[t.user].parent, t.user)
<1>7. IsMessages(adopted) /\ DOMAIN adopted = DOMAIN replied
      /\ \A j \in DOMAIN replied : adopted[j].done = replied[j].done
  BY <1>1, <1>4, <1>6, LinkKeepsDone
<1>8. Adopted(m, t) = adopted
  BY <1>5
<1> HIDE DEF adopted
<1>9. DOMAIN adopted = DOMAIN m \cup {t.user, t.reply} /\ t.reply \in DOMAIN replied
  BY <1>4, <1>7
<1>10. \A j \in DOMAIN m : adopted[j].done = m[j].done
  BY <1>4, <1>7
<1> QED BY <1>4, <1>7, <1>8, <1>9, <1>10

\* A new turn is shown with its reply awaited.
LEMMA ShownGood ==
    ASSUME NEW ids, NEW x, Good(x, ids), NEW t \in Turn, ~ t.done,
           t.user \notin DOMAIN x.messages, t.reply \notin DOMAIN x.messages
    PROVE  /\ Good(Shown(x, t), ids \cup {t.user, t.reply}) /\ Keeps(x, Shown(x, t))
           /\ Shown(x, t).revision = x.revision
<1> DEFINE m == AppendTurn(x.messages, t)
           y == [x EXCEPT !.messages = m, !.leaf = t.reply, !.live = t.reply,
                          !.unsent = @ \cup {t.user, t.reply}]
<1>0. /\ x \in Entry /\ x.revision \in Nat /\ x.messages \in Messages
      /\ IsMessages(x.messages) /\ DOMAIN x.messages \subseteq Ids
      /\ DOMAIN x.messages \subseteq ids
      /\ \A i \in DOMAIN x.messages : x.messages[i] \in Message
      /\ x.leaf \in Ids \cup {None} /\ x.later \in Nat
      /\ x.live \in Replies \cup {None} /\ x.unsent \subseteq Ids
      /\ x.live \in DOMAIN x.messages => ~ x.messages[x.live].done
  BY GoodFacts
<1>1. Shown(x, t) = y
  BY DEF Shown
<1>2. IsMessages(m) /\ DOMAIN m = DOMAIN x.messages \cup {t.user, t.reply}
  BY <1>0, AppendTurnType
<1>3. ~ m[t.reply].done
  <2> DEFINE w == WithPrompt(x.messages, t)
             r == [parent |-> t.user, kids |-> {}, text |-> Blank, done |-> t.done]
  <2>1. DOMAIN w = DOMAIN x.messages \cup {t.user}
    BY <1>0, WithPromptType
  <2>2. t.reply \notin DOMAIN w
    BY <2>1, TurnFacts
  <2>3. m = Put(w, t.reply, r)
    BY <2>2 DEF AppendTurn
  <2> HIDE DEF w, m
  <2>4. m[t.reply] = r
    BY <2>3 DEF Put
  <2> QED BY <2>4
<1> HIDE DEF m
<1>4. /\ x \in Entry /\ t.reply \in Ids /\ t.reply \in Replies /\ t.user \in Ids
      /\ x.unsent \subseteq Ids /\ m \in Messages /\ DOMAIN x.messages \subseteq ids
  BY <1>2, <1>0, TurnFacts, MessagesAre
<1>5. /\ y \in Entry /\ y.messages = m /\ y.live = t.reply /\ y.revision = x.revision
  BY <1>4 DEF Entry
<1> HIDE DEF y
<1>6. Good(y, ids \cup {t.user, t.reply})
  BY <1>2, <1>3, <1>4, <1>5 DEF Good, Waits
<1>7. Keeps(x, y)
  BY <1>2, <1>5 DEF Keeps
<1> QED BY <1>1, <1>5, <1>6, <1>7

\* A failed turn stays, and its reply is awaited no longer.
LEMMA FailedGood ==
    ASSUME NEW ids, NEW x, Good(x, ids), NEW t \in Turn
    PROVE  /\ Good(Failed(x, t), ids) /\ Keeps(x, Failed(x, t))
           /\ DOMAIN Failed(x, t).messages = DOMAIN x.messages
<1> DEFINE m == IF t.reply \in DOMAIN x.messages
                THEN [x.messages EXCEPT ![t.reply].done = TRUE] ELSE x.messages
           live == IF x.live = t.reply THEN None ELSE x.live
           y == [x EXCEPT !.messages = m, !.live = live]
<1>0. /\ x \in Entry /\ x.revision \in Nat /\ x.messages \in Messages
      /\ IsMessages(x.messages) /\ DOMAIN x.messages \subseteq Ids
      /\ DOMAIN x.messages \subseteq ids
      /\ \A i \in DOMAIN x.messages : x.messages[i] \in Message
      /\ x.leaf \in Ids \cup {None} /\ x.later \in Nat
      /\ x.live \in Replies \cup {None} /\ x.unsent \subseteq Ids
      /\ x.live \in DOMAIN x.messages => ~ x.messages[x.live].done
  BY GoodFacts
<1>1. Failed(x, t) = y
  BY <1>0 DEF Failed, Entry
<1>2. m \in Messages /\ DOMAIN m = DOMAIN x.messages
      /\ \A j \in DOMAIN m : j # t.reply => m[j] = x.messages[j]
  <2>1. \A z \in Message : [z EXCEPT !.done = TRUE] \in Message
    BY DEF Message
  <2> QED BY <2>1, <1>0, MessagesAre DEF IsMessages
<1>3. live \in Replies \cup {None} /\ live # t.reply
  BY <1>0, TurnFacts, HistoryAssumption DEF Ids
<1>4. live \in DOMAIN m => ~ m[live].done
  <2>1. ASSUME live \in DOMAIN m PROVE live = x.live
    BY <1>2, <2>1, <1>0, HistoryAssumption DEF Ids
  <2> QED BY <1>2, <1>3, <2>1, <1>0
<1> HIDE DEF m, live
<1>5. y \in Entry /\ y.messages = m /\ y.live = live
  BY <1>2, <1>3, <1>0 DEF Entry
<1> HIDE DEF y
<1>6. Good(y, ids) /\ Keeps(x, y)
  BY <1>2, <1>4, <1>5, <1>0 DEF Good, Waits, Keeps
<1> QED BY <1>1, <1>2, <1>5, <1>6

\* The turn's event: the awaited reply is not among its messages, or runs.
LEMMA ArrivedGood ==
    ASSUME NEW ids, NEW x, Good(x, ids), NEW t, GoodTurn(t, ids)
    PROVE  Good(TurnArrived(x, t), ids) /\ Keeps(x, TurnArrived(x, t))
<1> DEFINE m == Adopted(x.messages, t)
           leaf == IF x.live = None /\ (x.leaf = None \/ Extends(m, x.leaf, t.reply))
                   THEN t.reply ELSE x.leaf
           y == [x EXCEPT !.messages = m, !.unsent = @ \ {t.user, t.reply}, !.leaf = leaf]
<1>0. /\ x \in Entry /\ x.revision \in Nat /\ x.messages \in Messages
      /\ IsMessages(x.messages) /\ DOMAIN x.messages \subseteq Ids
      /\ DOMAIN x.messages \subseteq ids
      /\ \A i \in DOMAIN x.messages : x.messages[i] \in Message
      /\ x.leaf \in Ids \cup {None} /\ x.later \in Nat
      /\ x.live \in Replies \cup {None} /\ x.unsent \subseteq Ids
      /\ x.live \in DOMAIN x.messages => ~ x.messages[x.live].done
  BY GoodFacts
<1>1. TurnArrived(x, t) = y
  BY <1>0 DEF TurnArrived, Entry
<1>2. t \in Turn /\ ~ t.done /\ t.user \in ids /\ t.reply \in ids
  BY DEF GoodTurn
<1>3. /\ IsMessages(m) /\ DOMAIN m = DOMAIN x.messages \cup {t.user, t.reply}
      /\ \A j \in DOMAIN x.messages : m[j].done = x.messages[j].done
      /\ t.reply \notin DOMAIN x.messages => ~ m[t.reply].done
  BY <1>2, <1>0, AdoptedGood
<1> HIDE DEF m
<1>4. leaf \in Ids \cup {None} /\ m \in Messages
  BY <1>2, <1>3, <1>0, TurnFacts, MessagesAre
<1> HIDE DEF leaf
<1>5. y \in Entry /\ y.messages = m /\ y.live = x.live
  BY <1>4, <1>0 DEF Entry
<1> HIDE DEF y
<1>6. x.live # t.user
  BY <1>2, <1>0, TurnFacts, HistoryAssumption DEF Ids
<1>7. Waits(y)
  BY <1>3, <1>5, <1>6, <1>0 DEF Waits
<1>8. Good(y, ids) /\ Keeps(x, y)
  BY <1>2, <1>3, <1>5, <1>7, <1>0 DEF Good, Keeps
<1> QED BY <1>1, <1>8

\* The completion event ends the reply, which is then awaited no longer.
LEMMA CompletedGood ==
    ASSUME NEW ids, NEW x, Good(x, ids), NEW e, e \in Event, e.kind = "done"
    PROVE  Good(Completed(x, e), ids) /\ Keeps(x, Completed(x, e))
<1> DEFINE waiting == e.reply \in DOMAIN x.messages /\ ~ x.messages[e.reply].done
           ended == [x.messages EXCEPT ![e.reply].text = e.text, ![e.reply].done = TRUE]
           m == IF waiting THEN ended ELSE x.messages
           live == IF waiting /\ x.live = e.reply THEN None ELSE x.live
           y == [x EXCEPT !.messages = m, !.live = live]
<1>0. /\ x \in Entry /\ x.revision \in Nat /\ x.messages \in Messages
      /\ IsMessages(x.messages) /\ DOMAIN x.messages \subseteq Ids
      /\ DOMAIN x.messages \subseteq ids
      /\ \A i \in DOMAIN x.messages : x.messages[i] \in Message
      /\ x.leaf \in Ids \cup {None} /\ x.later \in Nat
      /\ x.live \in Replies \cup {None} /\ x.unsent \subseteq Ids
      /\ x.live \in DOMAIN x.messages => ~ x.messages[x.live].done
  BY GoodFacts
<1>1. e.reply \in Replies /\ e.text \in Texts /\ e.revision \in Nat
  BY DEF Event
<1>2. m \in Messages /\ DOMAIN m = DOMAIN x.messages
      /\ \A j \in DOMAIN m : j # e.reply => m[j] = x.messages[j]
  <2>1. \A z \in Message : [z EXCEPT !.text = e.text, !.done = TRUE] \in Message
    BY <1>1 DEF Message
  <2>2. CASE waiting
    <3>1. ended \in [DOMAIN x.messages -> Message]
      BY <2>1, <2>2, <1>0 DEF IsMessages, Message
    <3>2. DOMAIN ended = DOMAIN x.messages /\ \A j \in DOMAIN x.messages :
             j # e.reply => ended[j] = x.messages[j]
      BY <1>0
    <3> HIDE DEF ended
    <3> QED BY <2>2, <3>1, <3>2, <1>0, MessagesAre DEF IsMessages
  <2> QED BY <2>2, <1>0
<1>3. live \in Replies \cup {None} /\ (waiting => live # e.reply)
  BY <1>1, <1>0, HistoryAssumption DEF Ids
<1>4. live \in DOMAIN m => ~ m[live].done
  <2>1. ASSUME live \in DOMAIN m PROVE live = x.live
    BY <1>2, <2>1, <1>0, HistoryAssumption DEF Ids
  <2>2. ~ waiting => m = x.messages
    OBVIOUS
  <2> HIDE DEF m, live, waiting
  <2> QED BY <1>2, <1>3, <2>1, <2>2, <1>0
<1>5. \/ Completed(x, e) = y
      \/ \E later \in Nat : Completed(x, e) = [y EXCEPT !.revision = e.revision, !.later = later]
  <2> DEFINE finished == IF waiting THEN [x EXCEPT !.messages[e.reply].text = e.text,
                                            !.messages[e.reply].done = TRUE,
                                            !.live = IF @ = e.reply THEN None ELSE @]
                         ELSE x
             later == IF finished.later <= e.revision THEN 0 ELSE finished.later
  <2>1. Completed(x, e) = IF e.revision < x.revision THEN finished
           ELSE [finished EXCEPT !.revision = e.revision, !.later = later]
    BY DEF Completed
  <2>2. finished = y
    BY <1>0 DEF Entry
  <2>3. finished.later = x.later
    BY <1>0 DEF Entry
  <2>4. later \in Nat
    <3> HIDE DEF finished
    <3> QED BY <2>3, <1>0
  <2> HIDE DEF finished, y, later
  <2> QED BY <2>1, <2>2, <2>4
<1> HIDE DEF m, live, waiting
<1>6. \/ Completed(x, e) = y
      \/ \E later \in Nat : Completed(x, e) = [y EXCEPT !.revision = e.revision, !.later = later]
  BY <1>5
<1>7. y \in Entry /\ y.messages = m /\ y.live = live /\ y.unsent = x.unsent
  BY <1>2, <1>3, <1>0 DEF Entry
<1> HIDE DEF y
<1>8. Completed(x, e) \in Entry /\ Completed(x, e).messages = m /\ Completed(x, e).live = live
  <2>1. \A later \in Nat : LET z == [y EXCEPT !.revision = e.revision, !.later = later]
           IN  z \in Entry /\ z.messages = m /\ z.live = live
    BY <1>1, <1>7 DEF Entry
  <2> QED BY <1>6, <1>7, <2>1
<1>9. Good(Completed(x, e), ids) /\ Keeps(x, Completed(x, e))
  BY <1>2, <1>4, <1>8, <1>0 DEF Good, Waits, Keeps
<1> QED BY <1>9

\* Every branch ends at a message that is shown.
LEMMA BranchEnds == ASSUME NEW m, NEW i, NEW skip PROVE EndsBelow(m, i, skip) \subseteq DOMAIN m
BY DEF EndsBelow

\* A refused turn stays where it was or moves under a message that is shown.
LEMMA EndsFacts ==
    ASSUME NEW ids, NEW x, Good(x, ids), NEW t \in Turn, NEW end \in Ends(x, t)
    PROVE  /\ end \in Ids \cup {None}
           /\ end # t.parent => /\ t.user \in DOMAIN x.messages /\ t.parent \in DOMAIN x.messages
                                /\ end \in DOMAIN x.messages
<1>1. t.parent \in Ids \cup {None} /\ DOMAIN x.messages \subseteq Ids
  BY GoodFacts, TurnFacts
<1> QED BY <1>1, BranchEnds DEF Ends

LEMMA MovedGood ==
    ASSUME NEW ids, NEW x, Good(x, ids), NEW t \in Turn, NEW end \in Ends(x, t)
    PROVE  /\ Good(MovedUnder(x, t, end), ids)
           /\ DOMAIN MovedUnder(x, t, end).messages = DOMAIN x.messages
<1> DEFINE away == [x.messages EXCEPT ![t.user].parent = end]
           cut == [away EXCEPT ![t.parent].kids = @ \ {t.user}]
           m == LinkChild(cut, end, t.user)
           y == [x EXCEPT !.messages = m]
<1>1. CASE end = t.parent
  BY <1>1 DEF MovedUnder
<1>2. CASE end # t.parent
  <2>0. /\ x \in Entry /\ IsMessages(x.messages) /\ DOMAIN x.messages \subseteq ids
        /\ \A i \in DOMAIN x.messages : x.messages[i] \in Message
        /\ x.live \in DOMAIN x.messages => ~ x.messages[x.live].done
    BY GoodFacts
  <2>1. /\ t.user \in DOMAIN x.messages /\ t.parent \in DOMAIN x.messages
        /\ end \in Ids \cup {None} /\ t.user \in Ids
    BY <1>2, EndsFacts, TurnFacts
  <2>2. MovedUnder(x, t, end) = y
    BY <1>2 DEF MovedUnder
  <2>3. \A z \in Message : /\ [z EXCEPT !.parent = end] \in Message
                           /\ [z EXCEPT !.parent = end].done = z.done
                           /\ [z EXCEPT !.kids = @ \ {t.user}] \in Message
                           /\ [z EXCEPT !.kids = @ \ {t.user}].done = z.done
    BY <2>1 DEF Message
  <2>4. /\ away \in [DOMAIN x.messages -> Message]
        /\ \A j \in DOMAIN x.messages : away[j].done = x.messages[j].done
    BY <2>0, <2>1, <2>3 DEF IsMessages
  <2> HIDE DEF away
  <2>5. /\ cut \in [DOMAIN x.messages -> Message]
        /\ \A j \in DOMAIN x.messages : cut[j].done = x.messages[j].done
    BY <2>1, <2>3, <2>4
  <2> HIDE DEF cut
  <2>6. IsMessages(cut) /\ DOMAIN cut = DOMAIN x.messages
    BY <2>0, <2>5 DEF IsMessages
  <2>7. /\ IsMessages(m) /\ DOMAIN m = DOMAIN x.messages
        /\ \A j \in DOMAIN x.messages : m[j].done = x.messages[j].done
    BY <2>1, <2>5, <2>6, LinkKeepsDone
  <2> HIDE DEF m
  <2>8. m \in Messages
    BY <2>7, MessagesAre
  <2>9. y \in Entry /\ y.messages = m /\ y.live = x.live /\ y.unsent = x.unsent
    BY <2>0, <2>8 DEF Entry
  <2> HIDE DEF y
  <2>10. Good(y, ids) /\ DOMAIN y.messages = DOMAIN x.messages
    BY <2>0, <2>7, <2>9 DEF Good, Waits
  <2> QED BY <2>2, <2>10
<1> QED BY <1>1, <1>2

\* An edited message stays.
LEMMA EditedGood ==
    ASSUME NEW ids, NEW x, Good(x, ids), NEW i \in DOMAIN x.messages, NEW text \in Texts,
           NEW upsert, upsert = EditUpsert(x.messages, i, text),
           NEW shown, shown = [x EXCEPT !.messages[i] = upsert[i]]
    PROVE  /\ Good(shown, ids) /\ Keeps(x, shown)
           /\ IsMessages(upsert) /\ DOMAIN upsert = {i}
<1> DEFINE m == [x.messages EXCEPT ![i] = [@ EXCEPT !.text = text]]
           y == [x EXCEPT !.messages = m]
<1>0. /\ x \in Entry /\ IsMessages(x.messages) /\ DOMAIN x.messages \subseteq ids
      /\ \A j \in DOMAIN x.messages : x.messages[j] \in Message
      /\ x.live \in DOMAIN x.messages => ~ x.messages[x.live].done
  BY GoodFacts
<1>1. IsMessages(upsert) /\ DOMAIN upsert = {i}
  BY <1>0, EditUpsertType
<1>2. upsert[i] = [x.messages[i] EXCEPT !.text = text]
  BY DEF EditUpsert
<1>3. shown = y
  BY <1>0, <1>2 DEF Entry
<1>4. \A z \in Message : /\ [z EXCEPT !.text = text] \in Message
                         /\ [z EXCEPT !.text = text].done = z.done
  BY DEF Message
<1>5. /\ m \in [DOMAIN x.messages -> Message]
      /\ \A j \in DOMAIN x.messages : m[j].done = x.messages[j].done
  BY <1>0, <1>4 DEF IsMessages
<1> HIDE DEF m
<1>6. m \in Messages
  BY <1>0, <1>5 DEF Messages, IsMessages
<1>7. y \in Entry /\ y.messages = m /\ y.live = x.live /\ y.unsent = x.unsent
  BY <1>0, <1>6 DEF Entry
<1> HIDE DEF y
<1>8. Good(y, ids) /\ Keeps(x, y)
  BY <1>0, <1>5, <1>7 DEF Good, Waits, Keeps
<1> QED BY <1>1, <1>3, <1>8

----------------------------------------------------------------------------
(* What a step leaves good.                                                *)

LEMMA TabChanged ==
    ASSUME Inv, used \subseteq used', NEW b \in Tabs, NEW y, Good(y, used'),
           tab' = [tab EXCEPT ![b] = y]
    PROVE  TabsGood' /\ (Keeps(tab[b], y) => TabsKeep)
<1>1. tab \in [Tabs -> Entry] /\ y \in Entry
  BY DEF Inv, TabsGood, Good
<1>2. \A c \in Tabs : tab'[c] = IF c = b THEN y ELSE tab[c]
  BY <1>1
<1>3. \A c \in Tabs : Good(tab'[c], used')
  BY <1>2, GoodGrows DEF Inv, TabsGood
<1>4. Keeps(tab[b], y) => TabsKeep
  BY <1>2 DEF TabsKeep, Keeps
<1>5. tab' \in [Tabs -> Entry]
  BY <1>1
<1> QED BY <1>3, <1>4, <1>5 DEF TabsGood

LEMMA TabsSame == ASSUME Inv, used \subseteq used', UNCHANGED tab PROVE TabsGood' /\ TabsKeep
<1>1. TabsGood'
  BY GoodGrows DEF Inv, TabsGood
<1>2. TabsKeep
  BY DEF TabsKeep, Keeps
<1> QED BY <1>1, <1>2

LEMMA ReadSame == ASSUME Inv, used \subseteq used', UNCHANGED reading PROVE ReadGood'
BY GoodGrows DEF Inv, ReadGood

LEMMA SavedSame == ASSUME Inv, used \subseteq used', UNCHANGED saved PROVE SavedGood'
BY GoodGrows DEF Inv, SavedGood

LEMMA ResendSame == ASSUME Inv, used \subseteq used', UNCHANGED resend PROVE ResendGood'
BY GoodGrows DEF Inv, ResendGood

LEMMA SentSame ==
    ASSUME Inv, used \subseteq used', UNCHANGED events, told' \in [Tabs -> Nat]
    PROVE  SentGood'
BY GoodGrows DEF Inv, SentGood

LEMMA RowSame == ASSUME Inv, used \subseteq used', UNCHANGED <<row, deleted>> PROVE RowGood'
BY GoodGrows DEF Inv, RowGood

LEMMA NothingGood == GoodDocument(NoDocument, used)
BY EmptyMessages DEF GoodDocument, NoDocument, Document

LEMMA Refetched ==
    ASSUME Inv, used \subseteq used', NEW b \in Tabs, Refetch(b)
    PROVE  ReadGood'
<1>1. reading \in [Tabs -> Document] /\ row \in Document /\ GoodDocument(row, used')
  BY GoodGrows DEF Inv, ReadGood, RowGood, GoodDocument
<1>2. \A c \in Tabs : reading'[c] \in {reading[c], row}
  BY <1>1 DEF Refetch
<1>3. reading' \in [Tabs -> Document]
  BY <1>1 DEF Refetch
<1>4. \A c \in Tabs : GoodDocument(reading'[c], used')
  BY <1>1, <1>2, GoodGrows DEF Inv, ReadGood
<1> QED BY <1>3, <1>4 DEF ReadGood

\* The tab takes an entry, and may download the chat at once.
LEMMA Updated ==
    ASSUME Inv, used \subseteq used', NEW b \in Tabs, NEW y, Good(y, used'), Update(b, y)
    PROVE  TabsGood' /\ ReadGood' /\ (Keeps(tab[b], y) => TabsKeep)
<1>1. CASE Behind(b, y)
  <2> DEFINE z == [y EXCEPT !.later = 0]
  <2>1. tab' = [tab EXCEPT ![b] = z] /\ Refetch(b)
    BY <1>1 DEF Update
  <2>2. z \in Entry /\ z.messages = y.messages /\ z.live = y.live
    BY DEF Good, Entry
  <2> HIDE DEF z
  <2>3. Good(z, used') /\ (Keeps(tab[b], y) => Keeps(tab[b], z))
    BY <2>2 DEF Good, Waits, Keeps
  <2> QED BY <2>1, <2>3, TabChanged, Refetched
<1>2. CASE ~ Behind(b, y)
  <2>1. tab' = [tab EXCEPT ![b] = y] /\ UNCHANGED reading
    BY <1>2 DEF Update
  <2> QED BY <2>1, TabChanged, ReadSame
<1> QED BY <1>1, <1>2

\* A commit, and what it sends.
LEMMA Committed ==
    ASSUME Inv, used \subseteq used', NEW m, IsMessages(m), DOMAIN m \subseteq used',
           NEW sent \in Seq(Event), \A n \in DOMAIN sent : GoodEvent(sent[n], used'),
           Commit(m, sent)
    PROVE  RowGood' /\ SentGood'
<1>1. row.revision \in Nat /\ events \in [Tabs -> Seq(Event)]
  BY DEF Inv, RowGood, GoodDocument, Document, SentGood
<1>2. RowGood'
  <2>1. row' \in Document /\ DOMAIN row'.messages \subseteq used'
    BY <1>1, MessagesAre DEF Commit, Document
  <2>2. deleted' \subseteq used'
    BY DEF Commit, Inv, RowGood, GoodDocument
  <2> QED BY <2>1, <2>2 DEF RowGood, GoodDocument
<1>3. told' \in [Tabs -> Nat]
  BY <1>1 DEF Commit
<1>4. events' = [b \in Tabs |-> events[b] \o sent]
  BY DEF Commit
<1>5. ASSUME NEW b \in Tabs
      PROVE  /\ events'[b] \in Seq(Event)
             /\ \A n \in DOMAIN events'[b] : GoodEvent(events'[b][n], used')
  <2> DEFINE s == events[b]
  <2>1. s \in Seq(Event) /\ \A n \in DOMAIN s : GoodEvent(s[n], used')
    BY <1>1, GoodGrows DEF Inv, SentGood
  <2>2. events'[b] = s \o sent
    BY <1>4
  <2> HIDE DEF s
  <2>3. s \o sent \in Seq(Event)
    BY <2>1
  <2>4. ASSUME NEW n \in DOMAIN (s \o sent) PROVE GoodEvent((s \o sent)[n], used')
    <3>1. Len(s) \in Nat /\ Len(sent) \in Nat /\ DOMAIN s = 1..Len(s) /\ DOMAIN sent = 1..Len(sent)
      BY <2>1
    <3>2. n \in 1..(Len(s) + Len(sent))
      BY <2>1, <2>4, <3>1
    <3>3. CASE n <= Len(s)
      <4>1. n \in DOMAIN s /\ (s \o sent)[n] = s[n]
        BY <2>1, <3>1, <3>2, <3>3
      <4> QED BY <2>1, <4>1
    <3>4. CASE n > Len(s)
      <4>1. n - Len(s) \in DOMAIN sent /\ (s \o sent)[n] = sent[n - Len(s)]
        BY <2>1, <3>1, <3>2, <3>4
      <4> QED BY <4>1
    <3> QED BY <3>1, <3>2, <3>3, <3>4
  <2> QED BY <2>2, <2>3, <2>4
<1>6. events' \in [Tabs -> Seq(Event)]
  BY <1>4, <1>5
<1> QED BY <1>2, <1>3, <1>5, <1>6 DEF SentGood

LEMMA Refused ==
    ASSUME Inv, used \subseteq used', NEW expected, Refuse(expected)
    PROVE  RowGood' /\ SentGood' /\ UNCHANGED running
<1>1. told \in [Tabs -> Nat] /\ row.revision \in Nat
  BY DEF Inv, RowGood, GoodDocument, Document, SentGood
<1>2. told' \in [Tabs -> Nat] /\ UNCHANGED events /\ UNCHANGED <<row, deleted>> /\ UNCHANGED running
  BY <1>1 DEF Refuse
<1> QED BY <1>2, RowSame, SentSame

\* A turn that is stored.
LEMMA TurnStored ==
    ASSUME Inv, used \subseteq used', used' \subseteq Ids, NEW t, GoodTurn(t, used'), StoreTurn(t)
    PROVE  IdsGood' /\ RowGood' /\ SentGood'
<1> DEFINE e == [kind |-> "turn", turn |-> t]
<1>1. t \in Turn /\ t.user \in used' /\ t.reply \in used' /\ t.reply \in Replies
  BY TurnFacts DEF GoodTurn
<1>2. IsMessages(row.messages) /\ DOMAIN row.messages \subseteq used'
  BY MessagesAre DEF Inv, RowGood, GoodDocument, Document
<1>3. IsMessages(AppendTurn(row.messages, t)) /\ DOMAIN AppendTurn(row.messages, t) \subseteq used'
  <2>1. IsMessages(AppendTurn(row.messages, t))
    BY <1>1, <1>2, AppendTurnType
  <2>2. DOMAIN AppendTurn(row.messages, t) = DOMAIN row.messages \cup {t.user, t.reply}
    BY <1>1, <1>2, AppendTurnType
  <2> QED BY <1>1, <1>2, <2>1, <2>2
<1>4. e \in Event /\ GoodEvent(e, used')
  BY <1>1 DEF GoodEvent, Event
<1>5. Commit(AppendTurn(row.messages, t), <<e>>) /\ running' = running \cup {t.reply}
  BY DEF StoreTurn
<1> HIDE DEF e
<1>6. <<e>> \in Seq(Event) /\ \A n \in DOMAIN <<e>> : GoodEvent(<<e>>[n], used')
  BY <1>4
<1>7. RowGood' /\ SentGood'
  BY <1>3, <1>5, <1>6, Committed
<1>8. IdsGood'
  BY <1>1, <1>5 DEF Inv, IdsGood
<1> QED BY <1>7, <1>8

----------------------------------------------------------------------------
(* Each step.                                                              *)

\* A message leaves the screen of a tab only when its user deletes it there.
ScreenKeeps == \A b \in Tabs : Keeps(tab[b], tab'[b]) \/ \E j \in Ids : Delete(b, j)

LEMMA AllKeep == TabsKeep => ScreenKeeps
BY DEF TabsKeep, ScreenKeeps

LEMMA SendStep ==
    ASSUME Inv, NEW b \in Tabs, NEW t \in Turn, Send(b, t)
    PROVE  Inv' /\ ScreenKeeps
<1> DEFINE x == Shown(tab[b], t)
<1>1. /\ t.user \notin used /\ t.reply \notin used /\ ~ t.done
      /\ used' = used \cup {t.user, t.reply} /\ UNCHANGED saved
  BY DEF Send
<1>2. used \subseteq used' /\ used' \subseteq Ids /\ t.user \in used' /\ t.reply \in used'
  BY <1>1, TurnFacts DEF Inv, IdsGood
<1>3. Good(tab[b], used)
  BY DEF Inv, TabsGood
<1>4. DOMAIN tab[b].messages \subseteq used
  BY <1>3, GoodFacts
<1>5. Good(x, used') /\ Keeps(tab[b], x)
  BY <1>1, <1>3, <1>4, ShownGood
<1>6. GoodTurn(t, used') /\ t # NoTurn
  BY <1>1, <1>2, TurnFacts DEF GoodTurn
<1>7. SavedGood'
  BY <1>1, <1>2, SavedSame
<1>8. \/ /\ StoreTurn(t) /\ tab' = [tab EXCEPT ![b] = x] /\ UNCHANGED <<resend, reading>>
      \/ /\ Refuse(x.revision) /\ tab' = [tab EXCEPT ![b] = x]
         /\ resend' = [resend EXCEPT ![b] = t] /\ Refetch(b)
      \/ /\ Refuse(x.revision) /\ Update(b, Failed(x, t)) /\ UNCHANGED resend
  BY DEF Send
<1> HIDE DEF x
<1>9. CASE StoreTurn(t) /\ tab' = [tab EXCEPT ![b] = x] /\ UNCHANGED <<resend, reading>>
  <2>1. IdsGood' /\ RowGood' /\ SentGood'
    BY <1>2, <1>6, <1>9, TurnStored
  <2>2. TabsGood' /\ TabsKeep
    BY <1>2, <1>5, <1>9, TabChanged
  <2>3. ReadGood' /\ ResendGood'
    BY <1>2, <1>9, ReadSame, ResendSame
  <2> QED BY <1>7, <2>1, <2>2, <2>3, AllKeep DEF Inv
<1>10. ASSUME Refuse(x.revision) PROVE IdsGood' /\ RowGood' /\ SentGood'
  <2>1. RowGood' /\ SentGood' /\ UNCHANGED running
    BY <1>2, <1>10, Refused
  <2> QED BY <1>2, <2>1 DEF Inv, IdsGood
<1>11. CASE /\ Refuse(x.revision) /\ tab' = [tab EXCEPT ![b] = x]
            /\ resend' = [resend EXCEPT ![b] = t] /\ Refetch(b)
  <2>1. TabsGood' /\ TabsKeep
    BY <1>2, <1>5, <1>11, TabChanged
  <2>2. ReadGood'
    BY <1>2, <1>11, Refetched
  <2>3. resend \in [Tabs -> Turn \cup {NoTurn}]
    BY DEF Inv, ResendGood
  <2>4. \A c \in Tabs : resend'[c] = IF c = b THEN t ELSE resend[c]
    BY <1>11, <2>3
  <2>5. \A c \in Tabs : resend'[c] # NoTurn => GoodTurn(resend'[c], used')
    BY <1>2, <1>6, <2>4, GoodGrows DEF Inv, ResendGood
  <2>6. ResendGood'
    BY <1>11, <2>3, <2>5 DEF ResendGood
  <2> QED BY <1>7, <1>10, <1>11, <2>1, <2>2, <2>6, AllKeep DEF Inv
<1>12. CASE Refuse(x.revision) /\ Update(b, Failed(x, t)) /\ UNCHANGED resend
  <2>1. Good(Failed(x, t), used') /\ DOMAIN Failed(x, t).messages = DOMAIN x.messages
    BY <1>5, FailedGood
  <2>2. Keeps(tab[b], Failed(x, t))
    BY <1>5, <2>1 DEF Keeps
  <2>3. TabsGood' /\ ReadGood' /\ TabsKeep
    BY <1>2, <1>12, <2>1, <2>2, Updated
  <2>4. ResendGood'
    BY <1>2, <1>12, ResendSame
  <2> QED BY <1>7, <1>10, <1>12, <2>3, <2>4, AllKeep DEF Inv
<1> QED BY <1>8, <1>9, <1>11, <1>12

\* A patch stores messages the tab has, or downloads the chat.
LEMMA PatchStep ==
    ASSUME Inv, NEW b \in Tabs, NEW shown, Good(shown, used),
           NEW upsert, IsMessages(upsert), DOMAIN upsert \subseteq used, NEW del,
           Patch(b, shown, upsert, del)
    PROVE  Inv' /\ (Keeps(tab[b], shown) => TabsKeep)
<1>1. tab' = [tab EXCEPT ![b] = shown] /\ UNCHANGED <<used, resend>> /\ UNCHANGED running
  BY DEF Patch, Refuse
<1>2. TabsGood' /\ ResendGood' /\ IdsGood' /\ (Keeps(tab[b], shown) => TabsKeep)
  <2>1. TabsGood' /\ (Keeps(tab[b], shown) => TabsKeep)
    BY <1>1, TabChanged
  <2>2. ResendGood' /\ IdsGood'
    BY <1>1, ResendSame DEF Inv, IdsGood
  <2> QED BY <2>1, <2>2
<1>3. CASE shown.revision = row.revision
  <2>1. /\ Commit(HistoryPatch(row.messages, upsert, del), <<>>)
        /\ saved' = [saved EXCEPT ![b] = row'] /\ UNCHANGED reading
    BY <1>3 DEF Patch
  <2>2. IsMessages(row.messages) /\ DOMAIN row.messages \subseteq used
    BY MessagesAre DEF Inv, RowGood, GoodDocument, Document
  <2>3. /\ IsMessages(HistoryPatch(row.messages, upsert, del))
        /\ DOMAIN HistoryPatch(row.messages, upsert, del) = (DOMAIN row.messages \ del) \cup DOMAIN upsert
    <3>1. IsMessages(HistoryPatch(row.messages, upsert, del))
      BY <2>2, HistoryPatchType
    <3>2. DOMAIN HistoryPatch(row.messages, upsert, del) = (DOMAIN row.messages \ del) \cup DOMAIN upsert
      BY DEF HistoryPatch, Prune
    <3> QED BY <3>1, <3>2
  <2>4. DOMAIN HistoryPatch(row.messages, upsert, del) \subseteq used'
    BY <1>1, <2>2, <2>3
  <2>5. <<>> \in Seq(Event) /\ \A n \in DOMAIN <<>> : GoodEvent(<<>>[n], used')
    OBVIOUS
  <2>6. RowGood' /\ SentGood'
    BY <1>1, <2>1, <2>3, <2>4, <2>5, Committed
  <2>7. SavedGood'
    <3>1. saved \in [Tabs -> Document] /\ row' \in Document /\ GoodDocument(row', used')
      BY <2>6 DEF Inv, SavedGood, RowGood, GoodDocument
    <3>2. \A c \in Tabs : saved'[c] = IF c = b THEN row' ELSE saved[c]
      BY <2>1, <3>1
    <3>3. \A c \in Tabs : GoodDocument(saved'[c], used')
      BY <1>1, <3>1, <3>2 DEF Inv, SavedGood
    <3>4. saved' \in [Tabs -> Document]
      BY <2>1, <3>1
    <3> QED BY <3>3, <3>4 DEF SavedGood
  <2> QED BY <1>1, <1>2, <2>1, <2>6, <2>7, ReadSame DEF Inv
<1>4. CASE shown.revision # row.revision
  <2>1. Refuse(shown.revision) /\ Refetch(b) /\ UNCHANGED saved
    BY <1>4 DEF Patch
  <2>2. RowGood' /\ SentGood'
    BY <1>1, <2>1, Refused
  <2>3. ReadGood' /\ SavedGood'
    BY <1>1, <2>1, Refetched, SavedSame
  <2> QED BY <1>2, <2>2, <2>3 DEF Inv
<1> QED BY <1>3, <1>4

LEMMA EditStep ==
    ASSUME Inv, NEW b \in Tabs, NEW i \in Ids, NEW text \in Texts, Edit(b, i, text)
    PROVE  Inv' /\ ScreenKeeps
<1> DEFINE x == tab[b]
           upsert == EditUpsert(x.messages, i, text)
           y == [x EXCEPT !.messages[i] = upsert[i]]
<1>1. i \in DOMAIN x.messages
  BY DEF Edit
<1>2. Patch(b, y, upsert, {})
  BY DEF Edit
<1>3. Good(x, used)
  BY DEF Inv, TabsGood
<1>4. i \in used
  BY <1>1, <1>3, GoodFacts
<1>5. upsert = EditUpsert(x.messages, i, text) /\ y = [x EXCEPT !.messages[i] = upsert[i]]
  OBVIOUS
<1> HIDE DEF x, y, upsert
<1>6. Good(y, used) /\ Keeps(x, y) /\ IsMessages(upsert) /\ DOMAIN upsert = {i}
  <2>1. Good(y, used) /\ Keeps(x, y)
    BY <1>1, <1>3, <1>5, EditedGood
  <2>2. IsMessages(x.messages)
    BY <1>3, GoodFacts
  <2>3. IsMessages(upsert) /\ DOMAIN upsert = {i}
    BY <1>1, <1>5, <2>2, EditUpsertType
  <2> QED BY <2>1, <2>3
<1>7. Inv' /\ (Keeps(tab[b], y) => TabsKeep)
  BY <1>2, <1>4, <1>6, PatchStep
<1>8. Inv' /\ TabsKeep
  BY <1>6, <1>7 DEF x
<1> QED BY <1>8, AllKeep

LEMMA DeleteStep ==
    ASSUME Inv, NEW b \in Tabs, NEW i \in Ids, Delete(b, i)
    PROVE  Inv' /\ ScreenKeeps
<1> DEFINE x == tab[b]
           m == x.messages
           upsert == DeleteUpsert(m, i)
           del == DeletedWith(m, i)
           rest == [j \in DOMAIN m \ del |-> IF j \in DOMAIN upsert THEN upsert[j] ELSE m[j]]
<1>1. i \in DOMAIN m
  BY DEF Delete
<1>2. PICK end \in EndsShown(rest, m[i].parent) :
         Patch(b, [x EXCEPT !.messages = rest, !.leaf = end], upsert, del)
  BY DEF Delete
<1> DEFINE shown == [x EXCEPT !.messages = rest, !.leaf = end]
<1>3. Good(x, used)
  BY DEF Inv, TabsGood
<1>4. DOMAIN m \subseteq used
  BY <1>3, GoodFacts
<1>5. \A c \in Tabs : c # b => tab'[c] = tab[c]
  <2>1. tab' = [tab EXCEPT ![b] = shown]
    BY <1>2 DEF Patch
  <2> HIDE DEF shown
  <2> QED BY <2>1 DEF Inv, TabsGood
\* What is left is good, whatever is shown then.
<1>6. /\ m = x.messages /\ upsert = DeleteUpsert(m, i)
      /\ rest = [j \in DOMAIN m \ del |-> IF j \in DOMAIN upsert THEN upsert[j] ELSE m[j]]
      /\ shown = [x EXCEPT !.messages = rest, !.leaf = end]
      /\ end \in EndsShown(rest, m[i].parent)
  OBVIOUS
<1>7. Patch(b, shown, upsert, del)
  BY <1>2
<1> HIDE DEF x, m, upsert, del, rest, shown
<1>8. IsMessages(upsert) /\ DOMAIN upsert \subseteq DOMAIN m /\ Good(shown, used)
  <2>0. /\ x \in Entry /\ IsMessages(m) /\ DOMAIN m \subseteq used /\ DOMAIN m \subseteq Ids
        /\ \A j \in DOMAIN m : m[j] \in Message
        /\ x.live \in DOMAIN m => ~ m[x.live].done
    BY <1>3, <1>6, GoodFacts
  <2>1. IsMessages(upsert) /\ DOMAIN upsert \subseteq DOMAIN m
    BY <1>1, <1>6, <2>0, DeleteUpsertType
  <2>2. \A j \in DOMAIN upsert : upsert[j].done = m[j].done
    <3>1. \A z \in Message : \A k : \A p : /\ [z EXCEPT !.kids = k].done = z.done
                                           /\ [z EXCEPT !.parent = p].done = z.done
      BY DEF Message
    <3>2. ASSUME NEW j \in DOMAIN upsert PROVE upsert[j].done = m[j].done
      <4>1. m[j] \in Message /\ j \in DOMAIN m
        BY <2>0, <2>1
      <4> DEFINE k == (m[j].kids \ {i}) \cup Grandchildren(m, i)
      <4>2. \/ upsert[j] = [m[j] EXCEPT !.kids = k]
            \/ upsert[j] = [m[j] EXCEPT !.parent = m[i].parent]
        BY <1>6, <2>1 DEF DeleteUpsert
      <4> HIDE DEF k
      <4>3. /\ [m[j] EXCEPT !.kids = k].done = m[j].done
            /\ [m[j] EXCEPT !.parent = m[i].parent].done = m[j].done
        BY <3>1, <4>1
      <4> QED BY <4>2, <4>3
    <3> QED BY <3>2
  <2>3. \A j \in DOMAIN rest : rest[j] \in Message /\ rest[j].done = m[j].done
    BY <1>6, <2>0, <2>1, <2>2 DEF IsMessages
  <2>4. DOMAIN rest \subseteq DOMAIN m
    BY <1>6
  <2>5. rest \in Messages
    <3>1. rest \in [DOMAIN rest -> Message]
      BY <1>6, <2>3
    <3> QED BY <2>0, <2>4, <3>1 DEF Messages
  <2>6. end \in Ids \cup {None}
    BY <2>0, <2>4, BranchEnds DEF EndsShown
  <2>7. shown \in Entry /\ shown.messages = rest /\ shown.live = x.live
    BY <1>6, <2>0, <2>5, <2>6 DEF Entry
  <2>8. Good(shown, used)
    BY <2>0, <2>3, <2>4, <2>7 DEF Good, Waits
  <2> QED BY <2>1, <2>8
<1>9. Inv'
  BY <1>4, <1>7, <1>8, PatchStep
<1>10. ScreenKeeps
  BY <1>5 DEF ScreenKeeps, Keeps
<1> QED BY <1>9, <1>10

LEMMA OpenStep == ASSUME Inv, NEW b \in Tabs, Open(b) PROVE Inv' /\ ScreenKeeps
<1> DEFINE y == [tab[b] EXCEPT !.later = 0]
<1>1. /\ tab' = [tab EXCEPT ![b] = y] /\ Refetch(b)
      /\ UNCHANGED <<row, running, used, resend, saved, events, told, deleted>>
  BY DEF Open
<1>2. Good(tab[b], used)
  BY DEF Inv, TabsGood
<1>3. /\ y \in Entry /\ y.messages = tab[b].messages /\ y.live = tab[b].live
  BY <1>2 DEF Good, Entry
<1> HIDE DEF y
<1>4. Good(y, used) /\ Keeps(tab[b], y)
  BY <1>2, <1>3 DEF Good, Waits, Keeps
<1>5. TabsGood' /\ TabsKeep /\ ReadGood'
  BY <1>1, <1>4, TabChanged, Refetched
<1>6. SentGood'
  BY <1>1, SentSame DEF Inv, SentGood
<1>7. IdsGood' /\ RowGood' /\ SavedGood' /\ ResendGood'
  BY <1>1, RowSame, SavedSame, ResendSame DEF Inv, IdsGood
<1> QED BY <1>5, <1>6, <1>7, AllKeep DEF Inv

LEMMA DocumentStep ==
    ASSUME Inv, NEW b \in Tabs, ReceiveDocument(b)
    PROVE  Inv' /\ ScreenKeeps
<1> DEFINE put == PutChat(tab[b], reading[b])
           x == IF Behind(b, put) THEN [put EXCEPT !.later = 0] ELSE put
           t == resend[b]
<1>1. UNCHANGED <<used, saved>> /\ reading' = [reading EXCEPT ![b] = NoDocument]
  BY DEF ReceiveDocument
<1>2. Good(x, used) /\ Keeps(tab[b], x)
  <2>1. Good(put, used) /\ Keeps(tab[b], put)
    BY PutChatGood DEF Inv, TabsGood, ReadGood
  <2> DEFINE y == [put EXCEPT !.later = 0]
  <2> HIDE DEF put
  <2>2. y \in Entry /\ y.messages = put.messages /\ y.live = put.live
    BY <2>1 DEF Good, Entry
  <2> HIDE DEF y
  <2>3. Good(y, used) /\ Keeps(tab[b], y)
    BY <2>1, <2>2 DEF Good, Waits, Keeps
  <2> QED BY <2>1, <2>3 DEF y
<1>3. ReadGood' /\ SavedGood'
  <2>1. reading \in [Tabs -> Document] /\ GoodDocument(NoDocument, used)
    BY NothingGood DEF Inv, ReadGood
  <2>2. NoDocument \in Document
    BY <2>1 DEF GoodDocument
  <2>3. \A c \in Tabs : GoodDocument(reading'[c], used')
    BY <1>1, <2>1 DEF Inv, ReadGood
  <2>4. reading' \in [Tabs -> Document]
    BY <1>1, <2>1, <2>2
  <2> QED BY <1>1, <2>3, <2>4, SavedSame DEF ReadGood
<1>4. CASE t = NoTurn
  <2>1. tab' = [tab EXCEPT ![b] = x] /\ UNCHANGED <<row, running, told, events, deleted, resend>>
    BY <1>4 DEF ReceiveDocument, Idle
  <2> HIDE DEF x
  <2>2. TabsGood' /\ TabsKeep
    BY <1>1, <1>2, <2>1, TabChanged
  <2>3. SentGood'
    BY <1>1, <2>1, SentSame DEF Inv, SentGood
  <2>4. IdsGood' /\ RowGood' /\ ResendGood'
    BY <1>1, <2>1, RowSame, ResendSame DEF Inv, IdsGood
  <2> QED BY <1>3, <2>2, <2>3, <2>4, AllKeep DEF Inv
<1>5. CASE t # NoTurn
  <2>1. PICK end \in Ends(x, t) :
           LET moved == [t EXCEPT !.parent = end]
               y     == MovedUnder(x, t, end)
               sent  == Stores(moved, y.revision)
           IN  /\ resend' = [resend EXCEPT ![b] = NoTurn]
               /\ tab' = [tab EXCEPT ![b] = IF sent THEN y ELSE Failed(y, t)]
               /\ IF sent THEN StoreTurn(moved) ELSE Refuse(y.revision)
    BY <1>5 DEF ReceiveDocument
  <2> DEFINE moved == [t EXCEPT !.parent = end]
             y     == MovedUnder(x, t, end)
  <2>2. t \in Turn /\ GoodTurn(t, used)
    BY <1>5 DEF Inv, ResendGood, GoodTurn
  <2> HIDE DEF t
  <2>3. end \in Ids \cup {None} /\ Good(y, used) /\ DOMAIN y.messages = DOMAIN x.messages
    <3> HIDE DEF x
    <3> QED BY <1>2, <2>2, EndsFacts, MovedGood
  <2>4. \/ /\ tab' = [tab EXCEPT ![b] = y] /\ StoreTurn(moved)
        \/ /\ tab' = [tab EXCEPT ![b] = Failed(y, t)] /\ Refuse(y.revision)
    BY <2>1 DEF t
  <2>5. resend' = [resend EXCEPT ![b] = NoTurn]
    BY <2>1
  <2> HIDE DEF x, y
  <2>6. GoodTurn(moved, used')
    BY <1>1, <2>2, <2>3 DEF GoodTurn, Turn
  <2> HIDE DEF moved
  <2>7. Keeps(tab[b], y) /\ Good(y, used')
    <3>1. Good(y, used')
      BY <1>1, <2>3
    <3>2. Keeps(tab[b], y)
      BY <1>2, <2>3 DEF Keeps
    <3> QED BY <3>1, <3>2
  <2>8. ResendGood'
    <3>1. resend \in [Tabs -> Turn \cup {NoTurn}]
      BY DEF Inv, ResendGood
    <3>2. \A c \in Tabs : resend'[c] \in {resend[c], NoTurn}
      BY <2>5, <3>1
    <3>3. \A c \in Tabs : resend'[c] # NoTurn => GoodTurn(resend'[c], used')
      BY <1>1, <3>2 DEF Inv, ResendGood
    <3> QED BY <2>5, <3>1, <3>3 DEF ResendGood
  <2>9. CASE tab' = [tab EXCEPT ![b] = y] /\ StoreTurn(moved)
    <3>1. IdsGood' /\ RowGood' /\ SentGood'
      BY <1>1, <2>6, <2>9, TurnStored DEF Inv, IdsGood
    <3>2. TabsGood' /\ TabsKeep
      BY <1>1, <2>7, <2>9, TabChanged
    <3> QED BY <1>3, <2>8, <3>1, <3>2, AllKeep DEF Inv
  <2>10. CASE tab' = [tab EXCEPT ![b] = Failed(y, t)] /\ Refuse(y.revision)
    <3>1. RowGood' /\ SentGood' /\ UNCHANGED running
      BY <1>1, <2>10, Refused
    <3>2. Good(Failed(y, t), used') /\ DOMAIN Failed(y, t).messages = DOMAIN y.messages
      BY <2>2, <2>7, FailedGood
    <3>3. Keeps(tab[b], Failed(y, t))
      BY <2>7, <3>2 DEF Keeps
    <3>4. TabsGood' /\ TabsKeep
      BY <1>1, <2>10, <3>2, <3>3, TabChanged
    <3>5. IdsGood'
      BY <1>1, <3>1 DEF Inv, IdsGood
    <3> QED BY <1>3, <2>8, <3>1, <3>4, <3>5, AllKeep DEF Inv
  <2> QED BY <2>4, <2>9, <2>10
<1> QED BY <1>4, <1>5

LEMMA SavedStep == ASSUME Inv, NEW b \in Tabs, ReceiveSaved(b) PROVE Inv' /\ ScreenKeeps
<1> DEFINE y == PutChat(tab[b], saved[b])
<1>1. /\ Update(b, y) /\ saved' = [saved EXCEPT ![b] = NoDocument]
      /\ UNCHANGED <<row, running, used, resend, events, told, deleted>>
  BY DEF ReceiveSaved
<1>2. Good(y, used) /\ Keeps(tab[b], y)
  BY PutChatGood DEF Inv, TabsGood, SavedGood
<1> HIDE DEF y
<1>3. TabsGood' /\ ReadGood' /\ TabsKeep
  BY <1>1, <1>2, Updated
<1>4. SavedGood'
  <2>1. saved \in [Tabs -> Document] /\ GoodDocument(NoDocument, used) /\ NoDocument \in Document
    BY NothingGood DEF Inv, SavedGood, GoodDocument
  <2>2. \A c \in Tabs : GoodDocument(saved'[c], used')
    BY <1>1, <2>1 DEF Inv, SavedGood
  <2>3. saved' \in [Tabs -> Document]
    BY <1>1, <2>1
  <2> QED BY <2>2, <2>3 DEF SavedGood
<1>5. SentGood'
  BY <1>1, SentSame DEF Inv, SentGood
<1>6. IdsGood' /\ RowGood' /\ ResendGood'
  BY <1>1, RowSame, ResendSame DEF Inv, IdsGood
<1> QED BY <1>3, <1>4, <1>5, <1>6, AllKeep DEF Inv

LEMMA DeliverStep == ASSUME Inv, NEW b \in Tabs, Deliver(b) PROVE Inv' /\ ScreenKeeps
<1> DEFINE e == Head(events[b])
           y == IF e.kind = "turn" THEN TurnArrived(tab[b], e.turn) ELSE Completed(tab[b], e)
<1>1. /\ events[b] # <<>> /\ Update(b, y) /\ events' = [events EXCEPT ![b] = Tail(@)]
      /\ UNCHANGED <<row, running, used, resend, saved, told, deleted>>
  BY DEF Deliver
<1>2. /\ events \in [Tabs -> Seq(Event)] /\ events[b] \in Seq(Event)
      /\ \A n \in DOMAIN events[b] : GoodEvent(events[b][n], used)
  BY DEF Inv, SentGood
<1>3. GoodEvent(e, used)
  <2> DEFINE s == events[b]
  <2>1. s \in Seq(Event) /\ s # <<>> /\ \A n \in DOMAIN s : GoodEvent(s[n], used)
    BY <1>1, <1>2
  <2> HIDE DEF s
  <2>2. 1 \in DOMAIN s /\ Head(s) = s[1]
    BY <2>1
  <2> QED BY <2>1, <2>2 DEF s
<1> HIDE DEF e
<1>4. Good(y, used) /\ Keeps(tab[b], y)
  <2>1. Good(tab[b], used)
    BY DEF Inv, TabsGood
  <2>2. CASE e.kind = "turn"
    <3>1. GoodTurn(e.turn, used)
      BY <1>3, <2>2 DEF GoodEvent
    <3>2. y = TurnArrived(tab[b], e.turn)
      BY <2>2
    <3> HIDE DEF y
    <3> QED BY <2>1, <3>1, <3>2, ArrivedGood
  <2>3. CASE e.kind # "turn"
    <3>1. e \in Event /\ e.kind = "done"
      BY <1>3, <2>3 DEF GoodEvent, Event
    <3>2. y = Completed(tab[b], e)
      BY <2>3
    <3> HIDE DEF y
    <3> QED BY <2>1, <3>1, <3>2, CompletedGood
  <2> QED BY <2>2, <2>3
<1> HIDE DEF y
<1>5. TabsGood' /\ ReadGood' /\ TabsKeep
  BY <1>1, <1>4, Updated
<1>6. SentGood'
  <2>1. ASSUME NEW c \in Tabs
        PROVE  /\ events'[c] \in Seq(Event)
               /\ \A n \in DOMAIN events'[c] : GoodEvent(events'[c][n], used')
    <3> DEFINE s == events[c]
    <3>1. s \in Seq(Event) /\ \A n \in DOMAIN s : GoodEvent(s[n], used)
      BY DEF Inv, SentGood
    <3>2. events'[c] = s \/ (s # <<>> /\ events'[c] = Tail(s))
      BY <1>1, <1>2
    <3> HIDE DEF s
    <3>3. ASSUME s # <<>>
          PROVE  /\ Tail(s) \in Seq(Event)
                 /\ \A n \in DOMAIN Tail(s) : n + 1 \in DOMAIN s /\ Tail(s)[n] = s[n + 1]
      BY <3>1, <3>3
    <3>4. ASSUME s # <<>> PROVE \A n \in DOMAIN Tail(s) : GoodEvent(Tail(s)[n], used)
      BY <3>1, <3>3, <3>4
    <3> QED BY <1>1, <3>1, <3>2, <3>3, <3>4
  <2>2. told' \in [Tabs -> Nat]
    BY <1>1 DEF Inv, SentGood
  <2>3. events' \in [Tabs -> Seq(Event)]
    <3>1. events' \in [Tabs -> Seq(Event)] <=> \A c \in Tabs : events'[c] \in Seq(Event)
      BY <1>1, <1>2
    <3> QED BY <2>1, <3>1
  <2> QED BY <2>1, <2>2, <2>3 DEF SentGood
<1>7. IdsGood' /\ RowGood' /\ ResendGood' /\ SavedGood'
  BY <1>1, RowSame, ResendSame, SavedSame DEF Inv, IdsGood
<1> QED BY <1>5, <1>6, <1>7, AllKeep DEF Inv

LEMMA PingStep == ASSUME Inv, NEW b \in Tabs, Ping(b) PROVE Inv' /\ ScreenKeeps
<1> DEFINE later == IF told[b] > tab[b].revision /\ told[b] > tab[b].later
                    THEN told[b] ELSE tab[b].later
           y == [tab[b] EXCEPT !.later = later]
<1>1. Good(tab[b], used) /\ tab[b] \in Entry /\ told[b] \in Nat
  BY DEF Inv, TabsGood, SentGood
<1>2. /\ tab' = [tab EXCEPT ![b] = y] /\ told' = [told EXCEPT ![b] = 0]
      /\ UNCHANGED <<row, running, used, resend, reading, saved, events, deleted>>
  BY <1>1 DEF Ping, Inv, TabsGood, Entry
<1>3. later \in Nat
  BY <1>1 DEF Entry
<1> HIDE DEF later
<1>4. y \in Entry /\ y.messages = tab[b].messages /\ y.live = tab[b].live
  BY <1>1, <1>3 DEF Entry
<1> HIDE DEF y
<1>5. Good(y, used) /\ Keeps(tab[b], y)
  BY <1>1, <1>4 DEF Good, Waits, Keeps
<1>6. TabsGood' /\ TabsKeep
  BY <1>2, <1>5, TabChanged
<1>7. told' \in [Tabs -> Nat]
  BY <1>2 DEF Inv, SentGood
<1>8. SentGood'
  BY <1>2, <1>7, SentSame
<1>9. IdsGood' /\ RowGood' /\ ResendGood' /\ SavedGood' /\ ReadGood'
  BY <1>2, RowSame, ResendSame, SavedSame, ReadSame DEF Inv, IdsGood
<1> QED BY <1>6, <1>8, <1>9, AllKeep DEF Inv

LEMMA FinishStep == ASSUME Inv, NEW r \in Replies, FinishReply(r) PROVE Inv' /\ ScreenKeeps
<1>1. /\ r \in running /\ running' = running \ {r}
      /\ UNCHANGED <<used, tab, resend, reading, saved>>
  BY DEF FinishReply
<1>2. PICK text \in Texts :
         Commit(SavedReply(row.messages, r, text),
                <<[kind |-> "done", reply |-> r, text |-> text, revision |-> row.revision + 1]>>)
  BY DEF FinishReply
<1> DEFINE e == [kind |-> "done", reply |-> r, text |-> text, revision |-> row.revision + 1]
<1>3. IsMessages(row.messages) /\ DOMAIN row.messages \subseteq used /\ row.revision \in Nat
  BY MessagesAre DEF Inv, RowGood, GoodDocument, Document
<1>4. r \in Ids /\ r \in used
  BY <1>1 DEF Inv, IdsGood, Ids
<1>5. /\ IsMessages(SavedReply(row.messages, r, text))
      /\ DOMAIN SavedReply(row.messages, r, text) \subseteq used'
  <2>1. /\ IsMessages(SavedReply(row.messages, r, text))
        /\ DOMAIN SavedReply(row.messages, r, text) = DOMAIN row.messages \cup {r}
    BY <1>3, <1>4, SavedReplyType
  <2>2. used' = used
    BY <1>1
  <2> QED BY <1>3, <1>4, <2>1, <2>2
<1>6. GoodEvent(e, used') /\ e \in Event
  BY <1>3 DEF GoodEvent, Event
<1>7. Commit(SavedReply(row.messages, r, text), <<e>>)
  BY <1>2
<1> HIDE DEF e
<1>8. <<e>> \in Seq(Event) /\ \A n \in DOMAIN <<e>> : GoodEvent(<<e>>[n], used')
  BY <1>6
<1>9. RowGood' /\ SentGood'
  BY <1>1, <1>5, <1>7, <1>8, Committed
<1>10. IdsGood' /\ ResendGood' /\ SavedGood' /\ ReadGood'
  BY <1>1, ResendSame, SavedSame, ReadSame DEF Inv, IdsGood
<1>11. TabsGood' /\ TabsKeep
  BY <1>1, TabsSame
<1> QED BY <1>9, <1>10, <1>11, AllKeep DEF Inv

LEMMA InitInv == Init => Inv
<1> SUFFICES ASSUME Init PROVE Inv
  OBVIOUS
<1>1. PICK u \in Prompts, r \in Replies, text \in Texts \ {Blank} :
        LET prompt == [parent |-> None, kids |-> {r}, text |-> text, done |-> TRUE]
            reply  == [parent |-> u, kids |-> {}, text |-> text, done |-> TRUE]
        IN  /\ row = [revision |-> 1,
                      messages |-> [i \in {u, r} |-> IF i = u THEN prompt ELSE reply]]
            /\ running = {} /\ used = {u, r}
            /\ tab = [b \in Tabs |-> [revision |-> 1, messages |-> row.messages, leaf |-> r,
                                      later |-> 0, live |-> None, unsent |-> {}]]
            /\ resend = [b \in Tabs |-> NoTurn]
            /\ reading = [b \in Tabs |-> NoDocument]
            /\ saved = [b \in Tabs |-> NoDocument]
            /\ events = [b \in Tabs |-> <<>>]
            /\ told = [b \in Tabs |-> 0]
            /\ deleted = {}
  BY DEF Init
<1> DEFINE prompt == [parent |-> None, kids |-> {r}, text |-> text, done |-> TRUE]
           reply  == [parent |-> u, kids |-> {}, text |-> text, done |-> TRUE]
           m == [i \in {u, r} |-> IF i = u THEN prompt ELSE reply]
           x == [revision |-> 1, messages |-> m, leaf |-> r, later |-> 0, live |-> None,
                 unsent |-> {}]
<1>2. u \in Ids /\ r \in Ids
  BY DEF Ids
<1>3. prompt \in Message /\ reply \in Message
  BY <1>2 DEF Message
<1>4. m \in Messages /\ DOMAIN m = {u, r}
  <2>1. m \in [{u, r} -> Message] /\ {u, r} \subseteq Ids
    BY <1>2, <1>3
  <2> HIDE DEF m
  <2> QED BY <2>1 DEF Messages
<1>5. row = [revision |-> 1, messages |-> m] /\ running = {} /\ used = {u, r} /\ deleted = {}
  BY <1>1
<1>6. tab = [b \in Tabs |-> x]
  BY <1>1
<1> HIDE DEF m
<1>7. IdsGood /\ RowGood
  BY <1>2, <1>4, <1>5 DEF IdsGood, RowGood, GoodDocument, Document
<1>8. TabsGood
  <2>1. x \in Entry /\ x.messages = m /\ x.live = None
    BY <1>2, <1>4 DEF Entry
  <2>2. None \notin DOMAIN m
    BY <1>2, <1>4, HistoryAssumption DEF Ids
  <2> HIDE DEF x
  <2>3. Good(x, used)
    BY <1>4, <1>5, <2>1, <2>2 DEF Good, Waits
  <2> QED BY <1>6, <2>1, <2>3 DEF TabsGood
<1>9. ReadGood /\ SavedGood
  <2>1. GoodDocument(NoDocument, used) /\ NoDocument \in Document
    BY NothingGood DEF GoodDocument
  <2>2. reading = [b \in Tabs |-> NoDocument] /\ saved = [b \in Tabs |-> NoDocument]
    BY <1>1
  <2> QED BY <2>1, <2>2 DEF ReadGood, SavedGood
<1>10. ResendGood
  <2>1. resend = [b \in Tabs |-> NoTurn]
    BY <1>1
  <2> QED BY <2>1 DEF ResendGood
<1>11. SentGood
  <2>1. events = [b \in Tabs |-> <<>>] /\ told = [b \in Tabs |-> 0]
    BY <1>1
  <2> QED BY <2>1 DEF SentGood
<1> QED BY <1>7, <1>8, <1>9, <1>10, <1>11 DEF Inv

LEMMA NextInv == Inv /\ [Next]_vars => Inv' /\ ScreenKeeps
<1> SUFFICES ASSUME Inv, [Next]_vars PROVE Inv' /\ ScreenKeeps
  OBVIOUS
<1>1. CASE \E b \in Tabs : UserStep(b)
  BY <1>1, SendStep, EditStep, DeleteStep, OpenStep DEF UserStep
<1>2. CASE \E b \in Tabs : ReceiveDocument(b) \/ ReceiveSaved(b) \/ Deliver(b) \/ Ping(b)
  BY <1>2, DocumentStep, SavedStep, DeliverStep, PingStep
<1>3. CASE \E r \in Replies : FinishReply(r)
  BY <1>3, FinishStep
<1>4. CASE UNCHANGED vars
  <2>1. TabsGood' /\ TabsKeep
    BY <1>4, TabsSame DEF vars
  <2>2. SentGood'
    BY <1>4, SentSame DEF vars, Inv, SentGood
  <2>3. IdsGood' /\ RowGood' /\ ResendGood' /\ SavedGood' /\ ReadGood'
    BY <1>4, RowSame, ResendSame, SavedSame, ReadSame DEF vars, Inv, IdsGood
  <2> QED BY <2>1, <2>2, <2>3, AllKeep DEF Inv
<1> QED BY <1>1, <1>2, <1>3, <1>4 DEF Next

THEOREM Invariant == Spec => []Inv
<1>1. Inv /\ [Next]_vars => Inv'
  BY NextInv
<1> QED BY InitInv, <1>1, PTL DEF Spec

----------------------------------------------------------------------------
(* The theorems.                                                           *)

\* Every copy, document, turn and event stays well-typed (TypeOK).
THEOREM TypeCorrect == Spec => []TypeOK
<1>1. Inv => TypeOK
  <2> SUFFICES ASSUME Inv PROVE TypeOK
    OBVIOUS
  <2>1. \A d \in Document : IsDocument(d)
    BY MessagesAre DEF Document, IsDocument
  <2>2. \A x \in Entry : IsEntry(x)
    BY MessagesAre DEF Entry, IsEntry, IsDocument
  <2>3. \A e \in Event : IsEvent(e)
    BY DEF Event, IsEvent
  <2>4. row \in Document /\ running \subseteq Replies /\ used \subseteq Ids
        /\ deleted \subseteq Ids
    BY DEF Inv, RowGood, GoodDocument, IdsGood
  <2>5. ASSUME NEW b \in Tabs
        PROVE  /\ tab[b] \in Entry /\ reading[b] \in Document /\ saved[b] \in Document
               /\ resend[b] \in Turn \cup {NoTurn} /\ told[b] \in Nat
    BY DEF Inv, TabsGood, ReadGood, SavedGood, ResendGood, SentGood
  <2>6. ASSUME NEW b \in Tabs, NEW n \in DOMAIN events[b] PROVE events[b][n] \in Event
    BY DEF Inv, SentGood, GoodEvent
  <2> QED BY <2>1, <2>2, <2>3, <2>4, <2>5, <2>6 DEF TypeOK
<1> QED BY Invariant, <1>1, PTL

\* No download and no event drops a message that is not sent (UnsentStaysOnScreen).
THEOREM UnsentCorrect == Spec => UnsentStaysOnScreen
<1>1. Inv /\ [Next]_vars =>
        [\A b \in Tabs : \A i \in tab[b].unsent \cap DOMAIN tab[b].messages :
            i \in DOMAIN tab'[b].messages \/ (\E j \in Ids : Delete(b, j))]_vars
  <2> SUFFICES ASSUME Inv, [Next]_vars, NEW b \in Tabs,
                      NEW i \in tab[b].unsent \cap DOMAIN tab[b].messages
               PROVE  i \in DOMAIN tab'[b].messages \/ (\E j \in Ids : Delete(b, j))
    OBVIOUS
  <2>1. Keeps(tab[b], tab'[b]) \/ \E j \in Ids : Delete(b, j)
    BY NextInv DEF ScreenKeeps
  <2> QED BY <2>1 DEF Keeps
<1> QED BY Invariant, <1>1, PTL DEF Spec, UnsentStaysOnScreen

\* No download and no event drops the reply the tab waits for (RunningReplyStays).
THEOREM RunningCorrect == Spec => RunningReplyStays
<1>1. Inv /\ [Next]_vars =>
        [\A b \in Tabs : tab[b].live \in DOMAIN tab[b].messages
            => tab[b].live \in DOMAIN tab'[b].messages \/ (\E j \in Ids : Delete(b, j))]_vars
  <2> SUFFICES ASSUME Inv, [Next]_vars, NEW b \in Tabs,
                      tab[b].live \in DOMAIN tab[b].messages
               PROVE  tab[b].live \in DOMAIN tab'[b].messages \/ (\E j \in Ids : Delete(b, j))
    OBVIOUS
  <2>1. Keeps(tab[b], tab'[b]) \/ \E j \in Ids : Delete(b, j)
    BY NextInv DEF ScreenKeeps
  <2> QED BY <2>1 DEF Keeps
<1> QED BY Invariant, <1>1, PTL DEF Spec, RunningReplyStays
=============================================================================
