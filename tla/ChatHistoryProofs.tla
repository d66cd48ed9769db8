------------------------- MODULE ChatHistoryProofs -------------------------
(* What the functions on histories of ChatHistory return and preserve.     *)
EXTENDS ChatHistory, TLAPS

----------------------------------------------------------------------------
(* Types.  Each function takes well-typed messages to well-typed messages, *)
(* and its domain is known.                                                *)

\* Putting a message adds its id and changes no other message.
LEMMA PutType ==
    ASSUME NEW m, IsMessages(m), NEW i \in Ids, NEW x \in Message
    PROVE  /\ IsMessages(Put(m, i, x))
           /\ DOMAIN Put(m, i, x) = DOMAIN m \cup {i}
           /\ Put(m, i, x)[i] = x
           /\ \A j \in DOMAIN m \ {i} : Put(m, i, x)[j] = m[j]
BY DEF IsMessages, Put

\* Linking a child keeps the domain, every parent and every text.
LEMMA LinkChildType ==
    ASSUME NEW m, IsMessages(m), NEW p \in Ids \cup {None}, NEW k \in Ids
    PROVE  /\ IsMessages(LinkChild(m, p, k))
           /\ DOMAIN LinkChild(m, p, k) = DOMAIN m
           /\ \A j \in DOMAIN m :
                 LinkChild(m, p, k)[j] =
                    IF j = p THEN [m[j] EXCEPT !.kids = @ \cup {k}] ELSE m[j]
BY DEF IsMessages, LinkChild, Message

\* The prompt of a turn is stored, new or again.
LEMMA WithPromptType ==
    ASSUME NEW m, IsMessages(m), NEW t \in Turn
    PROVE  /\ IsMessages(WithPrompt(m, t))
           /\ DOMAIN WithPrompt(m, t) = DOMAIN m \cup {t.user}
<1>1. t.user \in Ids /\ t.reply \in Ids /\ t.parent \in Ids \cup {None} /\ t.text \in Texts
  BY DEF Turn, Ids
<1>2. CASE t.user \in DOMAIN m
  <2> DEFINE k == m[t.user].kids \cup {t.reply}
             w == IF t.text = Blank THEN m[t.user].text ELSE t.text
             y == [m[t.user] EXCEPT !.kids = k, !.text = w]
  <2>1. m[t.user] \in Message
    BY <1>2 DEF IsMessages
  <2>2. k \subseteq Ids /\ w \in Texts
    BY <1>1, <2>1 DEF Message
  <2>3. y \in Message
    <3> HIDE DEF k, w
    <3> QED BY <2>1, <2>2 DEF Message
  <2>4. WithPrompt(m, t) = [m EXCEPT ![t.user] = y]
    BY <1>2, <2>1 DEF WithPrompt, IsMessages, Message
  <2> HIDE DEF y
  <2> QED BY <1>2, <2>3, <2>4 DEF IsMessages
<1>3. CASE t.user \notin DOMAIN m
  <2> DEFINE prompt == [parent |-> t.parent, kids |-> {t.reply}, text |-> t.text, done |-> TRUE]
             put    == Put(m, t.user, prompt)
  <2>1. prompt \in Message
    BY <1>1 DEF Message
  <2>2. WithPrompt(m, t) = LinkChild(put, t.parent, t.user)
    BY <1>3 DEF WithPrompt
  <2>3. IsMessages(put)
    <3> HIDE DEF prompt
    <3> QED BY <1>1, <2>1, PutType
  <2>4. DOMAIN put = DOMAIN m \cup {t.user}
    BY DEF Put
  <2> HIDE DEF put
  <2>5. t.user \in Ids /\ t.parent \in Ids \cup {None}
    BY <1>1
  <2>6. IsMessages(LinkChild(put, t.parent, t.user))
    BY <2>3, <2>5, LinkChildType
  <2>7. DOMAIN LinkChild(put, t.parent, t.user) = DOMAIN put
    BY DEF LinkChild
  <2> QED BY <2>2, <2>4, <2>6, <2>7
<1> QED BY <1>2, <1>3

\* A turn adds its two messages.
LEMMA AppendTurnType ==
    ASSUME NEW m, IsMessages(m), NEW t \in Turn
    PROVE  /\ IsMessages(AppendTurn(m, t))
           /\ DOMAIN AppendTurn(m, t) = DOMAIN m \cup {t.user, t.reply}
<1> DEFINE w == WithPrompt(m, t)
           x == [parent |-> t.user, kids |-> {}, text |-> Blank, done |-> t.done]
<1>1. t.user \in Ids /\ t.reply \in Ids /\ x \in Message
  BY HistoryAssumption DEF Turn, Ids, Message
<1>2. IsMessages(w) /\ DOMAIN w = DOMAIN m \cup {t.user}
  BY WithPromptType
<1>3. CASE t.reply \in DOMAIN w
  BY <1>2, <1>3 DEF AppendTurn
<1>4. CASE t.reply \notin DOMAIN w
  <2>1. AppendTurn(m, t) = Put(w, t.reply, x)
    BY <1>4 DEF AppendTurn
  <2> HIDE DEF x, w
  <2>2. IsMessages(w) /\ t.reply \in Ids /\ x \in Message
    BY <1>1, <1>2
  <2>3. IsMessages(Put(w, t.reply, x))
    BY <2>2, PutType
  <2>4. DOMAIN Put(w, t.reply, x) = DOMAIN w \cup {t.reply}
    BY DEF Put
  <2> QED BY <1>2, <2>1, <2>3, <2>4
<1> QED BY <1>3, <1>4

\* A patch removes the deleted ids and adds the upserted ones.
LEMMA HistoryPatchType ==
    ASSUME NEW m, IsMessages(m), NEW upsert, IsMessages(upsert), NEW del
    PROVE  /\ IsMessages(HistoryPatch(m, upsert, del))
           /\ DOMAIN HistoryPatch(m, upsert, del) = (DOMAIN m \ del) \cup DOMAIN upsert
           /\ \A j \in DOMAIN upsert : HistoryPatch(m, upsert, del)[j] = upsert[j]
           /\ \A j \in (DOMAIN m \ del) \ DOMAIN upsert :
                 HistoryPatch(m, upsert, del)[j] = [m[j] EXCEPT !.kids = @ \ del]
<1>1. IsMessages(Prune(m, del)) /\ DOMAIN Prune(m, del) = DOMAIN m \ del
  BY DEF Prune, IsMessages, Message
<1> QED BY <1>1 DEF HistoryPatch, Prune, IsMessages

\* A write to one message starts from a message.
LEMMA MessageOrStubType ==
    ASSUME NEW m, IsMessages(m), NEW i
    PROVE  MessageOrStub(m, i) \in Message
BY HistoryAssumption DEF MessageOrStub, Stub, IsMessages, Message

\* The final save adds or changes the reply only.
LEMMA SavedReplyType ==
    ASSUME NEW m, IsMessages(m), NEW r \in Ids, NEW text \in Texts
    PROVE  /\ IsMessages(SavedReply(m, r, text))
           /\ DOMAIN SavedReply(m, r, text) = DOMAIN m \cup {r}
<1>1. [MessageOrStub(m, r) EXCEPT !.text = text, !.done = TRUE] \in Message
  BY MessageOrStubType DEF Message
<1> QED BY <1>1, PutType DEF SavedReply

\* A text written to one message adds or changes that message only.
LEMMA UpsertedTextType ==
    ASSUME NEW m, IsMessages(m), NEW i \in Ids, NEW text \in Texts
    PROVE  /\ IsMessages(UpsertedText(m, i, text))
           /\ DOMAIN UpsertedText(m, i, text) = DOMAIN m \cup {i}
           /\ UpsertedText(m, i, text)[i] = [MessageOrStub(m, i) EXCEPT !.text = text]
           /\ \A j \in DOMAIN m \ {i} : UpsertedText(m, i, text)[j] = m[j]
<1> DEFINE x == [MessageOrStub(m, i) EXCEPT !.text = text]
<1>1. x \in Message
  BY MessageOrStubType DEF Message
<1>2. UpsertedText(m, i, text) = Put(m, i, x)
  BY DEF UpsertedText
<1> HIDE DEF x
<1> DEFINE n == Put(m, i, x)
<1>3. IsMessages(n)
  BY <1>1, PutType
<1>4. DOMAIN n = DOMAIN m \cup {i} /\ n[i] = x /\ \A j \in DOMAIN m \ {i} : n[j] = m[j]
  BY DEF Put
<1> HIDE DEF n
<1> QED BY <1>2, <1>3, <1>4 DEF n, x

\* The patches a tab builds hold messages.
LEMMA EditUpsertType ==
    ASSUME NEW m, IsMessages(m), NEW i \in DOMAIN m, NEW text \in Texts
    PROVE  IsMessages(EditUpsert(m, i, text)) /\ DOMAIN EditUpsert(m, i, text) = {i}
BY DEF EditUpsert, IsMessages, Message

LEMMA DeleteUpsertType ==
    ASSUME NEW m, IsMessages(m), NEW i \in DOMAIN m
    PROVE  /\ IsMessages(DeleteUpsert(m, i))
           /\ DOMAIN DeleteUpsert(m, i) = (Grandchildren(m, i) \cup {m[i].parent}) \cap DOMAIN m
<1>1. \A j \in DOMAIN m : m[j] \in Message
  BY DEF IsMessages
<1>2. m[i].parent \in Ids \cup {None} /\ Grandchildren(m, i) \subseteq Ids
  BY <1>1 DEF Message, Grandchildren
<1> QED BY <1>1, <1>2 DEF DeleteUpsert, IsMessages, Message

LEMMA CopyUpsertType ==
    ASSUME NEW m, IsMessages(m), NEW r \in DOMAIN m, NEW fresh \in Ids, NEW text \in Texts
    PROVE  /\ IsMessages(CopyUpsert(m, r, fresh, text))
           /\ DOMAIN CopyUpsert(m, r, fresh, text) = {fresh} \cup ({m[r].parent} \cap DOMAIN m)
<1> DEFINE x == [m[r] EXCEPT !.kids = {}, !.text = text]
           copied == Put(m, fresh, x)
           linked == LinkChild(copied, m[r].parent, fresh)
<1>1. x \in Message /\ m[r].parent \in Ids \cup {None}
  BY DEF IsMessages, Message
<1>2. IsMessages(copied) /\ DOMAIN copied = DOMAIN m \cup {fresh}
  BY <1>1, PutType
<1>3. IsMessages(linked) /\ DOMAIN linked = DOMAIN m \cup {fresh}
  BY <1>1, <1>2, LinkChildType
<1>4. CopyUpsert(m, r, fresh, text) = [j \in {fresh} \cup ({m[r].parent} \cap DOMAIN m) |-> linked[j]]
  BY DEF CopyUpsert
<1> QED BY <1>3, <1>4 DEF IsMessages

=============================================================================
