-------------------------- MODULE ChatStoreProofs --------------------------
(***************************************************************************)
(* Proofs about the stored chat, for any clients, messages and texts and   *)
(* any bound on the revision.  TypeOK and CurrentStored are inductive; so  *)
(* is RevisionNamesDocument with TypeOK and what it says of the copies a   *)
(* completion event brings up to date (FollowsSave).  NoLostUpdate follows *)
(* from it; so does, while no blind write is stored, that the stored       *)
(* messages are a forest.                                                  *)
(***************************************************************************)
EXTENDS ChatStore, ChatHistoryProofs

----------------------------------------------------------------------------
(* What every stored patch does, whichever of the three builds it.         *)

LEMMA PatchType ==
    ASSUME TypeOK, NEW c \in Clients, NEW named \in BOOLEAN, NEW upsert, NEW del,
           IsMessages(upsert), ApplyHistoryPatch(c, named, upsert, del)
    PROVE  TypeOK'
<1>1. /\ IsMessages(messages)
      /\ messages' = HistoryPatch(messages, upsert, del)
      /\ taken' = taken \cup DOMAIN upsert
      /\ DOMAIN messages \subseteq taken
      /\ completed' = None
      /\ quiet' \subseteq quiet /\ marked' \subseteq marked
  BY DEF TypeOK, ApplyHistoryPatch
<1>2. IsMessages(messages')
  BY <1>1, HistoryPatchType
<1>3. DOMAIN messages' = (DOMAIN messages \ del) \cup DOMAIN upsert
  BY <1>1 DEF HistoryPatch, Prune
<1>4. DOMAIN upsert \subseteq Ids
  BY DEF IsMessages
<1>5. current' \in Ids \cup {None}
  <2>1. current' \in {current, None} \/ current' \in DOMAIN messages
    BY DEF ApplyHistoryPatch, ClimbPast
  <2> QED BY <1>1, <2>1 DEF TypeOK, IsMessages
<1>6. blind' \in BOOLEAN
  BY DEF ApplyHistoryPatch
<1> QED BY <1>1, <1>2, <1>3, <1>4, <1>5, <1>6 DEF TypeOK, ApplyHistoryPatch, Bumped

\* A stored turn keeps the types, in the row and in the copy of its client, and
\* its reply may start running.
LEMMA TurnType ==
    ASSUME TypeOK, NEW c \in Clients, NEW t \in Turn, NEW named \in BOOLEAN,
           StoreTurn(c, t, named), running' \in {running, running \cup {t.reply}}
    PROVE  TypeOK'
<1>1. /\ IsMessages(messages) /\ DOMAIN messages \subseteq taken
      /\ messages' = AppendTurn(messages, t)
      /\ taken' = taken \cup {t.user, t.reply}
      /\ current' = t.reply
      /\ completed' = None
      /\ revision \in Nat /\ revision' \in Nat
  BY DEF TypeOK, StoreTurn, Bumped
<1>2. IsMessages(messages')
  BY <1>1, AppendTurnType
<1>3. DOMAIN messages' = DOMAIN messages \cup {t.user, t.reply}
  BY <1>1, AppendTurnType
<1>4. t.user \in Ids /\ t.reply \in Replies /\ t.reply \in Ids
  BY DEF Turn, Ids
<1>5. DOMAIN seen' = Clients /\ \A b \in Clients : IsDocument(seen'[b])
  <2> DEFINE d == seen[c]
             e == [revision |-> d.revision,
                   upTo |-> IF d.upTo = revision THEN revision' ELSE d.upTo,
                   messages |-> AppendTurn(d.messages, t)]
  <2>1. DOMAIN seen = Clients /\ \A b \in Clients : IsDocument(seen[b])
    BY DEF TypeOK
  <2>2. /\ d = [revision |-> d.revision, upTo |-> d.upTo, messages |-> d.messages]
        /\ d.revision \in Nat /\ d.upTo \in Nat /\ IsMessages(d.messages)
    BY <2>1 DEF IsDocument
  <2>3. seen' = [seen EXCEPT ![c] = e]
    BY DEF StoreTurn
  <2>4. IsMessages(AppendTurn(d.messages, t))
    BY <2>2, AppendTurnType
  <2> HIDE DEF d
  <2>6. IsDocument(e)
    BY <1>1, <2>2, <2>4 DEF IsDocument
  <2> HIDE DEF e
  <2> QED BY <2>1, <2>3, <2>6
<1>6. blind' \in BOOLEAN /\ quiet' = quiet /\ marked' = marked
  BY DEF StoreTurn
<1> QED BY <1>1, <1>2, <1>3, <1>4, <1>5, <1>6 DEF TypeOK, StoreTurn

\* What a write that moves no revision does to its message.
Quieted(m, n, i) ==
    \E x \in Message :
        /\ n = Put(m, i, x)
        /\ x.parent = MessageOrStub(m, i).parent /\ x.kids = MessageOrStub(m, i).kids
        /\ MessageOrStub(m, i).done => x.done
        /\ x.done = MessageOrStub(m, i).done \/ i \in marked'

LEMMA QuietWrite ==
    ASSUME TypeOK, NEW i \in Ids, UpsertQuietly(i) \/ MergeQuietly(i)
    PROVE  /\ Quieted(messages, messages', i)
           /\ i \in taken /\ quiet' = quiet \cup {i}
           /\ marked \subseteq marked' /\ marked' \subseteq marked \cup {i}
           /\ UNCHANGED <<exists, revision, running, taken, completed, seen, blind>>
<1> DEFINE old == MessageOrStub(messages, i)
<1>1. IsMessages(messages) /\ DOMAIN messages \subseteq taken
  BY DEF TypeOK
<1>2. old \in Message
  BY <1>1, MessageOrStubType
<1>3. ASSUME NEW text \in Texts, messages' = UpsertedText(messages, i, text)
      PROVE  Quieted(messages, messages', i)
  <2> DEFINE x == [old EXCEPT !.text = text]
  <2>1. messages' = Put(messages, i, x)
    BY <1>3 DEF UpsertedText
  <2> HIDE DEF old
  <2>2. x \in Message /\ x.parent = old.parent /\ x.kids = old.kids /\ x.done = old.done
    BY <1>2 DEF Message
  <2> HIDE DEF x
  <2> QED BY <2>1, <2>2 DEF Quieted, old
<1>4. ASSUME NEW text \in Texts, messages' = SavedReply(messages, i, text),
             marked' = IF ~ old.done THEN marked \cup {i} ELSE marked
      PROVE  Quieted(messages, messages', i)
  <2> DEFINE x == [old EXCEPT !.text = text, !.done = TRUE]
  <2>1. messages' = Put(messages, i, x)
    BY <1>4 DEF SavedReply
  <2>2. old.done \in BOOLEAN
    BY <1>2 DEF Message
  <2>3. old.done \/ i \in marked'
    BY <1>4
  <2> HIDE DEF old
  <2>4. x \in Message /\ x.parent = old.parent /\ x.kids = old.kids /\ x.done = TRUE
    BY <1>2 DEF Message
  <2> HIDE DEF x
  <2> QED BY <2>1, <2>2, <2>3, <2>4 DEF Quieted, old
<1>5. CASE MergeQuietly(i)
  BY <1>1, <1>3, <1>5 DEF MergeQuietly
<1>6. CASE UpsertQuietly(i)
  <2>1. PICK text \in Texts, done \in BOOLEAN :
           /\ messages' = IF done THEN SavedReply(messages, i, text)
                                  ELSE UpsertedText(messages, i, text)
           /\ marked' = IF done /\ ~ old.done THEN marked \cup {i} ELSE marked
    BY <1>6 DEF UpsertQuietly
  <2>2. Quieted(messages, messages', i)
    <3>1. CASE done = TRUE
      <4> HIDE DEF old
      <4>1. messages' = SavedReply(messages, i, text)
            /\ marked' = IF ~ old.done THEN marked \cup {i} ELSE marked
        BY <2>1, <3>1
      <4> QED BY <1>4, <4>1
    <3>2. CASE done = FALSE
      BY <1>3, <2>1, <3>2
    <3> QED BY <3>1, <3>2
  <2> HIDE DEF old
  <2> QED BY <1>6, <2>1, <2>2 DEF UpsertQuietly
<1> QED BY <1>5, <1>6

LEMMA InitType == Init => TypeOK
<1> SUFFICES ASSUME Init PROVE TypeOK
  OBVIOUS
<1>1. PICK u \in Prompts, text \in Texts \ {Blank} :
         /\ messages = [i \in {u} |-> [parent |-> None, kids |-> {}, text |-> text, done |-> TRUE]]
         /\ current = u /\ taken = {u}
  BY DEF Init
<1>2. u \in Ids
  BY DEF Ids
<1>3. IsMessages(messages) /\ DOMAIN messages = {u}
  BY <1>1, <1>2 DEF IsMessages, Message
<1>4. \A c \in Clients : IsDocument(seen[c])
  <2>1. \A c \in Clients : seen[c] = Document
    BY DEF Init
  <2>2. revision = 1
    BY DEF Init
  <2>3. IsDocument(Document)
    BY <1>3, <2>2 DEF IsDocument, Document
  <2> QED BY <2>1, <2>3
<1>5. exists \in BOOLEAN /\ running = {} /\ DOMAIN seen = Clients
      /\ completed = None /\ blind \in BOOLEAN /\ quiet = {} /\ marked = {}
  BY DEF Init
<1>6. revision \in Nat
  BY DEF Init
<1> QED BY <1>1, <1>2, <1>3, <1>4, <1>5, <1>6 DEF TypeOK

\* Every operation stores well-typed messages whose ids were minted.
LEMMA NextType == TypeOK /\ [Next]_vars => TypeOK'
<1> SUFFICES ASSUME TypeOK, [Next]_vars PROVE TypeOK'
  OBVIOUS
<1> USE DEF TypeOK, row, history
<1>1. ASSUME NEW c \in Clients, Fetch(c) PROVE TypeOK'
  BY <1>1 DEF Fetch, IsDocument, Document
<1>2. ASSUME NEW c \in Clients, NEW t \in Turn, NEW named \in BOOLEAN, AcceptTurn(c, t, named)
      PROVE  TypeOK'
  BY <1>2, TurnType DEF AcceptTurn
<1>3. ASSUME NEW c \in Clients, NEW t \in Turn, NEW named \in BOOLEAN,
             StoreRefusedTurn(c, t, named)
      PROVE  TypeOK'
  BY <1>3, TurnType DEF StoreRefusedTurn
<1>4. ASSUME NEW c \in Clients, NEW named \in BOOLEAN, EditMessage(c, named) PROVE TypeOK'
  <2>1. PICK i \in DOMAIN seen[c].messages, text \in Texts :
           ApplyHistoryPatch(c, named, EditUpsert(seen[c].messages, i, text), {})
    BY <1>4 DEF EditMessage
  <2>2. IsMessages(EditUpsert(seen[c].messages, i, text))
    BY EditUpsertType DEF IsDocument
  <2> QED BY <2>1, <2>2, PatchType
<1>5. ASSUME NEW c \in Clients, NEW named \in BOOLEAN, CopyReply(c, named) PROVE TypeOK'
  <2>1. PICK i \in DOMAIN seen[c].messages \cap Replies, r \in Replies \ taken, text \in Texts :
           ApplyHistoryPatch(c, named, CopyUpsert(seen[c].messages, i, r, text), {})
    BY <1>5 DEF CopyReply
  <2>2. IsMessages(CopyUpsert(seen[c].messages, i, r, text))
    BY CopyUpsertType DEF IsDocument, Ids
  <2> QED BY <2>1, <2>2, PatchType
<1>6. ASSUME NEW c \in Clients, NEW named \in BOOLEAN, DeleteMessage(c, named) PROVE TypeOK'
  <2>1. PICK i \in DOMAIN seen[c].messages :
           ApplyHistoryPatch(c, named, DeleteUpsert(seen[c].messages, i),
                             DeletedWith(seen[c].messages, i))
    BY <1>6 DEF DeleteMessage
  <2>2. IsMessages(DeleteUpsert(seen[c].messages, i))
    BY DeleteUpsertType DEF IsDocument
  <2> QED BY <2>1, <2>2, PatchType
<1>7. ASSUME NEW i \in Ids, UpsertQuietly(i) \/ MergeQuietly(i) PROVE TypeOK'
  <2>1. /\ Quieted(messages, messages', i)
        /\ i \in taken /\ quiet' = quiet \cup {i} /\ marked' \subseteq marked \cup {i}
        /\ UNCHANGED <<exists, revision, running, taken, completed, seen, blind>>
    BY <1>7, QuietWrite
  <2>2. IsMessages(messages') /\ DOMAIN messages' = DOMAIN messages \cup {i}
    <3>1. PICK x \in Message : messages' = Put(messages, i, x)
      BY <2>1 DEF Quieted
    <3> QED BY <3>1, PutType DEF TypeOK
  <2>3. current' \in {i, current}
    BY <1>7 DEF UpsertQuietly, MergeQuietly
  <2> QED BY <2>1, <2>2, <2>3
<1>8. ASSUME NEW r \in Replies, SaveReply(r) PROVE TypeOK'
  <2>1. PICK text \in Texts : messages' = SavedReply(messages, r, text)
    BY <1>8 DEF SaveReply
  <2>2. IsMessages(messages')
    BY <2>1, SavedReplyType DEF Ids
  <2>3. DOMAIN messages' = DOMAIN messages \cup {r}
    BY <2>1 DEF SavedReply, Put
  <2> QED BY <1>8, <2>2, <2>3 DEF SaveReply, Ids, Bumped
<1>9. ASSUME NEW r \in Replies, SaveReplyMissing(r) PROVE TypeOK'
  BY <1>9 DEF SaveReplyMissing
<1>10. ASSUME NEW i \in Ids, SetMessageText(i) PROVE TypeOK'
  <2>1. PICK text \in Texts : messages' = UpsertedText(messages, i, text)
    BY <1>10 DEF SetMessageText
  <2>2. IsMessages(messages')
    BY <2>1, UpsertedTextType
  <2>3. DOMAIN messages' = DOMAIN messages \cup {i}
    BY <2>1 DEF UpsertedText, Put
  <2> QED BY <1>10, <2>2, <2>3 DEF SetMessageText, Bumped
<1>11. CASE UpdateChatFields
  BY <1>11 DEF UpdateChatFields, Bumped
<1>12. CASE DeleteChat
  <2>1. IsMessages(NoMessages) /\ DOMAIN NoMessages = {}
    BY DEF IsMessages, NoMessages
  <2> QED BY <1>12, <2>1 DEF DeleteChat
<1>13. CASE UNCHANGED vars
  BY <1>13 DEF vars
<1>14. ASSUME NEW c \in Clients, AdoptCompletion(c) PROVE TypeOK'
  <2>1. IsDocument(Completed(seen[c]))
    <3> DEFINE d    == seen[c]
               text == messages[completed].text
               up   == IF d.upTo = revision - 1 /\ Awaits(d)
                       THEN revision ELSE d.upTo
               m    == IF Awaits(d)
                       THEN SavedReply(d.messages, completed, text) ELSE d.messages
    <3>1. /\ d = [revision |-> d.revision, upTo |-> d.upTo, messages |-> d.messages]
          /\ d.revision \in Nat /\ d.upTo \in Nat /\ IsMessages(d.messages)
      BY DEF IsDocument
    <3>2. completed \in Ids /\ text \in Texts
      BY <1>14 DEF AdoptCompletion, Ids, IsMessages, Message
    <3>3. IsMessages(m)
      BY <3>1, <3>2, SavedReplyType
    <3>4. up \in Nat
      BY <3>1
    <3>5. Completed(d) = [revision |-> revision, upTo |-> up, messages |-> m]
      <4> HIDE DEF d
      <4> QED BY <3>1 DEF Completed
    <3> HIDE DEF up, m
    <3> QED BY <3>3, <3>4, <3>5 DEF IsDocument
  <2> QED BY <1>14, <2>1 DEF AdoptCompletion
<1> QED BY <1>1, <1>2, <1>3, <1>4, <1>5, <1>6, <1>7, <1>8, <1>9, <1>10, <1>11, <1>12, <1>13, <1>14
        DEF Next, ClientWrite, ReplyStep, MessageWrite

\* The row, the ids and every client's copy keep their types whatever is
\* written: no patch a tab builds stores anything but messages.
THEOREM TypeCorrect == Spec => []TypeOK
BY InitType, NextType, PTL DEF Spec

----------------------------------------------------------------------------
(* The current message.                                                    *)

LEMMA CurrentInit == Init => CurrentStored
BY DEF Init, CurrentStored

\* A patch that deletes the current message climbs to one that stays.
LEMMA CurrentPatch ==
    ASSUME TypeOK, CurrentStored, NEW c \in Clients, NEW named, NEW upsert, NEW del,
           ApplyHistoryPatch(c, named, upsert, del)
    PROVE  CurrentStored'
<1>1. /\ messages' = HistoryPatch(messages, upsert, del)
      /\ current' = ClimbPast(messages, current, del)
  BY DEF ApplyHistoryPatch
<1>2. DOMAIN messages' = (DOMAIN messages \ del) \cup DOMAIN upsert
  BY <1>1 DEF HistoryPatch, Prune
<1>3. \/ current' = current /\ current \notin del
      \/ current' \in DOMAIN messages \ del
      \/ current' = None
  BY <1>1 DEF ClimbPast
<1> QED BY <1>2, <1>3 DEF CurrentStored

LEMMA CurrentNext == TypeOK /\ CurrentStored /\ [Next]_vars => CurrentStored'
<1> SUFFICES ASSUME TypeOK, CurrentStored, [Next]_vars PROVE CurrentStored'
  OBVIOUS
<1>1. ASSUME NEW c \in Clients, Fetch(c) \/ AdoptCompletion(c) PROVE CurrentStored'
  BY <1>1 DEF Fetch, AdoptCompletion, row, CurrentStored
<1>2. ASSUME NEW c \in Clients, NEW t \in Turn, NEW named \in BOOLEAN, StoreTurn(c, t, named)
      PROVE  CurrentStored'
  <2>1. messages' = AppendTurn(messages, t) /\ current' = t.reply /\ IsMessages(messages)
    BY <1>2 DEF StoreTurn, TypeOK
  <2>2. t.reply \in DOMAIN messages'
    BY <2>1, AppendTurnType
  <2> QED BY <2>1, <2>2 DEF CurrentStored
<1>3. ASSUME NEW c \in Clients, NEW named \in BOOLEAN,
             EditMessage(c, named) \/ CopyReply(c, named) \/ DeleteMessage(c, named)
      PROVE  CurrentStored'
  BY <1>3, CurrentPatch DEF EditMessage, CopyReply, DeleteMessage
<1>4. ASSUME NEW r \in Replies, SaveReply(r) PROVE CurrentStored'
  BY <1>4 DEF SaveReply, SavedReply, Put, CurrentStored
<1>5. ASSUME NEW r \in Replies, SaveReplyMissing(r) PROVE CurrentStored'
  BY <1>5 DEF SaveReplyMissing, row, CurrentStored
<1>6. ASSUME NEW i \in Ids, UpsertQuietly(i) \/ MergeQuietly(i) \/ SetMessageText(i)
      PROVE  CurrentStored'
  BY <1>6 DEF UpsertQuietly, MergeQuietly, SetMessageText, UpsertedText, SavedReply, Put,
              CurrentStored
<1>7. CASE UpdateChatFields
  BY <1>7 DEF UpdateChatFields, CurrentStored
<1>8. CASE DeleteChat
  BY <1>8 DEF DeleteChat, CurrentStored
<1>9. CASE UNCHANGED vars
  BY <1>9 DEF vars, row, CurrentStored
<1> QED BY <1>1, <1>2, <1>3, <1>4, <1>5, <1>6, <1>7, <1>8, <1>9
        DEF Next, ClientWrite, ReplyStep, MessageWrite, AcceptTurn, StoreRefusedTurn

\* A reload always has a branch to open: no order of turns, patches, saves,
\* quiet writes and stubs leaves the chat on a message that is not stored.
THEOREM CurrentCorrect == Spec => []CurrentStored
BY CurrentInit, CurrentNext, TypeCorrect, PTL DEF Spec

----------------------------------------------------------------------------
(* Copies that differ from the stored messages in quiet writes only.       *)

\* SameDocument with its two history variables as parameters.
Same(a, m, q, k) ==
    /\ DOMAIN a \subseteq DOMAIN m
    /\ \A i \in DOMAIN a :
          /\ m[i].parent = a[i].parent
          /\ m[i].kids = a[i].kids
          /\ i \notin q => m[i].text = a[i].text
          /\ i \notin k => m[i].done = a[i].done
    /\ \A i \in DOMAIN m \ DOMAIN a :
          i \in q /\ m[i].parent = None /\ m[i].kids = {}

\* What a turn does whose prompt is stored, and one that brings its prompt.
AddsReply(m, n, t) ==
    /\ DOMAIN n = DOMAIN m \cup {t.reply}
    /\ n[t.reply] = [parent |-> t.user, kids |-> {}, text |-> Blank, done |-> t.done]
    /\ \A j \in DOMAIN m :
          /\ n[j].parent = m[j].parent /\ n[j].done = m[j].done
          /\ n[j].kids = IF j = t.user THEN m[j].kids \cup {t.reply} ELSE m[j].kids
          /\ n[j].text = IF j = t.user /\ t.text # Blank THEN t.text ELSE m[j].text

AddsTurn(m, n, t) ==
    /\ DOMAIN n = DOMAIN m \cup {t.user, t.reply}
    /\ n[t.reply] = [parent |-> t.user, kids |-> {}, text |-> Blank, done |-> t.done]
    /\ n[t.user] = [parent |-> t.parent, kids |-> {t.reply}, text |-> t.text, done |-> TRUE]
    /\ \A j \in DOMAIN m :
          /\ n[j].parent = m[j].parent /\ n[j].done = m[j].done
          /\ n[j].kids = IF j = t.parent THEN m[j].kids \cup {t.user} ELSE m[j].kids
          /\ n[j].text = m[j].text

LEMMA AppendOld ==
    ASSUME NEW m, IsMessages(m), NEW t \in Turn, t.reply \notin DOMAIN m, t.user \in DOMAIN m
    PROVE  AddsReply(m, AppendTurn(m, t), t)
<1> DEFINE w == WithPrompt(m, t)
<1>1. \A j \in DOMAIN m : m[j] \in Message
  BY DEF IsMessages
<1>2. w = [m EXCEPT ![t.user] = [m[t.user] EXCEPT
                 !.kids = m[t.user].kids \cup {t.reply},
                 !.text = IF t.text = Blank THEN m[t.user].text ELSE t.text]]
  BY <1>1 DEF WithPrompt, Message
<1>3. /\ DOMAIN w = DOMAIN m
      /\ \A j \in DOMAIN m :
            /\ w[j].parent = m[j].parent /\ w[j].done = m[j].done
            /\ w[j].kids = IF j = t.user THEN m[j].kids \cup {t.reply} ELSE m[j].kids
            /\ w[j].text = IF j = t.user /\ t.text # Blank THEN t.text ELSE m[j].text
  <2> HIDE DEF w
  <2> QED BY <1>1, <1>2 DEF Message
<1>4. AppendTurn(m, t) =
         Put(w, t.reply, [parent |-> t.user, kids |-> {}, text |-> Blank, done |-> t.done])
  BY <1>3 DEF AppendTurn
<1> HIDE DEF w
<1> QED BY <1>3, <1>4 DEF Put, AddsReply

LEMMA AppendNew ==
    ASSUME NEW m, IsMessages(m), NEW t \in Turn, t.reply \notin DOMAIN m,
           t.user \notin DOMAIN m, t.parent # t.user
    PROVE  AddsTurn(m, AppendTurn(m, t), t)
<1> DEFINE prompt == [parent |-> t.parent, kids |-> {t.reply}, text |-> t.text, done |-> TRUE]
           put    == Put(m, t.user, prompt)
           w      == WithPrompt(m, t)
<1>1. \A j \in DOMAIN m : m[j] \in Message
  BY DEF IsMessages
<1>2. t.user # t.reply
  BY HistoryAssumption DEF Turn
<1>3. w = LinkChild(put, t.parent, t.user)
  BY DEF WithPrompt
<1>4. /\ DOMAIN put = DOMAIN m \cup {t.user} /\ put[t.user] = prompt
      /\ \A j \in DOMAIN m : put[j] = m[j]
  BY DEF Put
<1>5. /\ DOMAIN w = DOMAIN m \cup {t.user} /\ w[t.user] = prompt
      /\ \A j \in DOMAIN m :
            /\ w[j].parent = m[j].parent /\ w[j].done = m[j].done
            /\ w[j].kids = IF j = t.parent THEN m[j].kids \cup {t.user} ELSE m[j].kids
            /\ w[j].text = m[j].text
  <2> HIDE DEF w, put, prompt
  <2>1. CASE t.parent \in DOMAIN m
    <3>1. w = [put EXCEPT ![t.parent] = [m[t.parent] EXCEPT !.kids = @ \cup {t.user}]]
      BY <1>3, <1>4, <2>1 DEF LinkChild
    <3>2. DOMAIN w = DOMAIN put /\ w[t.user] = prompt
      BY <1>4, <2>1, <3>1
    <3>3. \A j \in DOMAIN m :
             w[j] = IF j = t.parent THEN [m[j] EXCEPT !.kids = @ \cup {t.user}] ELSE m[j]
      BY <1>4, <2>1, <3>1
    <3> QED BY <1>1, <1>4, <3>2, <3>3 DEF Message
  <2>2. CASE t.parent \notin DOMAIN m
    <3>1. w = put
      BY <1>3, <1>4, <2>2 DEF LinkChild
    <3> QED BY <1>4, <2>2, <3>1
  <2> QED BY <2>1, <2>2
<1>6. AppendTurn(m, t) =
         Put(w, t.reply, [parent |-> t.user, kids |-> {}, text |-> Blank, done |-> t.done])
  BY <1>2, <1>5 DEF AppendTurn
<1> HIDE DEF w, prompt, put
<1>7. /\ DOMAIN AppendTurn(m, t) = DOMAIN w \cup {t.reply}
      /\ AppendTurn(m, t)[t.reply]
            = [parent |-> t.user, kids |-> {}, text |-> Blank, done |-> t.done]
      /\ \A j \in DOMAIN w : j # t.reply => AppendTurn(m, t)[j] = w[j]
  BY <1>6 DEF Put
<1> QED BY <1>2, <1>5, <1>7 DEF prompt, AddsTurn

\* The turn a client shows is the turn the row takes.
LEMMA TurnSame ==
    ASSUME NEW a, IsMessages(a), NEW m, IsMessages(m), NEW q, NEW k, Same(a, m, q, k),
           NEW t \in Turn, t.reply \notin DOMAIN m,
           \/ t.user \in DOMAIN a
           \/ t.user \notin DOMAIN m /\ t.parent \in DOMAIN a \cup {None}
    PROVE  Same(AppendTurn(a, t), AppendTurn(m, t), q, k)
<1> DEFINE b == AppendTurn(a, t)
           n == AppendTurn(m, t)
<1>1. /\ DOMAIN a \subseteq DOMAIN m
      /\ \A j \in DOMAIN a : /\ m[j].parent = a[j].parent /\ m[j].kids = a[j].kids
                             /\ j \notin q => m[j].text = a[j].text
                             /\ j \notin k => m[j].done = a[j].done
      /\ \A j \in DOMAIN m \ DOMAIN a : j \in q /\ m[j].parent = None /\ m[j].kids = {}
  BY DEF Same
<1>2. t.reply \notin DOMAIN a /\ None \notin DOMAIN m /\ None \notin {t.user, t.reply}
  BY <1>1, HistoryAssumption DEF IsMessages, Ids, Turn
<1>3. CASE t.user \in DOMAIN a
  <2>0. t.user \in DOMAIN m
    BY <1>1, <1>3
  <2>1. AddsReply(m, n, t)
    BY <2>0, AppendOld
  <2>2. AddsReply(a, b, t)
    BY <1>2, <1>3, AppendOld
  <2> HIDE DEF b, n
  <2>3. \A j \in DOMAIN a : /\ n[j].parent = b[j].parent /\ n[j].kids = b[j].kids
                            /\ j \notin q => n[j].text = b[j].text
                            /\ j \notin k => n[j].done = b[j].done
    <3> TAKE j \in DOMAIN a
    <3>1. j \in DOMAIN m /\ m[j].parent = a[j].parent /\ m[j].kids = a[j].kids
      BY <1>1
    <3>2. (j \notin q => m[j].text = a[j].text) /\ (j \notin k => m[j].done = a[j].done)
      BY <1>1
    <3>3. /\ n[j].parent = m[j].parent /\ n[j].done = m[j].done
          /\ b[j].parent = a[j].parent /\ b[j].done = a[j].done
      BY <2>1, <2>2, <3>1 DEF AddsReply
    <3>4. n[j].kids = b[j].kids
      BY <2>1, <2>2, <3>1 DEF AddsReply
    <3>5. j \notin q => n[j].text = b[j].text
      BY <2>1, <2>2, <3>1, <3>2 DEF AddsReply
    <3>6. j \notin k => n[j].done = b[j].done
      BY <3>2, <3>3
    <3>7. n[j].parent = b[j].parent
      BY <3>1, <3>3
    <3> QED BY <3>4, <3>5, <3>6, <3>7
  <2>4. \A j \in DOMAIN m \ DOMAIN a : n[j].parent = None /\ n[j].kids = {}
    BY <1>1, <1>3, <2>1 DEF AddsReply
  <2>5. Same(b, n, q, k)
    BY <1>1, <2>1, <2>2, <2>3, <2>4 DEF Same, AddsReply
  <2> QED BY <2>5 DEF b, n
<1>4. CASE t.user \notin DOMAIN a
  <2>0. t.user \notin DOMAIN m /\ t.parent \in DOMAIN a \cup {None} /\ t.parent # t.user
    BY <1>2, <1>4
  <2>1. AddsTurn(m, n, t)
    BY <2>0, AppendNew
  <2>2. AddsTurn(a, b, t)
    BY <1>2, <1>4, <2>0, AppendNew
  <2> HIDE DEF b, n
  <2>3. \A j \in DOMAIN a : /\ n[j].parent = b[j].parent /\ n[j].kids = b[j].kids
                            /\ j \notin q => n[j].text = b[j].text
                            /\ j \notin k => n[j].done = b[j].done
    <3> TAKE j \in DOMAIN a
    <3>1. j \in DOMAIN m /\ m[j].parent = a[j].parent /\ m[j].kids = a[j].kids
      BY <1>1
    <3>2. (j \notin q => m[j].text = a[j].text) /\ (j \notin k => m[j].done = a[j].done)
      BY <1>1
    <3>3. /\ n[j].parent = m[j].parent /\ n[j].done = m[j].done
          /\ b[j].parent = a[j].parent /\ b[j].done = a[j].done
      BY <2>1, <2>2, <3>1 DEF AddsTurn
    <3>4. n[j].kids = b[j].kids
      BY <2>1, <2>2, <3>1 DEF AddsTurn
    <3>5. j \notin q => n[j].text = b[j].text
      BY <2>1, <2>2, <3>1, <3>2 DEF AddsTurn
    <3>6. j \notin k => n[j].done = b[j].done
      BY <3>2, <3>3
    <3>7. n[j].parent = b[j].parent
      BY <3>1, <3>3
    <3> QED BY <3>4, <3>5, <3>6, <3>7
  <2>4. \A j \in DOMAIN m \ DOMAIN a : n[j].parent = None /\ n[j].kids = {}
    <3> TAKE j \in DOMAIN m \ DOMAIN a
    <3>1. m[j].parent = None /\ m[j].kids = {} /\ j # t.parent
      BY <1>1, <1>2, <2>0
    <3> QED BY <2>1, <3>1 DEF AddsTurn
  <2>5. Same(b, n, q, k)
    BY <1>1, <2>1, <2>2, <2>3, <2>4 DEF Same, AddsTurn
  <2> QED BY <2>5 DEF b, n
<1> QED BY <1>3, <1>4

\* The final save brings its reply to the same in both, whatever was written to
\* it before.
LEMMA SaveSame ==
    ASSUME NEW a, IsMessages(a), NEW m, IsMessages(m), NEW q, NEW k, Same(a, m, q, k),
           NEW r \in DOMAIN a, NEW text \in Texts
    PROVE  Same(SavedReply(a, r, text), SavedReply(m, r, text), q \ {r}, k \ {r})
<1>1. r \in DOMAIN m /\ a[r] \in Message /\ m[r] \in Message
  BY DEF Same, IsMessages
<1>2. /\ DOMAIN SavedReply(a, r, text) = DOMAIN a
      /\ DOMAIN SavedReply(m, r, text) = DOMAIN m
      /\ \A j \in DOMAIN a \ {r} : SavedReply(a, r, text)[j] = a[j]
      /\ \A j \in DOMAIN m \ {r} : SavedReply(m, r, text)[j] = m[j]
      /\ SavedReply(a, r, text)[r] = [a[r] EXCEPT !.text = text, !.done = TRUE]
      /\ SavedReply(m, r, text)[r] = [m[r] EXCEPT !.text = text, !.done = TRUE]
  BY <1>1 DEF SavedReply, Put, MessageOrStub
<1>3. /\ SavedReply(a, r, text)[r].parent = a[r].parent
      /\ SavedReply(a, r, text)[r].kids = a[r].kids
      /\ SavedReply(a, r, text)[r].text = text /\ SavedReply(a, r, text)[r].done
      /\ SavedReply(m, r, text)[r].parent = m[r].parent
      /\ SavedReply(m, r, text)[r].kids = m[r].kids
      /\ SavedReply(m, r, text)[r].text = text /\ SavedReply(m, r, text)[r].done
  BY <1>1, <1>2 DEF Message
<1> DEFINE b == SavedReply(a, r, text)
           n == SavedReply(m, r, text)
<1>4. /\ DOMAIN b = DOMAIN a /\ DOMAIN n = DOMAIN m
      /\ \A j \in DOMAIN a \ {r} : b[j] = a[j] /\ n[j] = m[j]
      /\ \A j \in DOMAIN m \ DOMAIN a : n[j] = m[j]
      /\ b[r].parent = n[r].parent /\ b[r].kids = n[r].kids
      /\ b[r].text = n[r].text /\ b[r].done = n[r].done
  BY <1>1, <1>2, <1>3 DEF Same
<1> HIDE DEF b, n
<1>5. Same(b, n, q \ {r}, k \ {r})
  BY <1>1, <1>4 DEF Same
<1> QED BY <1>5 DEF b, n

\* A write that moves no revision keeps every copy the same but for it.
LEMMA QuietSame ==
    ASSUME NEW a, NEW m, IsMessages(m), NEW i \in Ids, NEW n, Quieted(m, n, i), NEW q, NEW k,
           k \subseteq marked', Same(a, m, q, k)
    PROVE  Same(a, n, q \cup {i}, marked')
<1>1. PICK x \in Message :
         /\ n = Put(m, i, x)
         /\ x.parent = MessageOrStub(m, i).parent /\ x.kids = MessageOrStub(m, i).kids
         /\ x.done = MessageOrStub(m, i).done \/ i \in marked'
  BY DEF Quieted
<1>2. /\ DOMAIN n = DOMAIN m \cup {i} /\ n[i] = x
      /\ \A j \in DOMAIN m \ {i} : n[j] = m[j]
  BY <1>1 DEF Put
<1>3. /\ i \in DOMAIN m => /\ x.parent = m[i].parent /\ x.kids = m[i].kids
                           /\ x.done = m[i].done \/ i \in marked'
      /\ i \notin DOMAIN m => x.parent = None /\ x.kids = {}
  BY <1>1 DEF MessageOrStub, Stub
<1>4. /\ DOMAIN a \subseteq DOMAIN m
      /\ \A j \in DOMAIN a : /\ m[j].parent = a[j].parent /\ m[j].kids = a[j].kids
                             /\ j \notin q => m[j].text = a[j].text
                             /\ j \notin k => m[j].done = a[j].done
      /\ \A j \in DOMAIN m \ DOMAIN a : j \in q /\ m[j].parent = None /\ m[j].kids = {}
  BY DEF Same
<1>5. ASSUME NEW j \in DOMAIN a
      PROVE  /\ n[j].parent = a[j].parent /\ n[j].kids = a[j].kids
             /\ j \notin q \cup {i} => n[j].text = a[j].text
             /\ j \notin marked' => n[j].done = a[j].done
  <2>1. CASE j = i
    BY <1>2, <1>3, <1>4, <2>1
  <2>2. CASE j # i
    BY <1>2, <1>4, <2>2
  <2> QED BY <2>1, <2>2
<1>6. \A j \in DOMAIN n \ DOMAIN a : j \in q \cup {i} /\ n[j].parent = None /\ n[j].kids = {}
  BY <1>2, <1>3, <1>4
<1> QED BY <1>2, <1>4, <1>5, <1>6 DEF Same

----------------------------------------------------------------------------
(* A revision names one document.                                          *)

\* A copy that only lacks the final save that made the row's revision becomes
\* the row when the completion event brings that reply.
FollowsSave ==
    completed # None =>
        /\ completed \in DOMAIN messages /\ messages[completed].done
        /\ completed \notin quiet =>
              \A c \in Clients :
                  seen[c].upTo = revision - 1 /\ completed \in DOMAIN seen[c].messages
                     => Same(SavedReply(seen[c].messages, completed, messages[completed].text),
                             messages, quiet, marked)

\* The inductive invariant.
CopiesFollow == RevisionNamesDocument /\ FollowsSave

\* The revision moved: no copy has it.
Moved == revision' = revision + 1

LEMMA RevisionInit == Init => CopiesFollow
<1> SUFFICES ASSUME Init, NEW c \in Clients
             PROVE  /\ seen[c].upTo <= revision /\ seen[c].revision <= revision
                    /\ SameDocument(seen[c].messages, messages)
  BY DEF CopiesFollow, RevisionNamesDocument, FollowsSave, Init
<1>1. revision = 1 /\ seen[c] = Document
  BY DEF Init
<1> QED BY <1>1 DEF SameDocument, Document

\* A write that moves the revision outdates every copy at once.
LEMMA MovedKeeps ==
    ASSUME TypeOK, CopiesFollow, Moved, UNCHANGED seen, completed' = None
    PROVE  CopiesFollow'
<1>1. \A c \in Clients : seen[c].upTo \in Nat /\ seen[c].revision \in Nat
  BY DEF TypeOK, IsDocument
<1>2. \A c \in Clients : seen[c].upTo < revision' /\ seen[c].revision < revision'
  BY <1>1 DEF CopiesFollow, RevisionNamesDocument, Moved, TypeOK
<1> QED BY <1>1, <1>2 DEF CopiesFollow, RevisionNamesDocument, FollowsSave, Moved, TypeOK

\* A turn brings a new reply, so it always moves the revision, and the only copy
\* that may follow is that of its client.
LEMMA TurnKeeps ==
    ASSUME TypeOK, CopiesFollow, NEW c \in Clients, NEW t \in Turn, NEW named \in BOOLEAN,
           StoreTurn(c, t, named)
    PROVE  CopiesFollow'
<1> DEFINE a == seen[c].messages
<1>1. /\ messages' = AppendTurn(messages, t) /\ IsMessages(messages)
      /\ t.reply \notin taken /\ DOMAIN messages \subseteq taken
      /\ revision \in Nat /\ exists /\ exists' /\ completed' = None
      /\ UNCHANGED <<quiet, marked>>
  BY DEF StoreTurn, NewTurns, RegeneratedTurns, TypeOK, MayWrite
<1>2. t.reply \in DOMAIN messages' /\ t.reply \notin DOMAIN messages
  BY <1>1, AppendTurnType
<1>3. revision' = revision + 1
  BY <1>2 DEF StoreTurn, Bumped
<1>4. \A b \in Clients : /\ IsMessages(seen[b].messages)
                         /\ seen[b].upTo \in Nat /\ seen[b].upTo <= revision
                         /\ seen[b].revision \in Nat /\ seen[b].revision <= revision
  BY DEF TypeOK, IsDocument, CopiesFollow, RevisionNamesDocument
<1>5. /\ \A b \in Clients \ {c} : seen'[b] = seen[b]
      /\ seen'[c].revision = seen[c].revision
      /\ seen'[c].upTo = IF seen[c].upTo = revision THEN revision' ELSE seen[c].upTo
      /\ seen'[c].messages = AppendTurn(a, t)
  <2>1. DOMAIN seen = Clients
    BY DEF TypeOK
  <2>2. seen[c] = [revision |-> seen[c].revision, upTo |-> seen[c].upTo,
                   messages |-> seen[c].messages]
    BY DEF TypeOK, IsDocument
  <2> DEFINE d == seen[c]
             e == [revision |-> d.revision,
                   upTo |-> IF d.upTo = revision THEN revision' ELSE d.upTo,
                   messages |-> AppendTurn(d.messages, t)]
  <2>3. seen' = [seen EXCEPT ![c] = e]
    BY DEF StoreTurn
  <2>4. /\ e.revision = d.revision /\ e.messages = AppendTurn(d.messages, t)
        /\ e.upTo = IF d.upTo = revision THEN revision' ELSE d.upTo
    OBVIOUS
  <2> HIDE DEF e
  <2> QED BY <2>1, <2>3, <2>4
<1>6. ASSUME seen[c].upTo = revision
      PROVE  Same(AppendTurn(a, t), messages', quiet, marked)
  <2>1. Same(a, messages, quiet, marked)
    BY <1>1, <1>6 DEF CopiesFollow, RevisionNamesDocument, SameDocument, Same
  <2>2. \/ t.user \in DOMAIN a
        \/ t.user \notin DOMAIN messages /\ t.parent \in DOMAIN a \cup {None}
    BY <1>1 DEF StoreTurn, NewTurns, RegeneratedTurns
  <2> HIDE DEF a
  <2> QED BY <1>1, <1>2, <1>4, <2>1, <2>2, TurnSame DEF a
<1>7. ASSUME NEW b \in Clients
      PROVE  /\ seen'[b].upTo <= revision' /\ seen'[b].revision <= revision'
             /\ seen'[b].upTo = revision' => Same(seen'[b].messages, messages', quiet, marked)
  <2>1. CASE b = c
    BY <1>1, <1>3, <1>4, <1>5, <1>6, <2>1
  <2>2. CASE b # c
    BY <1>1, <1>3, <1>4, <1>5, <2>2
  <2> QED BY <2>1, <2>2
<1> QED BY <1>1, <1>7 DEF CopiesFollow, RevisionNamesDocument, FollowsSave, SameDocument, Same

\* The final save outdates every copy; those that had everything before it lack
\* its reply only.
LEMMA SaveKeeps ==
    ASSUME TypeOK, CopiesFollow, NEW r \in Replies, SaveReply(r)
    PROVE  CopiesFollow'
<1>1. PICK text \in Texts : messages' = SavedReply(messages, r, text)
  BY DEF SaveReply
<1>2. /\ IsMessages(messages) /\ exists /\ revision \in Nat /\ revision' = revision + 1
      /\ completed' = r /\ quiet' = quiet \ {r} /\ marked' = marked \ {r} /\ seen' = seen
  BY DEF SaveReply, TypeOK, MayWrite, Bumped
<1>3. \A b \in Clients : /\ IsMessages(seen[b].messages)
                         /\ seen[b].upTo \in Nat /\ seen[b].upTo <= revision
                         /\ seen[b].revision \in Nat /\ seen[b].revision <= revision
  BY DEF TypeOK, IsDocument, CopiesFollow, RevisionNamesDocument
<1>4. r \in DOMAIN messages' /\ messages'[r].done /\ messages'[r].text = text
  <2>1. MessageOrStub(messages, r) \in Message
    BY <1>2, MessageOrStubType
  <2>2. /\ r \in DOMAIN messages'
        /\ messages'[r] = [MessageOrStub(messages, r) EXCEPT !.text = text, !.done = TRUE]
    BY <1>1 DEF SavedReply, Put
  <2> QED BY <2>1, <2>2 DEF Message
<1>5. ASSUME NEW c \in Clients, seen[c].upTo = revision, r \in DOMAIN seen[c].messages
      PROVE  Same(SavedReply(seen[c].messages, r, text), messages', quiet', marked')
  <2>1. Same(seen[c].messages, messages, quiet, marked)
    BY <1>2, <1>5 DEF CopiesFollow, RevisionNamesDocument, SameDocument, Same
  <2>2. /\ IsMessages(seen[c].messages) /\ IsMessages(messages)
        /\ messages' = SavedReply(messages, r, text)
        /\ quiet' = quiet \ {r} /\ marked' = marked \ {r}
    BY <1>1, <1>2, <1>3, <1>5
  <2> DEFINE a == seen[c].messages
  <2>3. Same(SavedReply(a, r, text), SavedReply(messages, r, text), quiet \ {r}, marked \ {r})
    <3> HIDE DEF a
    <3> QED BY <1>5, <2>1, <2>2, SaveSame DEF a
  <2> QED BY <2>2, <2>3
<1>6. FollowsSave'
  <2>1. seen' = seen /\ completed' = r /\ revision' = revision + 1
    BY <1>2
  <2>2. ASSUME NEW c \in Clients, seen'[c].upTo = revision' - 1,
               completed' \in DOMAIN seen'[c].messages
        PROVE  Same(SavedReply(seen'[c].messages, completed', messages'[completed'].text),
                    messages', quiet', marked')
    <3>1. seen[c].upTo = revision /\ r \in DOMAIN seen[c].messages
      BY <1>2, <1>3, <2>1, <2>2
    <3>2. Same(SavedReply(seen[c].messages, r, text), messages', quiet', marked')
      BY <1>5, <3>1
    <3> QED BY <1>4, <2>1, <3>2
  <2> QED BY <1>4, <2>1, <2>2 DEF FollowsSave
<1>7. RevisionNamesDocument'
  BY <1>2, <1>3 DEF RevisionNamesDocument
<1> QED BY <1>6, <1>7 DEF CopiesFollow

\* A write that moves no revision keeps every current copy current.
LEMMA QuietKeeps ==
    ASSUME TypeOK, CopiesFollow, NEW i \in Ids, UpsertQuietly(i) \/ MergeQuietly(i)
    PROVE  CopiesFollow'
<1>1. /\ Quieted(messages, messages', i) /\ IsMessages(messages)
      /\ quiet' = quiet \cup {i} /\ marked \subseteq marked'
      /\ UNCHANGED <<exists, revision, completed, seen>>
  BY QuietWrite DEF TypeOK
<1>2. ASSUME NEW a, Same(a, messages, quiet, marked)
      PROVE  Same(a, messages', quiet', marked')
  BY <1>1, <1>2, QuietSame
<1>3. RevisionNamesDocument'
  <2>1. ASSUME NEW c \in Clients, exists, seen[c].upTo = revision
        PROVE  Same(seen[c].messages, messages', quiet', marked')
    <3>1. Same(seen[c].messages, messages, quiet, marked)
      BY <2>1 DEF CopiesFollow, RevisionNamesDocument, SameDocument, Same
    <3> QED BY <1>2, <3>1
  <2> QED BY <1>1, <2>1 DEF CopiesFollow, RevisionNamesDocument, SameDocument, Same
<1>4. FollowsSave'
  <2> SUFFICES ASSUME completed # None
               PROVE  /\ completed \in DOMAIN messages' /\ messages'[completed].done
                      /\ completed \notin quiet' =>
                            \A c \in Clients :
                               seen[c].upTo = revision - 1 /\ completed \in DOMAIN seen[c].messages
                                  => Same(SavedReply(seen[c].messages, completed,
                                                     messages'[completed].text),
                                          messages', quiet', marked')
    BY <1>1 DEF FollowsSave
  <2>1. completed \in DOMAIN messages /\ messages[completed].done
    BY DEF CopiesFollow, FollowsSave
  <2>2. PICK x \in Message :
           /\ messages' = Put(messages, i, x)
           /\ MessageOrStub(messages, i).done => x.done
    BY <1>1 DEF Quieted
  <2>3. /\ DOMAIN messages' = DOMAIN messages \cup {i} /\ messages'[i] = x
        /\ \A j \in DOMAIN messages \ {i} : messages'[j] = messages[j]
    BY <2>2 DEF Put
  <2>4. completed \in DOMAIN messages' /\ messages'[completed].done
    BY <2>1, <2>2, <2>3 DEF MessageOrStub
  <2>5. ASSUME NEW c \in Clients, completed \notin quiet',
               seen[c].upTo = revision - 1, completed \in DOMAIN seen[c].messages
        PROVE  Same(SavedReply(seen[c].messages, completed, messages'[completed].text),
                    messages', quiet', marked')
    <3>1. messages'[completed] = messages[completed] /\ completed \notin quiet
      BY <1>1, <2>1, <2>3, <2>5
    <3>2. Same(SavedReply(seen[c].messages, completed, messages[completed].text),
               messages, quiet, marked)
      BY <2>5, <3>1 DEF CopiesFollow, FollowsSave
    <3> QED BY <1>2, <3>1, <3>2
  <2> QED BY <2>4, <2>5
<1> QED BY <1>3, <1>4 DEF CopiesFollow

\* A completion event makes a copy that has all before the final save the row.
LEMMA AdoptKeeps ==
    ASSUME TypeOK, CopiesFollow, NEW c \in Clients, AdoptCompletion(c)
    PROVE  CopiesFollow'
<1> DEFINE d == seen[c]
           a == d.messages
           x == messages[completed].text
<1>1. /\ UNCHANGED <<exists, revision, messages, completed, quiet, marked>>
      /\ completed # None /\ completed \notin quiet /\ revision \in Nat
      /\ completed \in DOMAIN messages /\ messages[completed].done
      /\ IsMessages(messages)
  BY DEF AdoptCompletion, row, history, TypeOK, CopiesFollow, FollowsSave
<1>2. \A b \in Clients : /\ IsMessages(seen[b].messages)
                         /\ seen[b].upTo \in Nat /\ seen[b].upTo <= revision
                         /\ seen[b].revision \in Nat /\ seen[b].revision <= revision
  BY DEF TypeOK, IsDocument, CopiesFollow, RevisionNamesDocument
<1>3. /\ \A b \in Clients \ {c} : seen'[b] = seen[b]
      /\ seen'[c].revision = revision
      /\ seen'[c].upTo = IF d.upTo = revision - 1 /\ Awaits(d)
                         THEN revision ELSE d.upTo
      /\ seen'[c].messages = IF Awaits(d) THEN SavedReply(a, completed, x) ELSE a
  <2>1. DOMAIN seen = Clients
    BY DEF TypeOK
  <2>2. d = [revision |-> d.revision, upTo |-> d.upTo, messages |-> d.messages]
    BY DEF TypeOK, IsDocument
  <2>3. seen' = [seen EXCEPT ![c] = Completed(d)]
    BY DEF AdoptCompletion
  <2>4. /\ Completed(d).revision = revision
        /\ Completed(d).upTo = IF d.upTo = revision - 1 /\ Awaits(d)
                               THEN revision ELSE d.upTo
        /\ Completed(d).messages = IF Awaits(d)
                                   THEN SavedReply(d.messages, completed, x) ELSE d.messages
    <3> HIDE DEF d
    <3> QED BY <2>2 DEF Completed
  <2> QED BY <2>1, <2>3, <2>4
<1>4. ASSUME seen'[c].upTo = revision, exists
      PROVE  Same(seen'[c].messages, messages, quiet, marked)
  <2>1. CASE d.upTo = revision - 1 /\ Awaits(d)
    BY <1>1, <1>3, <2>1 DEF CopiesFollow, FollowsSave, Awaits
  <2>2. CASE d.upTo = revision
    <3>1. Same(a, messages, quiet, marked)
      BY <1>4, <2>2 DEF CopiesFollow, RevisionNamesDocument, SameDocument, Same
    <3>2. CASE ~ Awaits(d)
      BY <1>3, <3>1, <3>2
    <3>3. CASE Awaits(d)
      <4>0. completed \in DOMAIN a
        BY <3>3 DEF Awaits
      <4>1. x \in Texts /\ messages[completed] \in Message
        BY <1>1 DEF IsMessages, Message
      <4>2. Same(SavedReply(a, completed, x), SavedReply(messages, completed, x),
                 quiet \ {completed}, marked \ {completed})
        BY <1>1, <1>2, <3>1, <4>0, <4>1, SaveSame
      <4>3. SavedReply(messages, completed, x) = messages
        <5>1. [messages[completed] EXCEPT !.text = x, !.done = TRUE] = messages[completed]
          BY <1>1, <4>1 DEF Message
        <5>2. DOMAIN messages \cup {completed} = DOMAIN messages
          BY <1>1
        <5>3. messages = [j \in DOMAIN messages |-> messages[j]]
          BY <1>1 DEF IsMessages
        <5> QED BY <1>1, <5>1, <5>2, <5>3 DEF SavedReply, Put, MessageOrStub
      <4> QED BY <1>3, <3>3, <4>2, <4>3 DEF Same
    <3> QED BY <3>2, <3>3
  <2> QED BY <1>2, <1>3, <1>4, <2>1, <2>2
<1>5. RevisionNamesDocument'
  <2>1. ASSUME NEW b \in Clients
        PROVE  /\ seen'[b].upTo <= revision /\ seen'[b].revision <= revision
               /\ exists /\ seen'[b].upTo = revision
                     => Same(seen'[b].messages, messages, quiet, marked)
    <3>1. CASE b = c
      BY <1>1, <1>2, <1>3, <1>4, <3>1
    <3>2. CASE b # c
      BY <1>2, <1>3, <3>2 DEF CopiesFollow, RevisionNamesDocument, SameDocument, Same
    <3> QED BY <3>1, <3>2
  <2> QED BY <1>1, <2>1 DEF RevisionNamesDocument, SameDocument, Same
<1>6. FollowsSave'
  <2>1. ASSUME NEW b \in Clients, seen'[b].upTo = revision - 1,
               completed \in DOMAIN seen'[b].messages
        PROVE  Same(SavedReply(seen'[b].messages, completed, x), messages, quiet, marked)
    <3>1. CASE b # c
      BY <1>1, <1>3, <2>1, <3>1 DEF CopiesFollow, FollowsSave
    <3>2. CASE b = c
      <4>1. ~ (d.upTo = revision - 1 /\ Awaits(d)) /\ d.upTo = revision - 1
        BY <1>1, <1>2, <1>3, <2>1, <3>2
      <4>2. seen'[b].messages = a /\ completed \in DOMAIN a
        BY <1>3, <2>1, <3>2, <4>1
      <4> QED BY <1>1, <4>1, <4>2 DEF CopiesFollow, FollowsSave
    <3> QED BY <3>1, <3>2
  <2> QED BY <1>1, <2>1 DEF FollowsSave
<1> QED BY <1>5, <1>6 DEF CopiesFollow

LEMMA RevisionNext == TypeOK /\ CopiesFollow /\ [Next]_vars => CopiesFollow'
<1> SUFFICES ASSUME TypeOK, CopiesFollow, [Next]_vars
             PROVE  CopiesFollow'
  OBVIOUS
<1> USE DEF Moved, Bumped
<1>0. revision \in Nat /\ \A c \in Clients : seen[c].upTo \in Nat /\ seen[c].revision \in Nat
  BY DEF TypeOK, IsDocument
<1>1. ASSUME NEW c \in Clients, Fetch(c) PROVE CopiesFollow'
  <2>1. /\ \A b \in Clients \ {c} : seen'[b] = seen[b]
        /\ seen'[c] = [revision |-> revision, upTo |-> revision, messages |-> messages]
    BY <1>1 DEF Fetch, TypeOK, Document
  <2>2. UNCHANGED <<exists, revision, messages, completed, quiet, marked>>
    BY <1>1 DEF Fetch, row, history
  <2>3. Same(messages, messages, quiet, marked)
    BY DEF Same
  <2>4. seen'[c].upTo = revision /\ seen'[c].revision = revision /\ seen'[c].messages = messages
    BY <2>1
  <2>5. RevisionNamesDocument'
    <3>1. ASSUME NEW b \in Clients
          PROVE  /\ seen'[b].upTo <= revision /\ seen'[b].revision <= revision
                 /\ exists /\ seen'[b].upTo = revision
                       => Same(seen'[b].messages, messages, quiet, marked)
      BY <1>0, <2>1, <2>3, <2>4 DEF CopiesFollow, RevisionNamesDocument, SameDocument, Same
    <3> QED BY <2>2, <3>1 DEF RevisionNamesDocument, SameDocument, Same
  <2>6. FollowsSave'
    <3>1. revision # revision - 1
      BY <1>0
    <3> QED BY <2>1, <2>2, <2>4, <3>1 DEF CopiesFollow, FollowsSave
  <2> QED BY <2>5, <2>6 DEF CopiesFollow
<1>2. ASSUME NEW c \in Clients, NEW t \in Turn, NEW named \in BOOLEAN, StoreTurn(c, t, named)
      PROVE  CopiesFollow'
  BY <1>2, TurnKeeps
<1>3. ASSUME NEW c \in Clients, NEW named \in BOOLEAN,
             EditMessage(c, named) \/ CopyReply(c, named) \/ DeleteMessage(c, named)
      PROVE  CopiesFollow'
  <2>1. Moved /\ UNCHANGED seen /\ completed' = None
    BY <1>3 DEF EditMessage, CopyReply, DeleteMessage, ApplyHistoryPatch
  <2> QED BY <2>1, MovedKeeps
<1>4. ASSUME NEW i \in Ids, UpsertQuietly(i) \/ MergeQuietly(i) PROVE CopiesFollow'
  BY <1>4, QuietKeeps
<1>5. ASSUME NEW r \in Replies, SaveReply(r) PROVE CopiesFollow'
  BY <1>5, SaveKeeps
<1>6. ASSUME NEW r \in Replies, SaveReplyMissing(r) PROVE CopiesFollow'
  BY <1>6 DEF SaveReplyMissing, row, history, CopiesFollow, RevisionNamesDocument, FollowsSave,
              SameDocument
<1>7. ASSUME NEW i \in Ids, SetMessageText(i) PROVE CopiesFollow'
  BY <1>7, MovedKeeps DEF SetMessageText
<1>8. CASE UpdateChatFields
  BY <1>8, MovedKeeps DEF UpdateChatFields
<1>9. CASE DeleteChat
  BY <1>9 DEF DeleteChat, CopiesFollow, RevisionNamesDocument, FollowsSave
<1>10. CASE UNCHANGED vars
  BY <1>10 DEF vars, row, history, CopiesFollow, RevisionNamesDocument, FollowsSave, SameDocument
<1>11. ASSUME NEW c \in Clients, AdoptCompletion(c) PROVE CopiesFollow'
  BY <1>11, AdoptKeeps
<1> QED BY <1>1, <1>2, <1>3, <1>4, <1>5, <1>6, <1>7, <1>8, <1>9, <1>10, <1>11
        DEF Next, ClientWrite, ReplyStep, MessageWrite, AcceptTurn, StoreRefusedTurn

LEMMA CopiesAlways == Spec => []CopiesFollow
BY RevisionInit, RevisionNext, TypeCorrect, PTL DEF Spec

\* A copy that has everything up to the row's revision, by a download, by the
\* turns its client sent or by a completion event, is the row but for the writes
\* that moved no revision: a revision number is never used for two documents.
THEOREM RevisionCorrect == Spec => []RevisionNamesDocument
<1>1. CopiesFollow => RevisionNamesDocument
  BY DEF CopiesFollow
<1> QED BY <1>1, CopiesAlways, PTL

\* A write that passes the revision check and is not blind was built from the
\* stored document.
LEMMA WriterCurrent ==
    ASSUME TypeOK, RevisionNamesDocument, NEW c \in Clients, NEW named \in BOOLEAN,
           RevisionMatches(c, named), MayWrite, ~ WritesBlind(c, named)
    PROVE  seen[c].upTo = revision /\ SameDocument(seen[c].messages, messages)
<1>1. /\ revision \in Nat /\ seen[c].upTo \in Nat /\ seen[c].revision \in Nat
      /\ seen[c].upTo <= revision
  BY DEF TypeOK, IsDocument, RevisionNamesDocument
<1>2. seen[c].upTo = revision
  BY <1>1 DEF RevisionMatches, WritesBlind
<1> QED BY <1>2 DEF RevisionNamesDocument, MayWrite

\* A client that names the revision of its copy has no write stored unless the
\* copy is the stored document, but for the writes that moved no revision: the
\* check under the row lock loses no update it can know of.
THEOREM UpdatesKept == Spec => NoLostUpdate
<1>1. TypeOK /\ RevisionNamesDocument /\ [Next]_vars
         => [\A c \in Clients :
                ~ blind' /\ ~ SameDocument(seen[c].messages, messages) => ~ ClientWrite(c)]_vars
  <2> SUFFICES ASSUME TypeOK, RevisionNamesDocument, NEW c \in Clients, ~ blind', ClientWrite(c)
               PROVE  SameDocument(seen[c].messages, messages)
    OBVIOUS
  <2>1. PICK named \in BOOLEAN :
           RevisionMatches(c, named) /\ MayWrite /\ blind' = (blind \/ WritesBlind(c, named))
    BY DEF ClientWrite, AcceptTurn, StoreRefusedTurn, StoreTurn, EditMessage, CopyReply,
           DeleteMessage, ApplyHistoryPatch
  <2> QED BY <2>1, WriterCurrent
<1> QED BY <1>1, TypeCorrect, RevisionCorrect, PTL DEF Spec, NoLostUpdate

----------------------------------------------------------------------------
(* While no blind write was stored, the messages are a forest in which     *)
(* parents and children agree, whatever is written.  Every write has one   *)
(* of three shapes: it keeps all links, it adds one leaf (a turn adds      *)
(* two), or it removes a message with its children and moves the           *)
(* grandchildren up.  The last one is only right on a forest: on a cycle   *)
(* it would delete what it moves.                                          *)
(*                                                                         *)
(* From the same copies follows what no single write may take back.  A     *)
(* finished reply stays finished because a copy that is the row shows it   *)
(* finished; and a message is deleted only from a copy that has it,        *)
(* because the children of a stored message are stored with a parent, so   *)
(* they are no stubs the copy may lack.                                    *)

Forest(m) == LinksAgree(m) /\ Acyclic(m)

----------------------------------------------------------------------------
(* The shapes of a write.                                                  *)

\* m and n have the same messages with the same links.
SameLinks(m, n) ==
    /\ DOMAIN n = DOMAIN m
    /\ \A j \in DOMAIN m : n[j].parent = m[j].parent /\ n[j].kids = m[j].kids

\* n is m with the leaf x under p, a root when p is None.
LeafUnder(m, n, x, p) ==
    /\ DOMAIN n = DOMAIN m \cup {x}
    /\ n[x].parent = p /\ n[x].kids = {}
    /\ \A j \in DOMAIN m :
          /\ n[j].parent = m[j].parent
          /\ n[j].kids = IF j = p THEN m[j].kids \cup {x} ELSE m[j].kids

LEMMA SameLinksForest ==
    ASSUME NEW m, NEW n, Forest(m), SameLinks(m, n)
    PROVE  Forest(n)
<1>1. LinksAgree(n)
  BY DEF Forest, SameLinks, LinksAgree
<1>2. Acyclic(n)
  <2> SUFFICES ASSUME NEW S \in SUBSET DOMAIN n, S # {}
               PROVE  \E i \in S : n[i].parent \notin S
    BY DEF Acyclic
  <2>1. PICK i \in S : m[i].parent \notin S
    BY DEF Forest, Acyclic, SameLinks
  <2> QED BY <2>1 DEF SameLinks
<1> QED BY <1>1, <1>2 DEF Forest

LEMMA LeafForest ==
    ASSUME NEW m, NEW n, Forest(m),
           NEW x \in Ids \ DOMAIN m, NEW p \in DOMAIN m \cup {None}, LeafUnder(m, n, x, p)
    PROVE  Forest(n)
<1>1. /\ \A j \in DOMAIN m : m[j].parent # None => m[j].parent \in DOMAIN m /\ j \in m[m[j].parent].kids
      /\ \A j \in DOMAIN m : \A k \in m[j].kids : k \in DOMAIN m /\ m[k].parent = j
  BY DEF Forest, LinksAgree
<1>2. x # None /\ x # p /\ x \notin DOMAIN m
  BY HistoryAssumption DEF Ids
<1>3. \A j \in DOMAIN m : m[j].parent # x /\ x \notin m[j].kids
  BY <1>1, <1>2
<1>4. /\ DOMAIN n = DOMAIN m \cup {x}
      /\ n[x].parent = p /\ n[x].kids = {}
      /\ \A j \in DOMAIN m : n[j].parent = m[j].parent
      /\ \A j \in DOMAIN m : n[j].kids = IF j = p THEN m[j].kids \cup {x} ELSE m[j].kids
  BY DEF LeafUnder
<1>5. LinksAgree(n)
  <2>1. ASSUME NEW j \in DOMAIN n, n[j].parent # None
        PROVE  n[j].parent \in DOMAIN n /\ j \in n[n[j].parent].kids
    <3>1. CASE j = x
      BY <1>2, <1>4, <2>1, <3>1
    <3>2. CASE j # x
      <4>1. j \in DOMAIN m /\ n[j].parent = m[j].parent
        BY <1>4, <3>2
      <4>2. n[j].parent \in DOMAIN m /\ j \in m[n[j].parent].kids
        BY <1>1, <2>1, <4>1
      <4>3. m[n[j].parent].kids \subseteq n[n[j].parent].kids
        BY <1>4, <4>2
      <4> QED BY <1>4, <4>2, <4>3
    <3> QED BY <3>1, <3>2
  <2>2. ASSUME NEW j \in DOMAIN n, NEW k \in n[j].kids
        PROVE  k \in DOMAIN n /\ n[k].parent = j
    <3>1. j \in DOMAIN m
      BY <1>4
    <3>2. CASE k = x
      <4>1. j = p
        BY <1>3, <1>4, <3>1, <3>2
      <4> QED BY <1>4, <3>2, <4>1
    <3>3. CASE k # x
      <4>1. k \in m[j].kids
        BY <1>4, <3>1, <3>3
      <4>2. k \in DOMAIN m /\ m[k].parent = j
        BY <1>1, <3>1, <4>1
      <4> QED BY <1>4, <4>2
    <3> QED BY <3>2, <3>3
  <2> QED BY <2>1, <2>2 DEF LinksAgree
<1>6. Acyclic(n)
  <2> SUFFICES ASSUME NEW S \in SUBSET DOMAIN n, S # {}
               PROVE  \E i \in S : n[i].parent \notin S
    BY DEF Acyclic
  <2>1. CASE S = {x}
    BY <1>2, <1>4, <2>1
  <2>2. CASE S # {x}
    <3>1. S \ {x} \in SUBSET DOMAIN m /\ S \ {x} # {}
      BY <1>4, <2>2
    <3>2. PICK i \in S \ {x} : m[i].parent \notin S \ {x}
      BY <3>1 DEF Forest, Acyclic
    <3> QED BY <1>3, <1>4, <3>1, <3>2
  <2> QED BY <2>1, <2>2
<1> QED BY <1>5, <1>6 DEF Forest

----------------------------------------------------------------------------
(* Deleting a message with its children.                                   *)

\* n is m without i and its children; what they had for children is under the
\* parent of i.
MovedUp(m, n, i) ==
    LET up    == m[i].parent
        gone  == {i} \cup m[i].kids
        moved == {g \in DOMAIN m : m[g].parent \in m[i].kids}
    IN  /\ DOMAIN n = DOMAIN m \ gone
        /\ \A j \in DOMAIN n :
              /\ n[j].parent = IF j \in moved THEN up ELSE m[j].parent
              /\ n[j].kids   = IF j = up THEN (m[j].kids \ {i}) \cup moved ELSE m[j].kids

\* On a forest, the parent and the grandchildren are not among the deleted.
LEMMA FamilyApart ==
    ASSUME NEW m, IsMessages(m), Forest(m), NEW i \in DOMAIN m
    PROVE  /\ i \notin m[i].kids
           /\ m[i].parent # i /\ m[i].parent \notin m[i].kids
           /\ m[m[i].parent].parent \notin m[i].kids \/ m[i].parent = None
           /\ \A g \in DOMAIN m : m[g].parent \in m[i].kids => g # i /\ g \notin m[i].kids
<1>1. \A k \in m[i].kids : k \in DOMAIN m /\ m[k].parent = i
  BY DEF Forest, LinksAgree
<1>2. m[i].parent # i
  <2>1. \E j \in {i} : m[j].parent \notin {i}
    BY DEF Forest, Acyclic
  <2> QED BY <2>1
<1>3. ASSUME NEW k \in m[i].kids PROVE m[i].parent # k
  <2>1. \E j \in {i, k} : m[j].parent \notin {i, k}
    BY <1>1 DEF Forest, Acyclic
  <2> QED BY <1>1, <2>1
<1>4. ASSUME m[i].parent # None, m[m[i].parent].parent \in m[i].kids PROVE FALSE
  <2> DEFINE up == m[i].parent
             k  == m[up].parent
  <2>1. up \in DOMAIN m /\ k \in DOMAIN m /\ m[k].parent = i
    BY <1>1, <1>4 DEF Forest, LinksAgree
  <2>2. \E j \in {i, up, k} : m[j].parent \notin {i, up, k}
    BY <2>1 DEF Forest, Acyclic
  <2> QED BY <2>1, <2>2
<1>5. i \notin m[i].kids
  BY <1>1, <1>2
<1> QED BY <1>1, <1>2, <1>3, <1>4, <1>5

LEMMA MovedUpForest ==
    ASSUME NEW m, NEW n, IsMessages(m), Forest(m), NEW i \in DOMAIN m, MovedUp(m, n, i)
    PROVE  Forest(n)
<1> DEFINE up    == m[i].parent
           gone  == {i} \cup m[i].kids
           moved == {g \in DOMAIN m : m[g].parent \in m[i].kids}
<1>1. /\ up \notin gone /\ moved \cap gone = {} /\ moved \subseteq DOMAIN m
      /\ None \notin DOMAIN m
      /\ up \in DOMAIN m => up \notin moved
  BY FamilyApart, HistoryAssumption DEF IsMessages, Ids
<1>2. /\ \A j \in DOMAIN m : m[j].parent # None => m[j].parent \in DOMAIN m /\ j \in m[m[j].parent].kids
      /\ \A j \in DOMAIN m : \A k \in m[j].kids : k \in DOMAIN m /\ m[k].parent = j
  BY DEF Forest, LinksAgree
<1>3. /\ DOMAIN n = DOMAIN m \ gone
      /\ \A j \in DOMAIN n :
            /\ n[j].parent = IF j \in moved THEN up ELSE m[j].parent
            /\ n[j].kids   = IF j = up THEN (m[j].kids \ {i}) \cup moved ELSE m[j].kids
  BY DEF MovedUp
<1>4. \A j \in DOMAIN m : j \in moved <=> m[j].parent \in m[i].kids
  OBVIOUS
<1>5. \A j : j \in gone <=> j = i \/ j \in m[i].kids
  OBVIOUS
<1>6. gone \subseteq DOMAIN m /\ up = m[i].parent
  BY <1>2
<1> HIDE DEF up, gone, moved
<1>7. LinksAgree(n)
  <2>1. ASSUME NEW j \in DOMAIN n, n[j].parent # None
        PROVE  n[j].parent \in DOMAIN n /\ j \in n[n[j].parent].kids
    <3>0. j \in DOMAIN m /\ j \notin gone
      BY <1>3
    <3>1. CASE j \in moved
      <4>1. n[j].parent = up /\ up # None
        BY <1>3, <2>1, <3>1
      <4>2. up \in DOMAIN m /\ up \in DOMAIN n
        BY <1>1, <1>2, <1>3, <1>6, <4>1
      <4>3. moved \subseteq n[up].kids
        BY <1>3, <4>2
      <4> QED BY <3>1, <4>1, <4>2, <4>3
    <3>2. CASE j \notin moved
      <4> DEFINE q == m[j].parent
      <4>1. n[j].parent = q /\ q \in DOMAIN m /\ j \in m[q].kids
        BY <1>2, <1>3, <2>1, <3>0, <3>2
      <4>2. q \notin gone
        BY <1>4, <1>5, <3>0, <3>2, <4>1
      <4>3. q \in DOMAIN n
        BY <1>3, <4>1, <4>2
      <4>4. m[q].kids \ {i} \subseteq n[q].kids
        BY <1>3, <4>3
      <4>5. j # i
        BY <1>5, <3>0
      <4> QED BY <4>1, <4>3, <4>4, <4>5
    <3> QED BY <3>1, <3>2
  <2>2. ASSUME NEW j \in DOMAIN n, NEW k \in n[j].kids
        PROVE  k \in DOMAIN n /\ n[k].parent = j
    <3>0. j \in DOMAIN m /\ j \notin gone
      BY <1>3
    <3>1. CASE k \in moved
      <4>1. k \in DOMAIN m /\ m[k].parent \in m[i].kids /\ k \notin gone
        BY <1>1, <1>4, <3>1
      <4>2. j = up
        <5>1. SUFFICES ASSUME j # up PROVE FALSE
          OBVIOUS
        <5>2. k \in m[j].kids
          BY <1>3, <2>2, <5>1
        <5> QED BY <1>2, <1>5, <3>0, <4>1, <5>2
      <4> QED BY <1>3, <3>1, <4>1, <4>2
    <3>2. CASE k \notin moved
      <4>1. k \in m[j].kids /\ (j = up => k # i)
        BY <1>3, <2>2, <3>2
      <4>2. k \in DOMAIN m /\ m[k].parent = j
        BY <1>2, <3>0, <4>1
      <4>3. k \notin gone
        BY <1>2, <1>5, <1>6, <3>0, <4>1, <4>2
      <4>4. k \in DOMAIN n
        BY <1>3, <4>2, <4>3
      <4> QED BY <1>3, <3>2, <4>2, <4>4
    <3> QED BY <3>1, <3>2
  <2> QED BY <2>1, <2>2 DEF LinksAgree
<1>8. Acyclic(n)
  <2> SUFFICES ASSUME NEW S \in SUBSET DOMAIN n, S # {}, \A j \in S : n[j].parent \in S
               PROVE  FALSE
    BY DEF Acyclic
  <2>1. CASE S \cap moved = {}
    <3>1. S \in SUBSET DOMAIN m /\ \A j \in S : m[j].parent \in S
      BY <1>3, <2>1
    <3> QED BY <3>1 DEF Forest, Acyclic
  <2>2. CASE S \cap moved # {}
    <3> DEFINE T == S \cup gone
    <3>1. up \in S
      BY <1>3, <2>2
    <3>2. T \in SUBSET DOMAIN m /\ T # {}
      BY <1>3, <1>6
    <3>3. ASSUME NEW j \in T PROVE m[j].parent \in T
      <4>1. CASE j \in gone
        BY <1>2, <1>5, <1>6, <3>1, <4>1
      <4>2. CASE j \in S
        BY <1>3, <1>4, <1>5, <4>2
      <4> QED BY <4>1, <4>2
    <3>4. \E j \in T : m[j].parent \notin T
      <4> HIDE DEF T
      <4> QED BY <3>2 DEF Forest, Acyclic
    <3> QED BY <3>3, <3>4
  <2> QED BY <2>1, <2>2
<1> QED BY <1>7, <1>8 DEF Forest

----------------------------------------------------------------------------
(* What each function of ChatHistory does to a forest.                     *)

\* A turn adds its reply, and its prompt when that is new.
LEMMA TurnForest ==
    ASSUME NEW m, IsMessages(m), Forest(m), NEW t \in Turn, t.reply \notin DOMAIN m,
           t.user \in DOMAIN m \/ t.parent \in DOMAIN m \cup {None}
    PROVE  Forest(AppendTurn(m, t))
<1> DEFINE n == AppendTurn(m, t)
<1>1. t.user \in Ids /\ t.reply \in Ids /\ t.reply # t.user
  BY HistoryAssumption DEF Turn, Ids
<1>2. \A j \in DOMAIN m : m[j] \in Message
  BY DEF IsMessages
<1>3. CASE t.user \in DOMAIN m
  <2>1. WithPrompt(m, t) = [m EXCEPT ![t.user] =
             [m[t.user] EXCEPT !.kids = m[t.user].kids \cup {t.reply},
                               !.text = IF t.text = Blank THEN m[t.user].text ELSE t.text]]
    BY <1>2, <1>3 DEF WithPrompt, Message
  <2> DEFINE w == WithPrompt(m, t)
  <2>2. /\ DOMAIN w = DOMAIN m
        /\ \A j \in DOMAIN m : w[j].parent = m[j].parent
        /\ \A j \in DOMAIN m :
              w[j].kids = IF j = t.user THEN m[j].kids \cup {t.reply} ELSE m[j].kids
    BY <1>2, <1>3, <2>1 DEF Message
  <2>3. n = Put(w, t.reply, [parent |-> t.user, kids |-> {}, text |-> Blank, done |-> t.done])
    BY <2>2 DEF AppendTurn
  <2> HIDE DEF w, n
  <2>4. LeafUnder(m, n, t.reply, t.user)
    BY <2>2, <2>3 DEF Put, LeafUnder
  <2> QED BY <1>1, <1>3, <2>4, LeafForest DEF n
<1>4. CASE t.user \notin DOMAIN m
  <2> DEFINE prompt == [parent |-> t.parent, kids |-> {}, text |-> t.text, done |-> TRUE]
             asked  == LinkChild(Put(m, t.user, prompt), t.parent, t.user)
  <2>1. t.parent \in DOMAIN m \cup {None} /\ t.parent # t.user
    BY <1>1, <1>4, HistoryAssumption DEF Ids
  <2>2. LeafUnder(m, asked, t.user, t.parent)
    BY <1>2, <1>4, <2>1 DEF LinkChild, Put, LeafUnder, Message
  <2>3. LeafUnder(asked, n, t.reply, t.user)
    <3> DEFINE w   == WithPrompt(m, t)
               put == Put(m, t.user, [parent |-> t.parent, kids |-> {t.reply},
                                      text |-> t.text, done |-> TRUE])
    <3>1. w = LinkChild(put, t.parent, t.user)
      BY <1>4 DEF WithPrompt
    <3>2. /\ DOMAIN put = DOMAIN m \cup {t.user}
          /\ put[t.user].parent = t.parent /\ put[t.user].kids = {t.reply}
          /\ \A j \in DOMAIN m : put[j] = m[j]
      BY <1>4 DEF Put
    <3> HIDE DEF put, w
    <3>3. /\ DOMAIN w = DOMAIN m \cup {t.user}
          /\ w[t.user].parent = t.parent /\ w[t.user].kids = {t.reply}
      BY <2>1, <3>1, <3>2 DEF LinkChild
    <3>4. \A j \in DOMAIN m :
             /\ w[j].parent = m[j].parent
             /\ w[j].kids = IF j = t.parent THEN m[j].kids \cup {t.user} ELSE m[j].kids
      BY <1>2, <3>1, <3>2 DEF LinkChild, Message
    <3>5. n = Put(w, t.reply, [parent |-> t.user, kids |-> {}, text |-> Blank, done |-> t.done])
      BY <1>1, <3>3 DEF AppendTurn, w
    <3>6. t.user # t.reply /\ t.reply \notin DOMAIN w
      BY <1>1, <3>3
    <3> HIDE DEF n, asked
    <3>7. /\ DOMAIN n = DOMAIN w \cup {t.reply}
          /\ n[t.reply].parent = t.user /\ n[t.reply].kids = {}
          /\ \A j \in DOMAIN w : n[j] = w[j]
      BY <3>5, <3>6 DEF Put
    <3>8. DOMAIN asked = DOMAIN w
      BY <2>2, <3>3 DEF LeafUnder
    <3>9. \A j \in DOMAIN asked :
             /\ w[j].parent = asked[j].parent
             /\ w[j].kids = IF j = t.user THEN asked[j].kids \cup {t.reply} ELSE asked[j].kids
      <4>1. w[t.user].parent = asked[t.user].parent /\ w[t.user].kids = asked[t.user].kids \cup {t.reply}
        BY <2>2, <3>3 DEF LeafUnder
      <4>2. \A j \in DOMAIN m : w[j].parent = asked[j].parent /\ w[j].kids = asked[j].kids
        BY <2>2, <3>4 DEF LeafUnder
      <4> QED BY <1>4, <3>3, <3>8, <4>1, <4>2
    <3> QED BY <3>7, <3>8, <3>9 DEF LeafUnder
  <2>4. t.user \in DOMAIN asked /\ t.reply \notin DOMAIN asked
    BY <1>1, <2>2 DEF LeafUnder
  <2>5. Forest(asked)
    <3> HIDE DEF asked
    <3> QED BY <1>1, <1>4, <2>1, <2>2, LeafForest
  <2> HIDE DEF asked, n
  <2> QED BY <1>1, <2>3, <2>4, <2>5, LeafForest DEF n
<1> QED BY <1>3, <1>4

\* A write to one message keeps all links, or adds a root without children.
LEMMA WriteForest ==
    ASSUME NEW m, IsMessages(m), Forest(m), NEW i \in Ids, NEW x \in Message,
           x.parent = MessageOrStub(m, i).parent, x.kids = MessageOrStub(m, i).kids
    PROVE  Forest(Put(m, i, x))
<1>1. CASE i \in DOMAIN m
  <2>1. SameLinks(m, Put(m, i, x))
    BY <1>1 DEF Put, SameLinks, MessageOrStub
  <2> QED BY <2>1, SameLinksForest
<1>2. CASE i \notin DOMAIN m
  <2>1. None \notin DOMAIN m
    BY HistoryAssumption DEF IsMessages, Ids
  <2> DEFINE n == Put(m, i, x)
  <2>2. LeafUnder(m, n, i, None)
    BY <1>2, <2>1 DEF Put, LeafUnder, MessageOrStub, Stub
  <2> HIDE DEF n
  <2>3. Forest(n)
    BY <1>2, <2>2, LeafForest
  <2> QED BY <2>3 DEF n
<1> QED BY <1>1, <1>2

\* Copy a has the tree of m, but for roots without children.
SameTree(a, m) ==
    /\ DOMAIN a \subseteq DOMAIN m
    /\ \A j \in DOMAIN a : m[j].parent = a[j].parent /\ m[j].kids = a[j].kids
    /\ \A j \in DOMAIN m \ DOMAIN a : m[j].parent = None /\ m[j].kids = {}

\* An edited or rated message keeps its links.
LEMMA EditForest ==
    ASSUME NEW m, IsMessages(m), Forest(m), NEW a, IsMessages(a), SameTree(a, m),
           NEW i \in DOMAIN a, NEW text \in Texts
    PROVE  Forest(HistoryPatch(m, EditUpsert(a, i, text), {}))
<1> DEFINE n == HistoryPatch(m, EditUpsert(a, i, text), {})
<1>1. /\ i \in DOMAIN m /\ m[i].parent = a[i].parent /\ m[i].kids = a[i].kids
      /\ a[i] \in Message /\ \A j \in DOMAIN m : m[j] \in Message
  BY DEF SameTree, IsMessages
<1>2. DOMAIN n = DOMAIN m
  BY <1>1 DEF HistoryPatch, Prune, EditUpsert
<1>3. \A j \in DOMAIN m :
         n[j] = IF j = i THEN [a[i] EXCEPT !.text = text] ELSE [m[j] EXCEPT !.kids = @ \ {}]
  BY <1>1 DEF HistoryPatch, Prune, EditUpsert
<1> HIDE DEF n
<1>4. SameLinks(m, n)
  BY <1>1, <1>2, <1>3 DEF SameLinks, Message
<1> QED BY <1>4, SameLinksForest DEF n

\* A copy of a reply is a leaf beside it.
LEMMA CopyForest ==
    ASSUME NEW m, IsMessages(m), Forest(m), NEW a, IsMessages(a), SameTree(a, m),
           NEW r \in DOMAIN a, NEW fresh \in Ids \ DOMAIN m, NEW text \in Texts
    PROVE  Forest(HistoryPatch(m, CopyUpsert(a, r, fresh, text), {}))
<1> DEFINE upsert == CopyUpsert(a, r, fresh, text)
           n      == HistoryPatch(m, upsert, {})
           p      == a[r].parent
<1>1. /\ r \in DOMAIN m /\ m[r].parent = p
      /\ \A j \in DOMAIN a : j \in DOMAIN m /\ m[j].parent = a[j].parent /\ m[j].kids = a[j].kids
      /\ \A j \in DOMAIN a : a[j] \in Message
      /\ \A j \in DOMAIN m : m[j] \in Message
  BY DEF SameTree, IsMessages
<1>2. p # None => p \in DOMAIN m /\ r \in m[p].kids
  BY <1>1 DEF Forest, LinksAgree
<1>3. p # None => p \in DOMAIN a
  BY <1>2 DEF SameTree
<1>4. None \notin DOMAIN m /\ None \notin DOMAIN a /\ fresh # None /\ fresh # p
      /\ fresh \notin DOMAIN a
  BY <1>1, <1>2, HistoryAssumption DEF IsMessages, Ids
<1>5. DOMAIN upsert = {fresh} \cup ({p} \cap DOMAIN a)
  BY DEF CopyUpsert
<1> DEFINE x      == [a[r] EXCEPT !.kids = {}, !.text = text]
           copied == Put(a, fresh, x)
           linked == LinkChild(copied, p, fresh)
<1>5a. upsert = [j \in {fresh} \cup ({p} \cap DOMAIN a) |-> linked[j]]
  BY DEF CopyUpsert
<1>5b. x.parent = p /\ x.kids = {}
  BY <1>1 DEF Message
<1> HIDE DEF x
<1>5c. /\ DOMAIN copied = DOMAIN a \cup {fresh} /\ copied[fresh] = x
       /\ \A j \in DOMAIN a : copied[j] = a[j]
  BY <1>4 DEF Put
<1> HIDE DEF copied
<1>5d. linked[fresh] = x
  BY <1>4, <1>5c DEF LinkChild
<1>5e. p \in DOMAIN a => linked[p] = [a[p] EXCEPT !.kids = @ \cup {fresh}]
  BY <1>5c DEF LinkChild
<1> HIDE DEF linked
<1>6. upsert[fresh].parent = p /\ upsert[fresh].kids = {}
  BY <1>5a, <1>5b, <1>5d
<1>7. p # None => upsert[p].parent = m[p].parent /\ upsert[p].kids = m[p].kids \cup {fresh}
  <2> SUFFICES ASSUME p # None
               PROVE  upsert[p].parent = m[p].parent /\ upsert[p].kids = m[p].kids \cup {fresh}
    OBVIOUS
  <2>1. p \in DOMAIN a
    BY <1>3
  <2>2. upsert[p] = linked[p] /\ a[p] \in Message
    BY <1>1, <1>5a, <2>1
  <2> QED BY <1>1, <1>5e, <2>1, <2>2 DEF Message
<1> HIDE DEF upsert, p
<1>8. DOMAIN n = DOMAIN m \cup {fresh}
  BY <1>1, <1>5 DEF HistoryPatch, Prune
<1>9. \A j \in DOMAIN n :
         n[j] = IF j \in DOMAIN upsert THEN upsert[j] ELSE [m[j] EXCEPT !.kids = @ \ {}]
  BY <1>1, <1>5 DEF HistoryPatch, Prune
<1> HIDE DEF n
<1>10. n[fresh].parent = p /\ n[fresh].kids = {}
  BY <1>5, <1>6, <1>8, <1>9
<1>11. ASSUME NEW j \in DOMAIN m
       PROVE  n[j].parent = m[j].parent /\ n[j].kids = IF j = p THEN m[j].kids \cup {fresh} ELSE m[j].kids
  <2>1. CASE j = p
    <3>1. j \in DOMAIN upsert /\ n[j] = upsert[j] /\ p # None
      BY <1>3, <1>4, <1>5, <1>8, <1>9, <2>1
    <3> QED BY <1>7, <2>1, <3>1
  <2>2. CASE j # p
    <3>1. j # fresh
      OBVIOUS
    <3>2. j \notin DOMAIN upsert
      BY <1>5, <2>2, <3>1
    <3>3. n[j] = [m[j] EXCEPT !.kids = @ \ {}]
      BY <1>8, <1>9, <3>2
    <3> QED BY <1>1, <2>2, <3>3 DEF Message
  <2> QED BY <2>1, <2>2
<1>12. LeafUnder(m, n, fresh, p)
  BY <1>8, <1>10, <1>11 DEF LeafUnder
<1> QED BY <1>2, <1>12, LeafForest DEF n, upsert

\* A deletion built from a copy with the tree of m moves the grandchildren up.
LEMMA DeleteForest ==
    ASSUME NEW m, IsMessages(m), Forest(m), NEW a, IsMessages(a), SameTree(a, m),
           NEW i \in DOMAIN a
    PROVE  Forest(HistoryPatch(m, DeleteUpsert(a, i), DeletedWith(a, i)))
<1> DEFINE upsert == DeleteUpsert(a, i)
           gone   == DeletedWith(a, i)
           n      == HistoryPatch(m, upsert, gone)
           up     == m[i].parent
           moved  == {g \in DOMAIN m : m[g].parent \in m[i].kids}
<1>1. /\ i \in DOMAIN m
      /\ \A j \in DOMAIN a : j \in DOMAIN m /\ m[j].parent = a[j].parent /\ m[j].kids = a[j].kids
      /\ \A j \in DOMAIN m \ DOMAIN a : m[j].parent = None /\ m[j].kids = {}
      /\ \A j \in DOMAIN a : a[j] \in Message
      /\ \A j \in DOMAIN m : m[j] \in Message
  BY DEF SameTree, IsMessages
<1>2. /\ \A j \in DOMAIN m : m[j].parent # None => m[j].parent \in DOMAIN m /\ j \in m[m[j].parent].kids
      /\ \A j \in DOMAIN m : \A k \in m[j].kids : k \in DOMAIN m /\ m[k].parent = j
  BY DEF Forest, LinksAgree
<1>3. None \notin DOMAIN m /\ None \notin DOMAIN a
  BY HistoryAssumption DEF IsMessages, Ids
<1>4. /\ i \notin m[i].kids /\ up # i /\ up \notin m[i].kids
      /\ m[up].parent \notin m[i].kids \/ up = None
      /\ \A g \in DOMAIN m : m[g].parent \in m[i].kids => g # i /\ g \notin m[i].kids
  BY <1>1, FamilyApart
<1>5. a[i].parent = up /\ gone = {i} \cup m[i].kids
  BY <1>1 DEF DeletedWith
<1>6. m[i].kids \subseteq DOMAIN a
  BY <1>1, <1>2, <1>3
<1>7. Grandchildren(a, i) = moved
  <2>1. ASSUME NEW g \in Grandchildren(a, i) PROVE g \in moved
    BY <1>1, <1>2, <2>1 DEF Grandchildren
  <2>2. ASSUME NEW g \in moved PROVE g \in Grandchildren(a, i)
    BY <1>1, <1>2, <1>3, <1>6, <2>2 DEF Grandchildren
  <2> QED BY <2>1, <2>2
<1>8. moved \subseteq DOMAIN a
  BY <1>1, <1>2, <1>3
<1>9. up \in DOMAIN m => up \in DOMAIN a
  BY <1>1, <1>2, <1>3
<1>10. DOMAIN upsert = (moved \cup {up}) \cap DOMAIN a
  BY <1>5, <1>7 DEF DeleteUpsert
<1>11. \A j \in DOMAIN upsert :
          upsert[j] = IF j = up THEN [a[j] EXCEPT !.kids = (@ \ {i}) \cup moved]
                      ELSE [a[j] EXCEPT !.parent = up]
  BY <1>5, <1>7 DEF DeleteUpsert
<1>12. DOMAIN n = (DOMAIN m \ gone) \cup DOMAIN upsert
  BY DEF HistoryPatch, Prune
<1>13. \A j \in DOMAIN n :
          n[j] = IF j \in DOMAIN upsert THEN upsert[j] ELSE [m[j] EXCEPT !.kids = @ \ gone]
  BY DEF HistoryPatch, Prune
<1>14. \A g \in moved : g \in DOMAIN m /\ m[g].parent \in m[i].kids
  OBVIOUS
<1>15. \A g \in DOMAIN m : m[g].parent \in m[i].kids => g \in moved
  OBVIOUS
<1>16. up \in DOMAIN m \cup {None}
  BY <1>1, <1>2
<1> HIDE DEF upsert, gone, n, up, moved
<1>17. DOMAIN n = DOMAIN m \ gone
  <2>1. DOMAIN upsert \subseteq DOMAIN m \ gone
    BY <1>1, <1>4, <1>5, <1>10, <1>14
  <2> QED BY <1>12, <2>1
<1>18. ASSUME NEW j \in DOMAIN n
       PROVE  /\ n[j].parent = IF j \in moved THEN up ELSE m[j].parent
              /\ n[j].kids   = IF j = up THEN (m[j].kids \ {i}) \cup moved ELSE m[j].kids
  <2>1. CASE j = up
    <3>1. j \in DOMAIN a /\ j \in DOMAIN upsert /\ j \notin moved
      BY <1>3, <1>4, <1>9, <1>10, <1>14, <1>17, <2>1
    <3>2. n[j] = [a[j] EXCEPT !.kids = (@ \ {i}) \cup moved]
      BY <1>11, <1>13, <2>1, <3>1
    <3> QED BY <1>1, <2>1, <3>1, <3>2 DEF Message
  <2>2. CASE j \in moved /\ j # up
    <3>1. j \in DOMAIN a /\ j \in DOMAIN upsert
      BY <1>8, <1>10, <2>2
    <3>2. n[j] = [a[j] EXCEPT !.parent = up]
      BY <1>11, <1>13, <2>2, <3>1
    <3> QED BY <1>1, <2>2, <3>1, <3>2 DEF Message
  <2>3. CASE j \notin moved /\ j # up
    <3>1. j \in DOMAIN m /\ j \notin gone /\ j \notin DOMAIN upsert
      BY <1>10, <1>17, <2>3
    <3>2. m[j].kids \cap gone = {}
      <4>1. i \notin m[j].kids
        BY <1>2, <2>3, <3>1 DEF up
      <4>2. m[j].kids \cap m[i].kids = {}
        BY <1>1, <1>2, <1>5, <3>1
      <4> QED BY <1>5, <4>1, <4>2
    <3>3. n[j] = [m[j] EXCEPT !.kids = @ \ gone]
      BY <1>13, <3>1
    <3>4. n[j].parent = m[j].parent /\ n[j].kids = m[j].kids \ gone
      BY <1>1, <3>1, <3>3 DEF Message
    <3> QED BY <2>3, <3>2, <3>4
  <2> QED BY <2>1, <2>2, <2>3
<1>19. MovedUp(m, n, i)
  BY <1>5, <1>17, <1>18 DEF MovedUp, up, moved
<1> QED BY <1>1, <1>19, MovedUpForest DEF n, upsert, gone

----------------------------------------------------------------------------
(* Every write of ChatStore.                                               *)

LEMMA ForestInit == Init => Forest(messages)
<1> SUFFICES ASSUME Init PROVE Forest(messages)
  OBVIOUS
<1>1. PICK u \in Prompts, text \in Texts \ {Blank} :
         messages = [i \in {u} |-> [parent |-> None, kids |-> {}, text |-> text, done |-> TRUE]]
  BY DEF Init
<1>2. DOMAIN messages = {u} /\ messages[u].parent = None /\ messages[u].kids = {}
  BY <1>1
<1>3. u # None
  BY HistoryAssumption
<1> QED BY <1>2, <1>3 DEF Forest, LinksAgree, Acyclic

\* A client's write that is not blind is built from a copy with the stored tree.
LEMMA WriterSeesTree ==
    ASSUME TypeOK, RevisionNamesDocument, NEW c \in Clients, NEW named \in BOOLEAN,
           RevisionMatches(c, named), MayWrite, ~ WritesBlind(c, named)
    PROVE  IsMessages(seen[c].messages) /\ SameTree(seen[c].messages, messages)
<1>1. SameDocument(seen[c].messages, messages)
  BY WriterCurrent
<1> QED BY <1>1 DEF TypeOK, IsDocument, SameDocument, SameTree

\* The inductive invariant.
StoredForest == ~ blind => Forest(messages)

LEMMA ForestNext ==
    TypeOK /\ RevisionNamesDocument /\ StoredForest /\ [Next]_vars => StoredForest'
<1> SUFFICES ASSUME TypeOK, RevisionNamesDocument, StoredForest, [Next]_vars, ~ blind'
             PROVE  Forest(messages')
  BY DEF StoredForest
<1>0. IsMessages(messages) /\ DOMAIN messages \subseteq taken
  BY DEF TypeOK
<1>w. ASSUME NEW c \in Clients, NEW named \in BOOLEAN, RevisionMatches(c, named), MayWrite,
             blind' = (blind \/ WritesBlind(c, named))
      PROVE  /\ Forest(messages)
             /\ IsMessages(seen[c].messages) /\ SameTree(seen[c].messages, messages)
  BY <1>w, WriterSeesTree DEF StoredForest
<1>1. ASSUME NEW c \in Clients, NEW t \in Turn, NEW named \in BOOLEAN, StoreTurn(c, t, named)
      PROVE  Forest(messages')
  <2>1. /\ messages' = AppendTurn(messages, t) /\ ParentStored(t) /\ t.reply \notin DOMAIN messages
        /\ Forest(messages)
    BY <1>0, <1>1, <1>w DEF StoreTurn, NewTurns, RegeneratedTurns
  <2>2. t.user \in DOMAIN messages \/ t.parent \in DOMAIN messages \cup {None}
    BY <2>1 DEF ParentStored
  <2> QED BY <1>0, <2>1, <2>2, TurnForest
<1>2. ASSUME NEW c \in Clients, NEW named \in BOOLEAN, EditMessage(c, named) PROVE Forest(messages')
  <2> DEFINE copy == seen[c].messages
  <2>1. PICK i \in DOMAIN copy, text \in Texts :
           ApplyHistoryPatch(c, named, EditUpsert(copy, i, text), {})
    BY <1>2 DEF EditMessage
  <2>2. messages' = HistoryPatch(messages, EditUpsert(copy, i, text), {})
    BY <2>1 DEF ApplyHistoryPatch
  <2>3. IsMessages(copy) /\ SameTree(copy, messages) /\ Forest(messages)
    BY <2>1, <1>w DEF ApplyHistoryPatch
  <2> HIDE DEF copy
  <2> QED BY <1>0, <2>2, <2>3, EditForest
<1>3. ASSUME NEW c \in Clients, NEW named \in BOOLEAN, CopyReply(c, named) PROVE Forest(messages')
  <2> DEFINE copy == seen[c].messages
  <2>1. PICK i \in DOMAIN copy \cap Replies, r \in Replies \ taken, text \in Texts :
           ApplyHistoryPatch(c, named, CopyUpsert(copy, i, r, text), {})
    BY <1>3 DEF CopyReply
  <2>2. messages' = HistoryPatch(messages, CopyUpsert(copy, i, r, text), {})
    BY <2>1 DEF ApplyHistoryPatch
  <2>3. IsMessages(copy) /\ SameTree(copy, messages) /\ Forest(messages)
    BY <2>1, <1>w DEF ApplyHistoryPatch
  <2>4. r \in Ids \ DOMAIN messages
    BY <1>0 DEF Ids
  <2> HIDE DEF copy
  <2> QED BY <1>0, <2>2, <2>3, <2>4, CopyForest
<1>4. ASSUME NEW c \in Clients, NEW named \in BOOLEAN, DeleteMessage(c, named)
      PROVE  Forest(messages')
  <2> DEFINE copy == seen[c].messages
  <2>1. PICK i \in DOMAIN copy :
           ApplyHistoryPatch(c, named, DeleteUpsert(copy, i), DeletedWith(copy, i))
    BY <1>4 DEF DeleteMessage
  <2>2. messages' = HistoryPatch(messages, DeleteUpsert(copy, i), DeletedWith(copy, i))
    BY <2>1 DEF ApplyHistoryPatch
  <2>3. IsMessages(copy) /\ SameTree(copy, messages) /\ Forest(messages)
    BY <2>1, <1>w DEF ApplyHistoryPatch
  <2> HIDE DEF copy
  <2> QED BY <1>0, <2>2, <2>3, DeleteForest
<1>5. ASSUME NEW r \in Replies, SaveReply(r) PROVE Forest(messages')
  <2>1. PICK text \in Texts : messages' = SavedReply(messages, r, text)
    BY <1>5 DEF SaveReply
  <2>0. Forest(messages)
    BY <1>5 DEF SaveReply, StoredForest
  <2> DEFINE old == MessageOrStub(messages, r)
             x   == [old EXCEPT !.text = text, !.done = TRUE]
  <2>2. old \in Message
    BY <1>0, MessageOrStubType
  <2> HIDE DEF old
  <2>3. x \in Message /\ x.parent = old.parent /\ x.kids = old.kids
    BY <2>2 DEF Message
  <2>4. messages' = Put(messages, r, x)
    BY <2>1 DEF SavedReply, old
  <2> HIDE DEF x
  <2> QED BY <1>0, <2>0, <2>3, <2>4, WriteForest DEF old, Ids
<1>6. ASSUME NEW i \in Ids, SetMessageText(i) PROVE Forest(messages')
  <2>0. PICK text \in Texts : messages' = UpsertedText(messages, i, text)
    BY <1>6 DEF SetMessageText
  <2> DEFINE old == MessageOrStub(messages, i)
             x   == [old EXCEPT !.text = text]
  <2>1. old \in Message /\ Forest(messages)
    BY <1>0, <1>6, MessageOrStubType DEF SetMessageText, StoredForest
  <2> HIDE DEF old
  <2>2. x \in Message /\ x.parent = old.parent /\ x.kids = old.kids
    BY <2>1 DEF Message
  <2>3. messages' = Put(messages, i, x)
    BY <2>0 DEF UpsertedText, old
  <2> HIDE DEF x
  <2> QED BY <1>0, <2>1, <2>2, <2>3, WriteForest DEF old
<1>7. ASSUME NEW i \in Ids, UpsertQuietly(i) \/ MergeQuietly(i) PROVE Forest(messages')
  <2>1. Quieted(messages, messages', i) /\ Forest(messages)
    BY <1>7, QuietWrite DEF StoredForest
  <2> QED BY <1>0, <2>1, WriteForest DEF Quieted
<1>9. CASE DeleteChat
  <2>1. DOMAIN messages' = {}
    BY <1>9 DEF DeleteChat, NoMessages
  <2> QED BY <2>1 DEF Forest, LinksAgree, Acyclic
<1>10. ASSUME UNCHANGED <<messages, blind>> PROVE Forest(messages')
  BY <1>10 DEF StoredForest
<1>11. ASSUME NEW c \in Clients, Fetch(c) \/ AdoptCompletion(c) PROVE Forest(messages')
  BY <1>10, <1>11 DEF Fetch, AdoptCompletion, row, history
<1>12. ASSUME NEW r \in Replies, SaveReplyMissing(r) PROVE Forest(messages')
  BY <1>10, <1>12 DEF SaveReplyMissing, row, history
<1>13. CASE UpdateChatFields \/ UNCHANGED vars
  BY <1>10, <1>13 DEF UpdateChatFields, vars, row, history
<1> QED BY <1>1, <1>2, <1>3, <1>4, <1>5, <1>6, <1>7, <1>9, <1>11, <1>12, <1>13
        DEF Next, ClientWrite, ReplyStep, MessageWrite, AcceptTurn, StoreRefusedTurn

LEMMA ForestAlways == Spec => []StoredForest
<1>1. Init => StoredForest
  BY ForestInit DEF StoredForest
<1> QED BY <1>1, ForestNext, TypeCorrect, RevisionCorrect, PTL DEF Spec

\* Parents and children of the stored messages agree after any writes, until one
\* from a copy behind the row names no revision or one taken from an event: all
\* others are built on the stored tree.
THEOREM TreeLinksCorrect == Spec => []TreeLinksAgree
<1>1. StoredForest => TreeLinksAgree
  BY DEF StoredForest, Forest, TreeLinksAgree
<1> QED BY <1>1, ForestAlways, PTL

\* Until such a write no order of writes closes a cycle, so every walk from a
\* message to its root ends.
THEOREM TreeAcyclicCorrect == Spec => []TreeAcyclic
<1>1. StoredForest => TreeAcyclic
  BY DEF StoredForest, Forest, TreeAcyclic
<1> QED BY <1>1, ForestAlways, PTL

----------------------------------------------------------------------------
(* What a tab's patches do to the done flags.                              *)

\* A patch changes no done flag but to what the copy a says.
KeepsDone(upsert, a) ==
    \A j \in DOMAIN upsert \cap DOMAIN a : upsert[j].done = a[j].done

LEMMA EditKeepsDone ==
    ASSUME NEW a, IsMessages(a), NEW i \in DOMAIN a, NEW text \in Texts
    PROVE  KeepsDone(EditUpsert(a, i, text), a) /\ DOMAIN EditUpsert(a, i, text) \subseteq DOMAIN a
BY DEF KeepsDone, EditUpsert, IsMessages, Message

LEMMA DeleteKeepsDone ==
    ASSUME NEW a, IsMessages(a), NEW i \in DOMAIN a
    PROVE  KeepsDone(DeleteUpsert(a, i), a) /\ DOMAIN DeleteUpsert(a, i) \subseteq DOMAIN a
<1>1. \A j \in DOMAIN a : a[j] \in Message
  BY DEF IsMessages
<1> QED BY <1>1 DEF KeepsDone, DeleteUpsert, Message

LEMMA CopyKeepsDone ==
    ASSUME NEW a, IsMessages(a), NEW r \in DOMAIN a,
           NEW fresh \in Ids \ DOMAIN a, NEW text \in Texts
    PROVE  /\ KeepsDone(CopyUpsert(a, r, fresh, text), a)
           /\ DOMAIN CopyUpsert(a, r, fresh, text) \subseteq DOMAIN a \cup {fresh}
<1> DEFINE x      == [a[r] EXCEPT !.kids = {}, !.text = text]
           copied == Put(a, fresh, x)
           p      == a[r].parent
           linked == LinkChild(copied, p, fresh)
           upsert == CopyUpsert(a, r, fresh, text)
<1>1. upsert = [j \in {fresh} \cup ({p} \cap DOMAIN a) |-> linked[j]]
  BY DEF CopyUpsert
<1>2. DOMAIN upsert = {fresh} \cup ({p} \cap DOMAIN a)
  BY <1>1
<1>3. ASSUME NEW j \in DOMAIN a, j = p
      PROVE  upsert[j].done = a[j].done
  <2>1. j # fresh /\ p \in DOMAIN copied /\ copied[p] = a[j] /\ a[j] \in Message
    BY <1>3 DEF Put, IsMessages
  <2> HIDE DEF copied, upsert
  <2>2. linked[j] = [a[j] EXCEPT !.kids = @ \cup {fresh}]
    BY <1>3, <2>1 DEF LinkChild
  <2>3. upsert[j] = linked[j]
    BY <1>1, <1>3
  <2> QED BY <2>1, <2>2, <2>3 DEF Message
<1> HIDE DEF upsert
<1>4. KeepsDone(upsert, a)
  BY <1>2, <1>3 DEF KeepsDone
<1> QED BY <1>2, <1>4 DEF upsert

----------------------------------------------------------------------------
(* What a step does to the done flags.                                     *)

\* Only a reply marked done by a write that moved no revision may lose its flag.
KeepsFinished ==
    \A i \in (DOMAIN messages \cap DOMAIN messages') \ marked :
        messages[i].done => messages'[i].done

\* A turn ends no message and takes no end away.
Ends(m, n) == \A j \in DOMAIN m : n[j].done = m[j].done

LEMMA TurnDone ==
    ASSUME NEW m, IsMessages(m), NEW t \in Turn, t.reply \notin DOMAIN m,
           t.user \in DOMAIN m \/ t.parent # t.user
    PROVE  Ends(m, AppendTurn(m, t))
<1> DEFINE n == AppendTurn(m, t)
<1>1. CASE t.user \in DOMAIN m
  <2>1. AddsReply(m, n, t)
    BY <1>1, AppendOld
  <2> HIDE DEF n
  <2>2. Ends(m, n)
    BY <2>1 DEF Ends, AddsReply, AddsTurn
  <2> QED BY <2>2 DEF n
<1>2. CASE t.user \notin DOMAIN m
  <2>1. AddsTurn(m, n, t)
    BY <1>2, AppendNew
  <2> HIDE DEF n
  <2>2. Ends(m, n)
    BY <2>1 DEF Ends, AddsReply, AddsTurn
  <2> QED BY <2>2 DEF n
<1> QED BY <1>1, <1>2

\* A patch built from a copy that is the row.
LEMMA PatchFinished ==
    ASSUME TypeOK, RevisionNamesDocument, NEW c \in Clients, NEW named \in BOOLEAN, ~ blind',
           NEW upsert, IsMessages(upsert), NEW del, ApplyHistoryPatch(c, named, upsert, del),
           KeepsDone(upsert, seen[c].messages),
           \A j \in DOMAIN upsert : j \in DOMAIN seen[c].messages \/ j \notin taken
    PROVE  KeepsFinished
<1> DEFINE a == seen[c].messages
<1>1. SameDocument(a, messages)
  BY WriterCurrent DEF ApplyHistoryPatch
<1>2. /\ IsMessages(messages) /\ messages' = HistoryPatch(messages, upsert, del)
      /\ DOMAIN messages \subseteq taken
  BY DEF ApplyHistoryPatch, TypeOK
<1>3. /\ DOMAIN messages' = (DOMAIN messages \ del) \cup DOMAIN upsert
      /\ \A j \in DOMAIN upsert : messages'[j] = upsert[j]
      /\ \A j \in (DOMAIN messages \ del) \ DOMAIN upsert :
            messages'[j] = [messages[j] EXCEPT !.kids = @ \ del]
  <2> DEFINE n == HistoryPatch(messages, upsert, del)
  <2>1. /\ DOMAIN n = (DOMAIN messages \ del) \cup DOMAIN upsert
        /\ \A j \in DOMAIN upsert : n[j] = upsert[j]
        /\ \A j \in (DOMAIN messages \ del) \ DOMAIN upsert :
              n[j] = [messages[j] EXCEPT !.kids = @ \ del]
    BY DEF HistoryPatch, Prune
  <2> HIDE DEF n
  <2>2. messages' = n
    BY <1>2 DEF n
  <2> QED BY <2>1, <2>2
<1>4. \A j \in DOMAIN messages : messages[j] \in Message
  BY <1>2 DEF IsMessages
<1>5. \A j \in (DOMAIN messages \ del) \ DOMAIN upsert : messages'[j].done = messages[j].done
  BY <1>3, <1>4 DEF Message
<1>6. \A j \in DOMAIN upsert \cap DOMAIN messages :
         j \in DOMAIN a /\ messages'[j].done = a[j].done
  BY <1>1, <1>2, <1>3 DEF KeepsDone
<1> QED BY <1>1, <1>3, <1>5, <1>6 DEF KeepsFinished, SameDocument

\* Every operation.
LEMMA FinishedNext ==
    TypeOK /\ RevisionNamesDocument /\ [Next]_vars /\ ~ blind' => KeepsFinished
<1> SUFFICES ASSUME TypeOK, RevisionNamesDocument, [Next]_vars, ~ blind' PROVE KeepsFinished
  OBVIOUS
<1>0. IsMessages(messages) /\ DOMAIN messages \subseteq taken
  BY DEF TypeOK
<1>1. ASSUME UNCHANGED messages PROVE KeepsFinished
  BY <1>1 DEF KeepsFinished
<1>2. ASSUME NEW c \in Clients, NEW t \in Turn, NEW named \in BOOLEAN, StoreTurn(c, t, named)
      PROVE  KeepsFinished
  <2>1. /\ messages' = AppendTurn(messages, t) /\ t.reply \notin DOMAIN messages
        /\ \/ t.user \in DOMAIN seen[c].messages
           \/ t.user \notin taken /\ t.parent \in DOMAIN seen[c].messages \cup {None}
    BY <1>0, <1>2 DEF StoreTurn, NewTurns, RegeneratedTurns
  <2>2. SameDocument(seen[c].messages, messages)
    BY <1>2, WriterCurrent DEF StoreTurn
  <2>3. CASE t.user \in DOMAIN messages
    BY <1>0, <2>1, <2>3, TurnDone DEF Ends, KeepsFinished
  <2>4. CASE t.user \notin DOMAIN messages
    <3>1. t.parent # t.user
      BY <1>0, <2>1, <2>2, <2>4, HistoryAssumption DEF SameDocument, Turn, Ids
    <3> QED BY <1>0, <2>1, <2>4, <3>1, TurnDone DEF Ends, KeepsFinished
  <2> QED BY <2>3, <2>4
<1>3. ASSUME NEW c \in Clients, NEW named \in BOOLEAN, EditMessage(c, named) PROVE KeepsFinished
  <2> DEFINE a == seen[c].messages
  <2>1. PICK i \in DOMAIN a, text \in Texts : ApplyHistoryPatch(c, named, EditUpsert(a, i, text), {})
    BY <1>3 DEF EditMessage
  <2>2. IsMessages(a)
    BY DEF TypeOK, IsDocument
  <2> HIDE DEF a
  <2> DEFINE upsert == EditUpsert(a, i, text)
  <2>3. IsMessages(upsert) /\ KeepsDone(upsert, a) /\ DOMAIN upsert \subseteq DOMAIN a
    BY <2>2, EditUpsertType, EditKeepsDone
  <2> HIDE DEF upsert
  <2> QED BY <2>1, <2>3, PatchFinished DEF a, upsert
<1>4. ASSUME NEW c \in Clients, NEW named \in BOOLEAN, CopyReply(c, named) PROVE KeepsFinished
  <2> DEFINE a == seen[c].messages
  <2>1. PICK i \in DOMAIN a \cap Replies, r \in Replies \ taken, text \in Texts :
           ApplyHistoryPatch(c, named, CopyUpsert(a, i, r, text), {})
    BY <1>4 DEF CopyReply
  <2>2. IsMessages(a) /\ DOMAIN a \subseteq taken
    <3>1. SameDocument(a, messages)
      BY <2>1, WriterCurrent DEF ApplyHistoryPatch
    <3> QED BY <1>0, <3>1 DEF TypeOK, IsDocument, SameDocument
  <2>3. i \in DOMAIN a /\ r \in Ids \ DOMAIN a /\ r \notin taken
    BY <2>1, <2>2 DEF Ids
  <2> HIDE DEF a
  <2> DEFINE upsert == CopyUpsert(a, i, r, text)
  <2>4. KeepsDone(upsert, a) /\ DOMAIN upsert \subseteq DOMAIN a \cup {r}
    BY <2>2, <2>3, CopyKeepsDone
  <2>5. IsMessages(upsert)
    BY <2>2, <2>3, CopyUpsertType
  <2> HIDE DEF upsert
  <2> QED BY <2>1, <2>3, <2>4, <2>5, PatchFinished DEF a, upsert
<1>5. ASSUME NEW c \in Clients, NEW named \in BOOLEAN, DeleteMessage(c, named) PROVE KeepsFinished
  <2> DEFINE a == seen[c].messages
  <2>1. PICK i \in DOMAIN a :
           ApplyHistoryPatch(c, named, DeleteUpsert(a, i), DeletedWith(a, i))
    BY <1>5 DEF DeleteMessage
  <2>2. IsMessages(a)
    BY DEF TypeOK, IsDocument
  <2> HIDE DEF a
  <2> DEFINE upsert == DeleteUpsert(a, i)
  <2>3. IsMessages(upsert) /\ KeepsDone(upsert, a) /\ DOMAIN upsert \subseteq DOMAIN a
    BY <2>2, DeleteUpsertType, DeleteKeepsDone
  <2> HIDE DEF upsert
  <2> QED BY <2>1, <2>3, PatchFinished DEF a, upsert
<1>6. ASSUME NEW i \in Ids, UpsertQuietly(i) \/ MergeQuietly(i) PROVE KeepsFinished
  <2>1. PICK x \in Message :
           messages' = Put(messages, i, x) /\ (MessageOrStub(messages, i).done => x.done)
    BY <1>6, QuietWrite DEF Quieted
  <2> QED BY <2>1 DEF KeepsFinished, Put, MessageOrStub
<1>7. ASSUME NEW r \in Replies, SaveReply(r) PROVE KeepsFinished
  <2>1. PICK text \in Texts : messages' = SavedReply(messages, r, text)
    BY <1>7 DEF SaveReply
  <2>2. MessageOrStub(messages, r) \in Message
    BY <1>0, MessageOrStubType
  <2>3. /\ messages'[r] = [MessageOrStub(messages, r) EXCEPT !.text = text, !.done = TRUE]
        /\ \A j \in DOMAIN messages \ {r} : messages'[j] = messages[j]
    BY <2>1 DEF SavedReply, Put
  <2> QED BY <2>2, <2>3 DEF KeepsFinished, Message
<1>8. ASSUME NEW i \in Ids, SetMessageText(i) PROVE KeepsFinished
  <2>1. PICK text \in Texts : messages' = UpsertedText(messages, i, text)
    BY <1>8 DEF SetMessageText
  <2>2. MessageOrStub(messages, i) \in Message
    BY <1>0, MessageOrStubType
  <2>3. /\ messages'[i] = [MessageOrStub(messages, i) EXCEPT !.text = text]
        /\ \A j \in DOMAIN messages \ {i} : messages'[j] = messages[j]
    BY <2>1 DEF UpsertedText, Put
  <2>4. messages'[i].done = MessageOrStub(messages, i).done
    BY <2>2, <2>3 DEF Message
  <2> QED BY <2>3, <2>4 DEF KeepsFinished, MessageOrStub
<1>9. CASE DeleteChat
  <2>1. DOMAIN messages' = {}
    BY <1>9 DEF DeleteChat, NoMessages
  <2> QED BY <2>1 DEF KeepsFinished
<1>10. ASSUME NEW c \in Clients, Fetch(c) \/ AdoptCompletion(c) PROVE KeepsFinished
  BY <1>1, <1>10 DEF Fetch, AdoptCompletion, row
<1>11. ASSUME NEW r \in Replies, SaveReplyMissing(r) PROVE KeepsFinished
  BY <1>1, <1>11 DEF SaveReplyMissing, row
<1>12. CASE UpdateChatFields \/ UNCHANGED vars
  BY <1>1, <1>12 DEF UpdateChatFields, vars, row
<1> QED BY <1>2, <1>3, <1>4, <1>5, <1>6, <1>7, <1>8, <1>9, <1>10, <1>11, <1>12
        DEF Next, ClientWrite, ReplyStep, MessageWrite, AcceptTurn, StoreRefusedTurn

\* No write turns a finished reply back into an unfinished one, but for one
\* marked done without a revision: a tab's patch is built from a copy that shows
\* every other finished reply finished, and no write of the server unmarks one.
THEOREM FinishedCorrect == Spec => FinishedStaysFinished
<1>1. TypeOK /\ RevisionNamesDocument /\ [Next]_vars
         => [~ blind' =>
                \A i \in (DOMAIN messages \cap DOMAIN messages') \ marked :
                    messages[i].done => messages'[i].done]_vars
  BY FinishedNext DEF KeepsFinished
<1> QED BY <1>1, TypeCorrect, RevisionCorrect, PTL DEF Spec, FinishedStaysFinished

----------------------------------------------------------------------------
(* Deleting.                                                               *)

\* The messages a deletion takes are all in the copy it was built from.
LEMMA DeletedSeen ==
    ASSUME TypeOK, Forest(messages), NEW a, SameDocument(a, messages), NEW i \in DOMAIN a
    PROVE  DeletedWith(a, i) \subseteq DOMAIN a
<1>1. i \in DOMAIN messages /\ messages[i].kids = a[i].kids
  BY DEF SameDocument
<1>2. i # None
  BY <1>1, HistoryAssumption DEF TypeOK, IsMessages, Ids
<1>3. ASSUME NEW k \in a[i].kids PROVE k \in DOMAIN a
  <2>1. k \in DOMAIN messages /\ messages[k].parent = i
    BY <1>1, <1>3 DEF Forest, LinksAgree
  <2> QED BY <1>2, <2>1 DEF SameDocument
<1> QED BY <1>3 DEF DeletedWith

\* Some client whose copy is the row's has message i.
SeenByCurrent(i) ==
    \E c \in Clients : seen[c].upTo = revision /\ i \in DOMAIN seen[c].messages

LEMMA DeleteNext ==
    ASSUME TypeOK, StoredForest, RevisionNamesDocument, Next, exists', ~ blind',
           NEW i \in DOMAIN messages \ DOMAIN messages'
    PROVE  SeenByCurrent(i)
<1>0. IsMessages(messages)
  BY DEF TypeOK
<1>1. ASSUME NEW c \in Clients, Fetch(c) \/ AdoptCompletion(c) PROVE FALSE
  BY <1>1 DEF Fetch, AdoptCompletion, row
<1>2. ASSUME NEW c \in Clients, NEW t \in Turn, NEW named \in BOOLEAN, StoreTurn(c, t, named)
      PROVE  FALSE
  <2>1. messages' = AppendTurn(messages, t)
    BY <1>2 DEF StoreTurn
  <2>2. DOMAIN messages \subseteq DOMAIN messages'
    BY <1>0, <2>1, AppendTurnType
  <2> QED BY <2>2
<1>3. ASSUME NEW c \in Clients, NEW named \in BOOLEAN, EditMessage(c, named) \/ CopyReply(c, named)
      PROVE  FALSE
  <2>1. PICK upsert : messages' = HistoryPatch(messages, upsert, {})
    BY <1>3 DEF EditMessage, CopyReply, ApplyHistoryPatch
  <2> QED BY <2>1 DEF HistoryPatch, Prune
<1>4. ASSUME NEW c \in Clients, NEW named \in BOOLEAN, DeleteMessage(c, named)
      PROVE  SeenByCurrent(i)
  <2> DEFINE a == seen[c].messages
  <2>1. PICK j \in DOMAIN a :
           ApplyHistoryPatch(c, named, DeleteUpsert(a, j), DeletedWith(a, j))
    BY <1>4 DEF DeleteMessage
  <2>2. seen[c].upTo = revision /\ SameDocument(a, messages) /\ Forest(messages)
    BY <2>1, WriterCurrent DEF ApplyHistoryPatch, StoredForest
  <2>4. i \in DeletedWith(a, j)
    BY <2>1 DEF ApplyHistoryPatch, HistoryPatch, Prune
  <2>5. DeletedWith(a, j) \subseteq DOMAIN a
    BY <2>2, DeletedSeen
  <2> QED BY <2>2, <2>4, <2>5 DEF SeenByCurrent
<1>5. ASSUME NEW r \in Replies, SaveReply(r) PROVE FALSE
  BY <1>5 DEF SaveReply, SavedReply, Put
<1>6. ASSUME NEW r \in Replies, SaveReplyMissing(r) PROVE FALSE
  BY <1>6 DEF SaveReplyMissing, row
<1>7. ASSUME NEW j \in Ids, UpsertQuietly(j) \/ MergeQuietly(j) \/ SetMessageText(j) PROVE FALSE
  BY <1>7 DEF UpsertQuietly, MergeQuietly, SetMessageText, SavedReply, UpsertedText, Put
<1>8. CASE UpdateChatFields
  BY <1>8 DEF UpdateChatFields
<1>9. CASE DeleteChat
  BY <1>9 DEF DeleteChat
<1> QED BY <1>1, <1>2, <1>3, <1>4, <1>5, <1>6, <1>7, <1>8, <1>9
        DEF Next, ClientWrite, ReplyStep, MessageWrite, AcceptTurn, StoreRefusedTurn

\* Nobody deletes what they never saw: until a blind write a message leaves a
\* chat that stays only by a deletion built from a copy that is the row's and
\* has the message.
THEOREM DeletionsCorrect == Spec => OnlySeenMessagesDeleted
<1>1. TypeOK /\ StoredForest /\ RevisionNamesDocument /\ [Next]_vars
         => [\A i \in DOMAIN messages \ DOMAIN messages' :
                exists' /\ ~ blind' =>
                    \E c \in Clients : /\ seen[c].upTo = revision
                                       /\ i \in DOMAIN seen[c].messages]_vars
  <2> SUFFICES ASSUME TypeOK, StoredForest, RevisionNamesDocument, Next, exists', ~ blind',
                      NEW i \in DOMAIN messages \ DOMAIN messages'
               PROVE  \E c \in Clients : /\ seen[c].upTo = revision
                                         /\ i \in DOMAIN seen[c].messages
    BY DEF vars, row
  <2> QED BY DeleteNext DEF SeenByCurrent
<1> QED BY <1>1, TypeCorrect, ForestAlways, RevisionCorrect, PTL
        DEF Spec, OnlySeenMessagesDeleted

=============================================================================
