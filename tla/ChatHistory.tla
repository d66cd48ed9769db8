---------------------------- MODULE ChatHistory ----------------------------
(***************************************************************************)
(* The stored history of one chat as a value, and the pure functions that  *)
(* change it.  In the code the history is the JSON object                  *)
(* chat["history"] = {"messages": {...}, "currentId": ...}; each function  *)
(* below is the body of one `apply` closure of models/chats.py, or the     *)
(* computation a browser tab makes before it sends a history patch         *)
(* (Messages.svelte).                                                      *)
(*                                                                         *)
(* A history's messages are a function from the ids that are stored to     *)
(* message records.  Abstractions: a message's text stands for all of its  *)
(* content fields (content, files, sources, rating, error); the order of   *)
(* childrenIds is dropped, so kids is a set; a missing parentId and a null *)
(* parentId are both None.                                                 *)
(***************************************************************************)
EXTENDS Naturals, FiniteSets

CONSTANTS
    Prompts,    \* ids of user messages (client-minted uuids)
    Replies,    \* ids of assistant messages (client-minted uuids)
    Texts,      \* what a message can say
    Blank,      \* the empty text an assistant message starts with
    None        \* no message: a null parentId or currentId

Ids == Prompts \cup Replies

ASSUME HistoryAssumption ==
    /\ Prompts \cap Replies = {}
    /\ None \notin Prompts \cup Replies
    /\ Blank \in Texts

Message == [parent : Ids \cup {None}, kids : SUBSET Ids, text : Texts, done : BOOLEAN]

\* A set of messages: some ids are stored, each with a message.
IsMessages(m) == DOMAIN m \subseteq Ids /\ m \in [DOMAIN m -> Message]

NoMessages == [i \in {} |-> None]

\* messages[i] = message, adding the key when it is new.
Put(m, i, message) ==
    [j \in DOMAIN m \cup {i} |-> IF j = i THEN message ELSE m[j]]

\* Mutation: the link is written the wrong way round.
LinkChildReversed(m, p, k) ==
    IF p \in DOMAIN m THEN [m EXCEPT ![p].parent = k] ELSE m

\* Add k to the childrenIds of p; no effect when p is not stored.
LinkChild(m, p, k) ==
    IF p \in DOMAIN m THEN [m EXCEPT ![p].kids = @ \cup {k}] ELSE m

----------------------------------------------------------------------------
(* A turn: the user message and the assistant message a client mints       *)
(* together.  `done` is TRUE for a turn refused before it ran, whose reply *)
(* is stored already finished with the error.                              *)

Turn == [user : Prompts, reply : Replies, parent : Ids \cup {None},
         text : Texts, done : BOOLEAN]

\* The first half of append_turn: the user message is inserted and listed
\* under its parent, or, when it is stored already (a regenerated reply, a
\* retried turn), it takes the incoming text and lists the new reply.
WithPrompt(m, t) ==
    IF t.user \in DOMAIN m
    THEN [m EXCEPT ![t.user].kids = @ \cup {t.reply},
                   ![t.user].text = IF t.text = Blank THEN @ ELSE t.text]
    ELSE LinkChild(
            Put(m, t.user, [parent |-> t.parent, kids |-> {t.reply},
                            text |-> t.text, done |-> TRUE]),
            t.parent, t.user)

\* The second half: the assistant message, if it is new, under the user message.
AppendTurn(m, t) ==
    LET prompted == WithPrompt(m, t)
    IN  IF t.reply \in DOMAIN prompted
        THEN prompted
        ELSE Put(prompted, t.reply, [parent |-> t.user, kids |-> {},
                                     text |-> Blank, done |-> t.done])

----------------------------------------------------------------------------
(* A history patch: messages to upsert and ids to delete.                  *)

\* Remove the deleted ids, and drop them from every other message's children.
Prune(m, del) ==
    [i \in DOMAIN m \ del |-> [m[i] EXCEPT !.kids = @ \ del]]

\* An upserted message replaces the stored fields; a new one is inserted.
HistoryPatch(m, upsert, del) ==
    LET kept == Prune(m, del)
    IN  [i \in DOMAIN kept \cup DOMAIN upsert |->
            IF i \in DOMAIN upsert THEN upsert[i] ELSE kept[i]]

\* Mutation: one step up, which may be another deleted message.
ClimbOnce(m, current, del) ==
    IF current \notin del THEN current
    ELSE IF current \in DOMAIN m THEN m[current].parent ELSE None

\* When the current message is deleted: past every deleted message to the
\* nearest one that is still stored.  The walk ends at a message that is not
\* deleted, or after as many steps as there are deleted messages (a cycle).
ClimbPast(m, current, del) ==
    LET at[n \in Nat] ==
            IF n = 0 THEN current
            ELSE IF at[n - 1] \notin del THEN at[n - 1]
            ELSE IF at[n - 1] \in DOMAIN m THEN m[at[n - 1]].parent ELSE None
        cursor == at[Cardinality(del)]
    IN  IF current \notin del THEN current
        ELSE IF cursor \in DOMAIN m \ del THEN cursor ELSE None

----------------------------------------------------------------------------
(* Writes to one message.                                                  *)

\* Mutation: the empty object of a write that forgot the unfinished flag.
StubWithoutDone == [parent |-> None, kids |-> {}, text |-> Blank]

\* What a write to a message that is not stored starts from: an empty object,
\* so no parent, no children and no role.
Stub == [parent |-> None, kids |-> {}, text |-> Blank, done |-> FALSE]

MessageOrStub(m, i) == IF i \in DOMAIN m THEN m[i] ELSE Stub

\* save_reply: the reply's final text, done.
SavedReply(m, r, text) ==
    Put(m, r, [MessageOrStub(m, r) EXCEPT !.text = text, !.done = TRUE])

\* upsert_message_to_chat_by_id_and_message_id with a text.
UpsertedText(m, i, text) ==
    Put(m, i, [MessageOrStub(m, i) EXCEPT !.text = text])

----------------------------------------------------------------------------
(* The patches a browser tab builds from its copy of the history.  Each is *)
(* a pair of the messages to upsert and the ids to delete.                 *)

\* Edit or rate a message: the tab sends its whole copy of the message.
EditUpsert(m, i, text) == [j \in {i} |-> [m[i] EXCEPT !.text = text]]

\* Save an edited reply as a new reply beside the old one.
CopyUpsert(m, r, fresh, text) ==
    LET copied == Put(m, fresh, [m[r] EXCEPT !.kids = {}, !.text = text])
        linked == LinkChild(copied, m[r].parent, fresh)
    IN  [j \in {fresh} \cup ({m[r].parent} \cap DOMAIN m) |-> linked[j]]

\* Delete a message with its children; the grandchildren move up to its parent.
DeletedWith(m, i) == {i} \cup m[i].kids

Grandchildren(m, i) == UNION {m[k].kids : k \in m[i].kids \cap DOMAIN m}

\* Mutation: the grandchildren are listed under the parent but not told so.
DeleteUpsertUnmoved(m, i) ==
    LET up == m[i].parent
    IN  [j \in {up} \cap DOMAIN m |->
            [m[j] EXCEPT !.kids = (@ \ {i}) \cup Grandchildren(m, i)]]

DeleteUpsert(m, i) ==
    LET up    == m[i].parent
        moved == Grandchildren(m, i)
    IN  [j \in (moved \cup {up}) \cap DOMAIN m |->
            IF j = up THEN [m[j] EXCEPT !.kids = (@ \ {i}) \cup moved]
                      ELSE [m[j] EXCEPT !.parent = up]]

----------------------------------------------------------------------------
(* Well-formedness of a stored history.                                    *)

\* Parent and children agree: a message with a parent is listed under it, and
\* every listed child is stored and names that parent.
LinksAgree(m) ==
    /\ \A i \in DOMAIN m :
          m[i].parent # None =>
             m[i].parent \in DOMAIN m /\ i \in m[m[i].parent].kids
    /\ \A i \in DOMAIN m : \A k \in m[i].kids :
          k \in DOMAIN m /\ m[k].parent = i

\* No cycle: every set of messages has one whose parent is outside it.
Acyclic(m) ==
    \A S \in SUBSET DOMAIN m : S # {} => \E i \in S : m[i].parent \notin S

=============================================================================
