----------------------------- MODULE ChatStore -----------------------------
(***************************************************************************)
(* The stored row of one chat and everything that writes it: the server    *)
(* side of utils/chat_turns.py, routers/chats.py and models/chats.py.      *)
(*                                                                         *)
(* Writers are of two kinds.  A client reads the document together with    *)
(* its revision, and later sends a write built from that copy, naming the  *)
(* revision as expected_revision; the server checks it under the row lock. *)
(* A client keeps its copy by adding the turns it sends, and the reply of  *)
(* a completion event, whose revision it names from then on even when it   *)
(* missed a change before that reply.  A write that names no revision is   *)
(* stored unchecked.  Reply jobs and event emitters write single messages  *)
(* without a check, some of them without moving the revision.  One locked  *)
(* write (_write_locked_chat) is one step: the row lock on Postgres, or    *)
(* the in-process lock on SQLite, is held from the read to the commit.     *)
(*                                                                         *)
(* A request is built, sent and served in one step: the time it travels is *)
(* covered by the copy it is built from, which may be as old as one likes. *)
(* A refused or lost request (conflict, lock timeout, missing parent or    *)
(* chat) writes nothing, so it is no step at all; LiveChat follows what a  *)
(* tab does with the refusal, and with the socket events it receives.      *)
(***************************************************************************)
EXTENDS ChatHistory

CONSTANTS
    Clients,       \* browser tabs and API callers that may write the chat
    MaxRevision    \* bound: writes stop when the revision reaches it

ASSUME StoreAssumption == MaxRevision \in Nat /\ MaxRevision > 0

VARIABLES
    exists,     \* the row is in the database
    revision,   \* meta["revision"] of the row
    messages,   \* chat["history"]["messages"]
    current,    \* chat["history"]["currentId"]
    running,    \* replies started whose final save has not been written
    taken,      \* every id that was ever stored; uuids are never reused
    completed,  \* the reply whose final save made the row's revision, or None
    seen,       \* each client's copy, and the revision it names in its writes
    blind,      \* history variables, read by no action: a write was stored from
                \* a copy behind the row,
    quiet,      \* the messages last written without moving the revision,
    marked      \* and the replies such a write marked done

row == <<exists, revision, messages, current>>
history == <<blind, quiet, marked>>
vars == <<row, running, taken, completed, seen, history>>

\* A copy holds all that was stored up to the revision upTo.
Document == [revision |-> revision, upTo |-> revision, messages |-> messages]

IsDocument(d) ==
    /\ d = [revision |-> d.revision, upTo |-> d.upTo, messages |-> d.messages]
    /\ d.revision \in Nat /\ d.upTo \in Nat
    /\ IsMessages(d.messages)

TypeOK ==
    /\ exists \in BOOLEAN
    /\ revision \in Nat
    /\ IsMessages(messages)
    /\ current \in Ids \cup {None}
    /\ running \subseteq taken \cap Replies
    /\ DOMAIN messages \subseteq taken /\ taken \subseteq Ids
    /\ completed \in (Replies \cap DOMAIN messages) \cup {None}
    /\ DOMAIN seen = Clients
    /\ \A c \in Clients : IsDocument(seen[c])
    /\ blind \in BOOLEAN /\ quiet \subseteq taken /\ marked \subseteq taken

----------------------------------------------------------------------------
\* insert_new_chat: the client creates the chat with its first user message;
\* the row starts at revision 1 and every client has the document.
Init ==
    \E u \in Prompts, text \in Texts \ {Blank} :
        /\ exists = TRUE
        /\ revision = 1
        /\ messages = [i \in {u} |-> [parent |-> None, kids |-> {},
                                      text |-> text, done |-> TRUE]]
        /\ current = u
        /\ running = {}
        /\ taken = {u}
        /\ completed = None
        /\ seen = [c \in Clients |-> Document]
        /\ blind = FALSE /\ quiet = {} /\ marked = {}

\* Mutation: a commit that keeps the revision.
NotBumped(r) == r

\* touch_revision: the number the next visible commit gives the row.
Bumped(r) == r + 1

MayWrite == exists /\ revision < MaxRevision

----------------------------------------------------------------------------
(* Clients and the conditional writes.                                     *)

\* GET /chats/{id}, or the answer to a patch: the document and its revision in
\* one read.
Fetch(c) ==
    /\ exists
    /\ seen' = [seen EXCEPT ![c] = Document]
    /\ UNCHANGED <<row, running, taken, completed, history>>

\* The copy shows the reply of the newest final save still running.
Awaits(d) == completed \in DOMAIN d.messages /\ ~ d.messages[completed].done

\* A copy after the completion event of that save: its revision, and its reply
\* when the copy awaits it, but nothing else the copy missed.
Completed(d) ==
    [revision |-> revision,
     upTo     |-> IF d.upTo = revision - 1 /\ Awaits(d) THEN revision ELSE d.upTo,
     messages |-> IF Awaits(d)
                  THEN SavedReply(d.messages, completed, messages[completed].text)
                  ELSE d.messages]

\* chat:completion arrives at an open tab (setRevision).  The event of an older
\* save, or one that comes after a later write, leaves the tab with what the
\* same event would have left it with in time.
AdoptCompletion(c) ==
    /\ completed # None /\ completed \notin quiet
    /\ seen[c].revision < revision
    /\ seen' = [seen EXCEPT ![c] = Completed(@)]
    /\ UNCHANGED <<row, running, taken, completed, history>>

\* Mutation: no revision check, every write is taken as current.
AnyRevision(c, named) == TRUE

\* The revision check under the lock; a write may name no revision.
RevisionMatches(c, named) == named => seen[c].revision = revision

\* A write from a copy behind the row that the check cannot refuse: it names no
\* revision, or one its client took from an event.
WritesBlind(c, named) ==
    /\ seen[c].upTo # revision
    /\ named => seen[c].upTo < seen[c].revision

\* append_turn also refuses a parent that is not stored.
ParentStored(t) == t.parent = None \/ t.parent \in DOMAIN messages

\* A new prompt under a reply of the copy, or at the root, with its reply.
NewTurns(copy) ==
    {t \in Turn : /\ t.user \notin taken /\ t.reply \notin taken
                  /\ t.parent \in (DOMAIN copy \cap Replies) \cup {None}
                  /\ t.text # Blank}

\* Regenerate: a new reply to a prompt the copy already has.
RegeneratedTurns(copy) ==
    {t \in Turn : /\ t.user \in DOMAIN copy /\ t.reply \notin taken
                  /\ t.parent = copy[t.user].parent
                  /\ t.text = copy[t.user].text}

\* append_turn bumps the revision only when it changed something.  The client
\* shows the turn it sent; its revision moves with the completion event.
StoreTurn(c, t, named) ==
    /\ RevisionMatches(c, named)
    /\ MayWrite
    /\ blind' = (blind \/ WritesBlind(c, named))
    /\ t \in NewTurns(seen[c].messages) \cup RegeneratedTurns(seen[c].messages)
    /\ ParentStored(t)
    /\ messages' = AppendTurn(messages, t)
    /\ current' = t.reply
    /\ revision' = IF <<messages', current'>> = <<messages, current>>
                   THEN revision ELSE Bumped(revision)
    /\ taken' = taken \cup {t.user, t.reply}
    /\ completed' = None
    /\ seen' = [seen EXCEPT ![c] =
                    [revision |-> @.revision,
                     upTo     |-> IF @.upTo = revision THEN revision' ELSE @.upTo,
                     messages |-> AppendTurn(@.messages, t)]]
    /\ UNCHANGED <<exists, quiet, marked>>

\* prepare_completion_messages stores the turn; its reply job starts.
AcceptTurn(c, t, named) ==
    /\ ~ t.done
    /\ StoreTurn(c, t, named)
    /\ running' = running \cup {t.reply}

\* store_refused_turn: over a usage cap the turn is stored with its reply
\* already finished, and no job starts.
StoreRefusedTurn(c, t, named) ==
    /\ t.done
    /\ StoreTurn(c, t, named)
    /\ UNCHANGED running

\* patch_chat_history / apply_history_patch.
ApplyHistoryPatch(c, named, upsert, del) ==
    /\ RevisionMatches(c, named)
    /\ MayWrite
    /\ blind' = (blind \/ WritesBlind(c, named))
    /\ messages' = HistoryPatch(messages, upsert, del)
    /\ current' = ClimbPast(messages, current, del)
    /\ revision' = Bumped(revision)
    /\ taken' = taken \cup DOMAIN upsert
    /\ completed' = None
    /\ quiet' = quiet \ (del \cup DOMAIN upsert)
    /\ marked' = marked \ (del \cup DOMAIN upsert)
    /\ UNCHANGED <<exists, running, seen>>

\* Edit or rate a message (updateChat).
EditMessage(c, named) ==
    \E i \in DOMAIN seen[c].messages, text \in Texts :
        ApplyHistoryPatch(c, named, EditUpsert(seen[c].messages, i, text), {})

\* Save an edited reply as a copy beside the original (editMessage).
CopyReply(c, named) ==
    \E i \in DOMAIN seen[c].messages \cap Replies, r \in Replies \ taken, text \in Texts :
        ApplyHistoryPatch(c, named, CopyUpsert(seen[c].messages, i, r, text), {})

\* Delete a message with its children (deleteMessage).
DeleteMessage(c, named) ==
    \E i \in DOMAIN seen[c].messages :
        ApplyHistoryPatch(c, named, DeleteUpsert(seen[c].messages, i),
                                    DeletedWith(seen[c].messages, i))

----------------------------------------------------------------------------
(* Unconditional writes.                                                   *)

\* upsert_message_to_chat_by_id_and_message_id without a bump: a replace event
\* on any message, a reply's model or error, a headless reply's text, which may
\* mark it done.  The reply may be finished or deleted; a message that is not
\* stored comes back as a stub, and the chat opens on it.
UpsertQuietly(i) ==
    /\ exists
    /\ i \in taken
    /\ \E text \in Texts, done \in BOOLEAN :
          /\ done => i \in Replies
          /\ messages' = IF done THEN SavedReply(messages, i, text)
                                 ELSE UpsertedText(messages, i, text)
          /\ marked' = IF done /\ ~ MessageOrStub(messages, i).done
                       THEN marked \cup {i} ELSE marked
    /\ current' = i
    /\ quiet' = quiet \cup {i}
    /\ UNCHANGED <<exists, revision, running, taken, completed, seen, blind>>

\* merge_message_updates, append_message_content: a batch of parts, or the text
\* of a message event, into a message that is stored, running or not.
MergeQuietly(i) ==
    /\ i \in DOMAIN messages
    /\ \E text \in Texts : messages' = UpsertedText(messages, i, text)
    /\ quiet' = quiet \cup {i}
    /\ UNCHANGED <<exists, revision, current, running, taken, completed, seen, blind, marked>>

\* save_final_reply / save_reply: the reply's text, done, and a bump.
SaveReply(r) ==
    /\ MayWrite
    /\ r \in running
    /\ \E text \in Texts : messages' = SavedReply(messages, r, text)
    /\ current' = r
    /\ revision' = Bumped(revision)
    /\ running' = running \ {r}
    /\ completed' = r
    /\ quiet' = quiet \ {r}
    /\ marked' = marked \ {r}
    /\ UNCHANGED <<exists, taken, seen, blind>>

\* The chat was deleted while the reply ran: nothing to write.
SaveReplyMissing(r) ==
    /\ ~ exists
    /\ r \in running
    /\ running' = running \ {r}
    /\ UNCHANGED <<row, taken, completed, seen, history>>

\* POST /chats/{id}/messages/{message_id}: set a message's text.
SetMessageText(i) ==
    /\ MayWrite
    /\ i \in taken
    /\ \E text \in Texts : messages' = UpsertedText(messages, i, text)
    /\ current' = i
    /\ revision' = Bumped(revision)
    /\ completed' = None
    /\ quiet' = quiet \ {i}
    /\ UNCHANGED <<exists, running, taken, seen, blind, marked>>

\* POST /chats/{id}: other top-level fields of the chat.  The title written
\* by the server changes neither the history nor the revision.
UpdateChatFields ==
    /\ MayWrite
    /\ revision' = Bumped(revision)
    /\ completed' = None
    /\ UNCHANGED <<exists, messages, current, running, taken, seen, history>>

DeleteChat ==
    /\ exists
    /\ exists' = FALSE
    /\ messages' = NoMessages
    /\ current' = None
    /\ completed' = None
    /\ quiet' = {} /\ marked' = {}
    /\ UNCHANGED <<revision, running, taken, seen, blind>>

----------------------------------------------------------------------------
ClientWrite(c) ==
    \E named \in BOOLEAN :
        \/ \E t \in Turn : AcceptTurn(c, t, named) \/ StoreRefusedTurn(c, t, named)
        \/ EditMessage(c, named)
        \/ CopyReply(c, named)
        \/ DeleteMessage(c, named)

ReplyStep(r) == SaveReply(r) \/ SaveReplyMissing(r)

MessageWrite(i) == UpsertQuietly(i) \/ MergeQuietly(i) \/ SetMessageText(i)

Next ==
    \/ \E c \in Clients : Fetch(c) \/ AdoptCompletion(c) \/ ClientWrite(c)
    \/ \E r \in Replies : ReplyStep(r)
    \/ \E i \in Ids : MessageWrite(i)
    \/ UpdateChatFields
    \/ DeleteChat

Spec == Init /\ [][Next]_vars

----------------------------------------------------------------------------
(* Properties.  What the revision check gives is stated of chats in which  *)
(* no blind write was stored: such a write overwrites what its client never *)
(* saw and can cut the tree.                                               *)

\* The stored tree is well formed: parents and children agree whatever order
\* turns, patches, reply saves and stubs are written in.
TreeLinksAgree == ~ blind => LinksAgree(messages)

\* No sequence of writes closes a cycle, so the walks from a message to its
\* root (get_message_list, the transcript sent to the model) end.
TreeAcyclic == ~ blind => Acyclic(messages)

\* The current message is stored, or there is none: a reload always has a
\* branch to open.
CurrentStored == current \in DOMAIN messages \cup {None}

\* Copy a has all of the stored messages m but what was written without moving
\* the revision: the text of quiet messages, the end of marked replies, and the
\* stubs that came back.
SameDocument(a, m) ==
    /\ DOMAIN a \subseteq DOMAIN m
    /\ \A i \in DOMAIN a :
          /\ m[i].parent = a[i].parent
          /\ m[i].kids = a[i].kids
          /\ i \notin quiet => m[i].text = a[i].text
          /\ i \notin marked => m[i].done = a[i].done
    /\ \A i \in DOMAIN m \ DOMAIN a :
          i \in quiet /\ m[i].parent = None /\ m[i].kids = {}

\* A revision number names one document, but for the quiet writes: a copy that
\* has everything up to the row's revision is the row.
RevisionNamesDocument ==
    \A c \in Clients :
        /\ seen[c].upTo <= revision /\ seen[c].revision <= revision
        /\ exists /\ seen[c].upTo = revision => SameDocument(seen[c].messages, messages)

\* No lost update but of quiet writes: a client that names the revision of its
\* copy has no write stored unless that copy is the stored document.
NoLostUpdate ==
    [][\A c \in Clients :
          ~ blind' /\ ~ SameDocument(seen[c].messages, messages) => ~ ClientWrite(c)]_vars

\* A reply saved as finished is never turned back into an unfinished one, by a
\* stale edit or by the job of another reply; only one marked done without a
\* revision may be, by a client that cannot know.
FinishedStaysFinished ==
    [][~ blind' =>
          \A i \in (DOMAIN messages \cap DOMAIN messages') \ marked :
              messages[i].done => messages'[i].done]_vars

\* A message leaves a chat only with the chat, or when a client whose copy is
\* the row's, and has the message, deletes it: nobody deletes what they never saw.
OnlySeenMessagesDeleted ==
    [][\A i \in DOMAIN messages \ DOMAIN messages' :
          exists' /\ ~ blind' =>
              \E c \in Clients : /\ seen[c].upTo = revision
                                 /\ i \in DOMAIN seen[c].messages]_vars

\* The final save of a reply writes nothing when its message is not stored any
\* more (save_final_reply: "0 when nothing was written because there is no saved
\* chat or message to write to").
FinalSaveCreatesNoMessage ==
    [][\A r \in Replies : SaveReply(r) => r \in DOMAIN messages]_vars

=============================================================================
