------------------------------ MODULE LiveChat ------------------------------
(***************************************************************************)
(* One chat open in several browser tabs of its owner: the cached copy of  *)
(* each tab (src/lib/chat/cache.ts, with Chat.svelte and Messages.svelte), *)
(* the stored row, and the socket events that keep the copies up to date.  *)
(*                                                                         *)
(* A tab shows a change at once and sends it with the revision of its copy. *)
(* The server stores or refuses it as in ChatStore.  A request is sent and *)
(* served in one step; its answer arrives later.  A refused send downloads *)
(* the chat, moves the turn to the end of the branch and is sent once more; *)
(* a refused edit or deletion only downloads the chat.  Transcript events  *)
(* (chat:turn, and chat:completion with the revision of the final save)    *)
(* are sent with the commit and reach a tab in that order; the             *)
(* chat:updated pings on their way coalesce to the newest.                 *)
(*                                                                         *)
(* Every tab is subscribed (it has opened the chat), changes only messages *)
(* the server has, waits for the answer to one change before the next and  *)
(* for a refused send to be settled, and does not send a failed turn again. *)
(***************************************************************************)
EXTENDS ChatHistory, Sequences

CONSTANTS
    Tabs,
    MaxRevision,   \* bound: writes stop when the revision reaches it
    Ops            \* what the user does in each tab: "send", "edit", "delete", "open"

ASSUME LiveAssumption ==
    MaxRevision \in Nat /\ Ops \in [Tabs -> SUBSET {"send", "edit", "delete", "open"}]

VARIABLES
    row,       \* the stored revision and messages
    running,   \* replies whose final save has not been written
    used,      \* every id a tab has minted
    tab,       \* each tab's entry in its cache
    resend,    \* the refused turn that waits for the download
    reading,   \* the document on its way to the tab (inflight)
    saved,     \* the answer to an accepted edit on its way
    events,    \* transcript events on their way, oldest first
    told,      \* the newest chat:updated ping on its way, 0 for none
    deleted    \* history variable, read by no action: ids a commit removed from the row

vars == <<row, running, used, tab, resend, reading, saved, events, told, deleted>>

NoDocument == [revision |-> 0, messages |-> NoMessages]
NoTurn     == [user |-> None]

IsDocument(d) == d.revision \in Nat /\ IsMessages(d.messages)

\* An entry: its copy, the message on screen (currentId), a newer revision it
\* was told of (0 for none), the reply of its own running turn (liveTurns), and
\* the messages the server has not stored yet (pendingTurns).
IsEntry(x) ==
    /\ IsDocument(x)
    /\ x.leaf \in Ids \cup {None}
    /\ x.later \in Nat
    /\ x.live \in Replies \cup {None}
    /\ x.unsent \subseteq Ids

IsEvent(e) ==
    \/ e.kind = "turn" /\ e.turn \in Turn
    \/ e.kind = "done" /\ e.reply \in Replies /\ e.text \in Texts /\ e.revision \in Nat

TypeOK ==
    /\ IsDocument(row) /\ running \subseteq Replies /\ used \subseteq Ids
    /\ deleted \subseteq Ids
    /\ \A b \in Tabs :
          /\ IsEntry(tab[b]) /\ IsDocument(reading[b]) /\ IsDocument(saved[b])
          /\ resend[b] \in Turn \cup {NoTurn}
          /\ \A n \in DOMAIN events[b] : IsEvent(events[b][n])
          /\ told[b] \in Nat

\* A chat with one finished turn, open in every tab.
Init ==
    \E u \in Prompts, r \in Replies, text \in Texts \ {Blank} :
        LET prompt == [parent |-> None, kids |-> {r}, text |-> text, done |-> TRUE]
            reply  == [parent |-> u, kids |-> {}, text |-> text, done |-> TRUE]
        IN  /\ row = [revision |-> 1,
                      messages |-> [i \in {u, r} |-> IF i = u THEN prompt ELSE reply]]
            /\ running = {} /\ used = {u, r}
            /\ tab = [b \in Tabs |-> [revision |-> 1, messages |-> row.messages, leaf |-> r,
                                      later |-> 0, live |-> None, unsent |-> {}]]
            /\ resend = [b \in Tabs |-> NoTurn]
            /\ reading = [b \in Tabs |-> NoDocument]
            /\ saved = [b \in Tabs |-> NoDocument]
            /\ events = [b \in Tabs |-> <<>>]
            /\ told = [b \in Tabs |-> 0]
            /\ deleted = {}

----------------------------------------------------------------------------
(* The server.                                                             *)

Room == row.revision < MaxRevision

\* The row after a write, and what the commit sends to every tab.
Commit(m, sent) ==
    /\ row' = [revision |-> row.revision + 1, messages |-> m]
    /\ told' = [b \in Tabs |-> row.revision + 1]
    /\ events' = [b \in Tabs |-> events[b] \o sent]
    /\ deleted' = deleted \cup (DOMAIN row.messages \ DOMAIN m)

Idle == UNCHANGED <<row, running, told, events, deleted>>

\* A refused write; a conflict tells every tab the row's revision again.
Refuse(expected) ==
    /\ told' = IF expected = row.revision THEN told ELSE [b \in Tabs |-> row.revision]
    /\ UNCHANGED <<row, running, events, deleted>>

\* append_turn under the expected revision, and the turn's event.
Stores(t, expected) ==
    expected = row.revision /\ (t.parent = None \/ t.parent \in DOMAIN row.messages)

StoreTurn(t) ==
    /\ Commit(AppendTurn(row.messages, t), <<[kind |-> "turn", turn |-> t]>>)
    /\ running' = running \cup {t.reply}

\* The final save of a reply, and its completion event.
FinishReply(r) ==
    /\ Room /\ r \in running
    /\ \E text \in Texts \ {Blank} :
          Commit(SavedReply(row.messages, r, text),
                 <<[kind |-> "done", reply |-> r, text |-> text, revision |-> row.revision + 1]>>)
    /\ running' = running \ {r}
    /\ UNCHANGED <<used, tab, resend, reading, saved>>

----------------------------------------------------------------------------
(* The cache of a tab.                                                     *)

\* refetchChat: a download that is on its way is joined, not repeated.
Refetch(b) == reading' = [reading EXCEPT ![b] = IF @ = NoDocument THEN row ELSE @]

\* Mutant: the download replaces the copy and the messages not sent yet.
DownloadedWhole(x, d) ==
    [x EXCEPT !.revision = d.revision, !.messages = d.messages,
              !.unsent = {}, !.live = None]

\* Mutant: the running reply is taken from the download like the others.
DownloadedWithoutLive(x, d) ==
    LET own    == (x.unsent \cap DOMAIN x.messages) \ DOMAIN d.messages
        merged == [i \in DOMAIN d.messages \cup own |->
                      IF i \in own THEN x.messages[i] ELSE d.messages[i]]
    IN  [x EXCEPT
            !.revision = d.revision,
            !.messages = [i \in DOMAIN merged |->
                             [merged[i] EXCEPT !.kids = @ \cup {k \in own : merged[k].parent = i}]],
            !.unsent = own]

\* putChat merging document d: the running reply of this tab keeps its streamed
\* copy until d has it finished; unsent messages stay, listed under their parent.
Downloaded(x, d) ==
    LET ended(m)  == x.live \in DOMAIN m /\ m[x.live].done
        streaming == {x.live} \ (IF ended(x.messages) \/ ended(d.messages) THEN {x.live} ELSE {None})
        own    == (x.unsent \cap DOMAIN x.messages) \ DOMAIN d.messages
        kept   == own \cup (streaming \cap DOMAIN x.messages)
        merged == [i \in (DOMAIN d.messages \ streaming) \cup kept |->
                      IF i \in kept THEN x.messages[i] ELSE d.messages[i]]
    IN  [x EXCEPT
            !.revision = d.revision,
            !.messages = [i \in DOMAIN merged |->
                             [merged[i] EXCEPT !.kids = @ \cup {k \in own : merged[k].parent = i}]],
            !.unsent = own,
            !.live = IF streaming = {} THEN None ELSE @]

\* Mutant: a late download is merged whatever its revision.
PutAnyChat(x, d) == Downloaded(x, d)

\* A document older than the copy is ignored.
PutChat(x, d) == IF d.revision < x.revision THEN x ELSE Downloaded(x, d)

\* When its own turn ends, a tab that was told of a newer revision downloads it
\* (endLive, catchUp).
Behind(b, x) == tab[b].live # None /\ x.live = None /\ x.later > x.revision

Update(b, x) ==
    IF Behind(b, x)
    THEN tab' = [tab EXCEPT ![b] = [x EXCEPT !.later = 0]] /\ Refetch(b)
    ELSE tab' = [tab EXCEPT ![b] = x] /\ UNCHANGED reading

Parented(m, j, p) == [m EXCEPT ![j].parent = IF @ = None THEN p ELSE @]

\* adoptTurn: a turn another tab stored, or this one, without the document.
Adopted(m, t) ==
    LET prompted == IF t.user \in DOMAIN m
                    THEN [m EXCEPT ![t.user].kids = @ \cup {t.reply}]
                    ELSE Put(m, t.user, [parent |-> t.parent, kids |-> {t.reply},
                                         text |-> t.text, done |-> TRUE])
        replied  == IF t.reply \in DOMAIN m
                    THEN Parented(prompted, t.reply, t.user)
                    ELSE Put(prompted, t.reply, [parent |-> t.user, kids |-> {},
                                                 text |-> Blank, done |-> t.done])
    IN  LinkChild(replied, replied[t.user].parent, t.user)

\* extendsLeaf: reply r is on a branch below message i.
Extends(m, i, r) ==
    LET up[n \in Nat] == IF n = 0 THEN r
                         ELSE IF up[n - 1] \in DOMAIN m THEN m[up[n - 1]].parent ELSE None
    IN  i # None /\ \E n \in 1..Cardinality(DOMAIN m) : up[n] = i

\* The leaves below message i that do not run through `skip` (endOfBranch, which
\* follows the last child; the order of the children is not modelled).
EndsBelow(m, i, skip) ==
    LET next(j) == (m[j].kids \cap DOMAIN m) \ skip
        reach[n \in Nat] == IF n = 0 THEN {i}
                            ELSE reach[n - 1] \cup UNION {next(j) : j \in reach[n - 1]}
    IN  {j \in reach[Cardinality(DOMAIN m)] \cap DOMAIN m : next(j) = {}}

\* Mutant: a refused turn is sent again where it was.
EndsWhereItWas(x, t) == {t.parent}

\* moveTurnToEnd: where the unsent turn may go after the download.
Ends(x, t) ==
    IF t.user \in x.unsent /\ t.user \in DOMAIN x.messages /\ t.parent \in DOMAIN x.messages
    THEN EndsBelow(x.messages, t.parent, x.unsent)
    ELSE {t.parent}

MovedUnder(x, t, end) ==
    IF end = t.parent THEN x
    ELSE LET cut == [x.messages EXCEPT ![t.user].parent = end, ![t.parent].kids = @ \ {t.user}]
         IN  [x EXCEPT !.messages = LinkChild(cut, end, t.user)]

\* A turn that could not be sent: its reply ends with an error and stays.
Failed(x, t) ==
    [x EXCEPT !.messages = IF t.reply \in DOMAIN @ THEN [@ EXCEPT ![t.reply].done = TRUE] ELSE @,
              !.live = IF @ = t.reply THEN None ELSE @]

----------------------------------------------------------------------------
(* What the user does.                                                     *)

\* The tab shows the new turn after the message on screen.
Shown(x, t) ==
    [x EXCEPT !.messages = AppendTurn(@, t), !.leaf = t.reply, !.live = t.reply,
              !.unsent = @ \cup {t.user, t.reply}]

\* A new message, unless the reply on screen is still running.
Send(b, t) ==
    /\ "send" \in Ops[b] /\ Room /\ resend[b] = NoTurn
    /\ t.parent = tab[b].leaf
    /\ t.parent \in (DOMAIN tab[b].messages \cap Replies) \ tab[b].unsent
    /\ tab[b].messages[t.parent].done
    /\ t.user \notin used /\ t.reply \notin used /\ t.text # Blank /\ ~ t.done
    /\ used' = used \cup {t.user, t.reply}
    /\ LET x == Shown(tab[b], t)
       IN  \/ /\ Stores(t, x.revision)
              /\ StoreTurn(t)
              /\ tab' = [tab EXCEPT ![b] = x]
              /\ UNCHANGED <<resend, reading>>
           \/ /\ ~ Stores(t, x.revision)
              /\ Refuse(x.revision)
              /\ IF x.revision # row.revision   \* a conflict, not a missing parent
                 THEN /\ tab' = [tab EXCEPT ![b] = x]
                      /\ resend' = [resend EXCEPT ![b] = t]
                      /\ Refetch(b)
                 ELSE Update(b, Failed(x, t)) /\ UNCHANGED resend
    /\ UNCHANGED saved

\* A history patch built from what the tab shows: stored when its revision is
\* the row's, otherwise refused and the chat downloaded.
Patch(b, shown, upsert, del) ==
    /\ Room /\ saved[b] = NoDocument /\ resend[b] = NoTurn
    /\ (DOMAIN upsert \cup del) \cap tab[b].unsent = {}
    /\ tab' = [tab EXCEPT ![b] = shown]
    /\ IF shown.revision = row.revision
       THEN /\ Commit(HistoryPatch(row.messages, upsert, del), <<>>)
            /\ saved' = [saved EXCEPT ![b] = row']
            /\ UNCHANGED <<running, reading>>
       ELSE Refuse(shown.revision) /\ Refetch(b) /\ UNCHANGED saved
    /\ UNCHANGED <<used, resend>>

\* Edit a finished message; the tab sends its whole copy of it.
Edit(b, i, text) ==
    /\ "edit" \in Ops[b]
    /\ i \in DOMAIN tab[b].messages /\ tab[b].messages[i].done
    /\ text # tab[b].messages[i].text
    /\ LET upsert == EditUpsert(tab[b].messages, i, text)
       IN  Patch(b, [tab[b] EXCEPT !.messages[i] = upsert[i]], upsert, {})

\* The message shown after the ones below `up` changed (showMessage): the end of
\* its branch, of some root's for None.
EndsShown(m, up) ==
    LET starts == IF up = None THEN {j \in DOMAIN m : m[j].parent = None} ELSE {up} \cap DOMAIN m
    IN  IF starts = {} THEN {None} ELSE UNION {EndsBelow(m, j, {}) : j \in starts}

\* Delete a message with its children, and show the end of the parent's branch.
Delete(b, i) ==
    /\ "delete" \in Ops[b]
    /\ i \in DOMAIN tab[b].messages
    /\ LET m      == tab[b].messages
           upsert == DeleteUpsert(m, i)
           del    == DeletedWith(m, i)
           rest   == [j \in DOMAIN m \ del |-> IF j \in DOMAIN upsert THEN upsert[j] ELSE m[j]]
       IN  \E end \in EndsShown(rest, m[i].parent) :
              Patch(b, [tab[b] EXCEPT !.messages = rest, !.leaf = end], upsert, del)

\* Opening the chat again paints the copy and downloads a newer revision it was
\* told of (documentForOpen).
Open(b) ==
    /\ "open" \in Ops[b]
    /\ tab[b].live = None /\ tab[b].later > tab[b].revision
    /\ tab' = [tab EXCEPT ![b].later = 0]
    /\ Refetch(b)
    /\ UNCHANGED <<row, running, used, resend, saved, events, told, deleted>>

----------------------------------------------------------------------------
(* What arrives at a tab.                                                  *)

\* A download.  A catch-up it causes joins this very download, so it brings
\* nothing newer.  A refused turn is then moved to the end and sent again, once.
ReceiveDocument(b) ==
    /\ reading[b] # NoDocument /\ (Room \/ resend[b] = NoTurn)
    /\ LET put == PutChat(tab[b], reading[b])
           x   == IF Behind(b, put) THEN [put EXCEPT !.later = 0] ELSE put
           t   == resend[b]
       IN  IF t = NoTurn
           THEN /\ tab' = [tab EXCEPT ![b] = x]
                /\ reading' = [reading EXCEPT ![b] = NoDocument]
                /\ Idle /\ UNCHANGED resend
           ELSE \E end \in Ends(x, t) :
                LET moved == [t EXCEPT !.parent = end]
                    y     == MovedUnder(x, t, end)
                    sent  == Stores(moved, y.revision)
                IN  /\ resend' = [resend EXCEPT ![b] = NoTurn]
                    /\ tab' = [tab EXCEPT ![b] = IF sent THEN y ELSE Failed(y, t)]
                    /\ reading' = [reading EXCEPT ![b] = NoDocument]
                    /\ IF sent THEN StoreTurn(moved) ELSE Refuse(y.revision)
    /\ UNCHANGED <<used, saved>>

\* The answer to an accepted edit or deletion.
ReceiveSaved(b) ==
    /\ saved[b] # NoDocument
    /\ Update(b, PutChat(tab[b], saved[b]))
    /\ saved' = [saved EXCEPT ![b] = NoDocument]
    /\ UNCHANGED <<row, running, used, resend, events, told, deleted>>

\* chat:turn.  The screen follows it only when it extends what is shown and no
\* reply of this tab is running.
TurnArrived(x, t) ==
    LET m == Adopted(x.messages, t)
    IN  [x EXCEPT !.messages = m,
                  !.unsent = @ \ {t.user, t.reply},
                  !.leaf = IF x.live = None /\ (@ = None \/ Extends(m, @, t.reply))
                           THEN t.reply ELSE @]

\* chat:completion: the copy takes over the event's revision (setRevision), and
\* the reply's text when the copy shows the reply running.
Completed(x, e) ==
    LET waiting  == e.reply \in DOMAIN x.messages /\ ~ x.messages[e.reply].done
        finished == IF waiting THEN [x EXCEPT !.messages[e.reply].text = e.text,
                                            !.messages[e.reply].done = TRUE,
                                            !.live = IF @ = e.reply THEN None ELSE @]
                    ELSE x
    IN  IF e.revision < x.revision THEN finished
        ELSE [finished EXCEPT !.revision = e.revision,
                              !.later = IF @ <= e.revision THEN 0 ELSE @]

Deliver(b) ==
    /\ events[b] # <<>>
    /\ LET e == Head(events[b])
       IN  Update(b, IF e.kind = "turn" THEN TurnArrived(tab[b], e.turn)
                                        ELSE Completed(tab[b], e))
    /\ events' = [events EXCEPT ![b] = Tail(@)]
    /\ UNCHANGED <<row, running, used, resend, saved, told, deleted>>

\* chat:updated: only the revision is noted, for the next open.
Ping(b) ==
    /\ told[b] # 0
    /\ tab' = [tab EXCEPT ![b].later = IF told[b] > tab[b].revision /\ told[b] > @
                                       THEN told[b] ELSE @]
    /\ told' = [told EXCEPT ![b] = 0]
    /\ UNCHANGED <<row, running, used, resend, reading, saved, events, deleted>>

----------------------------------------------------------------------------
UserStep(b) ==
    \/ \E t \in Turn : Send(b, t)
    \/ \E i \in Ids, text \in Texts : Edit(b, i, text)
    \/ \E i \in Ids : Delete(b, i)
    \/ Open(b)

Next ==
    \/ \E b \in Tabs : UserStep(b) \/ ReceiveDocument(b) \/ ReceiveSaved(b) \/ Deliver(b) \/ Ping(b)
    \/ \E r \in Replies : FinishReply(r)

Spec == Init /\ [][Next]_vars

----------------------------------------------------------------------------
(* Properties.                                                             *)

\* A message the server has not stored leaves the screen of its tab only when
\* the user deletes it: no download and no event drops an unsent prompt.
UnsentStaysOnScreen ==
    [][\A b \in Tabs : \A i \in tab[b].unsent \cap DOMAIN tab[b].messages :
          i \in DOMAIN tab'[b].messages \/ (\E j \in Ids : Delete(b, j))]_vars

\* No download rewinds a copy: its revision does not fall and never passes the
\* row's, and a reply it shows finished is not shown running again, unless that
\* reply had been deleted.
NoRewind ==
    [][\A b \in Tabs :
          /\ tab[b].revision <= tab'[b].revision /\ tab'[b].revision <= row'.revision
          /\ \A i \in (DOMAIN tab[b].messages \cap DOMAIN tab'[b].messages) \ deleted' :
                tab[b].messages[i].done => tab'[b].messages[i].done]_vars

\* The reply this tab waits for stays on its screen until the user deletes it,
\* whatever a download says: its streamed text is not in the stored copy yet.
RunningReplyStays ==
    [][\A b \in Tabs :
          tab[b].live \in DOMAIN tab[b].messages
             => tab[b].live \in DOMAIN tab'[b].messages \/ (\E j \in Ids : Delete(b, j))]_vars

\* A turn refused by a conflict and sent again after a download the copy took
\* over is added after the newest message: its prompt is the only stored child
\* of the message it follows.
ResentTurnEndsTheBranch ==
    [][\A b \in Tabs :
          ReceiveDocument(b) /\ row' # row /\ tab[b].revision <= reading[b].revision
             => LET m == row'.messages
                    u == resend[b].user
                IN  m[m[u].parent].kids \cap DOMAIN m = {u}]_vars

\* A deletion that is stored removes only messages its tab showed, with the text
\* it showed: a deletion that conflicts with a change made elsewhere is refused.
DeletesRemoveWhatWasShown ==
    [][\A b \in Tabs, i \in Ids :
          Delete(b, i) /\ row' # row
             => \A j \in DOMAIN row.messages \ DOMAIN row'.messages :
                   /\ j \in DOMAIN tab[b].messages
                   /\ row.messages[j].text = tab[b].messages[j].text]_vars

=============================================================================
