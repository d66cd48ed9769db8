------------------------------ MODULE PartLog ------------------------------
(***************************************************************************)
(* What the saving of a reply's streamed parts promises: a part is emitted *)
(* once, and is then either written into the stored reply exactly once or  *)
(* given up; never written twice, and never written after it was given up. *)
(* Usage reports are added up in the stored reply and sources are appended *)
(* to it, so a part written twice would show.  ReplyStream implements this *)
(* with a shared batch, flush threads and retried final saves.             *)
(***************************************************************************)
EXTENDS Naturals

CONSTANT Parts

VARIABLES
    out,        \* the parts emitted so far
    written,    \* how many times each part was written
    given       \* the parts given up

vars == <<out, written, given>>

Init ==
    /\ out = {}
    /\ written = [p \in Parts |-> 0]
    /\ given = {}

Open == {p \in out \ given : written[p] = 0}

Emit ==
    /\ \E p \in Parts \ out : out' = out \cup {p}
    /\ UNCHANGED <<written, given>>

\* Some open parts are written together.
Write ==
    /\ \E S \in SUBSET Open :
          written' = [p \in Parts |-> IF p \in S THEN 1 ELSE written[p]]
    /\ UNCHANGED <<out, given>>

GiveUp ==
    /\ \E S \in SUBSET Open : given' = given \cup S
    /\ UNCHANGED <<out, written>>

Next == Emit \/ Write \/ GiveUp

Spec == Init /\ [][Next]_vars

=============================================================================
