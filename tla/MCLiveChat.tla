----------------------------- MODULE MCLiveChat -----------------------------
(* LiveChat on small instances: two tabs, and what the user does in each.  *)
EXTENDS LiveChat, TLC

CONSTANTS a, b

MCTabs == {a, b}

Doing(inA, inB) == [t \in MCTabs |-> IF t = a THEN inA ELSE inB]

\* Both tabs send; one of them also opens the chat again.
BothSend == Doing({"send", "open"}, {"send"})

\* One tab sends while the other edits and deletes.
OneChanges == Doing({"send", "open"}, {"edit", "delete"})

\* One tab sends and edits while the other deletes.
OneDeletes == Doing({"send", "edit"}, {"delete"})

Symmetry == Permutations(Prompts) \cup Permutations(Replies)
=============================================================================
