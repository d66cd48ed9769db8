---------------------------- MODULE MCChatStore ----------------------------
(* ChatStore on a small instance: interchangeable clients, prompts and     *)
(* replies.                                                                *)
EXTENDS ChatStore, TLC

Symmetry ==
    Permutations(Clients) \cup Permutations(Prompts) \cup Permutations(Replies)

\* Bounds on what is explored further, beside MaxRevision: a chat ends with the
\* write that reaches it, or with its first blind write, after which little is
\* claimed; and one message at a time has content no revision tells of.
Explored ==
    /\ MayWrite \/ ~ exists
    /\ ~ blind
    /\ Cardinality(quiet) <= 1
=============================================================================
