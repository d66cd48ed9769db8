---------------------------- MODULE MCToolRunner ----------------------------
(* ToolRunner with two skill calls, both short or one of them long.        *)
EXTENDS ToolRunner, TLC

CONSTANTS c1, c2

BothShort == [c \in SkillCalls |-> 1]

\* Bound: while a status request is under way, or a runner is remembered without
\* its packs, at most one skill call is.
Explored ==
    status # NoRunner \/ (cache # NoRunner /\ cache.uid = bare) =>
        \E c \in SkillCalls : call[c].at \in {"idle", "answered"}

Symmetry == Permutations(SkillCalls)

OneLong == c1 :> 2 @@ c2 :> 1
=============================================================================
