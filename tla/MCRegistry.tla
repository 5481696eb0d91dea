----------------------------- MODULE MCRegistry -----------------------------
EXTENDS Registry, TLC

Symmetry == Permutations(Tasks) \cup Permutations(Keys) \cup Permutations(Names)

AllKinds == {"add", "remove", "issue", "revoke", "alias", "unalias"}

\* One handler after the other; the same with every fault; two at once.
MCScenes ==
    {[flight |-> 1, rows |-> 3, kinds |-> AllKinds, faults |-> {}],
     [flight |-> 1, rows |-> 2, kinds |-> AllKinds, faults |-> {"read", "write", "lose"}],
     [flight |-> 2, rows |-> 2, kinds |-> {"remove", "issue", "revoke"}, faults |-> {}]}

\* Two at once, and nothing fails.
Overlap == {[flight |-> 2, rows |-> 2, kinds |-> {"add", "issue", "revoke"}, faults |-> {}]}
=============================================================================
