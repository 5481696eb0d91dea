--------------------------- MODULE MCConfigStore ----------------------------
EXTENDS ConfigStore, TLC

CONSTANTS l1, standard, frontier

\* Apps are interchangeable: no rule tells their names apart.
Symmetry == Permutations(Names)

AnyRules == {NoRules, [n \in Names |-> standard]}
AnyPins == {NoPins, [n \in Names |-> l1]}

\* A create at a time, every step of it failing, rules saved meanwhile; sessions, resets and
\* boots; the operator and an open panel; a volume that stops taking writes.
MCScenes ==
    {[ops |-> {"make", "fail", "lock", "account", "route"}, routes |-> AnyRules, pins |-> {NoPins}],
     [ops |-> {"logout", "config", "reset", "restart", "mode", "register", "tear"}, routes |-> {NoRules}, pins |-> {NoPins}],
     [ops |-> {"pin", "remove", "force", "import", "config", "restart"}, routes |-> {NoRules}, pins |-> AnyPins],
     [ops |-> {"make", "fail", "register", "clear", "readonly", "restart"}, routes |-> {NoRules}, pins |-> {NoPins}]}

\* Sessions, resets and boots.
Sessions == {[ops |-> {"logout", "reset", "restart"}, routes |-> {NoRules}, pins |-> {NoPins}]}
=============================================================================
