-------------------------------- MODULE Edges --------------------------------
(***************************************************************************)
(* What a caller and an operator see of the router: the doors a request    *)
(* comes in by and a call goes out by, and the panel in the browsers of    *)
(* the operators.  They take their steps in any order.                     *)
(***************************************************************************)
EXTENDS Doors, Panel

EdgesVars == <<doorVars, panelVars>>

EdgesInit == (\E e \in Errands : DoorsInit(e)) /\ (\E s \in Screens : PanelInit(s))

EdgesNext ==
    \/ DoorsNext /\ UNCHANGED panelVars
    \/ PanelNext /\ UNCHANGED doorVars

EdgesSpec == EdgesInit /\ [][EdgesNext]_EdgesVars

\* What a caller and an operator see of the router is in order: its edges (server.js, http.js, jsonenforce.js,
\* diagnostics.js) and its panel (the components of src/panel).
EdgesInv == DoorsInv /\ PanelInv
=============================================================================
