------------------------------ MODULE MCImage ------------------------------
(***************************************************************************)
(* Bounds of the TLC run of Image: two state variables, in an order that   *)
(* interleaves them with their counterparts as bddFromPrefix may create    *)
(* them, every argument, and the transition BDDs that accept at most       *)
(* MaxEdges of the 16 pairs of states, or all but as many.                 *)
(***************************************************************************)
EXTENDS Image, FiniteSetsExt

CONSTANT MaxEdges

MCPrimed == <<2, 3>>
MCUnprimed == <<1, 4>>

FewEdges == UNION {kSubset(n, Space) : n \in 0..MaxEdges}

MCInit ==
  /\ transition \in FewEdges \cup {Space \ f : f \in FewEdges}
  /\ ImageInit

MCSpec == MCInit /\ [][ImageNext]_imageVars /\ WF_imageVars(ImageNext)
=============================================================================
