------------------------------- MODULE Image -------------------------------
(***************************************************************************)
(* The two functions that follow the transition BDD, one CUDD call at a    *)
(* time: EX of ctlmc.c goes backwards and translatedImage of aux.c goes    *)
(* forwards.  The other modules use sets of states and a relation instead  *)
(* of BDDs; this one says when that is right: primedNodes[i] must be the   *)
(* counterpart of unprimedNodes[i] for every i, and the argument must not  *)
(* depend on primed variables.                                             *)
(***************************************************************************)
EXTENDS Naturals, Cudd

CONSTANTS
  numNodes,       \* context.numUnprimedNodes
  primedNodes,    \* the variables of main.c's primedNodes, in order
  unprimedNodes

\* What main.c:165-181 sets up when every variable has its counterpart.
ASSUME NodesPaired ==
  /\ numNodes \in Nat
  /\ primedNodes \in [1..numNodes -> Var]
  /\ unprimedNodes \in [1..numNodes -> Var]
  /\ \A i, j \in 1..numNodes :
       /\ primedNodes[i] # unprimedNodes[j]
       /\ i # j => /\ primedNodes[i] # primedNodes[j]
                   /\ unprimedNodes[i] # unprimedNodes[j]
  /\ \A x \in Var : \E i \in 1..numNodes :
       x = primedNodes[i] \/ x = unprimedNodes[i]

VARIABLES
  transition,   \* the transition BDD
  states,       \* the argument: propStates of EX, states of translatedImage
  call,         \* the function that is running
  result,       \* preExist of EX, image of translatedImage
  turns,        \* variables abstracted so far
  at            \* "call", "loop", "done" or "exit"

args == <<transition, states, call>>
imageVars == <<transition, states, call, result, turns, at>>

-----------------------------------------------------------------------------
PrimedHalf == {primedNodes[j] : j \in 1..numNodes}
UnprimedHalf == {unprimedNodes[j] : j \in 1..numNodes}

\* The states a valuation of all variables goes from and to, each as a
\* valuation of the unprimed variables.
From(v) == v \cap UnprimedHalf
To(v) == {unprimedNodes[j] : j \in {k \in 1..numNodes : primedNodes[k] \in v}}

States == SUBSET UnprimedHalf

Relation == {<<From(v), To(v)>> : v \in transition}

\* The BDD over the unprimed variables that accepts the states of S.
BddOf(S) == {v \in Space : From(v) \in S}

-----------------------------------------------------------------------------
ImageInit ==
  /\ transition \in BDD
  /\ states \in {BddOf(S) : S \in SUBSET States}
  /\ call \in {"EX", "translatedImage"}
  /\ result = {} /\ turns = 0
  /\ at = "call"

\* EX conjoining the transition with the states it did not prime.
Begin_NotPrimed ==
  /\ at = "call"
  /\ result' = bddAnd(transition, states)
  /\ at' = "loop"
  /\ UNCHANGED <<turns, args>>

\* ctlmc.c:164-166 and aux.c:35
Begin ==
  /\ at = "call"
  /\ result' = IF call = "EX"
             THEN bddAnd(transition, SwapVariables(states, primedNodes, unprimedNodes))
             ELSE bddAnd(states, transition)
  /\ at' = "loop"
  /\ UNCHANGED <<turns, args>>

\* Every turn abstracting the same variable.
Abstract_SameVariable ==
  /\ at = "loop"
  /\ turns < numNodes
  /\ result' = ExistAbstract(result, IF call = "EX" THEN primedNodes[1] ELSE unprimedNodes[1])
  /\ turns' = turns + 1
  /\ UNCHANGED at
  /\ UNCHANGED args

\* One turn of the loops at ctlmc.c:168 and aux.c:39.
Abstract ==
  /\ at = "loop"
  /\ turns < numNodes
  /\ result' = ExistAbstract(result, IF call = "EX" THEN primedNodes[turns+1]
                                                ELSE unprimedNodes[turns+1])
  /\ turns' = turns + 1
  /\ UNCHANGED at
  /\ UNCHANGED args

\* The image returned over the primed variables.
SwapBack_NotSwapped ==
  /\ at = "loop"
  /\ turns = numNodes
  /\ at' = "done"
  /\ UNCHANGED <<result, turns, args>>

\* ctlmc.c:174; aux.c:45 swaps the image back first.
SwapBack ==
  /\ at = "loop"
  /\ turns = numNodes
  /\ result' = IF call = "EX" THEN result
             ELSE SwapVariables(result, primedNodes, unprimedNodes)
  /\ at' = "done"
  /\ UNCHANGED <<turns, args>>

\* aux.c:49-52: CUDD could not swap the variables and the program quits.
SwapFails ==
  /\ at = "loop"
  /\ turns = numNodes
  /\ call = "translatedImage"
  /\ at' = "exit"
  /\ UNCHANGED <<result, turns, args>>

ImageNext == Begin \/ Abstract \/ SwapBack \/ SwapFails

ImageSpec == ImageInit /\ [][ImageNext]_imageVars /\ WF_imageVars(ImageNext)

-----------------------------------------------------------------------------
ImageTypeOK ==
  /\ transition \in BDD
  /\ states \in {BddOf(S) : S \in SUBSET States}
  /\ call \in {"EX", "translatedImage"}
  /\ result \in BDD
  /\ turns \in 0..numNodes
  /\ at \in {"call", "loop", "done", "exit"}

\* The variables a function abstracts, in order.
Abstracted == IF call = "EX" THEN primedNodes ELSE unprimedNodes

\* After each turn of a loop the BDD no longer depends on any variable
\* abstracted so far: a later turn brings none of them back.
AbstractedStayGone ==
  at = "loop" =>
    \A j \in 1..turns : \A v \in Space :
      v \cup {Abstracted[j]} \in result <=> v \ {Abstracted[j]} \in result

\* EX and translatedImage as CtlFixpoint and Reach model them.
Ctl == INSTANCE CtlFixpoint
         WITH State <- States, trans <- Relation, op <- "EF",
              beforeStates <- {}, finallyStates <- {},
              prev <- {}, current <- {}, pc <- at
Forward == INSTANCE Reach
             WITH State <- States, trans <- Relation, initial <- {},
                  prevReachable <- {}, reachable <- {}, image <- {}, pc <- at

\* What EX returns is a BDD over the unprimed variables that accepts exactly
\* the states with a successor in its argument: ctlmc.c:168-172 leaves no
\* primed variable in the result and loses no state.
EXIsPreImage ==
  at = "done" /\ call = "EX" =>
    \A S \in SUBSET States : states = BddOf(S) => result = BddOf(Ctl!EX(S))

\* What translatedImage returns is a BDD over the unprimed variables that
\* accepts exactly the successors of its argument.
ImageIsImage ==
  at = "done" /\ call = "translatedImage" =>
    \A S \in SUBSET States : states = BddOf(S) => result = BddOf(Forward!Image(S))
=============================================================================
