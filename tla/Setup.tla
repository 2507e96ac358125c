------------------------------- MODULE Setup -------------------------------
(***************************************************************************)
(* main.c:87-181: the three formulas of the command line become BDDs over  *)
(* one array of variables, and every unprimed variable is paired with its  *)
(* primed counterpart.  The steps of bddFromPrefix are those of Formula;   *)
(* when one of them ends the program, nothing more happens here.           *)
(*                                                                         *)
(* A variable stored past the end of existingVars has no defined outcome.  *)
(* Here the store succeeds and the program goes on: CapacitySuffices says  *)
(* for which formulas it does not happen.                                  *)
(***************************************************************************)
EXTENDS Formula

VARIABLES
  forms,      \* the three token sequences, by the names main.c gives the BDDs
  stage,      \* the BDD being built, then "split", "pair" and "ready", or how
              \* main ended: "exit2", "abort" or "undefined"
  roots,      \* the BDDs built so far
  oldNum,     \* old_numExistingVars
  unprimed,   \* the entries of unprimedVars and unprimedNodes
  numPrimed,  \* numPrimedVars
  paired,     \* the nodes of primedNodes, NULL where none was found
  next        \* the variable the loops at main.c:147 and 167 look at

mainVars == <<forms, stage, roots, oldNum, unprimed, numPrimed, paired, next>>
setupVars == <<vars, mainVars>>

Building == {"initial", "transition", "expected"}

\* Room for the variables of the transition formula alone.
Capacity_TransitionOnly == numUniqVars(forms["transition"])

\* Entries that main.c:107 allocates existingVars for.
Capacity == numUniqVars(forms["initial"]) + numUniqVars(forms["transition"])

-----------------------------------------------------------------------------
SetupInit ==
  /\ Init
  /\ forms \in [Building -> Formulas]
  /\ stage = "initial"
  /\ roots = [b \in Building |-> Null]
  /\ oldNum = 0
  /\ unprimed = <<>> /\ numPrimed = 0 /\ paired = <<>>
  /\ next = 1

Build ==
  /\ stage \in Building
  /\ pc = "idle"
  /\ CallFor(forms[stage])
  /\ oldNum' = IF stage = "expected" THEN Len(seenVars) ELSE oldNum
  /\ UNCHANGED <<forms, stage, roots, unprimed, numPrimed, paired, next>>

Parse ==
  /\ \/ ReadBinary \/ ReadBinaryWithout \/ ReadNot \/ ReadSeen \/ ReadNew
     \/ Return \/ Malformed
  /\ UNCHANGED mainVars

\* bddFromPrefix has returned and main takes a reference to the root.
Took(next_stage) ==
  /\ stage' = next_stage
  /\ pc' = "idle"
  /\ UNCHANGED <<tokens, i, stack, recentNode, seenVars, numVars, calls>>
  /\ UNCHANGED <<forms, oldNum, unprimed, numPrimed, paired, next>>

\* The expected states accepted whatever variables they mention.
TakeExpected_NoAssert ==
  /\ pc = "returned" /\ stage = "expected"
  /\ recentNode # Null
  /\ roots' = [roots EXCEPT !["expected"] = recentNode]
  /\ Took("split")

TakeInitial ==
  /\ pc = "returned" /\ stage = "initial"
  /\ recentNode # Null
  /\ roots' = [roots EXCEPT !["initial"] = recentNode]
  /\ Took("transition")

TakeTransition ==
  /\ pc = "returned" /\ stage = "transition"
  /\ recentNode # Null
  /\ roots' = [roots EXCEPT !["transition"] = recentNode]
  /\ Took("expected")

\* The assertion at main.c:131 holds.
TakeExpected ==
  /\ pc = "returned" /\ stage = "expected"
  /\ recentNode # Null
  /\ oldNum = Len(seenVars)
  /\ roots' = [roots EXCEPT !["expected"] = recentNode]
  /\ Took("split")

ExpectedAddsVariables ==
  /\ pc = "returned" /\ stage = "expected"
  /\ recentNode # Null
  /\ oldNum # Len(seenVars)
  /\ roots' = [roots EXCEPT !["expected"] = recentNode]
  /\ Took("abort")

\* Cudd_Ref of a NULL root.
TakeNull ==
  /\ pc = "returned"
  /\ recentNode = Null
  /\ Took("undefined")
  /\ UNCHANGED roots

\* One turn of the loop at main.c:147.
Split ==
  /\ stage = "split"
  /\ next <= Len(seenVars)
  /\ LET v == seenVars[next] IN
       /\ unprimed' = IF v.parity THEN unprimed ELSE Append(unprimed, v)
       /\ numPrimed' = IF v.parity THEN numPrimed + 1 ELSE numPrimed
  /\ next' = next + 1
  /\ UNCHANGED <<forms, stage, roots, oldNum, paired>>
  /\ UNCHANGED vars

SplitDone ==
  /\ stage = "split"
  /\ next > Len(seenVars)
  /\ numPrimed = Len(unprimed)
  /\ stage' = "pair"
  /\ next' = 1
  /\ UNCHANGED <<forms, roots, oldNum, unprimed, numPrimed, paired>>
  /\ UNCHANGED vars

SplitUneven ==
  /\ stage = "split"
  /\ next > Len(seenVars)
  /\ numPrimed # Len(unprimed)
  /\ stage' = "exit2"
  /\ UNCHANGED <<forms, roots, oldNum, unprimed, numPrimed, paired, next>>
  /\ UNCHANGED vars

\* Each unprimed variable paired with the primed one in the same position.
Pair_ByPosition ==
  /\ stage = "pair"
  /\ next <= Len(unprimed)
  /\ LET primed == SelectSeq(seenVars, LAMBDA v : v.parity)
     IN  paired' = Append(paired, primed[next].node)
  /\ next' = next + 1
  /\ UNCHANGED <<forms, stage, roots, oldNum, unprimed, numPrimed>>
  /\ UNCHANGED vars

\* One turn of the loop at main.c:167.  A counterpart that is not there leaves
\* the entry as GC_MALLOC cleared it.
Pair ==
  /\ stage = "pair"
  /\ next <= Len(unprimed)
  /\ LET primed == PrimedName(unprimed[next].name)
     IN  paired' = Append(paired, IF IsSeen(primed) THEN SeenNode(primed) ELSE Null)
  /\ next' = next + 1
  /\ UNCHANGED <<forms, stage, roots, oldNum, unprimed, numPrimed>>
  /\ UNCHANGED vars

PairDone ==
  /\ stage = "pair"
  /\ next > Len(unprimed)
  /\ stage' = "ready"
  /\ UNCHANGED <<forms, roots, oldNum, unprimed, numPrimed, paired, next>>
  /\ UNCHANGED vars

SetupNext ==
  \/ Build \/ Parse
  \/ TakeInitial \/ TakeTransition \/ TakeExpected
  \/ ExpectedAddsVariables \/ TakeNull
  \/ Split \/ SplitDone \/ SplitUneven \/ Pair \/ PairDone

SetupSpec == SetupInit /\ [][SetupNext]_setupVars

-----------------------------------------------------------------------------

\* When no entry of primedNodes is NULL, primedNodes[j] is the counterpart of
\* unprimedNodes[j] for every j and together they hold every variable, each
\* once: what aux.c:31-33 asks of its callers and module Image assumes.
\* Nothing but a count was compared at main.c:160.
PairingIsOneToOne ==
  stage = "ready" /\ (\A j \in DOMAIN paired : paired[j] # Null) =>
    /\ Len(paired) = Len(unprimed)
    /\ \A j \in DOMAIN unprimed : \E k \in DOMAIN seenVars :
         /\ seenVars[k].name = PrimedName(unprimed[j].name)
         /\ seenVars[k].node = paired[j]
    /\ \A k \in DOMAIN seenVars : \E j \in DOMAIN paired :
         seenVars[k].node \in {unprimed[j].node, paired[j]}
    /\ \A j, k \in DOMAIN paired :
         /\ unprimed[j].node # paired[k]
         /\ j # k => unprimed[j].node # unprimed[k].node /\ paired[j] # paired[k]

\* The model that leaves the set-up is about the variables of the two model
\* formulas alone: the expected states cannot smuggle in another one.
ModelVarsOnly ==
  stage \in {"split", "pair", "ready"} =>
    {seenVars[j].name : j \in DOMAIN seenVars} =
      Mentions(forms["initial"]) \cup Mentions(forms["transition"])

\* existingVars holds every variable as long as the formulas are made of
\* variables and Boolean operators and the expected states add no variable.
CapacitySuffices ==
  (\A b \in Building : \A t \in Mentions(forms[b]) : ~isOperator(t))
    /\ Mentions(forms["expected"])
         \subseteq Mentions(forms["initial"]) \cup Mentions(forms["transition"])
  => Len(seenVars) <= Capacity

-----------------------------------------------------------------------------
\* "All primed and unprimed variables should show up" (main.c:161): a model
\* whose variables pass the test has a counterpart for every variable.
EveryVariableIsPaired ==
  stage = "ready" => \A j \in DOMAIN paired : paired[j] # Null
=============================================================================
