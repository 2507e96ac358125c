----------------------------- MODULE ModelCheck -----------------------------
(***************************************************************************)
(* main.c:182-219: the reachable states (Reach), the states that satisfy   *)
(* the property wherever they are (CtlCheck), and the two answers printed. *)
(* Both parts read the same transition relation; check() never sees the    *)
(* initial or the reachable states.                                        *)
(***************************************************************************)
EXTENDS CtlCheck

VARIABLES
  initial, prevReachable, reachable, image,   \* see Reach
  reachPc,        \* Reach's pc
  expected,       \* the states the user expects
  alsoReachable, alsoInitial,
  stage           \* "model", then "answered", or "undefined"

Reaching == INSTANCE Reach WITH pc <- reachPc

reachVars == <<initial, prevReachable, reachable, image, reachPc>>
answers == <<alsoReachable, alsoInitial, stage>>
mainVars == <<checkVars, reachVars, expected, answers>>

-----------------------------------------------------------------------------
MainInit ==
  /\ CheckInit
  /\ Reaching!Init
  /\ expected \in SUBSET State
  /\ alsoReachable = {} /\ alsoInitial = {}
  /\ stage = "model"

Explore ==
  /\ Reaching!Next
  /\ UNCHANGED <<checkVars, expected, answers>>

\* check() is called when the reachable states are known.
Check ==
  /\ reachPc = "done"
  /\ CheckNext
  /\ UNCHANGED <<reachVars, expected, answers>>

\* The union of the reachable and the satisfying states.
Answer_UnionTaken ==
  /\ status = "returned" /\ stage = "model"
  /\ recentNode # Null
  /\ alsoReachable' = recentNode \cup reachable
  /\ alsoInitial' = initial \cap recentNode
  /\ stage' = "answered"
  /\ UNCHANGED <<checkVars, reachVars, expected>>

Answer ==
  /\ status = "returned" /\ stage = "model"
  /\ recentNode # Null
  /\ alsoReachable' = recentNode \cap reachable
  /\ alsoInitial' = initial \cap recentNode
  /\ stage' = "answered"
  /\ UNCHANGED <<checkVars, reachVars, expected>>

\* Cudd_Ref of a NULL result.
AnswerNull ==
  /\ status = "returned" /\ stage = "model"
  /\ recentNode = Null
  /\ stage' = "undefined"
  /\ UNCHANGED <<checkVars, reachVars, expected, alsoReachable, alsoInitial>>

MainNext == Explore \/ Check \/ Answer \/ AnswerNull

MainSpec == MainInit /\ [][MainNext]_mainVars /\ WF_mainVars(MainNext)

\* The answers as main.c:214 and 219 print them.
StatesAreExpected == alsoReachable = expected
InitialStatesSatisfy == alsoInitial = initial

-----------------------------------------------------------------------------
Backwards == {<<e[2], e[1]>> : e \in trans}

\* The two answers of main.c are those of the definition: some states that
\* paths from an initial state lead to satisfy the property, and these are
\* the expected ones; every initial state satisfies the property.
AnswersRight ==
  stage = "answered" =>
    LET satisfying == Meaning(trans, tokens) IN
      /\ StatesAreExpected <=>
           expected = satisfying \cap Paths!SomeUntil(Backwards, State, initial)
      /\ InitialStatesSatisfy <=> initial \subseteq satisfying

\* check() runs over all states, "regardless of reachability" (ctlmc.c:32),
\* and main.c keeps the reachable ones afterwards.  That is no different from
\* checking the formula on the reachable part of the model alone.
UnreachableStatesDoNotMatter ==
  stage = "answered" =>
    alsoReachable =
      reachable \cap Meaning({e \in trans : e[1] \in reachable}, tokens)
\* Every model and every formula get their answers, unless the program quits:
\* neither the exploration nor a loop of check(), however nested, runs for ever.
MainEnds ==
  <>(stage # "model" \/ reachPc = "exit" \/ status \in {"exit3", "undefined"})
=============================================================================
