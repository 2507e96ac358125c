------------------------------- MODULE Reach -------------------------------
(***************************************************************************)
(* The reachable state space, main.c:182-192, over sets of states.  Each   *)
(* turn of the loop takes the image of the LAST image, not of everything   *)
(* reached: old states may stay in the frontier, and the loop stops when a *)
(* turn adds nothing.                                                      *)
(***************************************************************************)
CONSTANT State

VARIABLES
  trans,          \* the transition BDD as a relation on states
  initial,        \* the initial states
  prevReachable, reachable,
  image,          \* the states exactly as many steps away as turns taken
  pc              \* "first": before the declarations, "loop", "done"; "exit"
                  \* after the exit(3) of translatedImage

inputs == <<trans, initial>>
vars == <<trans, initial, prevReachable, reachable, image, pc>>

-----------------------------------------------------------------------------

Image(S) == {t \in State : \E s \in S : <<s, t>> \in trans}

Init ==
  /\ trans \in SUBSET (State \X State)
  /\ initial \in SUBSET State
  /\ prevReachable = {} /\ reachable = {} /\ image = {}
  /\ pc = "first"

First ==
  /\ pc = "first"
  /\ prevReachable' = initial
  /\ image' = Image(initial)
  /\ reachable' = initial \cup image'
  /\ pc' = "loop"
  /\ UNCHANGED inputs

\* Two images in one turn, with only the second one added.
Iterate_SkipsAStep ==
  /\ pc = "loop"
  /\ prevReachable # reachable
  /\ prevReachable' = reachable
  /\ image' = Image(Image(image))
  /\ reachable' = reachable \cup image'
  /\ UNCHANGED pc
  /\ UNCHANGED inputs

\* The old states dropped from the union.
Iterate_ReplacesReachable ==
  /\ pc = "loop"
  /\ prevReachable # reachable
  /\ prevReachable' = reachable
  /\ image' = Image(image)
  /\ reachable' = image'
  /\ UNCHANGED pc
  /\ UNCHANGED inputs

Iterate ==
  /\ pc = "loop"
  /\ prevReachable # reachable
  /\ prevReachable' = reachable
  /\ image' = Image(image)
  /\ reachable' = reachable \cup image'
  /\ UNCHANGED pc
  /\ UNCHANGED inputs

\* The loop left on the first turn whose image meets a known state.
Exit_FrontierSeen ==
  /\ pc = "loop"
  /\ image \cap prevReachable # {} \/ prevReachable = reachable
  /\ pc' = "done"
  /\ UNCHANGED <<prevReachable, reachable, image>>
  /\ UNCHANGED inputs

Exit ==
  /\ pc = "loop"
  /\ prevReachable = reachable
  /\ pc' = "done"
  /\ UNCHANGED <<prevReachable, reachable, image>>
  /\ UNCHANGED inputs

\* translatedImage quits when CUDD cannot swap the variables (aux.c:49-52).
ImageFails ==
  /\ pc = "first" \/ (pc = "loop" /\ prevReachable # reachable)
  /\ prevReachable' = IF pc = "first" THEN initial ELSE reachable
  /\ pc' = "exit"
  /\ UNCHANGED <<reachable, image>>
  /\ UNCHANGED inputs

Next == First \/ Iterate \/ Exit \/ ImageFails

\* The process runs alone: a step that can be taken is taken.
Spec == Init /\ [][Next]_vars /\ WF_vars(Next)

-----------------------------------------------------------------------------
TypeOK ==
  /\ trans \in SUBSET (State \X State)
  /\ initial \in SUBSET State
  /\ prevReachable \in SUBSET State
  /\ reachable \in SUBSET State
  /\ image \in SUBSET State
  /\ pc \in {"first", "loop", "done", "exit"}

\* The loop leaves the least set that holds the initial states and is closed
\* under transitions: following the last image only, instead of everything
\* reached, loses nothing, and the test at main.c:188 does not stop early.
ReachableIsClosure ==
  pc = "done" =>
    /\ initial \subseteq reachable
    /\ Image(reachable) \subseteq reachable
    /\ \A z \in SUBSET State :
         initial \subseteq z /\ Image(z) \subseteq z => reachable \subseteq z

\* At every test of the loop, whatever can be reached and is not in
\* `reachable' yet is reached through a state of `image': no state outside
\* the frontier has an unexplored successor.
FrontierSuffices ==
  pc = "loop" => Image(reachable \ image) \subseteq reachable

\* The loop explores: main.c implements Exploration.
Abstract == INSTANCE Exploration
              WITH relation <- trans, source <- initial,
                   known <- initial \cup reachable,
                   status <- IF pc = "done" THEN "finished"
                             ELSE IF pc = "exit" THEN "abandoned" ELSE "exploring"

ImplementsExploration == Abstract!Spec
=============================================================================
