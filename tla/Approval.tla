------------------------------ MODULE Approval ------------------------------
(***************************************************************************)
(* What the queue of actions promises, without calls, batches, statements  *)
(* or error messages: an action is proposed, is dismissed or expires while *)
(* it is pending, or is taken by one execution, which takes effect at most *)
(* once and then is noted, gives the action back, or leaves it stranded.   *)
(* ActionQueue implements this.                                            *)
(***************************************************************************)
EXTENDS Integers

CONSTANTS
  Action,
  Given      \* those that are pending at the beginning

VARIABLES
  place,     \* absent, pending, dismissed, expired, taken, acted, broken, executed, stranded
  effects    \* how often the action has taken effect

vars == <<place, effects>>

Init ==
  /\ place = [a \in Action |-> IF a \in Given THEN "pending" ELSE "absent"]
  /\ effects = [a \in Action |-> 0]

\* The actions of S, all of them in one of the places F, move to t.
Move(S, F, t) ==
  /\ \A a \in S : place[a] \in F
  /\ place' = [a \in Action |-> IF a \in S THEN t ELSE place[a]]

Quiet == UNCHANGED effects
OnceMore(a) == effects' = [effects EXCEPT ![a] = @ + 1]

Propose(a) == Move({a}, {"absent"}, "pending") /\ Quiet
Close(S)   == (Move(S, {"pending"}, "dismissed") \/ Move(S, {"pending"}, "expired")) /\ Quiet

Take(a)  == Move({a}, {"pending"}, "taken") /\ Quiet
Act(a)   == Move({a}, {"taken"}, "acted") /\ OnceMore(a)
Break(a) ==
  \/ Move({a}, {"taken", "acted"}, "broken") /\ Quiet
  \/ Move({a}, {"taken"}, "broken") /\ OnceMore(a)

Finish(a)   == Move({a}, {"acted"}, "executed") /\ Quiet
GiveBack(a) == Move({a}, {"broken"}, "pending") /\ Quiet
Strand(S)   == Move(S, {"taken", "acted", "broken"}, "stranded") /\ Quiet

Next ==
  \/ \E a \in Action :
       Propose(a) \/ Take(a) \/ Act(a) \/ Break(a) \/ Finish(a) \/ GiveBack(a)
  \/ \E S \in SUBSET Action : Close(S) \/ Strand(S)

Spec == Init /\ [][Next]_vars
=============================================================================
