------------------------------- MODULE Inbox -------------------------------
(***************************************************************************)
(* What the message queue promises, without transactions, locks, handlers, *)
(* restarts or the text of a statement: a message waits, is changed or     *)
(* withdrawn while it waits, leaves, and is told to the session as it left *)
(* or is lost on the way.  MessageQueue implements this.                   *)
(***************************************************************************)
EXTENDS Integers, Sequences

CONSTANT Message

VARIABLES
  place,   \* absent, waiting, leaving, told, lost, withdrawn
  text,    \* the version of the message
  told     \* the versions the session was told

vars == <<place, text, told>>

Init ==
  /\ place = [m \in Message |-> "absent"]
  /\ text  = [m \in Message |-> 0]
  /\ told  = [m \in Message |-> <<>>]

\* The messages of S, all of them in one of the places F, move to t.
Move(S, F, t) ==
  /\ \A m \in S : place[m] \in F
  /\ place' = [m \in Message |-> IF m \in S THEN t ELSE place[m]]

Arrive(m)   == Move({m}, {"absent"}, "waiting") /\ UNCHANGED <<text, told>>
Withdraw(m) == Move({m}, {"waiting"}, "withdrawn") /\ UNCHANGED <<text, told>>

Change(m) ==
  /\ place[m] = "waiting"
  /\ text' = [text EXCEPT ![m] = @ + 1]
  /\ UNCHANGED <<place, told>>

Leave(S) == Move(S, {"waiting"}, "leaving") /\ UNCHANGED <<text, told>>

\* Told once, and as it stands.
Tell(S) ==
  /\ Move(S, {"leaving"}, "told")
  /\ told' = [m \in Message |-> IF m \in S THEN <<text[m]>> ELSE told[m]]
  /\ UNCHANGED text

Lose(S) == Move(S, {"waiting", "leaving"}, "lost") /\ UNCHANGED <<text, told>>

Next ==
  \/ \E m \in Message : Arrive(m) \/ Withdraw(m) \/ Change(m)
  \/ \E S \in SUBSET Message : Leave(S) \/ Tell(S) \/ Lose(S)

Spec == Init /\ [][Next]_vars
=============================================================================
