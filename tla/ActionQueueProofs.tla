-------------------------- MODULE ActionQueueProofs --------------------------
(***************************************************************************)
(* Proofs about ActionQueue.  Two inductive invariants: HandInv follows a  *)
(* row through the call that has claimed it (effects, marks, errors,       *)
(* resources), SignalInv follows a signal through enqueue.  A third one,   *)
(* BusyInv, shows that no call is ever without a step to take.  With the   *)
(* types the first shows that every step is one of Approval.               *)
(***************************************************************************)
EXTENDS ActionQueue, FiniteSetTheorems, TLAPS

\* A call without a row has returned.
IdleIsEmpty == \A c \in Caller : Idle(c) => \A r \in Row : step[c][r] = "none"

\* A signal is a row once it is inserted; a row that was executed is one.
RowsAreInserted ==
  /\ \A s \in Signal : status[s] # "absent" <=> sig[s] = "inserted"
  /\ \A r \in unretried : status[r] # "absent"

\* Only retryFailed clears an error.
ClearIsRetry == \A c \in Caller, r \in Row : step[c][r] = "clear" => mode[c] = "retry"

HandInv ==
  /\ TypeOK
  /\ IdleIsEmpty
  /\ RowsAreInserted
  /\ ClearIsRetry
  /\ ApprovedIsHeld
  /\ EffectsAreMarked
  /\ SerialInCall
  /\ RetryFindsFailed

\* The step of call c for row r, and no other, becomes x.
Becomes(c, r, x) ==
  /\ step'[c][r] = x
  /\ \A d \in Caller, q \in Row : (d # c \/ q # r) => step'[d][q] = step[d][q]

Steps == {"none", "queued", "clear", "claim"} \union Executing

LEMMA BecomesFacts ==
  ASSUME TypeOK, NEW c \in Caller, NEW r \in Row, NEW x \in Steps,
         step' = [step EXCEPT ![c][r] = x]
  PROVE  Becomes(c, r, x) /\ step' \in [Caller -> [Row -> Steps]]
BY DEF TypeOK, Becomes, Steps

LEMMA LeaveFacts ==
  ASSUME TypeOK, NEW c \in Caller, NEW r \in Row, Leave(c, r)
  PROVE  /\ Becomes(c, r, "none")
         /\ step' \in [Caller -> [Row -> Steps]]
         /\ mode' \in [Caller -> {"idle", "single", "batch", "retry"}]
         /\ \A d \in Caller : mode'[d] = mode[d] \/ mode'[d] = "idle"
         /\ \A d \in Caller \ {c} : mode'[d] = mode[d]
         /\ mode'[c] = "idle" /\ mode[c] # "idle" =>
              \A q \in Row \ {r} : step[c][q] = "none"
<1>1. step' = [step EXCEPT ![c][r] = "none"]
  BY DEF Leave
<1>2. Becomes(c, r, "none") /\ step' \in [Caller -> [Row -> Steps]]
  BY <1>1, BecomesFacts DEF Steps
<1>3. PICK b \in BOOLEAN : /\ b <=> \A q \in Row \ {r} : step[c][q] = "none"
                           /\ mode' = [mode EXCEPT ![c] = IF b THEN "idle" ELSE @]
  <2>1. mode' = [mode EXCEPT ![c] = IF \A q \in Row \ {r} : step[c][q] = "none"
                                    THEN "idle" ELSE @]
    BY DEF Leave
  <2> QED
    BY <2>1, Zenon
<1>4. /\ mode' \in [Caller -> {"idle", "single", "batch", "retry"}]
      /\ \A d \in Caller : mode'[d] = mode[d] \/ mode'[d] = "idle"
      /\ \A d \in Caller \ {c} : mode'[d] = mode[d]
      /\ mode'[c] = "idle" /\ mode[c] # "idle" => b
  BY <1>3 DEF TypeOK
<1> QED
  BY <1>2, <1>3, <1>4

-----------------------------------------------------------------------------

\* The initial state has the types and nobody at work.
LEMMA HandInit == Init => HandInv
<1> SUFFICES ASSUME Init PROVE HandInv
  OBVIOUS
<1> USE OldAssumption, BoundAssumption
<1>1. TypeOK
  BY DEF Init, TypeOK, Row
<1>2. IdleIsEmpty /\ SerialInCall /\ RetryFindsFailed
  BY DEF Init, IdleIsEmpty, SerialInCall, RetryFindsFailed, Executing
<1>5. RowsAreInserted /\ ClearIsRetry
  BY DEF Init, RowsAreInserted, ClearIsRetry, Row
<1>3. ApprovedIsHeld
  BY DEF Init, ApprovedIsHeld, At, Executing
<1>4. EffectsAreMarked
  BY DEF Init, EffectsAreMarked, At
<1> QED
  BY <1>1, <1>2, <1>3, <1>4, <1>5 DEF HandInv

\* Every step keeps the types.
LEMMA TypeNext == TypeOK /\ [Next]_vars => TypeOK'
<1> SUFFICES ASSUME TypeOK, [Next]_vars PROVE TypeOK'
  OBVIOUS
<1> USE DEF Executing, Outcome
<1>1. ASSUME NEW s \in Signal, EnqueueStep(s) PROVE TypeOK'
  <2>1. CASE Enter(s)
    BY <2>1 DEF TypeOK, Enter, Overlaps, table, calls
  <2>2. CASE Look(s)
    <3>1. /\ \E x \in {"merge", "insert"} : sig' = [sig EXCEPT ![s] = x]
          /\ \E r \in Row, S \in SUBSET Signal :
               \/ match' = [match EXCEPT ![s] = r] /\ seen' = [seen EXCEPT ![s] = S]
               \/ UNCHANGED <<match, seen>>
          /\ UNCHANGED <<table, calls, history>>
      BY <2>2 DEF Look, Candidates, TypeOK, Row
    <3>2. match' \in [Signal -> Row] /\ seen' \in [Signal -> SUBSET Signal]
      <4>1. ASSUME NEW r \in Row, NEW S \in SUBSET Signal,
                   match' = [match EXCEPT ![s] = r], seen' = [seen EXCEPT ![s] = S]
            PROVE  match' \in [Signal -> Row] /\ seen' \in [Signal -> SUBSET Signal]
        BY <4>1 DEF TypeOK
      <4>2. CASE UNCHANGED <<match, seen>>
        BY <4>2 DEF TypeOK
      <4> QED
        BY <3>1, <4>1, <4>2
    <3>3. PICK x \in {"merge", "insert"} : sig' = [sig EXCEPT ![s] = x]
      BY <3>1
    <3>4. sig' \in [Signal -> {"new", "look", "merge", "insert", "merged", "inserted", "dropped"}]
      BY <3>3 DEF TypeOK
    <3> QED
      BY <3>1, <3>2, <3>4 DEF TypeOK, table, calls, history
  <2>3. CASE Merge(s)
    <3>1. /\ status' = status /\ refs' \in [Row -> SUBSET Signal]
          /\ overdue' \in [Row -> BOOLEAN] /\ sig' = [sig EXCEPT ![s] = "merged"]
          /\ match' \in [Signal -> Row] /\ seen' \in [Signal -> SUBSET Signal]
          /\ UNCHANGED <<failed, calls, history>>
      BY <2>3 DEF Merge, MergedRefs, StatusAfterMerge, TypeOK, Row
    <3> QED
      BY <3>1 DEF TypeOK, calls, history
  <2>4. CASE Insert(s)
    BY <2>4 DEF TypeOK, Insert, Row, calls, history
  <2>5. CASE EnqueueFails(s)
    BY <2>5 DEF TypeOK, EnqueueFails, Fault, Row, table, calls
  <2> QED
    BY <1>1, <2>1, <2>2, <2>3, <2>4, <2>5 DEF EnqueueStep
<1>2. ASSUME NEW S \in SUBSET Row, Dismiss(S) PROVE TypeOK'
  BY <1>2 DEF TypeOK, Dismiss, intake, calls, history
<1>3. CASE expireStale
  BY <1>3 DEF TypeOK, expireStale, intake, calls, history
<1>4. ASSUME NEW r \in Row, FallDue(r) PROVE TypeOK'
  BY <1>4 DEF TypeOK, FallDue, intake, calls, history
<1>5. ASSUME NEW c \in Caller, NEW m \in {"single", "batch", "retry"}, NEW S,
             NEW x \in {"claim", "queued"}, Begin(c, m, S, x)
      PROVE  TypeOK'
  BY <1>5 DEF TypeOK, Begin, table, intake
<1>6. ASSUME NEW c \in Caller, NEW W \in SUBSET Row, NextWave(c, W) PROVE TypeOK'
  BY <1>6 DEF TypeOK, NextWave, table, intake, history
<1>7. ASSUME NEW c \in Caller, NEW r \in Row,
             NextRetry(c, r) \/ ClearError(c, r) \/ Claim(c, r)
      PROVE  TypeOK'
  <2>1. \E x \in {"clear", "claim", "perform"} : step' = [step EXCEPT ![c][r] = x]
    BY <1>7 DEF NextRetry, ClearError, Claim
  <2>2. step' \in [Caller -> [Row -> Steps]]
    BY <2>1, BecomesFacts DEF Steps
  <2> QED
    BY <1>7, <2>2 DEF TypeOK, NextRetry, ClearError, Claim, Steps, table, intake, history
<1>8. ASSUME NEW c \in Caller, NEW r \in Row, ClaimFails(c, r) \/ StatementFails(c, r)
      PROVE  TypeOK'
  <2>1. Leave(c, r)
    BY <1>8 DEF ClaimFails, StatementFails
  <2> QED
    BY <1>8, <2>1, LeaveFacts DEF TypeOK, ClaimFails, StatementFails, Fault, Steps, table,
                                  intake, history
<1>9. ASSUME NEW c \in Caller, NEW r \in Row, Perform(c, r) PROVE TypeOK'
  <2>1. \E x \in {"record", "defer", "restore"} : step' = [step EXCEPT ![c][r] = x]
    BY <1>9 DEF Perform
  <2>2. step' \in [Caller -> [Row -> Steps]]
    BY <2>1, BecomesFacts DEF Steps
  <2>3. /\ performed' = performed \/ performed' = [performed EXCEPT ![r] = @ + 1]
        /\ unmarked' = unmarked \/ unmarked' = [unmarked EXCEPT ![r] = @ + 1]
    BY <1>9 DEF Perform
  <2>4. performed' \in [Row -> Nat]
    BY <2>3 DEF TypeOK
  <2>5. unmarked' \in [Row -> Nat]
    BY <2>3 DEF TypeOK
  <2> QED
    BY <1>9, <2>2, <2>4, <2>5 DEF TypeOK, Perform, Steps, table, intake
<1>10. ASSUME NEW c \in Caller, NEW r \in Row, Record(c, r) PROVE TypeOK'
  <2>1. Leave(c, r)
    BY <1>10 DEF Record
  <2> QED
    BY <1>10, <2>1, LeaveFacts DEF TypeOK, Record, Steps, intake
<1>11. ASSUME NEW c \in Caller, NEW r \in Row, RecordFails(c, r) PROVE TypeOK'
  <2>1. step' = [step EXCEPT ![c][r] = "restore"]
    BY <1>11 DEF RecordFails
  <2>2. step' \in [Caller -> [Row -> Steps]]
    BY <2>1, BecomesFacts DEF Steps
  <2> QED
    BY <1>11, <2>2 DEF TypeOK, RecordFails, Fault, Steps, table, intake
<1>12. ASSUME NEW c \in Caller, NEW r \in Row, Restore(c, r) PROVE TypeOK'
  <2>1. Leave(c, r)
    BY <1>12 DEF Restore
  <2> QED
    BY <1>12, <2>1, LeaveFacts DEF TypeOK, Restore, StatusAfterFailure, FailedAfter, Steps,
                                   Row, intake
<1>13. ASSUME NEW c \in Caller, NEW r \in Row, RestoreFails(c, r) PROVE TypeOK'
  <2>1. \/ Leave(c, r)
        \/ step' = [step EXCEPT ![c][r] = "restore"] /\ mode' = mode
    BY <1>13 DEF RestoreFails
  <2>2. /\ step' \in [Caller -> [Row -> Steps]]
        /\ mode' \in [Caller -> {"idle", "single", "batch", "retry"}]
    BY <2>1, LeaveFacts, BecomesFacts DEF Steps, TypeOK
  <2> QED
    BY <1>13, <2>2 DEF TypeOK, RestoreFails, Fault, Steps, table, intake
<1>14. CASE Restart
  <2>1. stuck' \subseteq Row /\ forgotten' \subseteq Row
    BY <1>14 DEF Restart, At, TypeOK
  <2>2. unmarked' \in [Row -> Nat]
    BY <1>14 DEF Restart, TypeOK
  <2> QED
    BY <1>14, <2>1, <2>2 DEF TypeOK, Restart, Fault, Row, table
<1>15. CASE UNCHANGED vars
  BY <1>15 DEF TypeOK, vars, table, intake, calls, history
<1> QED
  BY <1>1, <1>2, <1>3, <1>4, <1>5, <1>6, <1>7, <1>8, <1>9, <1>10, <1>11, <1>12, <1>13, <1>14,
     <1>15 DEF Next, CallStep, Proceed, ExecuteOne, batchExecute, retryFailed

-----------------------------------------------------------------------------

\* What a statement of enqueue, dismiss or expireStale may do to a row.
Touched(r) ==
  \/ status'[r] = status[r]
  \/ status[r] = "pending" /\ status'[r] \in {"dismissed", "expired"}
  \/ status[r] = "absent" /\ status'[r] = "pending" /\ r \notin unretried

\* A statement that no call of execute is behind disturbs none of them.
LEMMA TableStep ==
  ASSUME HandInv, \A r \in Row : Touched(r),
         UNCHANGED <<calls, failed, performed, unmarked, stuck, unretried, forgotten>>
  PROVE  IdleIsEmpty' /\ ClearIsRetry' /\ ApprovedIsHeld' /\ EffectsAreMarked'
           /\ SerialInCall' /\ RetryFindsFailed'
<1> USE DEF HandInv, calls, Touched
<1>1. At({"record"})' = At({"record"}) /\ At(Executing)' = At(Executing)
  BY DEF At, Executing
<1>2. IdleIsEmpty' /\ ClearIsRetry' /\ SerialInCall'
  BY DEF IdleIsEmpty, ClearIsRetry, SerialInCall, Idle, Executing
<1>3. ApprovedIsHeld'
  BY <1>1 DEF ApprovedIsHeld, Executing
<1>4. EffectsAreMarked'
  BY <1>1 DEF EffectsAreMarked
<1>5. RetryFindsFailed'
  BY DEF RetryFindsFailed, Pending, TypeOK
<1> QED
  BY <1>2, <1>3, <1>4, <1>5

\* The ways in which a call that moves r keeps hold of it, takes it or lets go.
HoldsOn(c, r, x) ==
  \/ /\ step[c][r] \notin Executing /\ x \notin Executing
     /\ status'[r] = status[r] /\ stuck' = stuck
  \/ /\ step[c][r] \notin Executing /\ x \in Executing
     /\ status[r] = "pending" /\ status'[r] = "approved" /\ stuck' = stuck
  \/ /\ step[c][r] \in Executing /\ x \in Executing
     /\ status'[r] = status[r] /\ stuck' = stuck
  \/ /\ step[c][r] \in Executing /\ x \notin Executing
     /\ status'[r] # "approved" /\ stuck' = stuck
  \/ /\ step[c][r] \in Executing /\ x \notin Executing
     /\ status'[r] = status[r] /\ stuck' = stuck \union {r}

\* A call that moves one row keeps ApprovedIsHeld in one of these ways.
LEMMA HeldStep ==
  ASSUME HandInv, NEW c \in Caller, NEW r \in Row, NEW x \in Steps, Becomes(c, r, x),
         \A q \in Row \ {r} : status'[q] = status[q], HoldsOn(c, r, x)
  PROVE  ApprovedIsHeld'
<1> USE DEF HandInv, Becomes
<1>1. \A q \in Row \ {r} : q \in At(Executing)' <=> q \in At(Executing)
  BY DEF At
<1>2. \A q \in Row \ {r} : q \in stuck' <=> q \in stuck
  BY DEF HoldsOn
<1>3. \A q \in Row \ {r} :
        /\ status'[q] = "approved" <=> (q \in stuck' \/ q \in At(Executing)')
        /\ \A d, e \in Caller : step'[d][q] \in Executing /\ step'[e][q] \in Executing => d = e
        /\ ~(q \in stuck' /\ q \in At(Executing)')
  BY <1>1, <1>2 DEF ApprovedIsHeld
<1>4. /\ status'[r] = "approved" <=> (r \in stuck' \/ r \in At(Executing)')
      /\ \A d, e \in Caller : step'[d][r] \in Executing /\ step'[e][r] \in Executing => d = e
      /\ ~(r \in stuck' /\ r \in At(Executing)')
  <2>1. r \in At(Executing) <=> \E d \in Caller : step[d][r] \in Executing
    BY DEF At
  <2>2. r \in At(Executing)' <=> \E d \in Caller : step'[d][r] \in Executing
    BY DEF At
  <2>3. /\ status[r] = "approved" <=> (r \in stuck \/ r \in At(Executing))
        /\ \A d, e \in Caller : step[d][r] \in Executing /\ step[e][r] \in Executing => d = e
        /\ ~(r \in stuck /\ r \in At(Executing))
    BY DEF ApprovedIsHeld
  <2>4. step'[c][r] = x /\ \A d \in Caller \ {c} : step'[d][r] = step[d][r]
    OBVIOUS
  <2> HIDE DEF Becomes, HandInv
  <2>5. CASE step[c][r] \notin Executing /\ x \notin Executing
    BY <2>1, <2>2, <2>3, <2>4, <2>5 DEF HoldsOn
  <2>6. CASE step[c][r] \notin Executing /\ x \in Executing
    BY <2>1, <2>2, <2>3, <2>4, <2>6 DEF HoldsOn
  <2>7. CASE step[c][r] \in Executing /\ x \in Executing
    BY <2>1, <2>2, <2>3, <2>4, <2>7 DEF HoldsOn
  <2>8. CASE step[c][r] \in Executing /\ x \notin Executing
    BY <2>1, <2>2, <2>3, <2>4, <2>8 DEF HoldsOn
  <2> QED
    BY <2>5, <2>6, <2>7, <2>8
<1> QED
  BY <1>3, <1>4 DEF ApprovedIsHeld

\* What the step of a call adds to the effects of r and to its marks.
Balanced(c, r, x) ==
  performed'[r] - unmarked'[r] =
    performed[r] - unmarked[r]
      + (IF status'[r] = "executed" \/ x = "record" THEN 1 ELSE 0)
      - (IF status[r] = "executed" \/ step[c][r] = "record" THEN 1 ELSE 0)

CountsOn(c, r, x) ==
  \/ /\ step[c][r] # "record" /\ x # "record" /\ status'[r] = status[r]
     /\ performed'[r] = performed[r] /\ unmarked'[r] = unmarked[r]
  \/ /\ step[c][r] \in Executing \/ status[r] = "pending"
     /\ Balanced(c, r, x)

\* The effects of a row count up with its marks.
LEMMA MarkedStep ==
  ASSUME HandInv, TypeOK', NEW c \in Caller, NEW r \in Row, NEW x \in Steps, Becomes(c, r, x),
         \A q \in Row \ {r} : status'[q] = status[q],
         \A q \in Row \ {r} : performed'[q] = performed[q],
         \A q \in Row \ {r} : unmarked'[q] = unmarked[q],
         CountsOn(c, r, x)
  PROVE  EffectsAreMarked'
<1> USE DEF HandInv, Becomes
<1>1. \A q \in Row \ {r} : q \in At({"record"})' <=> q \in At({"record"})
  BY DEF At
<1>2. \A q \in Row \ {r} :
        performed'[q] = unmarked'[q]
          + (IF status'[q] = "executed" \/ q \in At({"record"})' THEN 1 ELSE 0)
  BY <1>1 DEF EffectsAreMarked
<1>3. performed'[r] = unmarked'[r]
          + (IF status'[r] = "executed" \/ r \in At({"record"})' THEN 1 ELSE 0)
  <2>1. performed[r] = unmarked[r]
          + (IF status[r] = "executed" \/ r \in At({"record"}) THEN 1 ELSE 0)
    BY DEF EffectsAreMarked
  <2>2. /\ performed[r] \in Nat /\ unmarked[r] \in Nat
        /\ performed'[r] \in Nat /\ unmarked'[r] \in Nat
    BY DEF TypeOK
  <2>3. CASE /\ step[c][r] # "record" /\ x # "record" /\ status'[r] = status[r]
             /\ performed'[r] = performed[r] /\ unmarked'[r] = unmarked[r]
    <3>1. r \in At({"record"})' <=> r \in At({"record"})
      BY <2>3 DEF At
    <3> QED
      BY <2>1, <2>3, <3>1
  <2>4. CASE /\ step[c][r] \in Executing \/ status[r] = "pending"
             /\ Balanced(c, r, x)
    <3>1. \A d \in Caller \ {c} : step[d][r] # "record"
      BY <2>4 DEF ApprovedIsHeld, At, Executing
    <3>2. r \in At({"record"}) <=> step[c][r] = "record"
      BY <3>1 DEF At
    <3>3. r \in At({"record"})' <=> x = "record"
      BY <3>1 DEF At
    <3> HIDE DEF HandInv, Becomes
    <3> QED
      BY <2>1, <2>2, <2>4, <3>2, <3>3 DEF Balanced
  <2> QED
    BY <2>3, <2>4 DEF CountsOn
<1> QED
  BY <1>2, <1>3 DEF EffectsAreMarked

\* A row that starts its execution is alone in its group.
LEMMA SerialStep ==
  ASSUME HandInv, NEW c \in Caller, NEW r \in Row, NEW x \in Steps, Becomes(c, r, x),
         x \in Executing => step[c][r] \in Executing \/ MayClaim(c, r)
  PROVE  SerialInCall'
BY DEF HandInv, Becomes, SerialInCall, MayClaim, Executing

\* The error message of a row survives a step that does not touch it.
LEMMA RetryStep ==
  ASSUME HandInv, TypeOK', NEW c \in Caller, NEW r \in Row, NEW x \in Steps, Becomes(c, r, x),
         \A d \in Caller \ {c} : mode'[d] = mode[d],
         mode'[c] = mode[c] \/ \A q \in Row \ {r} : step[c][q] = "none",
         \A q \in Row \ {r} : /\ status'[q] = status[q]
                              /\ failed'[q] = failed[q]
                              /\ q \in unretried' <=> q \in unretried
                              /\ q \in forgotten => q \in forgotten',
         \/ status'[r] # "pending" \/ r \notin unretried' \/ failed'[r] \/ r \in forgotten'
         \/ x = "claim" /\ mode'[c] = "retry"
         \/ /\ status'[r] = status[r] /\ failed'[r] = failed[r] /\ r \in unretried
            /\ r \in forgotten => r \in forgotten'
            /\ step[c][r] # "claim"
  PROVE  RetryFindsFailed'
<1> USE DEF HandInv, Becomes
<1>1. ASSUME NEW q \in Row \ {r}, q \in unretried', Pending(q)'
      PROVE  failed'[q] \/ q \in forgotten'
               \/ \E d \in Caller : mode'[d] = "retry" /\ step'[d][q] = "claim"
  <2>1. failed[q] \/ q \in forgotten
          \/ \E d \in Caller : mode[d] = "retry" /\ step[d][q] = "claim"
    BY <1>1 DEF RetryFindsFailed, Pending
  <2> QED
    BY <1>1, <2>1
<1>2. ASSUME r \in unretried', Pending(r)'
      PROVE  failed'[r] \/ r \in forgotten'
               \/ \E d \in Caller : mode'[d] = "retry" /\ step'[d][r] = "claim"
  <2>1. CASE x = "claim" /\ mode'[c] = "retry"
    BY <2>1
  <2>2. CASE /\ status'[r] = status[r] /\ failed'[r] = failed[r] /\ r \in unretried
             /\ r \in forgotten => r \in forgotten'
             /\ step[c][r] # "claim"
    <3>1. failed[r] \/ r \in forgotten
            \/ \E d \in Caller : mode[d] = "retry" /\ step[d][r] = "claim"
      BY <1>2, <2>2 DEF RetryFindsFailed, Pending
    <3> QED
      BY <2>2, <3>1
  <2> QED
    BY <1>2, <2>1, <2>2 DEF Pending
<1>3. unretried' \subseteq Row
  BY DEF TypeOK
<1> QED
  BY <1>1, <1>2, <1>3 DEF RetryFindsFailed

\* A call that leaves a row behind is idle only when it has no other.
LEMMA IdleLeave ==
  ASSUME HandInv, NEW c \in Caller, NEW r \in Row, Leave(c, r)
  PROVE  IdleIsEmpty' /\ ClearIsRetry'
<1>1. /\ Becomes(c, r, "none")
      /\ \A d \in Caller \ {c} : mode'[d] = mode[d]
      /\ mode'[c] = mode[c] \/ mode'[c] = "idle"
      /\ mode'[c] = "idle" /\ mode[c] # "idle" => \A q \in Row \ {r} : step[c][q] = "none"
  BY LeaveFacts DEF HandInv
<1>2. mode[c] = "idle" => \A q \in Row : step[c][q] = "none"
  BY DEF HandInv, IdleIsEmpty, Idle
<1>3. IdleIsEmpty'
  BY <1>1, <1>2 DEF HandInv, IdleIsEmpty, Idle, Becomes
<1>4. ClearIsRetry'
  BY <1>1, <1>2 DEF HandInv, ClearIsRetry, Becomes
<1> QED
  BY <1>3, <1>4

\* The same for a call that goes on, and whose new step is not "clear".
LEMMA IdleMove ==
  ASSUME HandInv, NEW c \in Caller, NEW r \in Row, NEW x \in Steps, Becomes(c, r, x),
         mode' = mode, mode[c] # "idle", x # "clear" \/ mode[c] = "retry"
  PROVE  IdleIsEmpty' /\ ClearIsRetry'
BY DEF HandInv, IdleIsEmpty, Idle, Becomes, ClearIsRetry

HandParts ==
  IdleIsEmpty /\ ClearIsRetry /\ ApprovedIsHeld /\ EffectsAreMarked /\ SerialInCall
    /\ RetryFindsFailed

\* A call that begins has no row in hand yet.
LEMMA HandBegin ==
  ASSUME HandInv, NEW c \in Caller, NEW m \in {"single", "batch", "retry"}, NEW S,
         NEW x \in {"claim", "queued"}, Begin(c, m, S, x)
  PROVE  HandParts'
<1> USE DEF HandInv
<1>1. /\ mode[c] = "idle" /\ \A r \in Row : step[c][r] = "none"
      /\ \A r \in Row : step'[c][r] \in {"none", "claim", "queued"}
      /\ \A d \in Caller \ {c} : mode'[d] = mode[d] /\ step'[d] = step[d]
      /\ mode'[c] # "idle"
      /\ UNCHANGED <<table, performed, unmarked, stuck, unretried, forgotten>>
  BY DEF Begin, IdleIsEmpty, Idle, TypeOK
<1>2. At({"record"})' = At({"record"}) /\ At(Executing)' = At(Executing)
  BY <1>1 DEF At, Executing
<1>3. IdleIsEmpty' /\ ClearIsRetry'
  BY <1>1 DEF IdleIsEmpty, ClearIsRetry, Idle
<1>4. ApprovedIsHeld'
  BY <1>1, <1>2 DEF ApprovedIsHeld, Executing, table
<1>5. EffectsAreMarked'
  BY <1>1, <1>2 DEF EffectsAreMarked, table
<1>6. SerialInCall'
  BY <1>1 DEF SerialInCall, Executing
<1>7. RetryFindsFailed'
  BY <1>1 DEF RetryFindsFailed, Pending, table
<1> QED
  BY <1>3, <1>4, <1>5, <1>6, <1>7 DEF HandParts

\* Nor does a wave put one in hand.
LEMMA HandWave ==
  ASSUME HandInv, NEW c \in Caller, NEW W \in SUBSET Row, NextWave(c, W)
  PROVE  HandParts'
<1> USE DEF HandInv
<1>1. /\ mode[c] = "batch" /\ mode' = mode
      /\ \A r \in Row : \/ step'[c][r] = step[c][r]
                        \/ step[c][r] = "queued" /\ step'[c][r] = "claim"
      /\ \A d \in Caller \ {c} : step'[d] = step[d]
      /\ UNCHANGED <<table, performed, unmarked, stuck, unretried, forgotten>>
  BY DEF NextWave, Queued, TypeOK, history
<1>2. At({"record"})' = At({"record"}) /\ At(Executing)' = At(Executing)
  BY <1>1 DEF At, Executing
<1>3. IdleIsEmpty' /\ ClearIsRetry'
  BY <1>1 DEF IdleIsEmpty, ClearIsRetry, Idle
<1>4. ApprovedIsHeld'
  <2>1. \A d \in Caller, r \in Row : step'[d][r] \in Executing => step[d][r] \in Executing
    BY <1>1 DEF Executing
  <2> QED
    BY <1>1, <1>2, <2>1 DEF ApprovedIsHeld, table
<1>5. EffectsAreMarked'
  BY <1>1, <1>2 DEF EffectsAreMarked, table
<1>6. SerialInCall'
  BY <1>1 DEF SerialInCall, Executing
<1>7. RetryFindsFailed'
  BY <1>1 DEF RetryFindsFailed, Pending, table
<1> QED
  BY <1>3, <1>4, <1>5, <1>6, <1>7 DEF HandParts

\* A step of one call for one row: from the four lemmas about a move.
LEMMA HandOfCall ==
  ASSUME HandInv, TypeOK', NEW c \in Caller, NEW r \in Row,
         NextRetry(c, r) \/ ClearError(c, r) \/ Claim(c, r) \/ ClaimFails(c, r)
           \/ StatementFails(c, r) \/ Perform(c, r) \/ Record(c, r) \/ RecordFails(c, r)
           \/ Restore(c, r) \/ RestoreFails(c, r)
  PROVE  HandParts'
<1>0. TypeOK /\ (mode[c] = "idle" => step[c][r] = "none")
  BY DEF HandInv, IdleIsEmpty, Idle
<1>1. CASE NextRetry(c, r)
  <2>1. Becomes(c, r, "clear") /\ step[c][r] = "queued" /\ mode[c] = "retry"
    BY <1>0, <1>1, BecomesFacts DEF NextRetry, Queued, Steps
  <2>2. "clear" \in Steps /\ mode' = mode
          /\ UNCHANGED <<status, failed, performed, unmarked, stuck, unretried, forgotten>>
    BY <1>1 DEF NextRetry, Steps, table, history
  <2>3. IdleIsEmpty' /\ ClearIsRetry'
    BY <2>1, <2>2, IdleMove
  <2>4. ApprovedIsHeld'
    BY <2>1, <2>2, HeldStep DEF HoldsOn, Executing
  <2>5. EffectsAreMarked'
    <3>1. CountsOn(c, r, "clear")
      BY <2>1, <2>2 DEF CountsOn
    <3> QED
      BY <2>1, <2>2, <3>1, MarkedStep
  <2>6. SerialInCall'
    BY <2>1, <2>2, SerialStep DEF Executing
  <2>7. RetryFindsFailed'
    BY <2>1, <2>2, RetryStep
  <2> QED
    BY <2>3, <2>4, <2>5, <2>6, <2>7 DEF HandParts
<1>2. CASE ClearError(c, r)
  <2>1. Becomes(c, r, "claim") /\ step[c][r] = "clear" /\ mode[c] = "retry"
    BY <1>0, <1>2, BecomesFacts DEF ClearError, Steps, HandInv, ClearIsRetry
  <2>2. /\ "claim" \in Steps /\ mode' = mode
        /\ UNCHANGED <<status, performed, unmarked, stuck, unretried, forgotten>>
        /\ \A q \in Row \ {r} : failed'[q] = failed[q]
    BY <1>0, <1>2 DEF ClearError, Steps, history, TypeOK
  <2>3. IdleIsEmpty' /\ ClearIsRetry'
    BY <2>1, <2>2, IdleMove
  <2>4. ApprovedIsHeld'
    BY <2>1, <2>2, HeldStep DEF HoldsOn, Executing
  <2>5. EffectsAreMarked'
    <3>1. CountsOn(c, r, "claim")
      BY <2>1, <2>2 DEF CountsOn
    <3> QED
      BY <2>1, <2>2, <3>1, MarkedStep
  <2>6. SerialInCall'
    BY <2>1, <2>2, SerialStep DEF Executing
  <2>7. RetryFindsFailed'
    BY <2>1, <2>2, RetryStep
  <2> QED
    BY <2>3, <2>4, <2>5, <2>6, <2>7 DEF HandParts
<1>3. CASE Claim(c, r)
  <2>1. Becomes(c, r, "perform") /\ step[c][r] = "claim" /\ MayClaim(c, r)
    BY <1>0, <1>3, BecomesFacts DEF Claim, MayClaim, Steps, Executing
  <2>2. /\ "perform" \in Steps /\ mode' = mode
        /\ UNCHANGED <<failed, performed, unmarked, stuck, unretried, forgotten>>
        /\ \A q \in Row \ {r} : status'[q] = status[q]
        /\ status[r] = "pending" /\ status'[r] = "approved"
    BY <1>0, <1>3 DEF Claim, Claimable, Pending, Steps, Executing, history, TypeOK
  <2>3. IdleIsEmpty' /\ ClearIsRetry'
    BY <1>0, <2>1, <2>2, IdleMove
  <2>4. ApprovedIsHeld'
    BY <2>1, <2>2, HeldStep DEF HoldsOn, Executing
  <2>5. EffectsAreMarked'
    <3>1. CountsOn(c, r, "perform")
      BY <1>0, <2>1, <2>2 DEF CountsOn, Balanced, TypeOK
    <3> QED
      BY <2>1, <2>2, <3>1, MarkedStep
  <2>6. SerialInCall'
    BY <2>1, <2>2, SerialStep DEF Executing
  <2>7. RetryFindsFailed'
    BY <2>1, <2>2, RetryStep
  <2> QED
    BY <2>3, <2>4, <2>5, <2>6, <2>7 DEF HandParts
<1>4. CASE ClaimFails(c, r) \/ StatementFails(c, r)
  <2>1. Leave(c, r) /\ step[c][r] \in {"clear", "claim"}
    BY <1>4 DEF ClaimFails, StatementFails, MayClaim
  <2>2. /\ Becomes(c, r, "none") /\ "none" \in Steps
        /\ \A d \in Caller \ {c} : mode'[d] = mode[d]
        /\ mode'[c] = mode[c] \/ \A q \in Row \ {r} : step[c][q] = "none"
    <3>1. /\ Becomes(c, r, "none")
          /\ \A d \in Caller : mode'[d] = mode[d] \/ mode'[d] = "idle"
          /\ \A d \in Caller \ {c} : mode'[d] = mode[d]
          /\ mode'[c] = "idle" /\ mode[c] # "idle" => \A q \in Row \ {r} : step[c][q] = "none"
      BY <1>0, <2>1, LeaveFacts
    <3> QED
      BY <3>1 DEF Steps
  <2>3. /\ UNCHANGED <<status, failed, performed, unmarked, stuck, unretried>>
        /\ \A q \in Row : q \in forgotten => q \in forgotten'
        /\ step[c][r] = "claim" => status'[r] # "pending" \/ r \notin unretried' \/ r \in forgotten'
    BY <1>4 DEF ClaimFails, StatementFails, Claimable, Pending, table, history
  <2>4. IdleIsEmpty' /\ ClearIsRetry'
    BY <2>1, IdleLeave
  <2>5. ApprovedIsHeld'
    BY <2>1, <2>2, <2>3, HeldStep DEF HoldsOn, Executing
  <2>6. EffectsAreMarked'
    <3>1. CountsOn(c, r, "none")
      BY <2>1, <2>3 DEF CountsOn
    <3> QED
      BY <2>2, <2>3, <3>1, MarkedStep
  <2>7. SerialInCall'
    BY <2>1, <2>2, SerialStep DEF Executing
  <2>8. RetryFindsFailed'
    BY <2>1, <2>2, <2>3, RetryStep
  <2> QED
    BY <2>4, <2>5, <2>6, <2>7, <2>8 DEF HandParts
<1>5. CASE Perform(c, r) \/ RecordFails(c, r)
             \/ (RestoreFails(c, r) /\ step' = [step EXCEPT ![c][r] = "restore"] /\ mode' = mode
                  /\ stuck' = stuck)
  <2>1. PICK x \in {"record", "defer", "restore"} : step' = [step EXCEPT ![c][r] = x]
    BY <1>5 DEF Perform, RecordFails
  <2>2. Becomes(c, r, x) /\ x \in Steps /\ x \in Executing
    BY <1>0, <2>1, BecomesFacts DEF Steps, Executing
  <2>3. /\ step[c][r] \in Executing /\ mode' = mode
        /\ UNCHANGED <<status, failed, stuck, unretried, forgotten>>
    BY <1>5 DEF Perform, RecordFails, RestoreFails, Executing, table
  <2>4. IdleIsEmpty' /\ ClearIsRetry'
    BY <1>0, <2>1, <2>2, <2>3, IdleMove DEF Executing
  <2>5. ApprovedIsHeld'
    BY <2>2, <2>3, HeldStep DEF HoldsOn
  <2>6. EffectsAreMarked'
    <3>1. status[r] = "approved"
      BY <2>3 DEF HandInv, ApprovedIsHeld, At
    <3>2. /\ step'[c][r] = x
          /\ \A q \in Row \ {r} : performed'[q] = performed[q] /\ unmarked'[q] = unmarked[q]
          /\ performed[r] \in Nat /\ unmarked[r] \in Nat
          /\ performed'[r] \in Nat /\ unmarked'[r] \in Nat
      <4>1. step'[c][r] = x /\ performed[r] \in Nat /\ unmarked[r] \in Nat
              /\ performed'[r] \in Nat /\ unmarked'[r] \in Nat
        BY <1>0, <2>2 DEF Becomes, TypeOK
      <4>2. /\ performed' = performed \/ performed' = [performed EXCEPT ![r] = @ + 1]
            /\ unmarked' = unmarked \/ unmarked' = [unmarked EXCEPT ![r] = @ + 1]
        BY <1>5 DEF Perform, RecordFails, RestoreFails
      <4> QED
        BY <1>0, <4>1, <4>2 DEF TypeOK
    <3>3. performed'[r] - unmarked'[r] = performed[r] - unmarked[r]
             + (IF x = "record" THEN 1 ELSE 0) - (IF step[c][r] = "record" THEN 1 ELSE 0)
      <4>1. CASE Perform(c, r)
        <5>1. \/ x = "record" /\ performed' = [performed EXCEPT ![r] = @ + 1]
                 /\ unmarked' = unmarked
              \/ x \in {"defer", "restore"} /\ performed' = performed /\ unmarked' = unmarked
              \/ x = "restore" /\ performed' = [performed EXCEPT ![r] = @ + 1]
                   /\ unmarked' = [unmarked EXCEPT ![r] = @ + 1]
          <6>1. \A y \in Steps : step' = [step EXCEPT ![c][r] = y] => y = x
            BY <1>0, <3>2 DEF TypeOK
          <6> QED
            BY <4>1, <6>1 DEF Perform, Steps, Executing
        <5>2. step[c][r] = "perform"
          BY <4>1 DEF Perform
        <5>3. /\ performed' = performed \/ performed'[r] = performed[r] + 1
              /\ unmarked' = unmarked \/ unmarked'[r] = unmarked[r] + 1
          BY <1>0, <5>1 DEF TypeOK
        <5>4. CASE x = "record" /\ performed' = [performed EXCEPT ![r] = @ + 1]
                     /\ unmarked' = unmarked
          <6>1. performed'[r] = performed[r] + 1
            BY <1>0, <5>4 DEF TypeOK
          <6> QED
            BY <5>2, <5>4, <6>1, <3>2
        <5>5. CASE x \in {"defer", "restore"} /\ performed' = performed /\ unmarked' = unmarked
          BY <5>2, <5>5, <3>2
        <5>6. CASE x = "restore" /\ performed' = [performed EXCEPT ![r] = @ + 1]
                     /\ unmarked' = [unmarked EXCEPT ![r] = @ + 1]
          <6>1. performed'[r] = performed[r] + 1 /\ unmarked'[r] = unmarked[r] + 1
            BY <1>0, <5>6 DEF TypeOK
          <6> QED
            BY <5>2, <5>6, <6>1, <3>2
        <5> QED
          BY <5>1, <5>4, <5>5, <5>6
      <4>2. CASE RecordFails(c, r)
        <5>1. performed' = performed /\ unmarked'[r] = unmarked[r] + 1 /\ step[c][r] = "record"
                /\ step'[c][r] = "restore"
          BY <1>0, <4>2 DEF RecordFails, TypeOK
        <5> QED
          BY <5>1, <3>2
      <4>3. CASE RestoreFails(c, r) /\ step' = [step EXCEPT ![c][r] = "restore"]
        <5>1. performed' = performed /\ unmarked' = unmarked /\ step[c][r] # "record"
                /\ step'[c][r] = "restore"
          BY <1>0, <4>3 DEF RestoreFails, TypeOK
        <5> QED
          BY <5>1, <3>2
      <4> QED
        BY <1>5, <4>1, <4>2, <4>3
    <3>4. CountsOn(c, r, x)
      BY <2>3, <3>1, <3>3 DEF CountsOn, Balanced
    <3> QED
      BY <2>2, <2>3, <3>2, <3>4, MarkedStep
  <2>7. SerialInCall'
    BY <2>2, <2>3, SerialStep
  <2>8. RetryFindsFailed'
    <3>1. status'[r] # "pending"
      BY <2>3 DEF HandInv, ApprovedIsHeld, At
    <3> QED
      BY <2>2, <2>3, <3>1, RetryStep
  <2> QED
    BY <2>4, <2>5, <2>6, <2>7, <2>8 DEF HandParts
<1>6. CASE Record(c, r) \/ Restore(c, r)
             \/ (RestoreFails(c, r) /\ Leave(c, r) /\ stuck' = stuck \union {r})
  <2>1. Leave(c, r) /\ step[c][r] \in {"record", "defer", "restore"}
    BY <1>6 DEF Record, Restore, RestoreFails
  <2>2. /\ Becomes(c, r, "none") /\ "none" \in Steps
        /\ \A d \in Caller \ {c} : mode'[d] = mode[d]
        /\ mode'[c] = mode[c] \/ \A q \in Row \ {r} : step[c][q] = "none"
    <3>1. /\ Becomes(c, r, "none")
          /\ \A d \in Caller : mode'[d] = mode[d] \/ mode'[d] = "idle"
          /\ \A d \in Caller \ {c} : mode'[d] = mode[d]
          /\ mode'[c] = "idle" /\ mode[c] # "idle" => \A q \in Row \ {r} : step[c][q] = "none"
      BY <1>0, <2>1, LeaveFacts
    <3> QED
      BY <3>1 DEF Steps
  <2>3. status[r] = "approved"
    BY <2>1 DEF HandInv, ApprovedIsHeld, At, Executing
  <2>4. performed' = performed /\ unmarked' = unmarked
    BY <1>6 DEF Record, Restore, RestoreFails
  <2>5. \A q \in Row \ {r} : status'[q] = status[q]
    <3>1. \/ status' = [status EXCEPT ![r] = "executed"]
          \/ status' = [status EXCEPT ![r] = "pending"]
          \/ status' = status
      BY <1>6 DEF Record, Restore, RestoreFails, table, StatusAfterFailure
    <3> QED
      BY <1>0, <3>1 DEF TypeOK
  <2>6. \A q \in Row \ {r} : failed'[q] = failed[q]
    <3>1. failed' = [failed EXCEPT ![r] = TRUE] \/ failed' = failed
      BY <1>6 DEF Record, Restore, RestoreFails, table, FailedAfter
    <3> QED
      BY <1>0, <3>1 DEF TypeOK
  <2>7. \A q \in Row \ {r} : /\ q \in unretried' <=> q \in unretried
                             /\ q \in forgotten => q \in forgotten'
    BY <1>6 DEF Record, Restore, RestoreFails
  <2>8. \/ status'[r] = "executed" /\ step[c][r] = "record" /\ stuck' = stuck
           /\ r \notin unretried'
        \/ status'[r] = "pending" /\ step[c][r] # "record" /\ stuck' = stuck /\ failed'[r]
        \/ status'[r] = "approved" /\ step[c][r] # "record" /\ stuck' = stuck \union {r}
    <3>1. CASE Record(c, r)
      BY <1>0, <3>1 DEF Record, TypeOK
    <3>2. CASE Restore(c, r)
      BY <1>0, <3>2 DEF Restore, TypeOK, StatusAfterFailure, FailedAfter
    <3>3. CASE RestoreFails(c, r) /\ Leave(c, r) /\ stuck' = stuck \union {r}
      BY <2>3, <3>3 DEF RestoreFails, table
    <3> QED
      BY <1>6, <3>1, <3>2, <3>3
  <2>9. IdleIsEmpty' /\ ClearIsRetry'
    BY <2>1, IdleLeave
  <2>10. ApprovedIsHeld'
    <3>1. HoldsOn(c, r, "none")
      BY <2>1, <2>3, <2>8 DEF HoldsOn, Executing
    <3> QED
      BY <2>2, <2>5, <3>1, HeldStep
  <2>11. EffectsAreMarked'
    <3>1. performed[r] \in Nat /\ unmarked[r] \in Nat
      BY <1>0 DEF TypeOK
    <3>2. CountsOn(c, r, "none")
      BY <2>1, <2>3, <2>4, <2>8, <3>1 DEF CountsOn, Balanced, Executing
    <3> QED
      BY <2>2, <2>4, <2>5, <3>2, MarkedStep
  <2>12. SerialInCall'
    BY <2>1, <2>2, SerialStep DEF Executing
  <2>13. RetryFindsFailed'
    <3>1. status'[r] # "pending" \/ r \notin unretried' \/ failed'[r]
      BY <2>8
    <3>2. \A q \in Row \ {r} : /\ status'[q] = status[q]
                               /\ failed'[q] = failed[q]
                               /\ q \in unretried' <=> q \in unretried
                               /\ q \in forgotten => q \in forgotten'
      BY <2>5, <2>6, <2>7
    <3> QED
      BY <2>2, <3>1, <3>2, RetryStep
  <2> QED
    BY <2>9, <2>10, <2>11, <2>12, <2>13 DEF HandParts
<1> QED
  BY <1>1, <1>2, <1>3, <1>4, <1>5, <1>6 DEF RestoreFails

\* A restart empties every hand.
LEMMA HandRestart ==
  ASSUME HandInv, TypeOK', Restart
  PROVE  HandParts'
<1> USE DEF HandInv
<1>1. /\ \A c \in Caller : mode'[c] = "idle" /\ \A r \in Row : step'[c][r] = "none"
      /\ UNCHANGED <<table, performed, unretried>>
      /\ stuck' = stuck \union At(Executing)
      /\ forgotten' = forgotten \union (At({"claim"}) \cap unretried)
      /\ unmarked' = [r \in Row |-> unmarked[r] + (IF r \in At({"record"}) THEN 1 ELSE 0)]
  BY DEF Restart, Executing
<1>2. At({"record"})' = {} /\ At(Executing)' = {}
  BY <1>1 DEF At, Executing
<1>3. IdleIsEmpty' /\ ClearIsRetry' /\ SerialInCall'
  BY <1>1 DEF IdleIsEmpty, ClearIsRetry, SerialInCall, Executing
<1>4. ApprovedIsHeld'
  BY <1>1, <1>2 DEF ApprovedIsHeld, table, Executing
<1>5. EffectsAreMarked'
  <2>1. ASSUME NEW r \in Row
        PROVE  performed'[r] = unmarked'[r]
                 + (IF status'[r] = "executed" \/ r \in At({"record"})' THEN 1 ELSE 0)
    <3>1. r \in At({"record"}) => status[r] = "approved"
      BY DEF ApprovedIsHeld, At, Executing
    <3>2. performed[r] = unmarked[r]
                 + (IF status[r] = "executed" \/ r \in At({"record"}) THEN 1 ELSE 0)
      BY DEF EffectsAreMarked
    <3>3. unmarked'[r] = unmarked[r] + (IF r \in At({"record"}) THEN 1 ELSE 0)
      BY <1>1
    <3>4. unmarked[r] \in Nat /\ performed'[r] = performed[r] /\ status'[r] = status[r]
      BY <1>1 DEF TypeOK, table
    <3> QED
      BY <1>2, <3>1, <3>2, <3>3, <3>4
  <2> QED
    BY <2>1 DEF EffectsAreMarked
<1>6. RetryFindsFailed'
  <2>1. \A r \in unretried : Pending(r) => failed[r] \/ r \in forgotten \/ r \in At({"claim"})
    BY DEF RetryFindsFailed, At, TypeOK
  <2> QED
    BY <1>1, <2>1 DEF RetryFindsFailed, Pending, table
<1> QED
  BY <1>3, <1>4, <1>5, <1>6 DEF HandParts

\* Rows appear by Insert only, and no row disappears.
LEMMA RowsNext == HandInv /\ [Next]_vars => RowsAreInserted'
<1> SUFFICES ASSUME HandInv, [Next]_vars PROVE RowsAreInserted'
  OBVIOUS
<1>0. TypeOK /\ RowsAreInserted /\ ApprovedIsHeld
  BY DEF HandInv
<1>1. ASSUME NEW s \in Signal, Insert(s) PROVE RowsAreInserted'
  BY <1>0, <1>1 DEF Insert, RowsAreInserted, TypeOK, Row, history
<1>2. ASSUME sig' \in [Signal -> {"new", "look", "merge", "insert", "merged", "inserted", "dropped"}],
             \A s \in Signal : sig'[s] = "inserted" <=> sig[s] = "inserted",
             \A r \in Row : status'[r] = "absent" <=> status[r] = "absent",
             \A r \in unretried' : r \in unretried \/ status[r] # "absent",
             unretried' \subseteq Row
      PROVE  RowsAreInserted'
  BY <1>0, <1>2 DEF RowsAreInserted, Row, TypeOK
<1>3. TypeOK'
  BY <1>0, TypeNext
<1>4. ASSUME NEW s \in Signal, Enter(s) \/ Look(s) \/ Merge(s) \/ EnqueueFails(s)
      PROVE  RowsAreInserted'
  <2>1. /\ status' = status /\ unretried' = unretried
        /\ \E x \in {"look", "merge", "insert", "merged", "dropped"} :
             sig' = [sig EXCEPT ![s] = x]
        /\ sig[s] # "inserted"
    BY <1>4 DEF Enter, Look, Merge, EnqueueFails, InEnqueue, StatusAfterMerge, table, history
  <2> QED
    BY <1>0, <1>2, <1>3, <2>1 DEF TypeOK
<1>5. ASSUME sig' = sig, unretried' = unretried,
             \A r \in Row : status'[r] = status[r]
                          \/ (status[r] # "absent" /\ status'[r] # "absent")
      PROVE  RowsAreInserted'
  BY <1>0, <1>2, <1>3, <1>5 DEF TypeOK
<1>6. ASSUME \/ \E S \in SUBSET Row : Dismiss(S)
             \/ expireStale
             \/ \E r \in Row : FallDue(r)
      PROVE  RowsAreInserted'
  <2>1. sig' = sig /\ unretried' = unretried
    BY <1>6 DEF Dismiss, expireStale, FallDue, intake, history
  <2>2. \A r \in Row : status'[r] = status[r] \/ (status[r] # "absent" /\ status'[r] # "absent")
    BY <1>6 DEF Dismiss, expireStale, FallDue, Pending, Overdue
  <2> QED
    BY <1>5, <2>1, <2>2
<1>7. ASSUME NEW c \in Caller, NEW r \in Row, Restore(c, r) \/ Record(c, r)
      PROVE  RowsAreInserted'
  <2>1. status[r] = "approved"
    BY <1>0, <1>7 DEF ApprovedIsHeld, At, Executing, Restore, Record
  <2>2. /\ sig' = sig
        /\ \E x \in {"pending", "executed"} : status' = [status EXCEPT ![r] = x]
        /\ unretried' \subseteq unretried \union {r}
    BY <1>7 DEF Restore, Record, StatusAfterFailure, intake
  <2> QED
    BY <1>0, <1>2, <1>3, <2>1, <2>2 DEF TypeOK
<1>8. ASSUME NEW c \in Caller, NEW r \in Row, Claim(c, r) PROVE RowsAreInserted'
  <2>1. status[r] = "pending" /\ status' = [status EXCEPT ![r] = "approved"]
          /\ sig' = sig /\ unretried' = unretried
    BY <1>8 DEF Claim, Claimable, Pending, intake, history
  <2> QED
    BY <1>0, <1>5, <2>1 DEF TypeOK
<1>9. ASSUME sig' = sig, unretried' = unretried, status' = status PROVE RowsAreInserted'
  <2>1. \A r \in Row : status'[r] = status[r]
    BY <1>9
  <2> QED
    BY <1>5, <1>9, <2>1
<1>10. CASE Restart
  <2>1. \A s \in Signal : sig'[s] = "inserted" <=> sig[s] = "inserted"
    BY <1>10 DEF Restart, InEnqueue
  <2> QED
    BY <1>0, <1>2, <1>3, <1>10, <2>1 DEF Restart, TypeOK, table
<1>11. ASSUME NEW c \in Caller, CallStep(c) PROVE RowsAreInserted'
  <2>1. CASE \/ \E r \in Row : ExecuteOne(c, r)
             \/ \E S \in SUBSET Row : batchExecute(c, S)
             \/ retryFailed(c)
    BY <1>9, <2>1 DEF ExecuteOne, batchExecute, retryFailed, Begin, table, intake
  <2>2. CASE \/ \E W \in SUBSET Row : NextWave(c, W)
             \/ \E r \in Row : NextRetry(c, r) \/ ClearError(c, r)
    BY <1>9, <2>2 DEF NextWave, NextRetry, ClearError, table, intake, history
  <2>3. CASE \E r \in Row : ClaimFails(c, r) \/ Perform(c, r) \/ StatementFails(c, r)
                           \/ RecordFails(c, r) \/ RestoreFails(c, r)
    BY <1>9, <2>3 DEF ClaimFails, Perform, StatementFails, RecordFails, RestoreFails, table,
                      intake, history
  <2> QED
    BY <1>7, <1>8, <1>11, <2>1, <2>2, <2>3 DEF CallStep, Proceed
<1>12. CASE UNCHANGED vars
  BY <1>9, <1>12 DEF vars, table, intake, history
<1> QED
  BY <1>1, <1>4, <1>6, <1>10, <1>11, <1>12 DEF Next, EnqueueStep

\* HandInv is inductive.
LEMMA HandNext == HandInv /\ [Next]_vars => HandInv'
<1> SUFFICES ASSUME HandInv, [Next]_vars PROVE HandInv'
  OBVIOUS
<1>0. TypeOK /\ TypeOK' /\ RowsAreInserted /\ RowsAreInserted'
  BY TypeNext, RowsNext DEF HandInv
<1>1. ASSUME NEW s \in Signal, EnqueueStep(s) PROVE HandParts'
  <2>1. UNCHANGED <<calls, failed, performed, unmarked, stuck, unretried, forgotten>>
    BY <1>1 DEF EnqueueStep, Enter, Look, Merge, Insert, EnqueueFails, table, history
  <2>2. status' = status \/ (status' = [status EXCEPT ![s] = "pending"] /\ sig[s] = "insert")
    BY <1>1 DEF EnqueueStep, Enter, Look, Merge, Insert, EnqueueFails, StatusAfterMerge, table
  <2>3. \A r \in Row : Touched(r)
    BY <1>0, <2>2 DEF Touched, RowsAreInserted, Row, TypeOK
  <2> QED
    BY <2>1, <2>3, TableStep DEF HandParts
<1>2. ASSUME \/ \E S \in SUBSET Row : Dismiss(S)
             \/ expireStale
             \/ \E r \in Row : FallDue(r)
             \/ UNCHANGED vars
      PROVE  HandParts'
  <2>1. UNCHANGED <<calls, failed, performed, unmarked, stuck, unretried, forgotten>>
    BY <1>2 DEF Dismiss, expireStale, FallDue, vars, table, history
  <2>2. \A r \in Row : Touched(r)
    BY <1>2 DEF Touched, Dismiss, expireStale, FallDue, Pending, Overdue, vars, table
  <2> QED
    BY <2>1, <2>2, TableStep DEF HandParts
<1>3. ASSUME NEW c \in Caller, CallStep(c) PROVE HandParts'
  <2>1. CASE \/ \E r \in Row : ExecuteOne(c, r)
             \/ \E S \in SUBSET Row : batchExecute(c, S)
             \/ retryFailed(c)
    BY <2>1, HandBegin DEF ExecuteOne, batchExecute, retryFailed
  <2>2. CASE \E W \in SUBSET Row : NextWave(c, W)
    BY <2>2, HandWave
  <2> QED
    BY <1>0, <1>3, <2>1, <2>2, HandOfCall DEF CallStep, Proceed
<1>4. ASSUME Restart PROVE HandParts'
  BY <1>0, <1>4, HandRestart
<1>5. HandParts'
  BY <1>1, <1>2, <1>3, <1>4 DEF Next
<1> QED
  BY <1>0, <1>5 DEF HandInv, HandParts

-----------------------------------------------------------------------------

\* The state of the calls and of the table keeps HandInv.
LEMMA HandAlways == Spec => []HandInv
BY HandInit, HandNext, PTL DEF Spec

\* Every variable keeps its type: a status, a step or a mode is one that some
\* statement of the service asks for.
THEOREM ActionTypes == Spec => []TypeOK
<1>1. HandInv => TypeOK
  BY DEF HandInv
<1> QED
  BY <1>1, HandAlways, PTL

\* However single executions, batches, retries, dismissals, expiry, failed
\* statements and restarts overlap: an approved row is held by one call.
THEOREM ApprovedRowsAreHeld == Spec => []ApprovedIsHeld
<1>1. HandInv => ApprovedIsHeld
  BY DEF HandInv
<1> QED
  BY <1>1, HandAlways, PTL

\* ... and it takes effect once for every mark, or error that withheld it.
THEOREM ActionsTakeEffectOnce == Spec => []EffectsAreMarked
<1>1. HandInv => EffectsAreMarked
  BY DEF HandInv
<1> QED
  BY <1>1, HandAlways, PTL

\* One call runs the rows of one resource one after the other.
THEOREM GroupsAreSerial == Spec => []SerialInCall
<1>1. HandInv => SerialInCall
  BY DEF HandInv
<1> QED
  BY <1>1, HandAlways, PTL

\* A row whose execution failed can be found by retryFailed.
THEOREM FailedRowsAreFound == Spec => []RetryFindsFailed
<1>1. HandInv => RetryFindsFailed
  BY DEF HandInv
<1> QED
  BY <1>1, HandAlways, PTL

\* A decision stands, whatever the other handlers do meanwhile.
THEOREM DecisionsAreFinal == Spec => DecisionIsFinal
<1>1. HandInv /\ [Next]_vars =>
        [\A r \in Row : status[r] \in Outcome => status'[r] = status[r]]_vars
  <2> SUFFICES ASSUME HandInv, Next
               PROVE  \A r \in Row : status[r] \in Outcome => status'[r] = status[r]
    OBVIOUS
  <2>0. TypeOK /\ RowsAreInserted /\ ApprovedIsHeld
    BY DEF HandInv
  <2> SUFFICES ASSUME NEW q \in Row, status[q] \in Outcome PROVE status'[q] = status[q]
    OBVIOUS
  <2>1. ASSUME NEW s \in Signal, EnqueueStep(s) PROVE status'[q] = status[q]
    <3>1. status' = status \/ (status' = [status EXCEPT ![s] = "pending"] /\ sig[s] = "insert")
      BY <2>1 DEF EnqueueStep, Enter, Look, Merge, Insert, EnqueueFails, StatusAfterMerge, table
    <3>2. sig[s] = "insert" => status[s] = "absent"
      BY <2>0 DEF RowsAreInserted
    <3> QED
      BY <2>0, <3>1, <3>2 DEF TypeOK, Outcome
  <2>2. ASSUME \/ \E S \in SUBSET Row : Dismiss(S)
               \/ expireStale
               \/ \E r \in Row : FallDue(r)
        PROVE  status'[q] = status[q]
    BY <2>2 DEF Dismiss, expireStale, FallDue, Pending, Overdue, Outcome
  <2>3. ASSUME NEW c \in Caller, NEW r \in Row, Restore(c, r) \/ Record(c, r) \/ Claim(c, r)
        PROVE  status'[q] = status[q]
    <3>1. status[r] \in {"pending", "approved"}
      BY <2>0, <2>3 DEF ApprovedIsHeld, At, Executing, Restore, Record, Claim, Claimable, Pending
    <3>2. \E x \in {"pending", "approved", "executed"} : status' = [status EXCEPT ![r] = x]
      BY <2>3 DEF Restore, Record, Claim, StatusAfterFailure
    <3> QED
      BY <2>0, <3>1, <3>2 DEF TypeOK, Outcome
  <2>4. ASSUME NEW c \in Caller, CallStep(c) PROVE status'[q] = status[q]
    <3>1. CASE \/ \E r \in Row : ExecuteOne(c, r)
               \/ \E S \in SUBSET Row : batchExecute(c, S)
               \/ retryFailed(c)
      BY <3>1 DEF ExecuteOne, batchExecute, retryFailed, Begin, table
    <3>2. CASE \/ \E W \in SUBSET Row : NextWave(c, W)
               \/ \E r \in Row : NextRetry(c, r) \/ ClearError(c, r)
      BY <3>2 DEF NextWave, NextRetry, ClearError, table
    <3>3. CASE \E r \in Row : ClaimFails(c, r) \/ Perform(c, r) \/ StatementFails(c, r)
                             \/ RecordFails(c, r) \/ RestoreFails(c, r)
      BY <3>3 DEF ClaimFails, Perform, StatementFails, RecordFails, RestoreFails, table
    <3> QED
      BY <2>3, <2>4, <3>1, <3>2, <3>3 DEF CallStep, Proceed
  <2>5. CASE Restart
    BY <2>5 DEF Restart, table
  <2> QED
    BY <2>1, <2>2, <2>4, <2>5 DEF Next
<1> QED
  BY <1>1, HandAlways, PTL DEF Spec, DecisionIsFinal

-----------------------------------------------------------------------------

\* A row that a signal can be merged into.
Live(r) == Pending(r) /\ ~overdue[r]

\* Without a race, one signal of a sender is in enqueue at a time.
OneEnqueue ==
  \A s, t \in Signal :
    InEnqueue(s) /\ InEnqueue(t) /\ Sender[s] = Sender[t] /\ s # t => Sender[s] \in raced

\* What the SELECT saw is still so when the INSERT comes ...
InsertIsFirst ==
  \A s \in Signal : sig[s] = "insert" /\ Sender[s] \notin raced =>
    \A r \in Row : Live(r) => Sender[r] # Sender[s]

\* ... and when the UPDATE does.
MatchIsRow ==
  \A s \in Signal : sig[s] = "merge" =>
    Sender[match[s]] = Sender[s] /\ status[match[s]] # "absent"

MergeIsCurrent ==
  \A s \in Signal : sig[s] = "merge" /\ Sender[s] \notin raced =>
    /\ seen[s] = refs[match[s]]
    /\ \A r \in Row : Live(r) /\ Sender[r] = Sender[s] => r = match[s]

\* A row of its own sender carries an accepted signal.
CarriedBySender ==
  \A s \in Signal :
    sig[s] \in {"merged", "inserted"} /\ Sender[s] \notin raced =>
      \E r \in Row : Sender[r] = Sender[s] /\ s \in refs[r]

AbsentIsEmpty == \A r \in Row : status[r] = "absent" => refs[r] = {}

SignalInv ==
  /\ OneEnqueue
  /\ InsertIsFirst
  /\ MatchIsRow
  /\ MergeIsCurrent
  /\ CarriedBySender
  /\ AbsentIsEmpty
  /\ NoTwins

\* Before the first call there is one row for a sender at most.
LEMMA SignalInit == Init => SignalInv
<1> SUFFICES ASSUME Init PROVE SignalInv
  OBVIOUS
<1> USE OldAssumption DEF Init
<1>1. OneEnqueue /\ InsertIsFirst /\ MatchIsRow /\ MergeIsCurrent
  BY DEF OneEnqueue, InsertIsFirst, MatchIsRow, MergeIsCurrent, InEnqueue
<1>2. CarriedBySender /\ AbsentIsEmpty
  BY DEF CarriedBySender, AbsentIsEmpty, Row
<1>3. NoTwins
  BY DEF NoTwins, Pending, Row
<1> QED
  BY <1>1, <1>2, <1>3 DEF SignalInv

\* A step under which no sender without a race gains a live row.
LEMMA SignalQuiet ==
  ASSUME SignalInv, TypeOK, TypeOK', refs' = refs, raced \subseteq raced',
         \A r \in Row : Live(r)' /\ Sender[r] \notin raced' => Live(r),
         \A r \in Row : status'[r] = "absent" <=> status[r] = "absent",
         \A s \in Signal : \/ sig'[s] = sig[s] /\ match'[s] = match[s] /\ seen'[s] = seen[s]
                           \/ sig'[s] = "dropped"
  PROVE  SignalInv'
<1>1. OneEnqueue'
  BY DEF SignalInv, OneEnqueue, InEnqueue
<1>2. InsertIsFirst'
  BY DEF SignalInv, InsertIsFirst
<1>3. MatchIsRow'
  <2> SUFFICES ASSUME NEW s \in Signal, sig'[s] = "merge"
               PROVE  Sender[match'[s]] = Sender[s] /\ status'[match'[s]] # "absent"
    BY DEF MatchIsRow
  <2>1. sig[s] = "merge" /\ match'[s] = match[s] /\ match[s] \in Row
    BY DEF TypeOK
  <2> QED
    BY <2>1 DEF SignalInv, MatchIsRow
<1>4. MergeIsCurrent'
  BY DEF SignalInv, MergeIsCurrent
<1>5. CarriedBySender' /\ AbsentIsEmpty'
  BY DEF SignalInv, CarriedBySender, AbsentIsEmpty
<1>6. NoTwins'
  BY DEF SignalInv, NoTwins, Live
<1> QED
  BY <1>1, <1>2, <1>3, <1>4, <1>5, <1>6 DEF SignalInv

LEMMA SignalEnter ==
  ASSUME SignalInv, TypeOK, TypeOK', NEW s \in Signal, Enter(s)
  PROVE  SignalInv'
<1>1. /\ sig[s] = "new" /\ sig' = [sig EXCEPT ![s] = "look"]
      /\ raced' = raced \union Overlaps(s)
      /\ UNCHANGED <<status, refs, overdue, match, seen>>
  BY DEF Enter, table
<1>2. \A t \in Signal : t # s => sig'[t] = sig[t]
  BY <1>1 DEF TypeOK
<1>3. sig'[s] = "look"
  BY <1>1 DEF TypeOK
<1>4. OneEnqueue'
  <2>1. \A t \in Signal \ {s} : InEnqueue(t) /\ Sender[t] = Sender[s] => Sender[s] \in raced'
    BY <1>1 DEF Overlaps
  <2> QED
    BY <1>1, <1>2, <1>3, <2>1 DEF SignalInv, OneEnqueue, InEnqueue
<1>5. InsertIsFirst' /\ MatchIsRow' /\ MergeIsCurrent'
  BY <1>1, <1>2, <1>3 DEF SignalInv, InsertIsFirst, MatchIsRow, MergeIsCurrent, Live, Pending
<1>6. CarriedBySender' /\ AbsentIsEmpty' /\ NoTwins'
  BY <1>1, <1>2, <1>3 DEF SignalInv, CarriedBySender, AbsentIsEmpty, NoTwins, Pending
<1> QED
  BY <1>4, <1>5, <1>6 DEF SignalInv

LEMMA SignalLook ==
  ASSUME SignalInv, TypeOK, TypeOK', NEW s \in Signal, Look(s)
  PROVE  SignalInv'
<1>1. sig[s] = "look" /\ UNCHANGED <<status, refs, overdue, raced>>
  BY DEF Look, table, history
<1>2. \/ \E r \in Candidates(s) : sig'[s] = "merge" /\ match'[s] = r /\ seen'[s] = refs[r]
      \/ Candidates(s) = {} /\ sig'[s] = "insert"
  BY DEF Look, TypeOK, Candidates
<1>3. \A t \in Signal : t # s => sig'[t] = sig[t] /\ match'[t] = match[t] /\ seen'[t] = seen[t]
  BY DEF Look, TypeOK
<1>4. OneEnqueue'
  BY <1>1, <1>2, <1>3 DEF SignalInv, OneEnqueue, InEnqueue
<1>5. InsertIsFirst'
  BY <1>1, <1>2, <1>3 DEF SignalInv, InsertIsFirst, Candidates, Live, Pending
<1>6. MatchIsRow'
  BY <1>1, <1>2, <1>3 DEF SignalInv, MatchIsRow, Candidates, Pending
<1>7. MergeIsCurrent'
  BY <1>1, <1>2, <1>3 DEF SignalInv, MergeIsCurrent, NoTwins, Candidates, Live, Pending
<1>8. CarriedBySender' /\ AbsentIsEmpty' /\ NoTwins'
  BY <1>1, <1>2, <1>3 DEF SignalInv, CarriedBySender, AbsentIsEmpty, NoTwins, Pending
<1> QED
  BY <1>4, <1>5, <1>6, <1>7, <1>8 DEF SignalInv

LEMMA SignalMerge ==
  ASSUME SignalInv, TypeOK, TypeOK', NEW s \in Signal, Merge(s)
  PROVE  SignalInv'
<1> DEFINE m == match[s]
<1>1. /\ sig[s] = "merge" /\ sig'[s] = "merged" /\ m \in Row
      /\ UNCHANGED <<status, raced>>
      /\ refs' = [refs EXCEPT ![m] = seen[s] \union {s}]
      /\ overdue' = [overdue EXCEPT ![m] = FALSE]
  BY DEF Merge, MergedRefs, StatusAfterMerge, TypeOK, history
<1>2. \A t \in Signal : t # s => sig'[t] = sig[t] /\ match'[t] = match[t] /\ seen'[t] = seen[t]
  BY DEF Merge, TypeOK
<1>3. Sender[m] = Sender[s] /\ status[m] # "absent"
  BY <1>1 DEF SignalInv, MatchIsRow
<1>4. \A r \in Row : r # m => refs'[r] = refs[r] /\ overdue'[r] = overdue[r]
  BY <1>1 DEF TypeOK
<1>5. refs'[m] = seen[s] \union {s}
  BY <1>1 DEF TypeOK
<1>6. \A t \in Signal : t # s /\ InEnqueue(t) /\ Sender[t] \notin raced => Sender[t] # Sender[s]
  BY <1>1 DEF SignalInv, OneEnqueue, InEnqueue
<1>7. Sender[s] \notin raced => /\ seen[s] = refs[m]
                                /\ \A r \in Row : Live(r) /\ Sender[r] = Sender[s] => r = m
  BY <1>1 DEF SignalInv, MergeIsCurrent
<1> HIDE DEF m
<1>8. OneEnqueue'
  BY <1>1, <1>2 DEF SignalInv, OneEnqueue, InEnqueue
<1>9. InsertIsFirst'
  BY <1>1, <1>2, <1>3, <1>4, <1>6 DEF SignalInv, InsertIsFirst, Live, Pending, InEnqueue
<1>10. MatchIsRow'
  BY <1>1, <1>2 DEF SignalInv, MatchIsRow
<1>11. MergeIsCurrent'
  <2> SUFFICES ASSUME NEW t \in Signal, sig'[t] = "merge", Sender[t] \notin raced
               PROVE  /\ seen'[t] = refs'[match'[t]]
                      /\ \A r \in Row : Live(r)' /\ Sender[r] = Sender[t] => r = match'[t]
    BY <1>1 DEF MergeIsCurrent
  <2>1. t # s /\ sig[t] = "merge" /\ Sender[t] # Sender[s] /\ match[t] \in Row
    BY <1>1, <1>2, <1>6 DEF InEnqueue, TypeOK
  <2>2. Sender[match[t]] = Sender[t] /\ seen[t] = refs[match[t]]
          /\ \A r \in Row : Live(r) /\ Sender[r] = Sender[t] => r = match[t]
    BY <2>1 DEF SignalInv, MatchIsRow, MergeIsCurrent
  <2>3. match[t] # m
    BY <1>3, <2>1, <2>2
  <2>4. \A r \in Row : Sender[r] = Sender[t] => (Live(r)' <=> Live(r))
    BY <1>1, <1>3, <1>4, <2>1 DEF Live, Pending
  <2> QED
    BY <1>2, <1>4, <2>1, <2>2, <2>3, <2>4
<1>12. CarriedBySender'
  <2> SUFFICES ASSUME NEW t \in Signal, sig'[t] \in {"merged", "inserted"}, Sender[t] \notin raced
               PROVE  \E r \in Row : Sender[r] = Sender[t] /\ t \in refs'[r]
    BY <1>1 DEF CarriedBySender
  <2>1. CASE t = s
    BY <1>1, <1>3, <1>5, <2>1
  <2>2. CASE t # s
    <3>1. PICK r \in Row : Sender[r] = Sender[t] /\ t \in refs[r]
      BY <1>2, <2>2 DEF SignalInv, CarriedBySender
    <3>2. CASE r = m
      BY <1>1, <1>3, <1>5, <1>7, <3>1, <3>2
    <3>3. CASE r # m
      BY <1>4, <3>1, <3>3
    <3> QED
      BY <3>2, <3>3
  <2> QED
    BY <2>1, <2>2
<1>13. AbsentIsEmpty'
  BY <1>1, <1>3, <1>4 DEF SignalInv, AbsentIsEmpty
<1>14. NoTwins'
  <2> SUFFICES ASSUME NEW q \in Row, NEW r \in Row, Live(q)', Live(r)', Sender[q] = Sender[r],
                      Sender[r] \notin raced
               PROVE  q = r
    BY <1>1 DEF NoTwins, Live
  <2>1. CASE Sender[r] = Sender[s]
    <3>1. \A x \in Row : Live(x)' => x = m \/ Live(x)
      BY <1>1, <1>4 DEF Live, Pending
    <3> QED
      BY <1>7, <2>1, <3>1
  <2>2. CASE Sender[r] # Sender[s]
    <3>1. Live(q) /\ Live(r)
      BY <1>1, <1>3, <1>4, <2>2 DEF Live, Pending
    <3> QED
      BY <3>1 DEF SignalInv, NoTwins, Live
  <2> QED
    BY <2>1, <2>2
<1> QED
  BY <1>8, <1>9, <1>10, <1>11, <1>12, <1>13, <1>14 DEF SignalInv

LEMMA SignalInsert ==
  ASSUME SignalInv, TypeOK, TypeOK', RowsAreInserted, NEW s \in Signal, Insert(s)
  PROVE  SignalInv'
<1>1. /\ sig[s] = "insert" /\ sig'[s] = "inserted" /\ status'[s] = "pending" /\ refs'[s] = {s}
      /\ UNCHANGED <<overdue, match, seen, raced>>
  BY DEF Insert, TypeOK, Row, history
<1>2. \A t \in Signal : t # s => sig'[t] = sig[t] /\ status'[t] = status[t] /\ refs'[t] = refs[t]
  BY DEF Insert, TypeOK, Row
<1>3. status[s] = "absent" /\ refs[s] = {}
  BY <1>1 DEF RowsAreInserted, SignalInv, AbsentIsEmpty, Row
<1>4. \A t \in Signal : t # s /\ InEnqueue(t) /\ Sender[t] \notin raced => Sender[t] # Sender[s]
  BY <1>1 DEF SignalInv, OneEnqueue, InEnqueue
<1>5. Sender[s] \notin raced => \A r \in Row : Live(r) => Sender[r] # Sender[s]
  BY <1>1 DEF SignalInv, InsertIsFirst
<1>6. \A r \in Row : r # s => (Live(r)' <=> Live(r))
  BY <1>1, <1>2 DEF Live, Pending, Row
<1>7. OneEnqueue'
  BY <1>1, <1>2 DEF SignalInv, OneEnqueue, InEnqueue
<1>8. InsertIsFirst'
  <2> SUFFICES ASSUME NEW t \in Signal, sig'[t] = "insert", Sender[t] \notin raced,
                      NEW r \in Row, Live(r)'
               PROVE  Sender[r] # Sender[t]
    BY <1>1 DEF InsertIsFirst
  <2>1. t # s /\ sig[t] = "insert" /\ Sender[t] # Sender[s]
    BY <1>1, <1>2, <1>4 DEF InEnqueue
  <2> QED
    BY <1>6, <2>1 DEF SignalInv, InsertIsFirst
<1>9. MatchIsRow'
  BY <1>1, <1>2 DEF SignalInv, MatchIsRow, TypeOK, Row
<1>10. MergeIsCurrent'
  <2> SUFFICES ASSUME NEW t \in Signal, sig'[t] = "merge", Sender[t] \notin raced
               PROVE  /\ seen'[t] = refs'[match'[t]]
                      /\ \A r \in Row : Live(r)' /\ Sender[r] = Sender[t] => r = match'[t]
    BY <1>1 DEF MergeIsCurrent
  <2>1. t # s /\ sig[t] = "merge" /\ Sender[t] # Sender[s] /\ match[t] \in Row
    BY <1>1, <1>2, <1>4 DEF InEnqueue, TypeOK
  <2>2. match[t] # s
    BY <1>3, <2>1 DEF SignalInv, MatchIsRow
  <2> QED
    BY <1>1, <1>2, <1>6, <2>1, <2>2 DEF SignalInv, MergeIsCurrent, Row
<1>11. CarriedBySender'
  <2> SUFFICES ASSUME NEW t \in Signal, sig'[t] \in {"merged", "inserted"}, Sender[t] \notin raced
               PROVE  \E r \in Row : Sender[r] = Sender[t] /\ t \in refs'[r]
    BY <1>1 DEF CarriedBySender
  <2>1. CASE t = s
    BY <1>1, <2>1 DEF Row
  <2>2. CASE t # s
    <3>1. PICK r \in Row : Sender[r] = Sender[t] /\ t \in refs[r]
      BY <1>2, <2>2 DEF SignalInv, CarriedBySender
    <3>2. r # s
      BY <1>3, <3>1
    <3> QED
      BY <1>2, <3>1, <3>2 DEF Row
  <2> QED
    BY <2>1, <2>2
<1>12. AbsentIsEmpty'
  BY <1>1, <1>2 DEF SignalInv, AbsentIsEmpty, Row
<1>13. NoTwins'
  <2> SUFFICES ASSUME NEW q \in Row, NEW r \in Row, Live(q)', Live(r)', Sender[q] = Sender[r],
                      Sender[r] \notin raced
               PROVE  q = r
    BY <1>1 DEF NoTwins, Live
  <2> QED
    BY <1>5, <1>6 DEF SignalInv, NoTwins, Live
<1> QED
  BY <1>7, <1>8, <1>9, <1>10, <1>11, <1>12, <1>13 DEF SignalInv

\* SignalInv is inductive, given HandInv.
LEMMA SignalNext == HandInv /\ SignalInv /\ [Next]_vars => SignalInv'
<1> SUFFICES ASSUME HandInv, SignalInv, [Next]_vars PROVE SignalInv'
  OBVIOUS
<1>0. TypeOK /\ TypeOK' /\ RowsAreInserted /\ RowsAreInserted' /\ ApprovedIsHeld
  BY TypeNext, RowsNext DEF HandInv
<1>1. ASSUME refs' = refs, sig' = sig, match' = match, seen' = seen, raced' = raced,
             \A r \in Row : \/ status'[r] = status[r] /\ overdue'[r] = overdue[r]
                            \/ status[r] # "absent" /\ status'[r] \notin {"absent", "pending"}
                            \/ status'[r] = status[r] /\ overdue'[r]
      PROVE  SignalInv'
  BY <1>0, <1>1, SignalQuiet DEF Live, Pending
<1>2. ASSUME refs' = refs, sig' = sig, match' = match, seen' = seen, raced' = raced,
             status' = status, overdue' = overdue
      PROVE  SignalInv'
  BY <1>1, <1>2
<1>3. ASSUME NEW s \in Signal, EnqueueStep(s) PROVE SignalInv'
  <2>1. CASE EnqueueFails(s)
    <3>1. /\ refs' = refs /\ raced' = raced /\ status' = status /\ overdue' = overdue
          /\ \A t \in Signal :
               \/ sig'[t] = sig[t] /\ match'[t] = match[t] /\ seen'[t] = seen[t]
               \/ sig'[t] = "dropped"
      BY <1>0, <2>1 DEF EnqueueFails, TypeOK, table
    <3> QED
      BY <1>0, <3>1, SignalQuiet DEF Live, Pending
  <2> QED
    BY <1>0, <1>3, <2>1, SignalEnter, SignalLook, SignalMerge, SignalInsert DEF EnqueueStep
<1>4. ASSUME \/ \E S \in SUBSET Row : Dismiss(S)
             \/ expireStale
             \/ \E r \in Row : FallDue(r)
      PROVE  SignalInv'
  <2>1. refs' = refs /\ sig' = sig /\ match' = match /\ seen' = seen /\ raced' = raced
    BY <1>4 DEF Dismiss, expireStale, FallDue, intake, history
  <2>2. \A r \in Row : \/ status'[r] = status[r] /\ overdue'[r] = overdue[r]
                       \/ status[r] # "absent" /\ status'[r] \notin {"absent", "pending"}
                       \/ status'[r] = status[r] /\ overdue'[r]
    BY <1>0, <1>4 DEF Dismiss, expireStale, FallDue, Pending, Overdue, TypeOK
  <2> QED
    BY <1>1, <2>1, <2>2
<1>5. ASSUME NEW c \in Caller, NEW r \in Row, Claim(c, r) \/ Record(c, r) PROVE SignalInv'
  <2>1. refs' = refs /\ sig' = sig /\ match' = match /\ seen' = seen /\ raced' = raced
          /\ overdue' = overdue
    BY <1>5 DEF Claim, Record, intake, history
  <2>2. status[r] # "absent"
    BY <1>0, <1>5 DEF ApprovedIsHeld, At, Executing, Record, Claim, Claimable, Pending
  <2>3. \E x \in {"approved", "executed"} : status' = [status EXCEPT ![r] = x]
    BY <1>5 DEF Claim, Record
  <2>4. \A q \in Row : \/ status'[q] = status[q] /\ overdue'[q] = overdue[q]
                       \/ status[q] # "absent" /\ status'[q] \notin {"absent", "pending"}
    BY <1>0, <2>1, <2>2, <2>3 DEF TypeOK
  <2> QED
    BY <1>1, <2>1, <2>4
<1>6. ASSUME NEW c \in Caller, NEW r \in Row, Restore(c, r) PROVE SignalInv'
  <2>1. refs' = refs /\ sig' = sig /\ match' = match /\ seen' = seen /\ overdue' = overdue
          /\ raced' = raced \union {Sender[r]}
    BY <1>6 DEF Restore, intake
  <2>2. status[r] # "absent"
    BY <1>0, <1>6 DEF ApprovedIsHeld, At, Executing, Restore
  <2>3. status' = [status EXCEPT ![r] = "pending"]
    BY <1>6 DEF Restore, StatusAfterFailure
  <2>4. \A q \in Row : Live(q)' /\ Sender[q] \notin raced' => Live(q)
    BY <1>0, <2>1, <2>3 DEF Live, Pending, TypeOK
  <2>5. \A q \in Row : status'[q] = "absent" <=> status[q] = "absent"
    BY <1>0, <2>2, <2>3 DEF TypeOK
  <2> QED
    BY <1>0, <2>1, <2>4, <2>5, SignalQuiet
<1>7. ASSUME NEW c \in Caller, CallStep(c) PROVE SignalInv'
  <2>1. CASE \/ \E r \in Row : ExecuteOne(c, r)
             \/ \E S \in SUBSET Row : batchExecute(c, S)
             \/ retryFailed(c)
    BY <1>2, <2>1 DEF ExecuteOne, batchExecute, retryFailed, Begin, table, intake
  <2>2. CASE \/ \E W \in SUBSET Row : NextWave(c, W)
             \/ \E r \in Row : NextRetry(c, r) \/ ClearError(c, r)
    BY <1>2, <2>2 DEF NextWave, NextRetry, ClearError, table, intake, history
  <2>3. CASE \E r \in Row : ClaimFails(c, r) \/ Perform(c, r) \/ StatementFails(c, r)
                           \/ RecordFails(c, r) \/ RestoreFails(c, r)
    BY <1>2, <2>3 DEF ClaimFails, Perform, StatementFails, RecordFails, RestoreFails, table,
                      intake, history
  <2> QED
    BY <1>5, <1>6, <1>7, <2>1, <2>2, <2>3 DEF CallStep, Proceed
<1>8. CASE Restart
  <2>1. /\ refs' = refs /\ raced' = raced /\ status' = status /\ overdue' = overdue
        /\ \A s \in Signal : sig'[s] = IF InEnqueue(s) THEN "dropped" ELSE sig[s]
    BY <1>8 DEF Restart, table
  <2>2. /\ OneEnqueue' /\ InsertIsFirst' /\ MatchIsRow' /\ MergeIsCurrent'
    BY <2>1 DEF OneEnqueue, InsertIsFirst, MatchIsRow, MergeIsCurrent, InEnqueue
  <2>3. CarriedBySender' /\ AbsentIsEmpty' /\ NoTwins'
    BY <2>1 DEF SignalInv, CarriedBySender, AbsentIsEmpty, NoTwins, InEnqueue, Pending
  <2> QED
    BY <2>2, <2>3 DEF SignalInv
<1>9. CASE UNCHANGED vars
  BY <1>2, <1>9 DEF vars, table, intake, history
<1> QED
  BY <1>3, <1>4, <1>7, <1>8, <1>9 DEF Next

LEMMA SignalAlways == Spec => []SignalInv
BY SignalInit, SignalNext, HandAlways, PTL DEF Spec

\* Consolidation keeps one live row for a sender whose signals do not overlap.
THEOREM SendersHaveOneRow == Spec => []NoTwins
<1>1. SignalInv => NoTwins
  BY DEF SignalInv
<1> QED
  BY <1>1, SignalAlways, PTL

\* A signal that was accepted stays listed in a row, unless signals overlap.
THEOREM SignalsAreCarried == Spec => []AcceptedIsCarried
<1>1. SignalInv => AcceptedIsCarried
  BY DEF SignalInv, CarriedBySender, AcceptedIsCarried
<1> QED
  BY <1>1, SignalAlways, PTL

-----------------------------------------------------------------------------
(* No call is stuck                                                        *)

\* At the start nobody is busy.
LEMMA BusyInit == Init => BusyInv
BY DEF Init, BusyInv, Idle, Queued

\* A call that takes a step with one row stays busy with it.
LEMMA BusyMove ==
  ASSUME TypeOK, BusyInv, NEW c \in Caller, NEW r \in Row, NEW x \in Steps \ {"none", "queued"},
         step' = [step EXCEPT ![c][r] = x], mode' = mode
  PROVE  BusyInv'
<1>1. Becomes(c, r, x)
  BY BecomesFacts
<1>2. \A d \in Caller : Queued(d)' \subseteq Queued(d)
  BY <1>1 DEF Becomes, Queued
<1>3. ASSUME NEW d \in Caller, ~Idle(d)' PROVE \E q \in Row : step'[d][q] # "none"
  <2>1. CASE d = c
    BY <1>1, <2>1 DEF Becomes
  <2>2. CASE d # c
    BY <1>1, <1>3, <2>2 DEF Becomes, BusyInv, Idle
  <2> QED
    BY <2>1, <2>2
<1> QED
  BY <1>2, <1>3 DEF BusyInv

\* A call that leaves a row returns, unless another row is left to it.
LEMMA BusyLeave ==
  ASSUME TypeOK, BusyInv, NEW c \in Caller, NEW r \in Row, Leave(c, r)
  PROVE  BusyInv'
<1>1. Becomes(c, r, "none") /\ \A d \in Caller \ {c} : mode'[d] = mode[d]
  BY LeaveFacts
<1>2. PICK b \in BOOLEAN : /\ b <=> \A q \in Row \ {r} : step[c][q] = "none"
                           /\ mode' = [mode EXCEPT ![c] = IF b THEN "idle" ELSE @]
  <2>1. mode' = [mode EXCEPT ![c] = IF \A q \in Row \ {r} : step[c][q] = "none"
                                    THEN "idle" ELSE @]
    BY DEF Leave
  <2> QED
    BY <2>1, Zenon
<1>3. /\ b => mode'[c] = "idle" /\ \A q \in Row : step'[c][q] = "none"
      /\ ~b => mode'[c] = mode[c] /\ \E q \in Row : step'[c][q] # "none"
  BY <1>1, <1>2 DEF TypeOK, Becomes
<1>4. \A d \in Caller : Queued(d)' \subseteq Queued(d)
  BY <1>1 DEF Becomes, Queued
<1>5. ASSUME NEW d \in Caller, d # c
      PROVE  /\ ~Idle(d)' => \E q \in Row : step'[d][q] # "none"
             /\ Queued(d)' # {} => mode'[d] \in {"batch", "retry"}
  BY <1>1, <1>4, <1>5 DEF BusyInv, Becomes, Idle
<1>6. /\ ~Idle(c)' => \E q \in Row : step'[c][q] # "none"
      /\ Queued(c)' # {} => mode'[c] \in {"batch", "retry"}
  <2>1. Queued(c)' # {} => ~b
    BY <1>3 DEF Queued
  <2> QED
    BY <1>3, <1>4, <2>1 DEF BusyInv, Idle
<1> QED
  BY <1>5, <1>6 DEF BusyInv

\* Every step keeps a busy call busy with some row until it returns.
LEMMA BusyNext == TypeOK /\ BusyInv /\ [Next]_vars => BusyInv'
<1> SUFFICES ASSUME TypeOK, BusyInv, [Next]_vars PROVE BusyInv'
  OBVIOUS
<1>1. ASSUME UNCHANGED calls PROVE BusyInv'
  BY <1>1 DEF calls, BusyInv, Idle, Queued
<1>2. ASSUME \/ \E s \in Signal : EnqueueStep(s)
             \/ \E S \in SUBSET Row : Dismiss(S)
             \/ expireStale
             \/ \E r \in Row : FallDue(r)
             \/ UNCHANGED vars
      PROVE  BusyInv'
  <2>1. UNCHANGED calls
    BY <1>2 DEF EnqueueStep, Enter, Look, Merge, Insert, EnqueueFails, Dismiss, expireStale,
                FallDue, vars
  <2> QED
    BY <1>1, <2>1
<1>3. ASSUME NEW c \in Caller, NEW m \in {"single", "batch", "retry"},
             NEW S \in SUBSET Row, S # {}, NEW x \in {"claim", "queued"},
             x = "queued" => m # "single", Begin(c, m, S, x)
      PROVE  BusyInv'
  <2>1. /\ mode'[c] = m /\ \A r \in Row : step'[c][r] = IF r \in S THEN x ELSE "none"
        /\ \A d \in Caller \ {c} : mode'[d] = mode[d] /\ step'[d] = step[d]
    BY <1>3 DEF Begin, TypeOK
  <2>2. \E r \in Row : step'[c][r] # "none"
    BY <1>3, <2>1
  <2>3. Queued(c)' # {} => m # "single"
    BY <1>3, <2>1 DEF Queued
  <2> QED
    BY <2>1, <2>2, <2>3 DEF BusyInv, Idle, Queued
<1>4. ASSUME NEW c \in Caller,
             \/ \E r \in Row : ExecuteOne(c, r)
             \/ \E S \in SUBSET Row : batchExecute(c, S)
             \/ retryFailed(c)
      PROVE  BusyInv'
  <2>1. CASE \E r \in Row : ExecuteOne(c, r)
    BY <1>3, <2>1 DEF ExecuteOne
  <2>2. CASE \E S \in SUBSET Row : batchExecute(c, S)
    BY <1>3, <2>2 DEF batchExecute
  <2>3. CASE retryFailed(c)
    <3>1. Retryable \in SUBSET Row
      BY DEF Retryable
    <3> QED
      BY <1>3, <2>3, <3>1 DEF retryFailed
  <2> QED
    BY <1>4, <2>1, <2>2, <2>3
<1>5. ASSUME NEW c \in Caller, NEW W \in SUBSET Row, NextWave(c, W) PROVE BusyInv'
  <2>1. /\ W # {} /\ mode' = mode
        /\ \A r \in Row : step'[c][r] = IF r \in W THEN "claim" ELSE step[c][r]
        /\ \A d \in Caller \ {c} : step'[d] = step[d]
    BY <1>5 DEF NextWave, Fits, TypeOK
  <2>2. \E r \in Row : step'[c][r] # "none"
    BY <2>1
  <2>3. \A d \in Caller : Queued(d)' \subseteq Queued(d)
    BY <2>1 DEF Queued
  <2> QED
    BY <2>1, <2>2, <2>3 DEF BusyInv, Idle
<1>6. ASSUME NEW c \in Caller, NEW r \in Row,
             \/ NextRetry(c, r) \/ ClearError(c, r) \/ Claim(c, r) \/ Perform(c, r)
             \/ RecordFails(c, r)
      PROVE  BusyInv'
  <2>1. mode' = mode /\ \E x \in Steps \ {"none", "queued"} : step' = [step EXCEPT ![c][r] = x]
    BY <1>6 DEF NextRetry, ClearError, Claim, Perform, RecordFails, Steps, Executing
  <2> QED
    BY <2>1, BusyMove
<1>7. ASSUME NEW c \in Caller, NEW r \in Row,
             ClaimFails(c, r) \/ StatementFails(c, r) \/ Record(c, r) \/ Restore(c, r)
      PROVE  BusyInv'
  <2>1. Leave(c, r)
    BY <1>7 DEF ClaimFails, StatementFails, Record, Restore
  <2> QED
    BY <2>1, BusyLeave
<1>8. ASSUME NEW c \in Caller, NEW r \in Row, RestoreFails(c, r) PROVE BusyInv'
  <2>1. \/ Leave(c, r)
        \/ mode' = mode /\ step' = [step EXCEPT ![c][r] = "restore"]
    BY <1>8 DEF RestoreFails
  <2>2. "restore" \in Steps \ {"none", "queued"}
    BY DEF Steps, Executing
  <2> QED
    BY <2>1, <2>2, BusyLeave, BusyMove
<1>9. CASE Restart
  BY <1>9 DEF Restart, BusyInv, Idle, Queued
<1> QED
  BY <1>2, <1>4, <1>5, <1>6, <1>7, <1>8, <1>9 DEF Next, CallStep, Proceed

\* Whatever is queued, one wave of it fits: a row without a key, or a group.
LEMMA SomeWaveFits ==
  ASSUME NEW c \in Caller, Queued(c) # {}
  PROVE  \E W \in SUBSET Queued(c) : Fits(c, W)
<1>1. PICK r \in Queued(c) : TRUE
  OBVIOUS
<1>2. Concurrency \in Nat /\ 1 <= Concurrency /\ 0 <= Concurrency
  BY BoundAssumption
<1>3. CASE Resource[r] = NoKey
  <2>1. {Resource[q] : q \in {r}} = {NoKey} /\ {q \in {r} : Resource[q] = NoKey} = {r}
    BY <1>3
  <2>2. Cardinality({NoKey}) = 1 /\ Cardinality({r}) = 1
    BY FS_Singleton
  <2>3. Fits(c, {r})
    BY <1>2, <1>3, <2>1, <2>2 DEF Fits
  <2> QED
    BY <2>3
<1>4. CASE Resource[r] # NoKey
  <2> DEFINE W == {q \in Queued(c) : Resource[q] = Resource[r]}
  <2>1. {Resource[q] : q \in W} = {Resource[r]} /\ {q \in W : Resource[q] = NoKey} = {}
    BY <1>4
  <2>2. Cardinality({Resource[r]}) = 1 /\ Cardinality({}) = 0
    BY FS_Singleton, FS_EmptySet
  <2>3. r \in W /\ W \in SUBSET Queued(c)
    OBVIOUS
  <2>4. \A p \in W, q \in Queued(c) :
          Resource[p] # NoKey /\ Resource[q] = Resource[p] => q \in W
    OBVIOUS
  <2> HIDE DEF W
  <2>5. Fits(c, W)
    BY <1>2, <2>1, <2>2, <2>3, <2>4 DEF Fits
  <2> QED
    BY <2>3, <2>5
<1> QED
  BY <1>3, <1>4

\* A busy call has a row under way that may go on, or may start its next rows.
LEMMA BusyMayProceed == TypeOK /\ BusyInv => BusyCallGoesOn
<1> SUFFICES ASSUME TypeOK, BusyInv, NEW c \in Caller, ~Idle(c) PROVE MayProceed(c)
  BY DEF BusyCallGoesOn
<1>1. PICK r \in Row : step[c][r] # "none"
  BY DEF BusyInv
<1>2. CASE Active(c) = {}
  <2>1. r \in Queued(c)
    BY <1>1, <1>2 DEF Active, Running, Queued, TypeOK, Executing
  <2>2. mode[c] \in {"batch", "retry"}
    BY <2>1 DEF BusyInv
  <2>3. \E W \in SUBSET Queued(c) : Fits(c, W)
    BY <2>1, SomeWaveFits
  <2> QED
    BY <1>2, <2>1, <2>2, <2>3 DEF MayProceed
<1>3. CASE Active(c) # {}
  <2>1. PICK q \in Row : step[c][q] \in Running
    BY <1>3 DEF Active
  <2>2. CASE step[c][q] = "claim"
    <3>1. CASE MayClaim(c, q)
      BY <3>1 DEF MayProceed
    <3>2. CASE ~MayClaim(c, q)
      <4>1. \E p \in Row : step[c][p] \in Executing
        BY <2>2, <3>2 DEF MayClaim, Executing
      <4> QED
        BY <4>1 DEF MayProceed
    <3> QED
      BY <3>1, <3>2
  <2>3. CASE step[c][q] # "claim"
    BY <2>1, <2>3 DEF MayProceed, Running, Executing
  <2> QED
    BY <2>2, <2>3
<1> QED
  BY <1>2, <1>3

\* For any concurrency, grouping and number of calls: a call that has not
\* returned has a step of its own to take.
THEOREM BusyCallsGoOn == Spec => []BusyCallGoesOn
<1>1. HandInv => TypeOK
  BY DEF HandInv
<1> QED
  BY <1>1, HandAlways, BusyInit, BusyNext, BusyMayProceed, PTL DEF Spec
-----------------------------------------------------------------------------
(* The queue implements Approval: what Standing and the effects show takes *)
(* only the steps of that module.                                          *)

\* What a call at one of the steps Executing has done with its row.
Phase(x) == IF x = "perform" THEN "taken" ELSE IF x = "record" THEN "acted" ELSE "broken"

\* The call that holds a row decides where it stands; an approved row in nobody's
\* hands is stranded; any other stands as its status says.
HeldStands ==
  \A c \in Caller, r \in Row : step[c][r] \in Executing =>
    status[r] = "approved" /\ Standing[r] = Phase(step[c][r])
FreeStands ==
  \A r \in Row :
    /\ status[r] # "approved" => Standing[r] = status[r]
    /\ status[r] = "approved" /\ r \notin At(Executing) => Standing[r] = "stranded"

LEMMA StandsByStep == HandInv => HeldStands
<1> SUFFICES ASSUME HandInv, NEW c \in Caller, NEW r \in Row, step[c][r] \in Executing
             PROVE  status[r] = "approved" /\ Standing[r] = Phase(step[c][r])
  BY DEF HeldStands
<1>1. status[r] = "approved"
  BY DEF HandInv, ApprovedIsHeld, At
<1>2. /\ r \in At({"perform"}) <=> step[c][r] = "perform"
      /\ r \in At({"record"}) <=> step[c][r] = "record"
      /\ r \in At({"defer", "restore"}) <=> step[c][r] \in {"defer", "restore"}
  BY DEF HandInv, ApprovedIsHeld, At, Executing
<1> QED
  BY <1>1, <1>2 DEF Standing, Phase, Executing

LEMMA StandsByStatus == FreeStands
<1> SUFFICES ASSUME NEW r \in Row
             PROVE  /\ status[r] # "approved" => Standing[r] = status[r]
                    /\ status[r] = "approved" /\ r \notin At(Executing) => Standing[r] = "stranded"
  BY DEF FreeStands
<1>1. r \in At({"perform"}) \/ r \in At({"record"}) \/ r \in At({"defer", "restore"}) => r \in At(Executing)
  BY DEF At, Executing
<1> QED
  BY <1>1 DEF Standing

\* The same of the state after a step.
LEMMA StandsNext == (HandInv' => HeldStands') /\ FreeStands'
BY StandsByStep, StandsByStatus, PTL

\* No call takes, moves or leaves r, and no statement touches its status.
Untouched(r) ==
  /\ status'[r] = status[r]
  /\ \A c \in Caller : step'[c][r] = step[c][r] \/ {step'[c][r], step[c][r]} \cap Executing = {}

LEMMA UntouchedStands ==
  ASSUME NEW r \in Row, Untouched(r)
  PROVE  Standing'[r] = Standing[r]
<1>1. /\ r \in At({"perform"})' <=> r \in At({"perform"})
      /\ r \in At({"record"})' <=> r \in At({"record"})
      /\ r \in At({"defer", "restore"})' <=> r \in At({"defer", "restore"})
  BY DEF At, Untouched, Executing
<1> QED
  BY <1>1 DEF Standing, Untouched

MovedTo(S, t) == [r \in Row |-> IF r \in S THEN t ELSE Standing[r]]

\* The rows of S come to be at t, and no others are touched.
LEMMA StandingMoves ==
  ASSUME NEW S \in SUBSET Row, NEW t,
         \A r \in Row \ S : Untouched(r),
         \A r \in S : Standing'[r] = t
  PROVE  Standing' = MovedTo(S, t)
<1>1. \A r \in Row \ S : Standing'[r] = Standing[r]
  BY UntouchedStands
<1>2. Standing' = [r \in Row |-> Standing'[r]]
  BY DEF Standing
<1> QED
  BY <1>1, <1>2, Zenon DEF MovedTo

\* Untouched rows do not move.
LEMMA StandingStays ==
  ASSUME \A r \in Row : Untouched(r)
  PROVE  Standing' = Standing
<1>1. \A r \in Row : Standing'[r] = Standing[r]
  BY UntouchedStands
<1>2. Standing' = [r \in Row |-> Standing'[r]] /\ Standing = [r \in Row |-> Standing[r]]
  BY DEF Standing
<1> QED
  BY <1>1, <1>2, Zenon

QueueStep == Queue!Next \/ UNCHANGED Queue!vars

\* A row that goes from one place to another is a step of Approval.
LEMMA MoveIsStep ==
  ASSUME NEW S \in SUBSET Row, NEW F, NEW t,
         \A r \in S : Standing[r] \in F, Standing' = MovedTo(S, t)
  PROVE  Queue!Move(S, F, t)
BY DEF Queue!Move, MovedTo

-----------------------------------------------------------------------------

\* A new row is proposed; a merge and the other steps of enqueue move nothing.
LEMMA EnqueueIsStep ==
  ASSUME HandInv, NEW s \in Signal, EnqueueStep(s)
  PROVE  QueueStep
<1>1. UNCHANGED <<calls, performed>>
  BY DEF EnqueueStep, Enter, Look, Merge, Insert, EnqueueFails, table, history
<1>2. status' = status \/ (status' = [status EXCEPT ![s] = "pending"] /\ sig[s] = "insert")
  BY DEF EnqueueStep, Enter, Look, Merge, Insert, EnqueueFails, StatusAfterMerge, table
<1>3. CASE status' = status
  <2>1. \A r \in Row : Untouched(r)
    BY <1>1, <1>3 DEF Untouched, calls
  <2> QED
    BY <1>1, <2>1, StandingStays DEF QueueStep, Queue!vars
<1>4. CASE status' = [status EXCEPT ![s] = "pending"] /\ sig[s] = "insert"
  <2>1. s \in Row /\ status[s] = "absent" /\ status'[s] = "pending"
    BY <1>4 DEF HandInv, RowsAreInserted, Row, TypeOK
  <2>2. Standing[s] = "absent" /\ Standing'[s] = "pending"
    BY <2>1, StandsByStatus, StandsNext DEF FreeStands
  <2>3. \A r \in Row \ {s} : Untouched(r)
    BY <1>1, <1>4 DEF HandInv, TypeOK, Untouched, calls
  <2>4. Standing' = MovedTo({s}, "pending")
    BY <2>1, <2>2, <2>3, StandingMoves
  <2>5. Queue!Move({s}, {"absent"}, "pending")
    BY <2>1, <2>2, <2>4, MoveIsStep
  <2> QED
    BY <1>1, <2>1, <2>5 DEF QueueStep, Queue!Next, Queue!Propose, Queue!Quiet
<1> QED
  BY <1>2, <1>3, <1>4

\* Dismissal and expiry close pending rows.
LEMMA CloseIsStep ==
  ASSUME HandInv, NEW S \in SUBSET Row, NEW t \in {"dismissed", "expired"}, \A r \in S : Pending(r),
         status' = [r \in Row |-> IF r \in S THEN t ELSE status[r]], UNCHANGED <<calls, performed>>
  PROVE  QueueStep
<1>1. \A r \in S : Standing[r] = "pending" /\ Standing'[r] = t
  BY StandsByStatus, StandsNext DEF FreeStands, Pending
<1>2. \A r \in Row \ S : Untouched(r)
  BY DEF Untouched, calls
<1>3. Queue!Move(S, {"pending"}, t)
  BY <1>1, <1>2, StandingMoves, MoveIsStep
<1>4. Queue!Close(S)
  BY <1>3 DEF Queue!Close, Queue!Quiet
<1> QED
  BY <1>4 DEF QueueStep, Queue!Next

\* The steps of calls that touch no row.
LEMMA CallRests ==
  ASSUME HandInv, NEW c \in Caller,
         \/ \E r \in Row : ExecuteOne(c, r)
         \/ \E S \in SUBSET Row : batchExecute(c, S)
         \/ retryFailed(c)
         \/ \E W \in SUBSET Row : NextWave(c, W)
  PROVE  QueueStep
<1>1. UNCHANGED <<status, performed>>
  BY DEF ExecuteOne, batchExecute, retryFailed, Begin, NextWave, table, history
<1>2. \A r \in Row, d \in Caller :
        step'[d][r] = step[d][r] \/ {step'[d][r], step[d][r]} \cap Executing = {}
  <2>1. ASSUME NEW m, NEW S, NEW x \in {"claim", "queued"}, Begin(c, m, S, x),
               NEW r \in Row, NEW d \in Caller
        PROVE  step'[d][r] = step[d][r] \/ {step'[d][r], step[d][r]} \cap Executing = {}
    BY <2>1 DEF Begin, HandInv, TypeOK, IdleIsEmpty, Executing
  <2>2. ASSUME NEW W \in SUBSET Row, NextWave(c, W), NEW r \in Row, NEW d \in Caller
        PROVE  step'[d][r] = step[d][r] \/ {step'[d][r], step[d][r]} \cap Executing = {}
    BY <2>2 DEF NextWave, Queued, HandInv, TypeOK, Executing
  <2> QED
    BY <2>1, <2>2 DEF ExecuteOne, batchExecute, retryFailed
<1>3. Standing' = Standing
  BY <1>1, <1>2, StandingStays DEF Untouched
<1> QED
  BY <1>1, <1>3 DEF QueueStep, Queue!vars

\* A call that moves one row touches no other.
LEMMA OneIsTouched ==
  ASSUME NEW c \in Caller, NEW r \in Row, NEW x, Becomes(c, r, x),
         \A q \in Row \ {r} : status'[q] = status[q]
  PROVE  \A q \in Row \ {r} : Untouched(q)
BY DEF Becomes, Untouched
\* A call that holds r at the step x and then at y moves it from one place to the other.
LEMMA HoldMoves ==
  ASSUME HandInv, HandInv', NEW c \in Caller, NEW r \in Row, NEW y \in Executing, Becomes(c, r, y),
         status' = status, step[c][r] \in Executing
  PROVE  /\ Standing[r] = Phase(step[c][r])
         /\ Standing' = MovedTo({r}, Phase(y))
<1>1. Standing[r] = Phase(step[c][r])
  BY StandsByStep DEF HeldStands
<1>2. step'[c][r] = y
  BY DEF Becomes
<1>3. Standing'[r] = Phase(y)
  BY <1>2, StandsNext DEF HeldStands
<1>4. \A q \in Row \ {r} : Untouched(q)
  BY OneIsTouched
<1> QED
  BY <1>1, <1>3, <1>4, StandingMoves

\* The claim takes the row.
LEMMA ClaimIsStep ==
  ASSUME HandInv, HandInv', NEW c \in Caller, NEW r \in Row, Claim(c, r)
  PROVE  QueueStep
<1>1. /\ status[r] = "pending" /\ status' = [status EXCEPT ![r] = "approved"]
      /\ UNCHANGED performed
  BY DEF Claim, Claimable, Pending, history
<1>2. Becomes(c, r, "perform")
  BY BecomesFacts DEF Claim, HandInv, Steps, Executing
<1>3. Standing[r] = "pending"
  BY <1>1, StandsByStatus DEF FreeStands
<1>4. Standing'[r] = "taken"
  BY <1>2, StandsNext DEF HeldStands, Becomes, Phase, Executing
<1>5. \A q \in Row \ {r} : Untouched(q)
  BY <1>1, <1>2, OneIsTouched DEF HandInv, TypeOK
<1>6. Queue!Move({r}, {"pending"}, "taken")
  BY <1>3, <1>4, <1>5, StandingMoves, MoveIsStep
<1> QED
  BY <1>1, <1>6 DEF QueueStep, Queue!Next, Queue!Take, Queue!Quiet

\* The capability acts, or does not.
LEMMA PerformIsStep ==
  ASSUME HandInv, HandInv', NEW c \in Caller, NEW r \in Row, Perform(c, r)
  PROVE  QueueStep
<1>1. step[c][r] = "perform" /\ status' = status
  BY DEF Perform, table
<1>2. ASSUME NEW y \in {"record", "defer", "restore"}, step' = [step EXCEPT ![c][r] = y]
      PROVE  Queue!Move({r}, {"taken"}, Phase(y))
  <2>1. Becomes(c, r, y)
    BY <1>2, BecomesFacts DEF HandInv, Steps, Executing
  <2>2. Standing[r] = "taken" /\ Standing' = MovedTo({r}, Phase(y))
    BY <1>1, <2>1, HoldMoves DEF Phase, Executing
  <2> QED
    BY <2>2, MoveIsStep
<1>3. CASE step' = [step EXCEPT ![c][r] = "record"] /\ performed' = [performed EXCEPT ![r] = @ + 1]
  <2>1. Queue!Act(r)
    BY <1>2, <1>3 DEF Queue!Act, Queue!OnceMore, Phase
  <2> QED
    BY <2>1 DEF QueueStep, Queue!Next
<1>4. CASE /\ step' = [step EXCEPT ![c][r] = "defer"] \/ step' = [step EXCEPT ![c][r] = "restore"]
           /\ performed' = performed \/ performed' = [performed EXCEPT ![r] = @ + 1]
  <2>1. Queue!Move({r}, {"taken"}, "broken")
    BY <1>2, <1>4 DEF Phase
  <2>2. Queue!Break(r)
    <3>1. Queue!Move({r}, {"taken", "acted"}, "broken")
      BY <2>1 DEF Queue!Move
    <3> QED
      BY <1>4, <2>1, <3>1 DEF Queue!Break, Queue!OnceMore, Queue!Quiet
  <2> QED
    BY <2>2 DEF QueueStep, Queue!Next
<1> QED
  BY <1>3, <1>4 DEF Perform

\* The mark, and what becomes of the row when it cannot be set.
LEMMA RecordIsStep ==
  ASSUME HandInv, HandInv', NEW c \in Caller, NEW r \in Row, Record(c, r) \/ RecordFails(c, r)
  PROVE  QueueStep
<1>1. step[c][r] = "record" /\ UNCHANGED performed
  BY DEF Record, RecordFails
<1>2. Standing[r] = "acted"
  BY <1>1, StandsByStep DEF HeldStands, Phase, Executing
<1>3. CASE Record(c, r)
  <2>1. Becomes(c, r, "none")
    BY <1>3, LeaveFacts DEF Record, HandInv
  <2>2. status' = [status EXCEPT ![r] = "executed"]
    BY <1>3 DEF Record
  <2>3. Standing'[r] = "executed"
    BY <2>2, StandsNext DEF FreeStands, HandInv, TypeOK
  <2>4. \A q \in Row \ {r} : Untouched(q)
    BY <2>1, <2>2, OneIsTouched DEF HandInv, TypeOK
  <2>5. Queue!Move({r}, {"acted"}, "executed")
    BY <1>2, <2>3, <2>4, StandingMoves, MoveIsStep
  <2> QED
    BY <1>1, <2>5 DEF QueueStep, Queue!Next, Queue!Finish, Queue!Quiet
<1>4. CASE RecordFails(c, r)
  <2>1. Becomes(c, r, "restore") /\ status' = status
    BY <1>4, BecomesFacts DEF RecordFails, HandInv, Steps, Executing, table
  <2>2. Standing' = MovedTo({r}, "broken")
    BY <1>1, <2>1, HoldMoves DEF Phase, Executing
  <2>3. Queue!Move({r}, {"taken", "acted"}, "broken")
    BY <1>2, <2>2, MoveIsStep
  <2> QED
    BY <1>1, <2>3 DEF QueueStep, Queue!Next, Queue!Break, Queue!Quiet
<1> QED
  BY <1>3, <1>4

\* The row is given back, or stays where nobody looks.
LEMMA RestoreIsStep ==
  ASSUME HandInv, HandInv', NEW c \in Caller, NEW r \in Row, Restore(c, r) \/ RestoreFails(c, r)
  PROVE  QueueStep
<1>1. step[c][r] \in {"defer", "restore"} /\ UNCHANGED performed
  BY DEF Restore, RestoreFails
<1>2. Standing[r] = "broken" /\ status[r] = "approved"
  BY <1>1, StandsByStep DEF HeldStands, Phase, Executing
<1>3. CASE Restore(c, r)
  <2>1. Becomes(c, r, "none")
    BY <1>3, LeaveFacts DEF Restore, HandInv
  <2>2. status' = [status EXCEPT ![r] = "pending"]
    BY <1>3 DEF Restore, StatusAfterFailure
  <2>3. Standing'[r] = "pending"
    BY <2>2, StandsNext DEF FreeStands, HandInv, TypeOK
  <2>4. \A q \in Row \ {r} : Untouched(q)
    BY <2>1, <2>2, OneIsTouched DEF HandInv, TypeOK
  <2>5. Queue!Move({r}, {"broken"}, "pending")
    BY <1>2, <2>3, <2>4, StandingMoves, MoveIsStep
  <2> QED
    BY <1>1, <2>5 DEF QueueStep, Queue!Next, Queue!GiveBack, Queue!Quiet
<1>4. CASE RestoreFails(c, r)
  <2>1. status' = status
    BY <1>4 DEF RestoreFails, table
  <2>2. ASSUME step[c][r] = "defer", step' = [step EXCEPT ![c][r] = "restore"] PROVE QueueStep
    <3>1. Becomes(c, r, "restore")
      BY <2>2, BecomesFacts DEF HandInv, Steps, Executing
    <3>2. Standing' = MovedTo({r}, "broken")
      BY <2>1, <2>2, <3>1, HoldMoves DEF Phase, Executing
    <3>3. Standing' = Standing
      <4>1. MovedTo({r}, "broken") = [q \in Row |-> Standing[q]]
        BY <1>2 DEF MovedTo
      <4>2. Standing = [q \in Row |-> Standing[q]]
        BY DEF Standing
      <4> QED
        BY <3>2, <4>1, <4>2
    <3> QED
      BY <1>1, <3>3 DEF QueueStep, Queue!vars
  <2>3. ASSUME stuck' = stuck \union {r}, Leave(c, r) PROVE QueueStep
    <3>1. Becomes(c, r, "none")
      BY <2>3, LeaveFacts DEF HandInv
    <3>2. Standing'[r] = "stranded"
      <4>1. r \notin At(Executing)'
        BY <2>3 DEF HandInv, ApprovedIsHeld
      <4> QED
        BY <1>2, <2>1, <4>1, StandsNext DEF FreeStands
    <3>3. \A q \in Row \ {r} : Untouched(q)
      BY <2>1, <3>1, OneIsTouched
    <3>4. Queue!Move({r}, {"taken", "acted", "broken"}, "stranded")
      BY <1>2, <3>2, <3>3, StandingMoves, MoveIsStep
    <3> QED
      BY <1>1, <3>4 DEF QueueStep, Queue!Next, Queue!Strand, Queue!Quiet
  <2> QED
    BY <1>4, <2>2, <2>3 DEF RestoreFails
<1> QED
  BY <1>3, <1>4

\* The steps of a call before it claims its row, or instead of it.
LEMMA BeforeIsStep ==
  ASSUME HandInv, NEW c \in Caller, NEW r \in Row,
         NextRetry(c, r) \/ ClearError(c, r) \/ ClaimFails(c, r) \/ StatementFails(c, r)
  PROVE  QueueStep
<1>1. UNCHANGED <<status, performed>>
  BY DEF NextRetry, ClearError, ClaimFails, StatementFails, table, history
<1>2. step[c][r] \notin Executing
  BY DEF NextRetry, ClearError, ClaimFails, StatementFails, MayClaim, Queued, Executing
<1>3. PICK x \in {"none", "clear", "claim"} : Becomes(c, r, x)
  BY LeaveFacts, BecomesFacts DEF NextRetry, ClearError, ClaimFails, StatementFails, HandInv, Steps
<1>4. \A q \in Row : Untouched(q)
  BY <1>1, <1>2, <1>3 DEF Untouched, Becomes, Executing
<1> QED
  BY <1>1, <1>4, StandingStays DEF QueueStep, Queue!vars

\* A restart strands every row that some call holds.
LEMMA RestartIsStep ==
  ASSUME HandInv, HandInv', Restart
  PROVE  QueueStep
<1> DEFINE S == At(Executing)
<1>1. /\ UNCHANGED <<status, performed>>
      /\ \A c \in Caller, r \in Row : step'[c][r] = "none"
  BY DEF Restart, table
<1>2. S \in SUBSET Row
  BY DEF At
<1>3. \A r \in S : Standing[r] \in {"taken", "acted", "broken"} /\ status[r] = "approved"
  BY StandsByStep DEF HeldStands, Phase, At
<1>4. \A r \in S : Standing'[r] = "stranded"
  <2>1. \A r \in Row : r \notin At(Executing)'
    BY <1>1 DEF At, Executing
  <2> QED
    BY <1>1, <1>2, <1>3, <2>1, StandsNext DEF FreeStands
<1>5. \A r \in Row \ S : Untouched(r)
  BY <1>1 DEF Untouched, At, Executing
<1> HIDE DEF S
<1>6. Queue!Move(S, {"taken", "acted", "broken"}, "stranded")
  BY <1>2, <1>3, <1>4, <1>5, StandingMoves, MoveIsStep
<1> QED
  BY <1>1, <1>2, <1>6 DEF QueueStep, Queue!Next, Queue!Strand, Queue!Quiet

\* For any number of signals, rows, calls and faults, the queue is an Approval:
\* seen from outside, no row takes a way that the abstract queue does not have.
THEOREM QueueIsApproval == Spec => ImplementsApproval
<1>1. Init => Queue!Init
  BY DEF Init, Queue!Init, Standing
<1>2. HandInv /\ HandInv' /\ [Next]_vars => [Queue!Next]_(Queue!vars)
  <2> SUFFICES ASSUME HandInv, HandInv', [Next]_vars PROVE QueueStep
    BY DEF QueueStep
  <2>1. ASSUME NEW s \in Signal, EnqueueStep(s) PROVE QueueStep
    BY <2>1, EnqueueIsStep
  <2>2. ASSUME NEW S \in SUBSET Row, Dismiss(S) PROVE QueueStep
    BY <2>2, CloseIsStep DEF Dismiss, history
  <2>3. CASE expireStale
    <3>1. Overdue \in SUBSET Row /\ \A r \in Overdue : Pending(r)
      BY DEF Overdue
    <3> QED
      BY <2>3, <3>1, CloseIsStep DEF expireStale, history
  <2>4. CASE UNCHANGED vars \/ \E r \in Row : FallDue(r)
    <3>1. UNCHANGED <<status, calls, performed>>
      BY <2>4 DEF FallDue, vars, table, history
    <3>2. \A r \in Row : Untouched(r)
      BY <3>1 DEF Untouched, calls
    <3> QED
      BY <3>1, <3>2, StandingStays DEF QueueStep, Queue!vars
  <2>5. ASSUME NEW c \in Caller, CallStep(c) PROVE QueueStep
    BY <2>5, CallRests, BeforeIsStep, ClaimIsStep, PerformIsStep, RecordIsStep, RestoreIsStep
       DEF CallStep, Proceed
  <2>6. CASE Restart
    BY <2>6, RestartIsStep
  <2> QED
    BY <2>1, <2>2, <2>3, <2>4, <2>5, <2>6 DEF Next
<1> QED
  BY <1>1, <1>2, HandAlways, PTL DEF Spec, ImplementsApproval, Queue!Spec
=============================================================================
