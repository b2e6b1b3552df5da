-------------------------- MODULE MessageQueueProofs --------------------------
(***************************************************************************)
(* Proofs about MessageQueue.  The inductive invariant QueueInv of that    *)
(* module follows a row through its lock (LocksMatch), the copy a handler  *)
(* took of it (CopiesMatch) and the call after the commit (InTransit); the *)
(* safety properties and the refinement of Inbox rest on it, and that no   *)
(* circle of hand-overs can wait for each other's locks.                   *)
(***************************************************************************)
EXTENDS MessageQueue, SequenceTheorems, TLAPS

\* QueueInv without the types.
Rest ==
  /\ LocksMatch
  /\ CopiesMatch
  /\ InTransit
  /\ UnmarkedIsInside
  /\ AtMostOnce
  /\ HandedAsEdited
  /\ DeliveredIsAccountedFor

\* An empty table and idle handlers.
LEMMA QueueInvInit == Init => QueueInv
<1> SUFFICES ASSUME Init PROVE QueueInv
  OBVIOUS
<1>1. TypeOK
  <2>1. <<>> \in Seq(Nat)
    BY EmptySeq
  <2> QED
    BY <2>1 DEF Init, TypeOK
<1>2. LocksMatch /\ CopiesMatch /\ InTransit
  BY DEF Init, LocksMatch, CopiesMatch, InTransit
<1>3. UnmarkedIsInside /\ AtMostOnce /\ HandedAsEdited /\ DeliveredIsAccountedFor
  BY DEF Init, UnmarkedIsInside, AtMostOnce, HandedAsEdited, DeliveredIsAccountedFor
<1> QED
  BY <1>1, <1>2, <1>3 DEF QueueInv

-----------------------------------------------------------------------------
(* Types                                                                   *)

\* The locals of a handler that returns are of their types.
LEMMA ReturnTypes ==
  ASSUME TypeOK, NEW c \in Caller, Return(c)
  PROVE  /\ pc'     \in [Caller -> {"idle", "stamp", "select", "commit", "dispatch"}]
         /\ filter' \in [Caller -> SUBSET Row]
         /\ direct' \in [Caller -> BOOLEAN]
         /\ bundle' \in [Caller -> SUBSET Row]
         /\ copy'   \in [Caller -> [Row -> Nat]]
BY DEF TypeOK, Return

\* Every statement on the table and every step of a handler keeps the types.
LEMMA TypeNext == TypeOK /\ [Next]_vars => TypeOK'
<1> SUFFICES ASSUME TypeOK, [Next]_vars PROVE TypeOK'
  OBVIOUS
<1>1. ASSUME NEW r \in Row, RowStep(r) PROVE TypeOK'
  <2>1. CASE enqueueMessage(r)
    BY <2>1 DEF enqueueMessage, TypeOK, handlers
  <2>2. CASE GrowOld(r)
    BY <2>2 DEF GrowOld, TypeOK, handlers
  <2>3. CASE EditBody(r)
    BY <2>3 DEF EditBody, TypeOK, handlers
  <2>4. CASE EditAge(r)
    BY <2>4 DEF EditAge, TypeOK, handlers
  <2>5. CASE cancelMessage(r)
    BY <2>5 DEF cancelMessage, TypeOK, handlers
  <2> QED
    BY <1>1, <2>1, <2>2, <2>3, <2>4, <2>5 DEF RowStep
<1>2. ASSUME NEW c \in Caller,
             \/ SignalHandoff(c) \/ DirectMessage(c)
             \/ SweepRead(c) \/ SweepStamp(c)
             \/ \E r \in Row : promoteNow(c, r)
      PROVE  TypeOK'
  <2>1. /\ pc' \in [Caller -> {"idle", "stamp", "select", "commit", "dispatch"}]
        /\ filter' \in [Caller -> SUBSET Row]
        /\ direct' \in [Caller -> BOOLEAN]
        /\ promoted' \in [Row -> BOOLEAN]
    <3>1. CASE SignalHandoff(c) \/ DirectMessage(c)
      <4>1. /\ pc' = [pc EXCEPT ![c] = "select"] /\ promoted' = promoted
            /\ \E ids \in SUBSET Row : filter' = [filter EXCEPT ![c] = ids]
            /\ \E b \in BOOLEAN : direct' = [direct EXCEPT ![c] = b]
        BY <3>1 DEF SignalHandoff, DirectMessage, Start
      <4> QED
        BY <4>1 DEF TypeOK
    <3>2. CASE SweepRead(c)
      BY <3>2 DEF SweepRead, AgedRows, TypeOK, table
    <3>3. CASE SweepStamp(c)
      BY <3>3 DEF SweepStamp, TypeOK
    <3>4. CASE \E r \in Row : promoteNow(c, r)
      BY <3>4 DEF promoteNow, Start, TypeOK
    <3> QED
      BY <1>2, <3>1, <3>2, <3>3, <3>4
  <2>2. UNCHANGED <<status, body, aged, locked, bundle, copy, handed, lost, faults>>
    BY <1>2 DEF SignalHandoff, DirectMessage, SweepRead, SweepStamp, promoteNow, Start, table
  <2> QED
    BY <2>1, <2>2 DEF TypeOK
<1>3. ASSUME NEW c \in Caller, SelectNone(c) PROVE TypeOK'
  BY <1>3, ReturnTypes DEF SelectNone, TypeOK, table
<1>4. ASSUME NEW c \in Caller, SelectSome(c) PROVE TypeOK'
  <2>1. Taken(c) \subseteq Row
    BY DEF TypeOK, Taken
  <2> QED
    BY <1>4, <2>1 DEF SelectSome, TypeOK
<1>5. ASSUME NEW c \in Caller, Commit(c) PROVE TypeOK'
  BY <1>5 DEF Commit, Marked, Unlocked, TypeOK
<1>6. ASSUME NEW c \in Caller, Dispatch(c) PROVE TypeOK'
  <2>1. handed' \in [Row -> Seq(Nat)] /\ lost' \subseteq Row
    <3>1. \A r \in Row : Append(handed[r], copy[c][r]) \in Seq(Nat)
      BY AppendProperties DEF TypeOK
    <3> QED
      BY <1>6, <3>1 DEF Dispatch, TypeOK
  <2> QED
    BY <1>6, <2>1, ReturnTypes DEF Dispatch, TypeOK, table
<1>7. ASSUME NEW c \in Caller, LoseConnection(c) PROVE TypeOK'
  BY <1>7, ReturnTypes DEF LoseConnection, Unlocked, TypeOK
<1>8. ASSUME NEW c \in Caller, LoseCommitAnswer(c) PROVE TypeOK'
  BY <1>8, ReturnTypes DEF LoseCommitAnswer, Marked, Unlocked, TypeOK
<1>9. CASE Restart
  BY <1>9 DEF Restart, TypeOK
<1>10. CASE UNCHANGED vars
  BY <1>10 DEF vars, table, handlers, TypeOK
<1> QED
  BY <1>1, <1>2, <1>3, <1>4, <1>5, <1>6, <1>7, <1>8, <1>9, <1>10
     DEF Next, CallerStep, Proceed

-----------------------------------------------------------------------------
(* The steps that move no row                                              *)

\* The steps before a SELECT, and the aging of rows, move no row: nothing that
\* the invariant relates changes.
LEMMA NoRowMoves ==
  ASSUME Rest, TypeOK, TypeOK',
         UNCHANGED <<status, body, locked, bundle, handed, lost>>,
         \A c \in Caller : bundle[c] # {} => copy'[c] = copy[c],
         \A c \in Caller : \/ pc'[c] = pc[c]
                           \/ /\ pc[c] \in {"idle", "stamp", "select"}
                              /\ pc'[c] \in {"idle", "stamp", "select"}
  PROVE  Rest'
<1>0. \A c \in Caller : /\ pc'[c] = "commit" <=> pc[c] = "commit"
                        /\ pc'[c] = "dispatch" <=> pc[c] = "dispatch"
  OBVIOUS
<1>1. LocksMatch' /\ CopiesMatch'
  <2>1. \A r \in Row : locked'[r] # None =>
          pc'[locked'[r]] = "commit" /\ r \in bundle'[locked'[r]]
    BY <1>0 DEF Rest, LocksMatch, TypeOK
  <2>2. \A c \in Caller : pc'[c] = "commit" =>
          \A r \in bundle'[c] : locked'[r] = c /\ status'[r] = "pending"
    BY <1>0 DEF Rest, LocksMatch, Pending
  <2>3. CopiesMatch'
    BY <1>0 DEF Rest, CopiesMatch
  <2> QED
    BY <2>1, <2>2, <2>3 DEF LocksMatch, Pending
<1>2. InTransit'
  BY <1>0 DEF Rest, InTransit
<1>3. DeliveredIsAccountedFor'
  BY DEF Rest, DeliveredIsAccountedFor
<1>4. UnmarkedIsInside' /\ AtMostOnce' /\ HandedAsEdited'
  BY DEF Rest, UnmarkedIsInside, AtMostOnce, HandedAsEdited
<1> QED
  BY <1>1, <1>2, <1>3, <1>4 DEF Rest

-----------------------------------------------------------------------------

\* A single UPDATE or INSERT touches a row that no handler holds.
LEMMA RowStepKeeps ==
  ASSUME Rest, TypeOK, TypeOK', NEW r \in Row, RowStep(r)
  PROVE  Rest'
<1>1. CASE GrowOld(r) \/ EditAge(r)
  BY <1>1, NoRowMoves DEF GrowOld, EditAge, handlers
<1>2. CASE enqueueMessage(r) \/ EditBody(r) \/ cancelMessage(r)
  <2>1. /\ status[r] \in {"absent", "pending"} /\ status'[r] \in {"pending", "cancelled"}
        /\ \A q \in Row \ {r} : status'[q] = status[q] /\ body'[q] = body[q]
        /\ UNCHANGED <<locked, pc, bundle, copy, handed, lost>>
    <3>1. CASE enqueueMessage(r)
      BY <3>1 DEF enqueueMessage, TypeOK, handlers
    <3>2. CASE EditBody(r)
      BY <3>2 DEF EditBody, CanUpdate, Pending, TypeOK, handlers
    <3>3. CASE cancelMessage(r)
      BY <3>3 DEF cancelMessage, CanUpdate, Pending, TypeOK, handlers
    <3> QED
      BY <1>2, <3>1, <3>2, <3>3
  <2>2. \A c \in Caller : r \notin bundle[c]
    <3>1. locked[r] = None \/ status[r] = "absent"
      BY <1>2 DEF enqueueMessage, EditBody, cancelMessage, CanUpdate
    <3>2. \A c \in Caller : pc[c] = "commit" => r \notin bundle[c]
      BY <3>1, CallerAssumption DEF Rest, LocksMatch, Pending
    <3>3. \A c \in Caller : pc[c] = "dispatch" => r \notin bundle[c]
      BY <2>1 DEF Rest, InTransit
    <3> QED
      BY <3>2, <3>3 DEF Rest, CopiesMatch
  <2>3. handed[r] = <<>> /\ r \notin lost
    BY <2>1 DEF Rest, UnmarkedIsInside
  <2>4. LocksMatch' /\ CopiesMatch'
    <3>1. \A q \in Row : locked'[q] # None =>
            pc'[locked'[q]] = "commit" /\ q \in bundle'[locked'[q]]
      BY <2>1 DEF Rest, LocksMatch
    <3>2. \A c \in Caller : \A q \in bundle[c] : q \in Row \ {r}
      BY <2>2 DEF TypeOK
    <3>3. \A c \in Caller : pc'[c] = "commit" =>
            \A q \in bundle'[c] : locked'[q] = c /\ status'[q] = "pending"
      BY <2>1, <3>2 DEF Rest, LocksMatch, Pending
    <3>4. CopiesMatch'
      BY <2>1, <3>2 DEF Rest, CopiesMatch
    <3> QED
      BY <3>1, <3>3, <3>4 DEF LocksMatch, Pending
  <2>5. InTransit' /\ DeliveredIsAccountedFor'
    <3>1. \A c \in Caller : \A q \in bundle[c] : q \in Row \ {r}
      BY <2>2 DEF TypeOK
    <3>2. InTransit'
      BY <2>1, <3>1 DEF Rest, InTransit
    <3>3. DeliveredIsAccountedFor'
      BY <2>1 DEF Rest, DeliveredIsAccountedFor
    <3> QED
      BY <3>2, <3>3
  <2>6. UnmarkedIsInside' /\ AtMostOnce' /\ HandedAsEdited'
    BY <2>1, <2>3 DEF Rest, UnmarkedIsInside, AtMostOnce, HandedAsEdited
  <2> QED
    BY <2>4, <2>5, <2>6 DEF Rest
<1> QED
  BY <1>1, <1>2 DEF RowStep

\* SELECT ... FOR UPDATE SKIP LOCKED takes rows that no other handler holds.
LEMMA SelectKeeps ==
  ASSUME Rest, TypeOK, TypeOK', NEW c \in Caller, SelectSome(c)
  PROVE  Rest'
<1>1. /\ pc[c] = "select" /\ pc' = [pc EXCEPT ![c] = "commit"]
      /\ locked' = [r \in Row |-> IF r \in Taken(c) THEN c ELSE locked[r]]
      /\ bundle' = [bundle EXCEPT ![c] = Taken(c)]
      /\ copy' = [copy EXCEPT ![c] = [r \in Row |-> IF r \in Taken(c) THEN body[r] ELSE 0]]
      /\ UNCHANGED <<status, body, handed, lost>>
  BY DEF SelectSome
<1>2. \A r \in Taken(c) : r \in Row /\ locked[r] = None /\ Pending(r)
  BY DEF Taken, CanTake, TypeOK
<1>3. \A d \in Caller \ {c} : bundle'[d] = bundle[d] /\ pc'[d] = pc[d] /\ copy'[d] = copy[d]
  BY <1>1 DEF TypeOK
<1>4. /\ bundle'[c] = Taken(c) /\ pc'[c] = "commit"
      /\ \A r \in Taken(c) : copy'[c][r] = body[r]
  BY <1>1, <1>2 DEF TypeOK
<1>5. \A r \in Row : locked[r] # None => locked[r] # c
  BY <1>1 DEF Rest, LocksMatch
<1>6. LocksMatch'
  <2>1. \A r \in Row : locked'[r] # None =>
          pc'[locked'[r]] = "commit" /\ r \in bundle'[locked'[r]]
    BY <1>1, <1>3, <1>4, <1>5 DEF Rest, LocksMatch, TypeOK
  <2>2. \A d \in Caller : pc'[d] = "commit" =>
          \A r \in bundle'[d] : locked'[r] = d /\ status'[r] = "pending"
    BY <1>1, <1>2, <1>3, <1>4, CallerAssumption DEF Rest, LocksMatch, Pending, TypeOK
  <2> QED
    BY <2>1, <2>2 DEF LocksMatch, Pending
<1>7. CopiesMatch'
  BY <1>1, <1>3, <1>4 DEF Rest, CopiesMatch
<1>8. InTransit' /\ DeliveredIsAccountedFor'
  BY <1>1, <1>3, <1>4 DEF Rest, InTransit, DeliveredIsAccountedFor
<1>9. UnmarkedIsInside' /\ AtMostOnce' /\ HandedAsEdited'
  BY <1>1 DEF Rest, UnmarkedIsInside, AtMostOnce, HandedAsEdited
<1> QED
  BY <1>6, <1>7, <1>8, <1>9 DEF Rest

\* What a COMMIT does to the rows, whether its answer arrives or not.
LEMMA CommitFacts ==
  ASSUME Rest, TypeOK, NEW c \in Caller, pc[c] = "commit",
         status' = Marked(c), locked' = Unlocked(c)
  PROVE  /\ \A r \in bundle[c] : /\ r \in Row /\ status[r] = "pending" /\ locked[r] = c
                                 /\ handed[r] = <<>> /\ r \notin lost
                                 /\ status'[r] = "delivered"
         /\ \A r \in Row \ bundle[c] : status'[r] = status[r] /\ locked'[r] = locked[r]
         /\ \A r \in Row : locked'[r] # None => locked'[r] = locked[r] /\ locked[r] # c
         /\ \A r \in bundle[c] : \A d \in Caller \ {c} : r \notin bundle[d]
<1>1. \A r \in bundle[c] : r \in Row /\ status[r] = "pending" /\ locked[r] = c
  BY DEF Rest, LocksMatch, Pending, TypeOK
<1>2. \A r \in bundle[c] : handed[r] = <<>> /\ r \notin lost
  BY <1>1 DEF Rest, UnmarkedIsInside
<1>3. \A r \in bundle[c] : status'[r] = "delivered"
  BY <1>1 DEF Marked
<1>4. \A r \in Row : locked[r] = c => r \in bundle[c]
  BY CallerAssumption DEF Rest, LocksMatch
<1>5. \A r \in Row \ bundle[c] : status'[r] = status[r] /\ locked'[r] = locked[r]
  BY <1>4 DEF Marked, Unlocked
<1>6. \A r \in Row : locked'[r] # None => locked'[r] = locked[r] /\ locked[r] # c
  BY DEF Unlocked
<1>7. \A r \in bundle[c] : \A d \in Caller \ {c} : r \notin bundle[d]
  BY <1>1 DEF Rest, LocksMatch, CopiesMatch, InTransit
<1> QED
  BY <1>1, <1>2, <1>3, <1>5, <1>6, <1>7

\* COMMIT: the rows pass from the lock to the handler.
LEMMA CommitKeeps ==
  ASSUME Rest, TypeOK, TypeOK', NEW c \in Caller, Commit(c)
  PROVE  Rest'
<1>1. /\ pc[c] = "commit" /\ pc' = [pc EXCEPT ![c] = "dispatch"]
      /\ status' = Marked(c) /\ locked' = Unlocked(c)
      /\ UNCHANGED <<body, bundle, copy, handed, lost>>
  BY DEF Commit
<1>2. /\ \A r \in bundle[c] : /\ r \in Row /\ status[r] = "pending" /\ locked[r] = c
                              /\ handed[r] = <<>> /\ r \notin lost
                              /\ status'[r] = "delivered"
      /\ \A r \in Row \ bundle[c] : status'[r] = status[r] /\ locked'[r] = locked[r]
      /\ \A r \in Row : locked'[r] # None => locked'[r] = locked[r] /\ locked[r] # c
      /\ \A r \in bundle[c] : \A d \in Caller \ {c} : r \notin bundle[d]
  BY <1>1, CommitFacts
<1>3. pc'[c] = "dispatch" /\ \A d \in Caller \ {c} : pc'[d] = pc[d]
  BY <1>1 DEF TypeOK
<1>4. LocksMatch'
  <2>1. \A r \in Row : locked'[r] # None =>
          pc'[locked'[r]] = "commit" /\ r \in bundle'[locked'[r]]
    BY <1>1, <1>2, <1>3 DEF Rest, LocksMatch, TypeOK
  <2>2. \A d \in Caller : pc'[d] = "commit" =>
          \A r \in bundle'[d] : locked'[r] = d /\ status'[r] = "pending"
    BY <1>1, <1>2, <1>3 DEF Rest, LocksMatch, Pending, TypeOK
  <2> QED
    BY <2>1, <2>2 DEF LocksMatch, Pending
<1>5. CopiesMatch'
  BY <1>1, <1>3 DEF Rest, CopiesMatch
<1>6. InTransit'
  BY <1>1, <1>2, <1>3 DEF Rest, InTransit, TypeOK
<1>7. DeliveredIsAccountedFor'
  BY <1>1, <1>2, <1>3 DEF Rest, DeliveredIsAccountedFor
<1>8. UnmarkedIsInside' /\ AtMostOnce' /\ HandedAsEdited'
  BY <1>1, <1>2 DEF Rest, UnmarkedIsInside, AtMostOnce, HandedAsEdited
<1> QED
  BY <1>4, <1>5, <1>6, <1>7, <1>8 DEF Rest

-----------------------------------------------------------------------------
(* The ways a handler returns                                              *)

\* A handler that returns without touching the table leaves the others alone.
LEMMA ReturnFacts ==
  ASSUME TypeOK, NEW c \in Caller, Return(c)
  PROVE  /\ pc'[c] = "idle" /\ bundle'[c] = {}
         /\ \A d \in Caller \ {c} : pc'[d] = pc[d] /\ bundle'[d] = bundle[d] /\ copy'[d] = copy[d]
BY DEF Return, TypeOK

\* The call of sendMessage, accepted or not, ends the transit of the rows.
LEMMA DispatchKeeps ==
  ASSUME Rest, TypeOK, TypeOK', NEW c \in Caller, Dispatch(c)
  PROVE  Rest'
<1>1. pc[c] = "dispatch" /\ Return(c) /\ UNCHANGED <<status, body, locked>>
  BY DEF Dispatch, table
<1>2. /\ pc'[c] = "idle" /\ bundle'[c] = {}
      /\ \A d \in Caller \ {c} : pc'[d] = pc[d] /\ bundle'[d] = bundle[d] /\ copy'[d] = copy[d]
  BY <1>1, ReturnFacts
<1>3. \A r \in bundle[c] : /\ r \in Row /\ status[r] = "delivered"
                           /\ handed[r] = <<>> /\ r \notin lost
                           /\ copy[c][r] = body[r]
                           /\ \A d \in Caller \ {c} : ~(pc[d] = "dispatch" /\ r \in bundle[d])
  BY <1>1 DEF Rest, InTransit, CopiesMatch, TypeOK
<1>4. \A r \in Row \ bundle[c] : handed'[r] = handed[r] /\ (r \in lost' <=> r \in lost)
  BY DEF Dispatch, TypeOK
<1>5. \A r \in bundle[c] : \/ handed'[r] = <<body[r]>> /\ r \notin lost'
                           \/ handed'[r] = <<>> /\ r \in lost'
  <2>1. \A x : Append(<<>>, x) = <<x>>
    OBVIOUS
  <2>2. \A r \in bundle[c] : Append(handed[r], copy[c][r]) = <<body[r]>>
    BY <1>3, <2>1
  <2> QED
    BY <1>3, <2>2 DEF Dispatch, TypeOK
<1>6. LocksMatch' /\ CopiesMatch'
  <2>1. \A r \in Row : locked[r] # None => locked[r] \in Caller \ {c}
    BY <1>1 DEF Rest, LocksMatch, TypeOK
  <2>2. \A r \in Row : locked'[r] # None =>
          pc'[locked'[r]] = "commit" /\ r \in bundle'[locked'[r]]
    BY <1>1, <1>2, <2>1 DEF Rest, LocksMatch
  <2>3. \A d \in Caller : pc'[d] = "commit" =>
          \A r \in bundle'[d] : locked'[r] = d /\ status'[r] = "pending"
    BY <1>1, <1>2 DEF Rest, LocksMatch, Pending
  <2>4. CopiesMatch'
    BY <1>1, <1>2 DEF Rest, CopiesMatch
  <2> QED
    BY <2>2, <2>3, <2>4 DEF LocksMatch, Pending
<1>7. InTransit'
  BY <1>1, <1>2, <1>3, <1>4 DEF Rest, InTransit, TypeOK
<1>8. DeliveredIsAccountedFor'
  <2> SUFFICES ASSUME NEW r \in Row, status'[r] = "delivered", handed'[r] = <<>>, r \notin lost'
               PROVE  \E d \in Caller : pc'[d] = "dispatch" /\ r \in bundle'[d]
    BY DEF DeliveredIsAccountedFor
  <2>1. r \notin bundle[c]
    BY <1>5
  <2>2. handed[r] = <<>> /\ r \notin lost
    BY <1>4, <2>1
  <2>3. PICK d \in Caller : pc[d] = "dispatch" /\ r \in bundle[d]
    BY <1>1, <2>2 DEF Rest, DeliveredIsAccountedFor
  <2> QED
    BY <1>2, <2>1, <2>3
<1>9. UnmarkedIsInside'
  BY <1>1, <1>3, <1>4 DEF Rest, UnmarkedIsInside
<1>10. AtMostOnce' /\ HandedAsEdited'
  <2>1. \A x : Len(<<x>>) <= 1
    OBVIOUS
  <2>2. Len(<<>>) <= 1
    OBVIOUS
  <2>3. AtMostOnce'
    BY <1>1, <1>3, <1>4, <1>5, <2>1, <2>2 DEF Rest, AtMostOnce
  <2>4. HandedAsEdited'
    BY <1>1, <1>4, <1>5 DEF Rest, HandedAsEdited
  <2> QED
    BY <2>3, <2>4
<1> QED
  BY <1>6, <1>7, <1>8, <1>9, <1>10 DEF Rest

\* Before the COMMIT a lost connection frees the rows as they were.
LEMMA LoseConnectionKeeps ==
  ASSUME Rest, TypeOK, TypeOK', NEW c \in Caller, LoseConnection(c)
  PROVE  Rest'
<1>1. /\ pc[c] \in {"stamp", "select", "commit"} /\ Return(c) /\ locked' = Unlocked(c)
      /\ UNCHANGED <<status, body, handed, lost>>
  BY DEF LoseConnection
<1>2. /\ pc'[c] = "idle" /\ bundle'[c] = {}
      /\ \A d \in Caller \ {c} : pc'[d] = pc[d] /\ bundle'[d] = bundle[d] /\ copy'[d] = copy[d]
  BY <1>1, ReturnFacts
<1>3. /\ \A r \in Row : locked'[r] # None => locked'[r] = locked[r] /\ locked[r] # c
      /\ \A r \in Row : locked[r] # c => locked'[r] = locked[r]
  BY <1>1 DEF Unlocked
<1>4. LocksMatch'
  <2>1. \A r \in Row : locked'[r] # None =>
          pc'[locked'[r]] = "commit" /\ r \in bundle'[locked'[r]]
    BY <1>2, <1>3 DEF Rest, LocksMatch, TypeOK
  <2>2. \A d \in Caller : pc'[d] = "commit" =>
          \A r \in bundle'[d] : locked'[r] = d /\ status'[r] = "pending"
    <3>1. \A d \in Caller \ {c} : \A r \in bundle[d] : r \in Row
      BY DEF TypeOK
    <3>2. \A d \in Caller \ {c} : pc[d] = "commit" =>
            \A r \in bundle[d] : r \in Row /\ locked[r] = d /\ status[r] = "pending"
      BY <3>1 DEF Rest, LocksMatch, Pending
    <3>3. \A d \in Caller : pc'[d] = "commit" => d # c
      BY <1>2
    <3> QED
      BY <1>1, <1>2, <1>3, <3>2, <3>3
  <2> QED
    BY <2>1, <2>2 DEF LocksMatch, Pending
<1>5. CopiesMatch'
  BY <1>1, <1>2 DEF Rest, CopiesMatch
<1>6. InTransit'
  BY <1>1, <1>2 DEF Rest, InTransit
<1>7. DeliveredIsAccountedFor'
  BY <1>1, <1>2 DEF Rest, DeliveredIsAccountedFor
<1>8. UnmarkedIsInside' /\ AtMostOnce' /\ HandedAsEdited'
  BY <1>1 DEF Rest, UnmarkedIsInside, AtMostOnce, HandedAsEdited
<1> QED
  BY <1>4, <1>5, <1>6, <1>7, <1>8 DEF Rest

\* A COMMIT whose answer is lost marks rows that nobody passes on.
LEMMA LoseCommitAnswerKeeps ==
  ASSUME Rest, TypeOK, TypeOK', NEW c \in Caller, LoseCommitAnswer(c)
  PROVE  Rest'
<1>1. /\ pc[c] = "commit" /\ Return(c) /\ lost' = lost \union bundle[c]
      /\ status' = Marked(c) /\ locked' = Unlocked(c)
      /\ UNCHANGED <<body, handed>>
  BY DEF LoseCommitAnswer
<1>2. /\ pc'[c] = "idle" /\ bundle'[c] = {}
      /\ \A d \in Caller \ {c} : pc'[d] = pc[d] /\ bundle'[d] = bundle[d] /\ copy'[d] = copy[d]
  BY <1>1, ReturnFacts
<1>3. /\ \A r \in bundle[c] : /\ r \in Row /\ status[r] = "pending" /\ locked[r] = c
                              /\ handed[r] = <<>> /\ r \notin lost
                              /\ status'[r] = "delivered"
      /\ \A r \in Row \ bundle[c] : status'[r] = status[r] /\ locked'[r] = locked[r]
      /\ \A r \in Row : locked'[r] # None => locked'[r] = locked[r] /\ locked[r] # c
      /\ \A r \in bundle[c] : \A d \in Caller \ {c} : r \notin bundle[d]
  BY <1>1, CommitFacts
<1>4. LocksMatch'
  <2>1. \A r \in Row : locked'[r] # None =>
          pc'[locked'[r]] = "commit" /\ r \in bundle'[locked'[r]]
    BY <1>2, <1>3 DEF Rest, LocksMatch, TypeOK
  <2>2. \A d \in Caller : pc'[d] = "commit" =>
          \A r \in bundle'[d] : locked'[r] = d /\ status'[r] = "pending"
    <3>1. \A d \in Caller \ {c} : \A r \in bundle[d] : r \in Row \ bundle[c]
      BY <1>3 DEF TypeOK
    <3>2. \A d \in Caller \ {c} : pc[d] = "commit" =>
            \A r \in bundle[d] : locked[r] = d /\ status[r] = "pending"
      BY DEF Rest, LocksMatch, Pending
    <3>3. \A d \in Caller : pc'[d] = "commit" => d # c
      BY <1>2
    <3> QED
      BY <1>2, <1>3, <3>1, <3>2, <3>3
  <2> QED
    BY <2>1, <2>2 DEF LocksMatch, Pending
<1>5. CopiesMatch'
  BY <1>1, <1>2 DEF Rest, CopiesMatch
<1>6. InTransit'
  <2>1. \A d \in Caller \ {c} : \A r \in bundle[d] : r \in Row \ bundle[c]
    BY <1>3 DEF TypeOK
  <2> QED
    BY <1>1, <1>2, <1>3, <2>1 DEF Rest, InTransit
<1>7. DeliveredIsAccountedFor'
  BY <1>1, <1>2, <1>3 DEF Rest, DeliveredIsAccountedFor
<1>8. UnmarkedIsInside' /\ AtMostOnce' /\ HandedAsEdited'
  BY <1>1, <1>3 DEF Rest, UnmarkedIsInside, AtMostOnce, HandedAsEdited
<1> QED
  BY <1>4, <1>5, <1>6, <1>7, <1>8 DEF Rest

\* A restart rolls back what is locked and loses what is in transit.
LEMMA RestartKeeps ==
  ASSUME Rest, TypeOK, TypeOK', Restart
  PROVE  Rest'
<1>1. /\ \A r \in Row : locked'[r] = None
      /\ \A c \in Caller : pc'[c] = "idle" /\ bundle'[c] = {}
      /\ UNCHANGED <<status, body, handed>>
  BY DEF Restart
<1>2. \A r \in Row : r \in lost' <=>
        r \in lost \/ \E c \in Caller : pc[c] = "dispatch" /\ r \in bundle[c]
  BY DEF Restart
<1>3. LocksMatch' /\ CopiesMatch' /\ InTransit'
  BY <1>1 DEF LocksMatch, CopiesMatch, InTransit
<1>4. DeliveredIsAccountedFor'
  BY <1>1, <1>2 DEF Rest, DeliveredIsAccountedFor
<1>5. UnmarkedIsInside' /\ AtMostOnce' /\ HandedAsEdited'
  BY <1>1, <1>2 DEF Rest, InTransit, UnmarkedIsInside, AtMostOnce, HandedAsEdited
<1> QED
  BY <1>3, <1>4, <1>5 DEF Rest

-----------------------------------------------------------------------------

\* No step of a handler, of a statement or of a fault breaks the invariant.
LEMMA QueueInvNext == QueueInv /\ [Next]_vars => QueueInv'
<1> SUFFICES ASSUME QueueInv, [Next]_vars PROVE QueueInv'
  OBVIOUS
<1>0. TypeOK /\ TypeOK' /\ Rest
  BY TypeNext DEF QueueInv, Rest
<1>1. ASSUME NEW r \in Row, RowStep(r) PROVE Rest'
  BY <1>0, <1>1, RowStepKeeps
<1>2. ASSUME NEW c \in Caller,
             \/ SignalHandoff(c) \/ DirectMessage(c)
             \/ SweepRead(c) \/ SweepStamp(c)
             \/ \E r \in Row : promoteNow(c, r)
      PROVE  Rest'
  <2>1. UNCHANGED <<status, body, locked, bundle, copy, handed, lost>>
    BY <1>2 DEF SignalHandoff, DirectMessage, SweepRead, SweepStamp, promoteNow, Start, table
  <2>2. /\ pc[c] \in {"idle", "stamp"} /\ pc'[c] \in {"stamp", "select"}
        /\ \A d \in Caller \ {c} : pc'[d] = pc[d]
    BY <1>0, <1>2 DEF SignalHandoff, DirectMessage, SweepRead, SweepStamp, promoteNow, Start,
                      TypeOK
  <2> QED
    BY <1>0, <2>1, <2>2, NoRowMoves
<1>3. ASSUME NEW c \in Caller, SelectNone(c) PROVE Rest'
  <2>1. pc[c] = "select" /\ Return(c) /\ UNCHANGED <<status, body, locked, handed, lost>>
    BY <1>3 DEF SelectNone, table
  <2>2. /\ pc'[c] = "idle" /\ bundle'[c] = {}
        /\ \A d \in Caller \ {c} : pc'[d] = pc[d] /\ bundle'[d] = bundle[d] /\ copy'[d] = copy[d]
    BY <1>0, <2>1, ReturnFacts
  <2>3. bundle[c] = {}
    BY <1>0, <2>1 DEF Rest, CopiesMatch
  <2>4. bundle' = bundle
    <3>1. bundle' = [bundle EXCEPT ![c] = {}]
      BY <2>1 DEF Return
    <3> QED
      BY <1>0, <2>3, <3>1 DEF TypeOK
  <2> QED
    BY <1>0, <2>1, <2>2, <2>3, <2>4, NoRowMoves
<1>4. ASSUME NEW c \in Caller, SelectSome(c) PROVE Rest'
  BY <1>0, <1>4, SelectKeeps
<1>5. ASSUME NEW c \in Caller, Commit(c) PROVE Rest'
  BY <1>0, <1>5, CommitKeeps
<1>6. ASSUME NEW c \in Caller, Dispatch(c) PROVE Rest'
  BY <1>0, <1>6, DispatchKeeps
<1>7. ASSUME NEW c \in Caller, LoseConnection(c) PROVE Rest'
  BY <1>0, <1>7, LoseConnectionKeeps
<1>8. ASSUME NEW c \in Caller, LoseCommitAnswer(c) PROVE Rest'
  BY <1>0, <1>8, LoseCommitAnswerKeeps
<1>9. ASSUME Restart PROVE Rest'
  BY <1>0, <1>9, RestartKeeps
<1>10. ASSUME UNCHANGED vars PROVE Rest'
  BY <1>0, <1>10, NoRowMoves DEF vars, table, handlers
<1>11. Rest'
  BY <1>1, <1>2, <1>3, <1>4, <1>5, <1>6, <1>7, <1>8, <1>9, <1>10
     DEF Next, CallerStep, Proceed
<1> QED
  BY <1>0, <1>11 DEF QueueInv, Rest

\* QueueInv holds throughout, for any number of handlers, rows and faults.
THEOREM QueueInvariant == Spec => []QueueInv
<1> QED
  BY QueueInvInit, QueueInvNext, PTL DEF Spec

\* However hand-overs overlap, a queued message reaches the session at most once.
THEOREM AtMostOnceSafe == Spec => []AtMostOnce
<1>1. QueueInv => AtMostOnce
  BY DEF QueueInv
<1> QED
  BY <1>1, QueueInvariant, PTL

\* The session is told the body the row ends with.
THEOREM HandedAsEditedSafe == Spec => []HandedAsEdited
<1>1. QueueInv => HandedAsEdited
  BY DEF QueueInv
<1> QED
  BY <1>1, QueueInvariant, PTL

\* Every delivered mark is accounted for by a message that went out, one that is
\* about to, or one of the three known losses.
THEOREM DeliveredIsAccountedForSafe == Spec => []DeliveredIsAccountedFor
<1>1. QueueInv => DeliveredIsAccountedFor
  BY DEF QueueInv
<1> QED
  BY <1>1, QueueInvariant, PTL

\* Delivered and cancelled rows never change again: the UPDATE of a hand-over
\* has no condition of its own, but it touches only rows it has locked.
THEOREM FinalIsFinalSafe == Spec => FinalIsFinal
<1> DEFINE Final == \A r \in Row :
                      status[r] \in {"delivered", "cancelled"} =>
                        /\ status'[r] = status[r]
                        /\ body'[r] = body[r]
                        /\ aged'[r] = aged[r]
<1>1. ASSUME QueueInv, [Next]_vars PROVE Final
  <2>0. TypeOK /\ LocksMatch
    BY <1>1 DEF QueueInv
  <2>1. ASSUME NEW r \in Row, RowStep(r) PROVE Final
    BY <2>0, <2>1 DEF RowStep, enqueueMessage, GrowOld, EditBody, EditAge, cancelMessage,
                      CanUpdate, Pending, TypeOK
  <2>2. ASSUME NEW c \in Caller, Commit(c) \/ LoseCommitAnswer(c) PROVE Final
    <3>1. status' = Marked(c) /\ pc[c] = "commit" /\ UNCHANGED <<body, aged>>
      BY <2>2 DEF Commit, LoseCommitAnswer
    <3> QED
      BY <2>0, <3>1 DEF Marked, LocksMatch, Pending
  <2>3. ASSUME NEW c \in Caller,
               \/ SignalHandoff(c) \/ DirectMessage(c)
               \/ SweepRead(c) \/ SweepStamp(c)
               \/ \E r \in Row : promoteNow(c, r)
               \/ SelectNone(c) \/ SelectSome(c) \/ Dispatch(c) \/ LoseConnection(c)
        PROVE  UNCHANGED <<status, body, aged>>
    BY <2>3 DEF SignalHandoff, DirectMessage, SweepRead, SweepStamp, promoteNow, Start,
                SelectNone, SelectSome, Dispatch, LoseConnection, table
  <2>4. ASSUME Restart \/ UNCHANGED vars PROVE UNCHANGED <<status, body, aged>>
    BY <2>4 DEF Restart, vars, table
  <2> QED
    BY <1>1, <2>1, <2>2, <2>3, <2>4 DEF Next, CallerStep, Proceed
<1>2. QueueInv /\ [Next]_vars => [Final]_vars
  BY <1>1
<1> QED
  BY <1>2, QueueInvariant, PTL DEF Spec, FinalIsFinal
-----------------------------------------------------------------------------
(* The refinement                                                          *)

\* Every variable keeps its type.
THEOREM QueueTypes == Spec => []TypeOK
<1>1. QueueInv => TypeOK
  BY DEF QueueInv
<1> QED
  BY <1>1, QueueInvariant, PTL

\* Place looks at the status, the hand-over and the loss of a row, at nothing else.
LEMMA PlaceStays ==
  ASSUME UNCHANGED <<status, handed, lost>>
  PROVE  Place' = Place
BY DEF Place

\* No row outside S moves.
Still(S) ==
  \A r \in Row \ S : /\ status'[r] = status[r] /\ handed'[r] = handed[r]
                     /\ r \in lost' <=> r \in lost

\* The rows of S come to be at t.
ArriveAt(S, t) == \A r \in S : Place'[r] = t

MovedTo(S, t) == [r \in Row |-> IF r \in S THEN t ELSE Place[r]]

\* When the rows of S, and no others, come to be at t, Place moves them there.
LEMMA PlaceMoves ==
  ASSUME NEW STATE S, NEW CONSTANT t, Still(S), ArriveAt(S, t)
  PROVE  Place' = MovedTo(S, t)
<1>1. \A r \in Row \ S : Place'[r] = Place[r]
  BY DEF Place, Still
<1>2. \A r \in S : Place'[r] = t
  BY DEF ArriveAt
<1>3. /\ Place' = [r \in Row |-> Place'[r]]
      /\ Place = [r \in Row |-> Place[r]]
  BY DEF Place
<1> HIDE DEF Place
<1> QED
  BY <1>1, <1>2, <1>3, Zenon DEF MovedTo

\* A statement on one row.
LEMMA RowStepIsInbox ==
  ASSUME QueueInv, NEW r \in Row, RowStep(r)
  PROVE  Box!Next \/ UNCHANGED Box!vars
<1>0. TypeOK /\ UnmarkedIsInside
  BY DEF QueueInv
<1>1. CASE GrowOld(r) \/ EditAge(r)
  <2>1. UNCHANGED <<status, body, handed, lost>>
    BY <1>1 DEF GrowOld, EditAge
  <2> QED
    BY <2>1, PlaceStays DEF Box!vars
<1>2. CASE enqueueMessage(r)
  <2>1. /\ status[r] = "absent" /\ status' = [status EXCEPT ![r] = "pending"]
        /\ UNCHANGED <<body, handed, lost>>
    BY <1>2 DEF enqueueMessage
  <2>2. Place[r] = "absent" /\ Place'[r] = "waiting"
    BY <1>0, <2>1 DEF Place, TypeOK
  <2>3. Place' = MovedTo({r}, "waiting")
    <3>1. Still({r})
      BY <1>0, <2>1, <2>2 DEF Still, TypeOK
    <3>2. ArriveAt({r}, "waiting")
      BY <1>0, <2>1, <2>2 DEF ArriveAt
    <3> QED
      BY <3>1, <3>2, PlaceMoves
  <2>4. Box!Arrive(r)
    BY <2>1, <2>2, <2>3 DEF Box!Arrive, Box!Move, MovedTo
  <2> QED
    BY <2>4 DEF Box!Next
<1>3. CASE cancelMessage(r)
  <2>1. /\ status[r] = "pending" /\ status' = [status EXCEPT ![r] = "cancelled"]
        /\ UNCHANGED <<body, handed, lost>>
    BY <1>3 DEF cancelMessage, CanUpdate, Pending
  <2>2. Place[r] = "waiting" /\ Place'[r] = "withdrawn"
    BY <1>0, <2>1 DEF Place, TypeOK
  <2>3. Place' = MovedTo({r}, "withdrawn")
    <3>1. Still({r})
      BY <1>0, <2>1, <2>2 DEF Still, TypeOK
    <3>2. ArriveAt({r}, "withdrawn")
      BY <1>0, <2>1, <2>2 DEF ArriveAt
    <3> QED
      BY <3>1, <3>2, PlaceMoves
  <2>4. Box!Withdraw(r)
    BY <2>1, <2>2, <2>3 DEF Box!Withdraw, Box!Move, MovedTo
  <2> QED
    BY <2>4 DEF Box!Next
<1>4. CASE EditBody(r)
  <2>1. /\ status[r] = "pending" /\ body' = [body EXCEPT ![r] = @ + 1]
        /\ UNCHANGED <<status, handed, lost>>
    BY <1>4 DEF EditBody, CanUpdate, Pending
  <2>2. Place[r] = "waiting" /\ Place' = Place
    BY <2>1, PlaceStays DEF Place
  <2>3. Box!Change(r)
    BY <2>1, <2>2 DEF Box!Change
  <2> QED
    BY <2>3 DEF Box!Next
<1> QED
  BY <1>1, <1>2, <1>3, <1>4 DEF RowStep

\* A commit lets the rows leave; when its answer is lost they are lost at once.
LEMMA CommitIsInbox ==
  ASSUME QueueInv, NEW c \in Caller, Commit(c) \/ LoseCommitAnswer(c)
  PROVE  Box!Next
<1>0. TypeOK /\ Rest
  BY DEF QueueInv, Rest
<1>1. /\ pc[c] = "commit" /\ status' = Marked(c) /\ locked' = Unlocked(c)
      /\ UNCHANGED <<body, handed>>
  BY DEF Commit, LoseCommitAnswer
<1>2. /\ \A r \in bundle[c] : /\ r \in Row /\ status[r] = "pending"
                              /\ handed[r] = <<>> /\ r \notin lost
                              /\ status'[r] = "delivered"
      /\ \A r \in Row \ bundle[c] : status'[r] = status[r]
  BY <1>0, <1>1, CommitFacts
<1>3. bundle[c] \in SUBSET Row /\ \A r \in bundle[c] : Place[r] = "waiting"
  BY <1>2 DEF Place
<1>4. CASE Commit(c)
  <2>1. lost' = lost
    BY <1>4 DEF Commit
  <2>2. \A r \in bundle[c] : Place'[r] = "leaving"
    BY <1>1, <1>2, <2>1 DEF Place
  <2>3. Place' = MovedTo(bundle[c], "leaving")
    <3>1. Still(bundle[c])
      BY <1>1, <1>2, <2>1, <2>2 DEF Still
    <3>2. ArriveAt(bundle[c], "leaving")
      BY <1>1, <1>2, <2>1, <2>2 DEF ArriveAt
    <3> QED
      BY <3>1, <3>2, PlaceMoves
  <2>4. Box!Leave(bundle[c])
    BY <1>1, <1>3, <2>3 DEF Box!Leave, Box!Move, MovedTo
  <2> QED
    BY <1>3, <2>4 DEF Box!Next
<1>5. CASE LoseCommitAnswer(c)
  <2>1. lost' = lost \union bundle[c]
    BY <1>5 DEF LoseCommitAnswer
  <2>2. \A r \in bundle[c] : Place'[r] = "lost"
    BY <1>1, <1>2, <2>1 DEF Place
  <2>3. Place' = MovedTo(bundle[c], "lost")
    <3>1. Still(bundle[c])
      BY <1>1, <1>2, <2>1, <2>2 DEF Still
    <3>2. ArriveAt(bundle[c], "lost")
      BY <1>1, <1>2, <2>1, <2>2 DEF ArriveAt
    <3> QED
      BY <3>1, <3>2, PlaceMoves
  <2>4. Box!Lose(bundle[c])
    BY <1>1, <1>3, <2>3 DEF Box!Lose, Box!Move, MovedTo
  <2> QED
    BY <1>3, <2>4 DEF Box!Next
<1> QED
  BY <1>4, <1>5

\* sendMessage tells the session the rows as they are, or they are lost.
LEMMA DispatchIsInbox ==
  ASSUME QueueInv, NEW c \in Caller, Dispatch(c)
  PROVE  Box!Next
<1>0. TypeOK /\ CopiesMatch /\ InTransit
  BY DEF QueueInv
<1>1. pc[c] = "dispatch" /\ UNCHANGED <<status, body>>
  BY DEF Dispatch, table
<1>2. /\ bundle[c] \in SUBSET Row
      /\ \A r \in bundle[c] : /\ status[r] = "delivered" /\ handed[r] = <<>> /\ r \notin lost
                              /\ copy[c][r] = body[r]
  BY <1>0, <1>1 DEF TypeOK, CopiesMatch, InTransit
<1>3. \A r \in bundle[c] : Place[r] = "leaving"
  BY <1>2 DEF Place
<1>4. CASE /\ handed' = [r \in Row |-> IF r \in bundle[c] THEN Append(handed[r], copy[c][r])
                                                          ELSE handed[r]]
           /\ UNCHANGED lost
  <2>2. handed' = [r \in Row |-> IF r \in bundle[c] THEN <<body[r]>> ELSE handed[r]]
    <3>1. \A r \in bundle[c] : Append(handed[r], copy[c][r]) = <<body[r]>>
      <4>1. \A n : Append(<<>>, n) = <<n>>
        OBVIOUS
      <4> QED
        BY <1>2, <4>1, Zenon
    <3> QED
      BY <1>4, <3>1, Zenon
  <2>3. \A r \in bundle[c] : Place'[r] = "told"
    <3>1. \A r \in bundle[c] : handed'[r] # <<>>
      BY <1>2, <2>2
    <3> QED
      BY <1>1, <1>2, <3>1 DEF Place
  <2>4. Place' = MovedTo(bundle[c], "told")
    <3>1. Still(bundle[c])
      BY <1>1, <1>4, <2>3 DEF Still
    <3>2. ArriveAt(bundle[c], "told")
      BY <1>1, <1>4, <2>3 DEF ArriveAt
    <3> QED
      BY <3>1, <3>2, PlaceMoves
  <2>5. Box!Tell(bundle[c])
    BY <1>1, <1>2, <1>3, <2>2, <2>4 DEF Box!Tell, Box!Move, MovedTo
  <2> QED
    BY <1>2, <2>5 DEF Box!Next
<1>5. CASE lost' = lost \union bundle[c] /\ UNCHANGED handed
  <2>1. \A r \in bundle[c] : Place'[r] = "lost"
    BY <1>1, <1>2, <1>5 DEF Place
  <2>2. Place' = MovedTo(bundle[c], "lost")
    <3>1. Still(bundle[c])
      BY <1>1, <1>5, <2>1 DEF Still
    <3>2. ArriveAt(bundle[c], "lost")
      BY <1>1, <1>5, <2>1 DEF ArriveAt
    <3> QED
      BY <3>1, <3>2, PlaceMoves
  <2>3. Box!Lose(bundle[c])
    BY <1>1, <1>3, <1>5, <2>2 DEF Box!Lose, Box!Move, MovedTo
  <2> QED
    BY <1>2, <2>3 DEF Box!Next
<1> QED
  BY <1>4, <1>5 DEF Dispatch

\* A restart loses all that was between a commit and its call.
LEMMA RestartIsInbox ==
  ASSUME QueueInv, Restart
  PROVE  Box!Next
<1> DEFINE S == UNION {bundle[c] : c \in {d \in Caller : pc[d] = "dispatch"}}
<1>0. TypeOK /\ InTransit
  BY DEF QueueInv
<1>1. lost' = lost \union S /\ UNCHANGED <<status, body, handed>>
  BY DEF Restart
<1>2. /\ S \in SUBSET Row
      /\ \A r \in S : status[r] = "delivered" /\ handed[r] = <<>> /\ r \notin lost
  BY <1>0 DEF TypeOK, InTransit
<1> HIDE DEF S
<1>3. \A r \in S : Place[r] = "leaving" /\ Place'[r] = "lost"
  BY <1>1, <1>2 DEF Place
<1>4. Place' = MovedTo(S, "lost")
  <2>1. Still(S)
    BY <1>1 DEF Still
  <2>2. ArriveAt(S, "lost")
    BY <1>3 DEF ArriveAt
  <2> QED
    BY <2>1, <2>2, PlaceMoves
<1>5. Box!Lose(S)
  BY <1>1, <1>3, <1>4 DEF Box!Lose, Box!Move, MovedTo
<1> QED
  BY <1>2, <1>5 DEF Box!Next

\* For any number of handlers, rows and faults, the message queue is an Inbox:
\* what Place and the history of the session show takes only Inbox steps.
THEOREM QueueIsInbox == Spec => ImplementsInbox
<1>1. Init => Box!Init
  BY DEF Init, Box!Init, Place
<1>2. QueueInv /\ [Next]_vars => [Box!Next]_(Box!vars)
  <2> SUFFICES ASSUME QueueInv, [Next]_vars PROVE Box!Next \/ UNCHANGED Box!vars
    OBVIOUS
  <2>1. ASSUME NEW r \in Row, RowStep(r) PROVE Box!Next \/ UNCHANGED Box!vars
    BY <2>1, RowStepIsInbox
  <2>2. ASSUME NEW c \in Caller, Commit(c) \/ LoseCommitAnswer(c) PROVE Box!Next
    BY <2>2, CommitIsInbox
  <2>3. ASSUME NEW c \in Caller, Dispatch(c) PROVE Box!Next
    BY <2>3, DispatchIsInbox
  <2>4. ASSUME NEW c \in Caller,
               \/ SignalHandoff(c) \/ DirectMessage(c)
               \/ SweepRead(c) \/ SweepStamp(c)
               \/ \E r \in Row : promoteNow(c, r)
               \/ SelectNone(c) \/ SelectSome(c) \/ LoseConnection(c)
        PROVE  UNCHANGED Box!vars
    <3>1. UNCHANGED <<status, body, handed, lost>>
      BY <2>4 DEF SignalHandoff, DirectMessage, SweepRead, SweepStamp, promoteNow, Start,
                  SelectNone, SelectSome, LoseConnection, table
    <3> QED
      BY <3>1, PlaceStays DEF Box!vars
  <2>5. ASSUME UNCHANGED vars PROVE UNCHANGED Box!vars
    BY <2>5, PlaceStays DEF vars, table, Box!vars
  <2> QED
    BY <2>1, <2>2, <2>3, <2>4, <2>5, RestartIsInbox DEF Next, CallerStep, Proceed
<1> QED
  BY <1>1, <1>2, QueueInvariant, PTL DEF Spec, ImplementsInbox, Box!Spec

-----------------------------------------------------------------------------
(* Waiting.                                                                *)

\* No circle of sweeps, hand-overs and statements on single rows waits for ever: a
\* row is held by a transaction that waits for nobody.
THEOREM WaitsEnd == Spec => []WaitsAreShort
<1>1. QueueInv => WaitsAreShort
  <2> SUFFICES ASSUME QueueInv PROVE WaitsAreShort
    OBVIOUS
  <2>1. \A r \in Row : locked[r] # None => locked[r] \in Caller /\ pc[locked[r]] = "commit"
    BY DEF QueueInv, TypeOK, LocksMatch
  <2>2. ASSUME NEW c \in Caller, pc[c] # "idle", ~MayProceed(c)
        PROVE  \E r \in filter[c] : locked[r] \in Caller \ {c} /\ MayProceed(locked[r])
    <3>1. pc[c] = "stamp" /\ filter[c] \subseteq Row
      BY <2>2 DEF QueueInv, TypeOK, MayProceed
    <3>2. PICK r \in filter[c] : locked[r] # None
      BY <2>2, <3>1 DEF MayProceed
    <3> QED
      BY <2>1, <3>1, <3>2 DEF MayProceed
  <2> QED
    BY <2>1, <2>2 DEF WaitsAreShort
<1> QED
  BY <1>1, QueueInvariant, PTL
=============================================================================
