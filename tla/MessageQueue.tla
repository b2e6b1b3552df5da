---------------------------- MODULE MessageQueue ----------------------------
(***************************************************************************)
(* The inbox of the OS session: table message_queue, the functions of      *)
(* services/messageQueue.js, and the routes that call them.                *)
(*                                                                         *)
(* A row waits until a hand-over picks it up: deliverPending (signal of    *)
(* the session, promotion, age sweep) or drainIntoDirectMessage (a direct  *)
(* message takes the waiting rows along).  A hand-over is one transaction  *)
(* (SELECT ... FOR UPDATE SKIP LOCKED, UPDATE, COMMIT) and, after the      *)
(* commit, one call of osSessionService.sendMessage with all the bodies.   *)
(* Rows are edited, cancelled and promoted by single UPDATE statements,    *)
(* which wait for a locked row and test it again once they get it.         *)
(***************************************************************************)
EXTENDS Integers, Sequences, FiniteSets

CONSTANTS
  Caller,       \* the handlers that may run at the same time
  Sweeper,      \* the one that the 30 minute interval starts
  None,         \* no caller
  MaxRow,       \* bound: rows are 1 .. MaxRow in the order of queued_at
  MaxEdit,      \* bound: edits of a body
  MaxFault,     \* bound: lost connections and restarts
  MaxBundle     \* rows that fit into one message (the 200000 characters of sendMessage)

ASSUME CallerAssumption == Sweeper \in Caller /\ None \notin Caller
ASSUME BoundAssumption ==
  /\ MaxRow \in Nat /\ MaxEdit \in Nat /\ MaxFault \in Nat /\ MaxBundle \in Nat

VARIABLES
  (* the table *)
  status,       \* absent, pending, delivered (delivered_at), cancelled (cancelled_at)
  body,         \* the version of the body
  aged,         \* queued_at is more than max_age_hours ago
  promoted,     \* promoted_at is set
  locked,       \* the transaction that holds the row
  (* the handlers *)
  pc,           \* idle, stamp, select, commit, dispatch
  filter,       \* the ids the hand-over asked for
  direct,       \* TRUE: drainIntoDirectMessage, with a message of its own to send
  bundle,       \* the rows it selected
  copy,         \* their bodies as it read them
  (* what the properties need *)
  handed,       \* the versions of each row that sendMessage accepted
  lost,         \* rows marked delivered that no sendMessage will accept
  faults        \* faults so far

table    == <<status, body, aged, promoted, locked>>
handlers == <<pc, filter, direct, bundle, copy>>
vars     == <<table, handlers, handed, lost, faults>>

Row == 1 .. MaxRow

Init ==
  /\ status   = [r \in Row |-> "absent"]
  /\ body     = [r \in Row |-> 0]
  /\ aged     = [r \in Row |-> FALSE]
  /\ promoted = [r \in Row |-> FALSE]
  /\ locked   = [r \in Row |-> None]
  /\ pc       = [c \in Caller |-> "idle"]
  /\ filter   = [c \in Caller |-> {}]
  /\ direct   = [c \in Caller |-> FALSE]
  /\ bundle   = [c \in Caller |-> {}]
  /\ copy     = [c \in Caller |-> [r \in Row |-> 0]]
  /\ handed   = [r \in Row |-> <<>>]
  /\ lost     = {}
  /\ faults   = 0

-----------------------------------------------------------------------------
(* Statements on one row.                                                  *)

\* WHERE delivered_at IS NULL AND cancelled_at IS NULL
Pending(r) == status[r] = "pending"

\* Mutant: an UPDATE does not wait for the transaction that holds the row.
CanUpdateNoLock(r) == Pending(r)

\* An UPDATE gets the row only when no transaction holds it, and then tests
\* the condition on the committed row.
CanUpdate(r) == locked[r] = None /\ Pending(r)

\* Mutant: SELECT without FOR UPDATE SKIP LOCKED.
CanTakeNoLock(r) == Pending(r)

\* A row passes from SELECT ... FOR UPDATE SKIP LOCKED to its transaction.
CanTake(r) == locked[r] = None /\ Pending(r)

enqueueMessage(r) ==
  /\ status[r] = "absent"
  /\ \A q \in Row : q < r => status[q] # "absent"
  /\ status' = [status EXCEPT ![r] = "pending"]
  /\ UNCHANGED <<body, aged, promoted, locked, handlers, handed, lost, faults>>

\* Time passes the row's max_age_hours.
GrowOld(r) ==
  /\ Pending(r) /\ ~aged[r]
  /\ aged' = [aged EXCEPT ![r] = TRUE]
  /\ UNCHANGED <<status, body, promoted, locked, handlers, handed, lost, faults>>

\* PATCH /:id with a body
EditBody(r) ==
  /\ CanUpdate(r)
  /\ body[r] < MaxEdit
  /\ body' = [body EXCEPT ![r] = @ + 1]
  /\ UNCHANGED <<status, aged, promoted, locked, handlers, handed, lost, faults>>

\* PATCH /:id with a longer max_age_hours
EditAge(r) ==
  /\ CanUpdate(r)
  /\ aged[r]
  /\ aged' = [aged EXCEPT ![r] = FALSE]
  /\ UNCHANGED <<status, body, promoted, locked, handlers, handed, lost, faults>>

cancelMessage(r) ==
  /\ CanUpdate(r)
  /\ status' = [status EXCEPT ![r] = "cancelled"]
  /\ UNCHANGED <<body, aged, promoted, locked, handlers, handed, lost, faults>>

-----------------------------------------------------------------------------
(* How a hand-over starts, and how it ends.                                *)

\* The handler returns: its locals are gone.
Return(c) ==
  /\ pc'     = [pc EXCEPT ![c] = "idle"]
  /\ filter' = [filter EXCEPT ![c] = {}]
  /\ direct' = [direct EXCEPT ![c] = FALSE]
  /\ bundle' = [bundle EXCEPT ![c] = {}]
  /\ copy'   = [copy EXCEPT ![c] = [r \in Row |-> 0]]

Start(c, ids, drains) ==
  /\ pc[c] = "idle"
  /\ pc'     = [pc EXCEPT ![c] = "select"]
  /\ filter' = [filter EXCEPT ![c] = ids]
  /\ direct' = [direct EXCEPT ![c] = drains]
  /\ UNCHANGED <<status, body, aged, locked, bundle, copy, handed, lost, faults>>

\* POST /signal-handoff, or the end of a turn: deliverPending without ids
SignalHandoff(c) == c # Sweeper /\ Start(c, Row, FALSE) /\ UNCHANGED promoted

\* POST /message in mode direct: drainIntoDirectMessage
DirectMessage(c) == c # Sweeper /\ Start(c, Row, TRUE) /\ UNCHANGED promoted

\* POST /:id/promote: the mark is a statement of its own
promoteNow(c, r) ==
  /\ c # Sweeper
  /\ CanUpdate(r)
  /\ promoted' = [promoted EXCEPT ![r] = TRUE]
  /\ Start(c, {r}, FALSE)

\* Mutant: the sweep leaves out the rows it has stamped before.
AgedRowsOnce == {r \in Row : Pending(r) /\ aged[r] /\ ~promoted[r]}

AgedRows == {r \in Row : Pending(r) /\ aged[r]}

\* sweepAged reads the old rows without locking them ...
SweepRead(c) ==
  /\ pc[c] = "idle"
  /\ AgedRows # {}
  /\ pc'     = [pc EXCEPT ![c] = "stamp"]
  /\ filter' = [filter EXCEPT ![c] = AgedRows]
  /\ direct' = [direct EXCEPT ![c] = FALSE]
  /\ UNCHANGED <<table, bundle, copy, handed, lost, faults>>

\* ... stamps them, whatever has become of them (WHERE promoted_at IS NULL
\* is its only condition), and hands them over.
SweepStamp(c) ==
  /\ pc[c] = "stamp"
  /\ \A r \in filter[c] : promoted[r] \/ locked[r] = None
  /\ promoted' = [r \in Row |-> promoted[r] \/ r \in filter[c]]
  /\ pc'       = [pc EXCEPT ![c] = "select"]
  /\ UNCHANGED <<status, body, aged, locked, filter, direct, bundle, copy,
                 handed, lost, faults>>

-----------------------------------------------------------------------------
(* The transaction and the call after it.                                  *)

Taken(c) == {r \in filter[c] : CanTake(r)}

\* Nothing to hand over: a drain goes on with its own message alone.
SelectNone(c) ==
  /\ pc[c] = "select"
  /\ Taken(c) = {}
  /\ Return(c)
  /\ UNCHANGED <<table, handed, lost, faults>>

SelectSome(c) ==
  /\ pc[c] = "select"
  /\ Taken(c) # {}
  /\ locked' = [r \in Row |-> IF r \in Taken(c) THEN c ELSE locked[r]]
  /\ bundle' = [bundle EXCEPT ![c] = Taken(c)]
  /\ copy'   = [copy EXCEPT ![c] = [r \in Row |-> IF r \in Taken(c) THEN body[r] ELSE 0]]
  /\ pc'     = [pc EXCEPT ![c] = "commit"]
  /\ UNCHANGED <<status, body, aged, promoted, filter, direct, handed, lost, faults>>

\* The rows of c's transaction are free again.
Unlocked(c) == [r \in Row |-> IF locked[r] = c THEN None ELSE locked[r]]

\* Mutant: the UPDATE repeats the condition of the SELECT instead of its ids.
MarkedAll(c) ==
  [r \in Row |-> IF r \in filter[c] /\ Pending(r) THEN "delivered" ELSE status[r]]

\* UPDATE ... WHERE id = ANY(pendingIds) and COMMIT: no condition on the
\* row, the lock stands for it.
Marked(c) == [r \in Row |-> IF r \in bundle[c] THEN "delivered" ELSE status[r]]

Commit(c) ==
  /\ pc[c] = "commit"
  /\ status' = Marked(c)
  /\ locked' = Unlocked(c)
  /\ pc'     = [pc EXCEPT ![c] = "dispatch"]
  /\ UNCHANGED <<body, aged, promoted, filter, direct, bundle, copy, handed, lost, faults>>

\* What sendMessage takes: one message, not longer than its limit.
Fits(c) == Cardinality(bundle[c]) + (IF direct[c] THEN 1 ELSE 0) <= MaxBundle

\* osSession.sendMessage takes the bodies, or throws because the message is
\* too long: that error is only logged.
Dispatch(c) ==
  /\ pc[c] = "dispatch"
  /\ \/ /\ Fits(c)
        /\ handed' = [r \in Row |-> IF r \in bundle[c] THEN Append(handed[r], copy[c][r])
                                                       ELSE handed[r]]
        /\ UNCHANGED lost
     \/ /\ ~Fits(c)
        /\ lost' = lost \union bundle[c]
        /\ UNCHANGED handed
  /\ Return(c)
  /\ UNCHANGED <<table, faults>>

-----------------------------------------------------------------------------
(* Faults.                                                                 *)

\* The connection breaks before the commit: the database rolls back and the
\* caller gives up.
LoseConnection(c) ==
  /\ pc[c] \in {"stamp", "select", "commit"}
  /\ faults < MaxFault
  /\ faults' = faults + 1
  /\ locked' = Unlocked(c)
  /\ Return(c)
  /\ UNCHANGED <<status, body, aged, promoted, handed, lost>>

\* The commit succeeds but its answer is lost: the caller gives up, too.
LoseCommitAnswer(c) ==
  /\ pc[c] = "commit"
  /\ faults < MaxFault
  /\ faults' = faults + 1
  /\ status' = Marked(c)
  /\ locked' = Unlocked(c)
  /\ lost'   = lost \union bundle[c]
  /\ Return(c)
  /\ UNCHANGED <<body, aged, promoted, handed>>

\* The process restarts: open transactions roll back, calls not made are not made.
Restart ==
  /\ faults < MaxFault
  /\ faults' = faults + 1
  /\ locked' = [r \in Row |-> None]
  /\ lost'   = lost \union UNION {bundle[c] : c \in {d \in Caller : pc[d] = "dispatch"}}
  /\ pc'     = [c \in Caller |-> "idle"]
  /\ filter' = [c \in Caller |-> {}]
  /\ direct' = [c \in Caller |-> FALSE]
  /\ bundle' = [c \in Caller |-> {}]
  /\ copy'   = [c \in Caller |-> [r \in Row |-> 0]]
  /\ UNCHANGED <<status, body, aged, promoted, handed>>

-----------------------------------------------------------------------------

RowStep(r) == enqueueMessage(r) \/ GrowOld(r) \/ EditBody(r) \/ EditAge(r) \/ cancelMessage(r)

\* The steps a hand-over takes once it has started.
Proceed(c) == SweepStamp(c) \/ SelectNone(c) \/ SelectSome(c) \/ Commit(c) \/ Dispatch(c)

CallerStep(c) ==
  \/ SignalHandoff(c)
  \/ DirectMessage(c)
  \/ \E r \in Row : promoteNow(c, r)
  \/ SweepRead(c)
  \/ Proceed(c)
  \/ LoseConnection(c)
  \/ LoseCommitAnswer(c)

Next ==
  \/ \E r \in Row : RowStep(r)
  \/ \E c \in Caller : CallerStep(c)
  \/ Restart

Spec == Init /\ [][Next]_vars

\* The interval fires for ever, and a handler that waits for the database goes on.
FairSpec ==
  /\ Spec
  /\ WF_vars(SweepRead(Sweeper))
  /\ \A c \in Caller : WF_vars(Proceed(c))

-----------------------------------------------------------------------------
(* Properties.                                                             *)

TypeOK ==
  /\ status   \in [Row -> {"absent", "pending", "delivered", "cancelled"}]
  /\ body     \in [Row -> Nat]
  /\ aged     \in [Row -> BOOLEAN]
  /\ promoted \in [Row -> BOOLEAN]
  /\ locked   \in [Row -> Caller \union {None}]
  /\ pc       \in [Caller -> {"idle", "stamp", "select", "commit", "dispatch"}]
  /\ filter   \in [Caller -> SUBSET Row]
  /\ direct   \in [Caller -> BOOLEAN]
  /\ bundle   \in [Caller -> SUBSET Row]
  /\ copy     \in [Caller -> [Row -> Nat]]
  /\ handed   \in [Row -> Seq(Nat)]
  /\ lost     \subseteq Row
  /\ faults   \in Nat

\* However hand-overs, drains, promotions and sweeps overlap and whatever
\* restarts, no queued message reaches the session twice, and none that was
\* cancelled or that the code gave up reaches it at all.
AtMostOnce ==
  \A r \in Row :
    /\ Len(handed[r]) <= 1
    /\ handed[r] # <<>> => status[r] = "delivered" /\ r \notin lost

\* An edit that was acknowledged is never lost: what the session is told is
\* the body the row ends with.
HandedAsEdited ==
  \A r \in Row : handed[r] # <<>> => handed[r] = <<body[r]>>

\* The delivered mark is never stale: a row carries it only if the session has
\* it, a running handler is about to pass it on, or one of the three known
\* losses (too long, no answer to the commit, restart) befell it.
DeliveredIsAccountedFor ==
  \A r \in Row :
    status[r] = "delivered" =>
      \/ handed[r] # <<>>
      \/ r \in lost
      \/ \E c \in Caller : pc[c] = "dispatch" /\ r \in bundle[c]

\* Delivered and cancelled are final, also for statements that waited for a
\* lock, and neither the body nor the age of such a row moves again.
FinalIsFinal ==
  [][\A r \in Row :
       status[r] \in {"delivered", "cancelled"} =>
         /\ status'[r] = status[r]
         /\ body'[r] = body[r]
         /\ aged'[r] = aged[r]]_vars

\* "Queued messages held until os_signal_handoff fires or max_age_hours
\* elapses": a message past its age does not wait for ever.
AgedLeaves ==
  \A r \in Row : (Pending(r) /\ aged[r]) ~> (~Pending(r) \/ ~aged[r])

-----------------------------------------------------------------------------
(* The abstract inbox.                                                     *)

\* Where the sender of a row would say its message is.
Place ==
  [r \in Row |->
     CASE status[r] = "absent"    -> "absent"
       [] status[r] = "pending"   -> "waiting"
       [] status[r] = "cancelled" -> "withdrawn"
       [] OTHER -> IF handed[r] # <<>> THEN "told"
                   ELSE IF r \in lost THEN "lost" ELSE "leaving"]

Box == INSTANCE Inbox WITH Message <- Row, place <- Place, text <- body, told <- handed

\* Seen from outside, the table, its locks and its handlers are an inbox: no
\* overlap of hand-overs, edits, cancellations, sweeps, lost connections and
\* restarts lets a message take a way that Inbox does not have.
ImplementsInbox == Box!Spec

-----------------------------------------------------------------------------
(* What the proofs need.                                                   *)

\* A row is locked by the transaction that selected it, and waits until its commit.
LocksMatch ==
  /\ \A r \in Row : locked[r] # None =>
       pc[locked[r]] = "commit" /\ r \in bundle[locked[r]]
  /\ \A c \in Caller : pc[c] = "commit" =>
       \A r \in bundle[c] : locked[r] = c /\ Pending(r)

\* Only a handler between its SELECT and its call holds rows, as they are.
CopiesMatch ==
  \A c \in Caller :
    /\ pc[c] \notin {"commit", "dispatch"} => bundle[c] = {}
    /\ \A r \in bundle[c] : copy[c][r] = body[r]

\* A row on its way to sendMessage is marked, in one handler, and not there yet.
InTransit ==
  \A c \in Caller : pc[c] = "dispatch" =>
    \A r \in bundle[c] :
      /\ status[r] = "delivered" /\ handed[r] = <<>> /\ r \notin lost
      /\ \A d \in Caller : pc[d] = "dispatch" /\ r \in bundle[d] => d = c

\* A row that is not marked has not left the table.
UnmarkedIsInside ==
  \A r \in Row : status[r] # "delivered" => handed[r] = <<>> /\ r \notin lost

QueueInv ==
  /\ TypeOK
  /\ LocksMatch
  /\ CopiesMatch
  /\ InTransit
  /\ UnmarkedIsInside
  /\ AtMostOnce
  /\ HandedAsEdited
  /\ DeliveredIsAccountedFor

\* A hand-over that need not wait for another one.
MayProceed(c) ==
  \/ pc[c] \in {"select", "commit", "dispatch"}
  \/ pc[c] = "stamp" /\ \A r \in filter[c] : promoted[r] \/ locked[r] = None

\* Nobody waits for one who waits: the transaction that holds a row is at its
\* commit, and a hand-over that has started, the stamps of the sweep included, has
\* a step to take or waits for such a transaction.
WaitsAreShort ==
  /\ \A r \in Row : locked[r] # None => pc[locked[r]] = "commit"
  /\ \A c \in Caller : pc[c] # "idle" =>
       MayProceed(c) \/ \E r \in filter[c] : locked[r] \in Caller \ {c} /\ MayProceed(locked[r])

=============================================================================
