---------------------------- MODULE ActionQueue ----------------------------
(***************************************************************************)
(* The queue of candidate actions: table action_queue and the functions of *)
(* services/actionQueueService.js that change it.                          *)
(*                                                                         *)
(* A signal of an integration is refused, merged into a pending row of the *)
(* same sender, or becomes a row.  A row is dismissed, expires, or is      *)
(* executed: claimed by one UPDATE, performed by a capability, and marked  *)
(* by a second UPDATE.  Every statement is a step of its own; nothing but  *)
(* the condition status = 'pending' of some of them stands between two     *)
(* handlers.  A row is named by the signal whose INSERT made it.           *)
(***************************************************************************)
EXTENDS Integers, FiniteSets

CONSTANTS
  MaxOverlap,  \* the calls of execute, batchExecute and retryFailed that may overlap
  Signal,      \* the calls of enqueue
  Old,         \* those that have become rows before
  NoKey,       \* resource_key IS NULL
  Sender,      \* Sender[s]: who a signal is from; two signals of one sender score 50 or more
  Resource,    \* Resource[s]: the resource key of a signal, or NoKey
  Concurrency, \* concurrency of batchExecute
  MaxCall,     \* bound: calls in all
  MaxFault     \* bound: failed statements and restarts

ASSUME OldAssumption ==
  Old \subseteq Signal /\ \A q, r \in Old : Sender[q] = Sender[r] => q = r
ASSUME BoundAssumption ==
  MaxOverlap \in Nat /\ Concurrency \in Nat \ {0} /\ MaxCall \in Nat /\ MaxFault \in Nat

VARIABLES
  (* the table *)
  status,      \* absent, pending, approved, executed, dismissed, expired
  refs,        \* context.source_ref_ids: the signals the row carries
  overdue,     \* expires_at < now()
  failed,      \* error_message IS NOT NULL
  (* enqueue *)
  sig,         \* new, look, merge, insert, merged, inserted, dropped
  match,       \* the row that tryConsolidate has chosen
  seen,        \* its refs as the SELECT returned them
  (* execute, batchExecute, retryFailed *)
  mode,        \* idle, single, batch, retry
  step,        \* step[c][r]: none, queued, clear, claim, perform, record, defer, restore
  (* what the properties need *)
  performed,   \* how often the capability took effect for the row
  called,      \* calls so far
  unmarked,    \* how often an effect was not followed by the mark 'executed'
  stuck,       \* rows left 'approved' by a failed statement or a restart
  unretried,   \* rows whose last execution did not succeed
  forgotten,   \* rows a restart met between the clearing of the error and the claim
  raced,       \* senders with overlapping calls of enqueue, or with a row that came back
  faults       \* faults so far

table   == <<status, refs, overdue, failed>>
intake  == <<sig, match, seen>>
calls   == <<mode, step>>
history == <<called, performed, unmarked, stuck, unretried, forgotten, raced, faults>>
vars    == <<table, intake, calls, history>>

Caller == 1 .. MaxOverlap
Row == Signal
Key == {Resource[r] : r \in Row}

Init ==
  /\ status    = [r \in Row |-> IF r \in Old THEN "pending" ELSE "absent"]
  /\ refs      = [r \in Row |-> {r} \cap Old]
  /\ overdue   = [r \in Row |-> FALSE]
  /\ failed    = [r \in Row |-> FALSE]
  /\ sig       = [s \in Signal |-> IF s \in Old THEN "inserted" ELSE "new"]
  /\ match     = [s \in Signal |-> s]
  /\ seen      = [s \in Signal |-> {}]
  /\ mode      = [c \in Caller |-> "idle"]
  /\ step      = [c \in Caller |-> [r \in Row |-> "none"]]
  /\ performed = [r \in Row |-> 0]
  /\ called    = 0
  /\ unmarked  = [r \in Row |-> 0]
  /\ stuck     = {}
  /\ unretried = {}
  /\ forgotten = {}
  /\ raced     = {}
  /\ faults    = 0

Pending(r) == status[r] = "pending"

\* One more failed statement or restart.
Fault == faults < MaxFault /\ faults' = faults + 1

-----------------------------------------------------------------------------
(* enqueue and tryConsolidate.                                             *)

InEnqueue(s) == sig[s] \in {"look", "merge", "insert"}

\* The sender, when another call of enqueue for it is under way.
Overlaps(s) == {Sender[s] : t \in {t \in Signal \ {s} : InEnqueue(t) /\ Sender[t] = Sender[s]}}

\* The history of decisions and the dismissals of the last two hours let the
\* signal pass.  When they do not, enqueue returns null and leaves no trace in
\* the table: the signal stays "new".
Enter(s) ==
  /\ sig[s] = "new"
  /\ sig' = [sig EXCEPT ![s] = "look"]
  /\ raced' = raced \union Overlaps(s)
  /\ UNCHANGED <<table, match, seen, calls, called, performed, unmarked, stuck, unretried,
                 forgotten, faults>>

\* Mutant: a candidate must be about the same source_ref_id.
CandidatesOfSameRef(s) == {r \in Row : Pending(r) /\ ~overdue[r] /\ r = s}

\* What the SELECT of tryConsolidate returns that scores 50 or more.
Candidates(s) == {r \in Row : Pending(r) /\ ~overdue[r] /\ Sender[r] = Sender[s]}

Look(s) ==
  /\ sig[s] = "look"
  /\ \/ \E r \in Candidates(s) :
          /\ sig'   = [sig EXCEPT ![s] = "merge"]
          /\ match' = [match EXCEPT ![s] = r]
          /\ seen'  = [seen EXCEPT ![s] = refs[r]]
     \/ /\ Candidates(s) = {}
        /\ sig' = [sig EXCEPT ![s] = "insert"]
        /\ UNCHANGED <<match, seen>>
  /\ UNCHANGED <<table, calls, history>>

\* Mutant: the merged context keeps the latest signal only.
MergedRefsLatest(s) == {s}

MergedRefs(s) == seen[s] \union {s}

\* Mutant: the merge makes its row pending again.
StatusAfterMergeReopens(r) == [status EXCEPT ![r] = "pending"]

\* The UPDATE of tryConsolidate does not touch the status ...
StatusAfterMerge(r) == status

\* ... and asks for nothing but the id of the row: what the row has become
\* since the SELECT does not matter, and its context is written whole.
Merge(s) ==
  /\ sig[s] = "merge"
  /\ status'  = StatusAfterMerge(match[s])
  /\ refs'    = [refs EXCEPT ![match[s]] = MergedRefs(s)]
  /\ overdue' = [overdue EXCEPT ![match[s]] = FALSE]
  /\ sig'     = [sig EXCEPT ![s] = "merged"]
  /\ match'   = [match EXCEPT ![s] = s]
  /\ seen'    = [seen EXCEPT ![s] = {}]
  /\ UNCHANGED <<failed, calls, history>>

Insert(s) ==
  /\ sig[s] = "insert"
  /\ status' = [status EXCEPT ![s] = "pending"]
  /\ refs'   = [refs EXCEPT ![s] = {s}]
  /\ sig'    = [sig EXCEPT ![s] = "inserted"]
  /\ UNCHANGED <<overdue, failed, match, seen, calls, history>>

\* A statement of enqueue fails: the caller gets the error.
EnqueueFails(s) ==
  /\ InEnqueue(s)
  /\ Fault
  /\ sig'   = [sig EXCEPT ![s] = "dropped"]
  /\ match' = [match EXCEPT ![s] = s]
  /\ seen'  = [seen EXCEPT ![s] = {}]
  /\ UNCHANGED <<table, calls, called, performed, unmarked, stuck, unretried,
                 forgotten, raced>>

-----------------------------------------------------------------------------
(* dismiss, batchDismiss, expireStale, purgeExpired, and time.             *)

Dismiss(S) ==
  /\ S # {} /\ \A r \in S : Pending(r)
  /\ status'  = [r \in Row |-> IF r \in S THEN "dismissed" ELSE status[r]]
  /\ UNCHANGED <<refs, overdue, failed, intake, calls, history>>

Overdue == {r \in Row : Pending(r) /\ overdue[r]}

expireStale ==
  /\ Overdue # {}
  /\ status' = [r \in Row |-> IF r \in Overdue THEN "expired" ELSE status[r]]
  /\ UNCHANGED <<refs, overdue, failed, intake, calls, history>>

\* 48 hours pass for a row.  (expires_at of other rows is never read.)
FallDue(r) ==
  /\ Pending(r) /\ ~overdue[r]
  /\ overdue' = [overdue EXCEPT ![r] = TRUE]
  /\ UNCHANGED <<status, refs, failed, intake, calls, history>>

-----------------------------------------------------------------------------
(* How a call starts.                                                      *)

Idle(c) == mode[c] = "idle"

\* A new call takes the first free number.
Begin(c, m, S, first) ==
  /\ Idle(c) /\ \A d \in Caller : Idle(d) => c <= d
  /\ called < MaxCall
  /\ called' = called + 1
  /\ mode' = [mode EXCEPT ![c] = m]
  /\ step' = [step EXCEPT ![c] = [r \in Row |-> IF r \in S THEN first ELSE "none"]]
  /\ UNCHANGED <<table, intake, performed, unmarked, stuck, unretried, forgotten, raced, faults>>

\* POST /:id/execute
ExecuteOne(c, r) == status[r] # "absent" /\ Begin(c, "single", {r}, "claim")

\* POST /batch/execute: SELECT the pending rows among the ids
batchExecute(c, S) == S # {} /\ (\A r \in S : Pending(r)) /\ Begin(c, "batch", S, "queued")

Retryable == {r \in Row : Pending(r) /\ failed[r] /\ ~overdue[r]}

\* retryFailed of the maintenance worker
retryFailed(c) == Retryable # {} /\ Begin(c, "retry", Retryable, "queued")

-----------------------------------------------------------------------------
(* Which row of a call is next.                                            *)

Running == {"clear", "claim", "perform", "record", "defer", "restore"}
Active(c) == {r \in Row : step[c][r] \in Running}
Queued(c) == {r \in Row : step[c][r] = "queued"}

\* A wave of batchExecute: whole resource groups and up to `concurrency` rows
\* without a key, which count as one group.
Fits(c, W) ==
  /\ W # {}
  /\ \A r \in W, q \in Queued(c) : Resource[r] # NoKey /\ Resource[q] = Resource[r] => q \in W
  /\ Cardinality({Resource[r] : r \in W}) <= Concurrency
  /\ Cardinality({r \in W : Resource[r] = NoKey}) <= Concurrency

\* The next wave starts when all of the one before has ended.
NextWave(c, W) ==
  /\ mode[c] = "batch"
  /\ Active(c) = {} /\ W \subseteq Queued(c) /\ Fits(c, W)
  /\ step' = [step EXCEPT ![c] = [r \in Row |-> IF r \in W THEN "claim" ELSE step[c][r]]]
  /\ UNCHANGED <<table, intake, mode, history>>

\* retryFailed takes one row after the other.
NextRetry(c, r) ==
  /\ mode[c] = "retry"
  /\ Active(c) = {} /\ r \in Queued(c)
  /\ step' = [step EXCEPT ![c][r] = "clear"]
  /\ UNCHANGED <<table, intake, mode, history>>

\* UPDATE error_message = NULL, whatever the row has become
ClearError(c, r) ==
  /\ step[c][r] = "clear"
  /\ failed' = [failed EXCEPT ![r] = FALSE]
  /\ step'   = [step EXCEPT ![c][r] = "claim"]
  /\ UNCHANGED <<status, refs, overdue, intake, mode, history>>

-----------------------------------------------------------------------------
(* execute.                                                                *)

\* The call goes on to its next row, or returns after its last one.
Leave(c, r) ==
  /\ step' = [step EXCEPT ![c][r] = "none"]
  /\ mode' = [mode EXCEPT ![c] = IF \A q \in Row \ {r} : step[c][q] = "none" THEN "idle" ELSE @]

\* Mutant: the rows of one group run side by side.
MayClaimAnytime(c, r) == step[c][r] = "claim"

\* Within a group the executions follow one another.
MayClaim(c, r) ==
  /\ step[c][r] = "claim"
  /\ \A q \in Row \ {r} : Resource[r] # NoKey /\ Resource[q] = Resource[r] =>
       step[c][q] \notin {"perform", "record", "defer", "restore"}

\* Mutant: the claim does not ask for status = 'pending'.
ClaimableAny(r) == status[r] \in {"pending", "approved"}

Claimable(r) == Pending(r)

\* UPDATE status = 'approved' WHERE id AND status = 'pending'
Claim(c, r) ==
  /\ MayClaim(c, r)
  /\ Claimable(r)
  /\ status' = [status EXCEPT ![r] = "approved"]
  /\ step'   = [step EXCEPT ![c][r] = "perform"]
  /\ UNCHANGED <<refs, overdue, failed, intake, mode, history>>

\* Mutant: a call waits until the row can be claimed.
ClaimFailsNever(c, r) == MayClaim(c, r) /\ ~Claimable(r) /\ UNCHANGED vars

\* "Action not found or already handled"
ClaimFails(c, r) ==
  /\ MayClaim(c, r)
  /\ ~Claimable(r)
  /\ Leave(c, r)
  /\ UNCHANGED <<table, intake, history>>

\* UPDATE error_message = NULL or the claim fails: on to the next row.  A row
\* whose error was just cleared is no longer one to retry.
StatementFails(c, r) ==
  /\ step[c][r] \in {"clear", "claim"}
  /\ Fault
  /\ forgotten' = forgotten \union (IF step[c][r] = "claim" THEN {r} \cap unretried ELSE {})
  /\ Leave(c, r)
  /\ UNCHANGED <<table, intake, called, performed, unmarked, stuck, unretried, raced>>

\* The capability runs: it takes effect and answers, it is not registered,
\* or it throws, before or after its effect.
Perform(c, r) ==
  /\ step[c][r] = "perform"
  /\ \/ /\ step' = [step EXCEPT ![c][r] = "record"]
        /\ performed' = [performed EXCEPT ![r] = @ + 1]
        /\ UNCHANGED unmarked
     \/ /\ step' = [step EXCEPT ![c][r] = "defer"]
        /\ UNCHANGED <<performed, unmarked>>
     \/ /\ step' = [step EXCEPT ![c][r] = "restore"]
        /\ \/ UNCHANGED <<performed, unmarked>>
           \/ /\ performed' = [performed EXCEPT ![r] = @ + 1]
              /\ unmarked'  = [unmarked EXCEPT ![r] = @ + 1]
  /\ UNCHANGED <<table, intake, mode, called, stuck, unretried, forgotten, raced, faults>>

\* UPDATE status = 'executed' WHERE id
Record(c, r) ==
  /\ step[c][r] = "record"
  /\ status' = [status EXCEPT ![r] = "executed"]
  /\ unretried' = unretried \ {r}
  /\ Leave(c, r)
  /\ UNCHANGED <<refs, overdue, failed, intake, called, performed, unmarked, stuck,
                 forgotten, raced, faults>>

\* That UPDATE fails: the catch treats it like a failed action.
RecordFails(c, r) ==
  /\ step[c][r] = "record"
  /\ Fault
  /\ unmarked' = [unmarked EXCEPT ![r] = @ + 1]
  /\ step' = [step EXCEPT ![c][r] = "restore"]
  /\ UNCHANGED <<table, intake, mode, called, performed, stuck, unretried, forgotten, raced>>

\* Mutant: the error is written, the status is not.
StatusAfterFailureKept(r) == status

StatusAfterFailure(r) == [status EXCEPT ![r] = "pending"]

\* Mutant: the row goes back without its error message.
FailedAfterQuiet(r) == failed

FailedAfter(r) == [failed EXCEPT ![r] = TRUE]

\* UPDATE status = 'pending', error_message = ... WHERE id: the row is back,
\* perhaps beside a row that a later signal of the sender has become.
Restore(c, r) ==
  /\ step[c][r] \in {"defer", "restore"}
  /\ status'    = StatusAfterFailure(r)
  /\ failed'    = FailedAfter(r)
  /\ unretried' = unretried \union {r}
  /\ forgotten' = forgotten \ {r}
  /\ raced'     = raced \union {Sender[r]}
  /\ Leave(c, r)
  /\ UNCHANGED <<refs, overdue, intake, called, performed, unmarked, stuck, faults>>

\* That UPDATE fails as well.
RestoreFails(c, r) ==
  /\ step[c][r] \in {"defer", "restore"}
  /\ Fault
  /\ \/ /\ step[c][r] = "defer"
        /\ step' = [step EXCEPT ![c][r] = "restore"]
        /\ UNCHANGED <<mode, stuck>>
     \/ /\ step[c][r] = "restore"
        /\ stuck' = stuck \union {r}
        /\ Leave(c, r)
  /\ UNCHANGED <<table, intake, called, performed, unmarked, unretried, forgotten, raced>>

-----------------------------------------------------------------------------
(* A restart of the process.                                               *)

\* The rows of some call at one of the steps P.
At(P) == {r \in Row : \E c \in Caller : step[c][r] \in P}

Restart ==
  /\ Fault
  /\ sig'  = [s \in Signal |-> IF InEnqueue(s) THEN "dropped" ELSE sig[s]]
  /\ match' = [s \in Signal |-> s]
  /\ seen'  = [s \in Signal |-> {}]
  /\ mode' = [c \in Caller |-> "idle"]
  /\ step' = [c \in Caller |-> [r \in Row |-> "none"]]
  /\ stuck' = stuck \union At({"perform", "record", "defer", "restore"})
  /\ unmarked' = [r \in Row |-> unmarked[r] + (IF r \in At({"record"}) THEN 1 ELSE 0)]
  /\ forgotten' = forgotten \union (At({"claim"}) \cap unretried)
  /\ UNCHANGED <<table, called, performed, unretried, raced>>

-----------------------------------------------------------------------------

EnqueueStep(s) == Enter(s) \/ Look(s) \/ Merge(s) \/ Insert(s) \/ EnqueueFails(s)

\* What a call does once it has started.
Proceed(c) ==
  \/ \E W \in SUBSET Row : NextWave(c, W)
  \/ \E r \in Row :
       \/ NextRetry(c, r) \/ ClearError(c, r)
       \/ Claim(c, r) \/ ClaimFails(c, r)
       \/ Perform(c, r) \/ Record(c, r) \/ Restore(c, r)

CallStep(c) ==
  \/ \E r \in Row : ExecuteOne(c, r)
  \/ \E S \in SUBSET Row : batchExecute(c, S)
  \/ retryFailed(c)
  \/ Proceed(c)
  \/ \E r \in Row : StatementFails(c, r) \/ RecordFails(c, r) \/ RestoreFails(c, r)

Next ==
  \/ \E s \in Signal : EnqueueStep(s)
  \/ \E S \in SUBSET Row : Dismiss(S)
  \/ expireStale
  \/ \E r \in Row : FallDue(r)
  \/ \E c \in Caller : CallStep(c)
  \/ Restart

Spec == Init /\ [][Next]_vars

\* A call that waits for the database or for a capability goes on.
FairSpec == Spec /\ \A c \in Caller : WF_vars(Proceed(c))

-----------------------------------------------------------------------------
(* Properties.                                                             *)

Outcome == {"executed", "dismissed", "expired"}
Executing == {"perform", "record", "defer", "restore"}

TypeOK ==
  /\ status    \in [Row -> {"absent", "pending", "approved"} \union Outcome]
  /\ refs      \in [Row -> SUBSET Signal]
  /\ overdue   \in [Row -> BOOLEAN]
  /\ failed    \in [Row -> BOOLEAN]
  /\ sig       \in [Signal -> {"new", "look", "merge", "insert", "merged", "inserted",
                               "dropped"}]
  /\ match     \in [Signal -> Row]
  /\ seen      \in [Signal -> SUBSET Signal]
  /\ mode      \in [Caller -> {"idle", "single", "batch", "retry"}]
  /\ step      \in [Caller -> [Row -> {"none", "queued", "clear", "claim"} \union Executing]]
  /\ performed \in [Row -> Nat]
  /\ unmarked  \in [Row -> Nat]
  /\ stuck     \subseteq Row
  /\ unretried \subseteq Row
  /\ forgotten \subseteq Row
  /\ raced     \subseteq {Sender[s] : s \in Signal}
  /\ called    \in Nat
  /\ faults    \in Nat

\* An approved action takes effect once, however executions, batches, retries,
\* dismissals and expiry overlap; once more only for every effect that an
\* error, a failed UPDATE or a restart kept from being marked.
EffectsAreMarked ==
  \A r \in Row :
    performed[r] = unmarked[r] + (IF status[r] = "executed" \/ r \in At({"record"}) THEN 1 ELSE 0)

\* An approved row is in the hands of exactly one call, unless a failed
\* statement or a restart took it out of them: then nothing ever looks at it
\* again, because every statement asks for pending rows.
ApprovedIsHeld ==
  \A r \in Row :
    /\ status[r] = "approved" <=> (r \in stuck \/ r \in At(Executing))
    /\ \A c, d \in Caller : step[c][r] \in Executing /\ step[d][r] \in Executing => c = d
    /\ ~(r \in stuck /\ r \in At(Executing))

\* "groups by target resource to prevent concurrent mutations against the same
\* entity": one call never runs two rows of a resource at once.
SerialInCall ==
  \A c \in Caller : \A q, r \in Row :
    /\ step[c][q] \in Executing /\ step[c][r] \in Executing
    /\ Resource[q] = Resource[r] /\ Resource[r] # NoKey
    => q = r

\* A pending row whose last execution did not succeed keeps the error message
\* by which retryFailed finds it, whoever cleared it meanwhile; the exceptions
\* are a retry about to claim it and one that was cut off there.
RetryFindsFailed ==
  \A r \in unretried :
    Pending(r) => \/ failed[r]
                  \/ r \in forgotten
                  \/ \E c \in Caller : mode[c] = "retry" /\ step[c][r] = "claim"

\* Consolidation leaves one live row for a sender, unless two calls of enqueue
\* overlapped or an execution gave its row back beside a later one.
NoTwins ==
  \A q, r \in Row :
    /\ Pending(q) /\ ~overdue[q] /\ Pending(r) /\ ~overdue[r] /\ Sender[q] = Sender[r]
    /\ Sender[r] \notin raced
    => q = r

\* A signal that enqueue answered with a row is listed in a row, whatever was
\* merged after it, unless another enqueue for its sender overlapped.
AcceptedIsCarried ==
  \A s \in Signal :
    sig[s] \in {"merged", "inserted"} /\ Sender[s] \notin raced =>
      \E r \in Row : s \in refs[r]

\* A decision stands: no late merge, restored error or second decision moves a
\* row out of executed, dismissed or expired.
DecisionIsFinal ==
  [][\A r \in Row : status[r] \in Outcome => status'[r] = status[r]]_vars

\* No call waits on a row of its own for ever: waves, groups and retries all
\* come to their end.
CallReturns == \A c \in Caller : ~Idle(c) ~> Idle(c)

-----------------------------------------------------------------------------
(* The abstract queue.                                                     *)

\* Where a row is, seen from outside: an approved one by what the call that holds
\* it has done.
Standing ==
  [r \in Row |->
     CASE status[r] # "approved" -> status[r]
       [] status[r] = "approved" /\ r \in At({"perform"}) -> "taken"
       [] status[r] = "approved" /\ r \in At({"record"}) -> "acted"
       [] status[r] = "approved" /\ r \in At({"defer", "restore"}) -> "broken"
       [] OTHER -> "stranded"]

Queue == INSTANCE Approval WITH Action <- Row, Given <- Old, place <- Standing, effects <- performed

\* Whatever calls, batches, retries, merges, dismissals, expiry, failed statements
\* and restarts overlap, a row takes only the ways that Approval has: nothing takes
\* effect that was not taken from among the pending rows, nothing is executed that
\* did not take effect, and an execution takes effect once.
ImplementsApproval == Queue!Spec

-----------------------------------------------------------------------------
(* What the proofs need.                                                   *)

\* What makes CallReturns hold in every state: a call that has not returned has
\* a step that is its own to take.  No wave is too wide to start, no row of a
\* group waits for one that is not on its way.
MayProceed(c) ==
  \/ mode[c] = "batch" /\ Active(c) = {} /\ \E W \in SUBSET Queued(c) : Fits(c, W)
  \/ mode[c] = "retry" /\ Active(c) = {} /\ Queued(c) # {}
  \/ \E r \in Row : MayClaim(c, r) \/ step[c][r] \in Executing \union {"clear"}

BusyCallGoesOn == \A c \in Caller : ~Idle(c) => MayProceed(c)

\* What its proof needs: a call is busy with some row, and only batches and
\* retries keep rows back.
BusyInv ==
  \A c \in Caller :
    /\ ~Idle(c) => \E r \in Row : step[c][r] # "none"
    /\ Queued(c) # {} => mode[c] \in {"batch", "retry"}
=============================================================================
