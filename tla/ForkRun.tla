------------------------------- MODULE ForkRun -------------------------------
(***************************************************************************)
(* The life of one fork: services/forkService.js from the registration of  *)
(* the fork to its eviction, with what other handlers do to it (abortFork, *)
(* sendMessageToFork).  Forks share nothing but the caps of ForkSpawn.     *)
(*                                                                         *)
(* Three parties interleave at every await: the run loop, which reads the  *)
(* SDK's stream and keeps the row of os_forks up to date; the prompt       *)
(* generator, which the SDK pulls; and the handlers.                       *)
(***************************************************************************)
EXTENDS Integers, Sequences, FiniteSets

CONSTANT MaxMessage   \* bound: messages injected into the fork

ASSUME MaxMessageAssumption == MaxMessage \in Nat

VARIABLES
  (* the run loop *)
  pc,           \* insert, query, announce, stream, persist, post, fail, linger, over
  status,       \* state.status in _forks; "absent" when the entry is gone
  signal,       \* the abort controller has fired
  report,       \* the transcript holds a report
  (* the prompt generator *)
  gen,          \* brief: not pulled yet; ready: between two yields;
                \* waiting: on a promise in pendingResolvers; ended: returned
  inputClosed,  \* state.input_closed
  pendingMsgs,  \* state.pendingMessages
  (* the database *)
  row,          \* status in os_forks, "none" without a row
  writes,       \* statuses in statements that were sent and not answered
  posted,       \* reports in the message queue
  (* what the properties need *)
  accepted,     \* the messages sendMessageToFork accepted
  given,        \* the messages the generator has yielded
  failed        \* a statement of the fork failed, or the process died

loop   == <<pc, status, signal, report>>
prompt == <<gen, inputClosed, pendingMsgs, accepted, given>>
db     == <<row, writes, posted, failed>>
vars   == <<loop, prompt, db>>

Live     == {"spawning", "running", "reporting"}
Terminal == {"done", "aborted", "error"}
Status   == Live \union Terminal

\* spawnFork has registered the fork and awaits _dbInsert.
Init ==
  /\ pc = "insert" /\ status = "spawning" /\ signal = FALSE /\ report = FALSE
  /\ gen = "brief" /\ inputClosed = FALSE /\ pendingMsgs = <<>>
  /\ accepted = <<>> /\ given = <<>>
  /\ row = "none" /\ writes = {"spawning"} /\ posted = 0 /\ failed = FALSE

-----------------------------------------------------------------------------
(* The table os_forks.  A statement carries the status of the moment it was *)
(* sent and takes effect some time later; a failure is only logged.         *)

Send(s) == writes' = writes \union {s}

\* INSERT ... ON CONFLICT DO NOTHING for a new fork; UPDATE ... WHERE fork_id
\* = ... afterwards, which changes nothing when there is no row.
Stored(s) == IF (s = "spawning") = (row = "none") THEN s ELSE row

DbTakes ==
  \E s \in writes :
    /\ writes' = writes \ {s}
    /\ row' = Stored(s)
    /\ UNCHANGED <<loop, prompt, posted, failed>>

DbFails ==
  \E s \in writes :
    /\ writes' = writes \ {s}
    /\ failed' = TRUE
    /\ UNCHANGED <<loop, prompt, row, posted>>

\* Mutant: the statement is sent without `await`.
NotAwaited == TRUE

\* The await of a statement is over.
Answered == writes = {}

-----------------------------------------------------------------------------
(* The run loop                                                            *)

\* spawnFork returns; the loop waits for the SDK to load.
StartLoop ==
  /\ pc = "insert" /\ Answered
  /\ pc' = "query"
  /\ UNCHANGED <<status, signal, report, prompt, db>>

\* Mutant: the query gets an abort controller of its own.
BeginQueryFresh ==
  /\ pc = "query"
  /\ status' = "running"
  /\ Send("running")
  /\ pc' = "announce"
  /\ signal' = FALSE
  /\ UNCHANGED <<report, prompt, row, posted, failed>>

BeginQuery ==
  /\ pc = "query"
  /\ status' = "running"
  /\ Send("running")
  /\ pc' = "announce"
  /\ UNCHANGED <<signal, report, prompt, row, posted, failed>>

BeginStream ==
  /\ pc = "announce" /\ Answered
  /\ pc' = "stream"
  /\ UNCHANGED <<status, signal, report, prompt, db>>

\* An assistant message completes the report.
ReadReport ==
  /\ pc = "stream" /\ ~report
  /\ report' = TRUE
  /\ UNCHANGED <<pc, status, signal, prompt, db>>

\* input_closed = true, and every promise in pendingResolvers gets null.
CloseInput ==
  /\ inputClosed' = TRUE
  /\ gen' = IF gen = "waiting" THEN "ended" ELSE gen
  /\ UNCHANGED <<pendingMsgs, accepted, given>>

\* The SDK's result message
ReadResult ==
  /\ pc = "stream"
  /\ CloseInput
  /\ status' = "reporting"
  /\ UNCHANGED <<pc, signal, report, db>>

StreamEnds ==
  /\ pc = "stream"
  /\ status' = "done"
  /\ Send("done")
  /\ pc' = "persist"
  /\ UNCHANGED <<signal, report, prompt, row, posted, failed>>

\* getQuery, the query or its stream throws.
LoopThrows ==
  /\ pc \in {"query", "stream"}
  /\ CloseInput
  /\ \E s \in {"aborted", "error"} : status' = s /\ Send(s)
  /\ pc' = "fail"
  /\ UNCHANGED <<signal, report, row, posted, failed>>

\* Mutant: the report is posted while the last update is under way.
AfterDoneAtOnce ==
  /\ pc = "persist"
  /\ pc' = IF report THEN "post" ELSE "linger"
  /\ UNCHANGED <<status, signal, report, prompt, db>>

\* After the await of the last update
AfterDone ==
  /\ pc = "persist" /\ Answered
  /\ pc' = IF report THEN "post" ELSE "linger"
  /\ UNCHANGED <<status, signal, report, prompt, db>>

AfterFailure ==
  /\ pc = "fail" /\ Answered
  /\ pc' = "linger"
  /\ UNCHANGED <<status, signal, report, prompt, db>>

\* messageQueue.enqueueMessage; its failure is only logged.
PostReport ==
  /\ pc = "post"
  /\ posted' \in {posted, posted + 1}
  /\ pc' = "linger"
  /\ UNCHANGED <<status, signal, report, prompt, row, writes, failed>>

\* Five minutes later the entry leaves the Map.
Evict ==
  /\ pc = "linger"
  /\ status' = "absent"
  /\ pc' = "over"
  /\ UNCHANGED <<signal, report, prompt, db>>

\* The process restarts: the Map is gone, the row stays as it is, and nothing
\* ever takes the fork up again.
Crash ==
  /\ pc # "over"
  /\ pc' = "over"
  /\ status' = "absent"
  /\ writes' = {}
  /\ failed' = TRUE
  /\ UNCHANGED <<signal, report, prompt, row, posted>>

-----------------------------------------------------------------------------
(* The SDK pulls the next prompt from the generator while the query runs.  *)

Pulling == pc \in {"announce", "stream"}

YieldBrief ==
  /\ Pulling /\ gen = "brief"
  /\ gen' = "ready"
  /\ UNCHANGED <<loop, inputClosed, pendingMsgs, accepted, given, db>>

\* Mutant: pop instead of shift.
LastMessage == pendingMsgs[Len(pendingMsgs)]

\* state.pendingMessages.shift()
NextMessage == Head(pendingMsgs)

YieldMessage ==
  /\ Pulling /\ gen = "ready" /\ pendingMsgs # <<>>
  /\ given' = Append(given, NextMessage)
  /\ pendingMsgs' = Tail(pendingMsgs)
  /\ UNCHANGED <<loop, gen, inputClosed, accepted, db>>

\* Nothing to yield: the generator returns, or waits for a promise.
Exhausted == IF inputClosed THEN "ended" ELSE "waiting"

YieldNothing ==
  /\ Pulling /\ gen = "ready" /\ pendingMsgs = <<>>
  /\ gen' = Exhausted
  /\ UNCHANGED <<loop, inputClosed, pendingMsgs, accepted, given, db>>

-----------------------------------------------------------------------------
(* The handlers                                                            *)

\* Mutant: the message is always pushed.
InjectPush(m) ==
  /\ pendingMsgs' = Append(pendingMsgs, m)
  /\ UNCHANGED <<gen, given>>

\* An accepted message goes to the promise that waits, else to the end of
\* pendingMessages.
Inject(m) ==
  \/ /\ gen = "waiting"
     /\ gen' = "ready"
     /\ given' = Append(given, m)
     /\ UNCHANGED pendingMsgs
  \/ /\ gen # "waiting"
     /\ pendingMsgs' = Append(pendingMsgs, m)
     /\ UNCHANGED <<gen, given>>

\* Rejected: not in the Map, terminal, or still without a query.
sendMessageToFork ==
  /\ status \in {"running", "reporting"}
  /\ Len(accepted) < MaxMessage
  /\ accepted' = Append(accepted, Len(accepted) + 1)
  /\ Inject(Len(accepted) + 1)
  /\ UNCHANGED <<loop, inputClosed, db>>

\* The controller fires for every fork that is in the Map and not terminal,
\* whether its query exists yet or not.
Abortable == status \in Live

abortFork ==
  /\ Abortable /\ ~signal
  /\ signal' = TRUE
  /\ UNCHANGED <<pc, status, report, prompt, db>>

-----------------------------------------------------------------------------

\* The steps that wait for nothing but an answer, the module or a timer.
Advance ==
  \/ StartLoop \/ BeginQuery \/ BeginStream
  \/ AfterDone \/ AfterFailure \/ PostReport \/ Evict

EndOfStream == StreamEnds \/ LoopThrows

Database == DbTakes \/ DbFails

Next ==
  \/ Advance \/ EndOfStream \/ Database
  \/ ReadReport \/ ReadResult \/ Crash
  \/ YieldBrief \/ YieldMessage \/ YieldNothing
  \/ sendMessageToFork \/ abortFork

Spec == Init /\ [][Next]_vars

\* The event loop and the database go on, and the SDK ends the stream of an
\* aborted query; it need not ever end another one.
FairSpec ==
  /\ Spec
  /\ WF_vars(Advance)
  /\ WF_vars(Database)
  /\ WF_vars(signal /\ EndOfStream)

-----------------------------------------------------------------------------
(* Properties                                                              *)

TypeOK ==
  /\ pc \in {"insert", "query", "announce", "stream", "persist", "post", "fail",
             "linger", "over"}
  /\ status \in Status \union {"absent"}
  /\ signal \in BOOLEAN
  /\ report \in BOOLEAN
  /\ gen \in {"brief", "ready", "waiting", "ended"}
  /\ inputClosed \in BOOLEAN
  /\ pendingMsgs \in Seq(Nat)
  /\ row \in Status \union {"none"}
  /\ writes \in SUBSET Status
  /\ posted \in Nat
  /\ accepted \in Seq(Nat)
  /\ given \in Seq(Nat)
  /\ failed \in BOOLEAN

\* Injected messages reach the SDK in the order they were accepted and each
\* once, although they take two different ways to the generator.
InjectionOrder == given \o pendingMsgs = accepted

\* No lost wake-up: the generator never sleeps on a promise while a message is
\* there for it, nor after its input was closed.
NoLostWakeup == gen = "waiting" => pendingMsgs = <<>> /\ ~inputClosed

\* Whatever the statements' timing, the row of a fork whose loop is over shows
\* how it ended, unless a statement failed or the process died.
RowShowsTheEnd ==
  ~failed =>
    /\ pc \in {"post", "linger"} => row = status
    /\ pc = "over" => row \in Terminal

\* Main gets a report at most once, and only of a fork that ended well and
\* whose row (if the database took it) already says so.
ReportFollowsRow ==
  posted > 0 =>
    /\ posted = 1
    /\ report
    /\ status \in {"done", "absent"}
    /\ failed \/ row = "done"

\* A fork's end is final, in the Map (until the entry is dropped) and in the
\* table: no late statement brings an earlier status back.
EndIsFinal ==
  [][/\ status \in Terminal => status' \in {status, "absent"}
     /\ row \in Terminal => row' = row]_vars

\* An abort that was answered with aborted: true ends the fork, wherever in its
\* start-up it was, provided the SDK ends the stream of an aborted query.
AbortEnds == signal ~> status \notin Live

-----------------------------------------------------------------------------
(* What the proofs need.                                                   *)

\* The status each point of the run loop leaves in the Map.
StatusAt ==
  /\ pc \in {"insert", "query"} => status = "spawning"
  /\ pc = "announce" => status = "running"
  /\ pc = "stream" => status \in {"running", "reporting"}
  /\ pc \in {"persist", "post"} => status = "done"
  /\ pc = "fail" => status \in {"aborted", "error"}
  /\ pc = "linger" => status \in Terminal
  /\ pc = "over" => status = "absent"

\* The status in the latest statement: "reporting" is never written.
Latest == IF pc = "stream" THEN "running" ELSE status

\* At most the latest statement is under way; unless one failed, the row shows
\* the latest status as soon as it is answered, and exists from the first on.
RowIsCurrent ==
  /\ writes \subseteq {Latest}
  /\ writes # {} => pc \in {"insert", "announce", "persist", "fail"}
  /\ pc # "over" => row \in {"none", "spawning", "running", Latest}
  /\ pc # "over" /\ ~failed => IF writes = {} THEN row = Latest
                                              ELSE row = "none" <=> pc = "insert"
  /\ pc = "over" /\ ~failed => row \in Terminal

\* The report is posted in one place, which the loop leaves at once.
PostedOnce ==
  /\ posted > 0 => pc \in {"linger", "over"}
  /\ pc = "post" => report

RunInv ==
  /\ TypeOK
  /\ StatusAt
  /\ RowIsCurrent
  /\ PostedOnce
  /\ ReportFollowsRow
  /\ NoLostWakeup
  /\ InjectionOrder
=============================================================================
