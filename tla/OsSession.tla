------------------------------ MODULE OsSession ------------------------------
(***************************************************************************)
(* The turns of the OS session: services/osSessionService.js.              *)
(*                                                                         *)
(* sendMessage chains every message behind the promise _sendQueue; a turn  *)
(* sets up its query, registers it as activeQuery, reads the SDK's stream  *)
(* and may run itself again.  A watchdog settles the promise of a turn     *)
(* that hangs, although the turn itself goes on.  abort and autoHandover   *)
(* reset _sendQueue, restart aborts the query.  Every await is a point     *)
(* between two actions, and all these parties share activeQuery.           *)
(*                                                                         *)
(* Message m is the m-th call of sendMessage.  ccSessionId is left out:    *)
(* where the code asks whether there is a session to resume, both answers  *)
(* are possible.                                                           *)
(***************************************************************************)
EXTENDS Integers, FiniteSets

CONSTANTS
  MaxMsg,         \* bound: calls of sendMessage
  MaxRetry,       \* MAX_RETRY_DEPTH
  MaxHandover     \* bound: runs of autoHandover

ASSUME BoundAssumption == MaxMsg \in Nat /\ MaxRetry \in Nat /\ MaxHandover \in Nat

Msg      == 1 .. MaxMsg
Handover == 1 .. MaxHandover
Nobody   == 0

VARIABLES
  (* sendMessage *)
  sent,         \* number of calls so far
  pred,         \* the message whose promise m waits for, Nobody: a resolved promise
  tail,         \* the message whose promise is _sendQueue, Nobody: a resolved promise
  settled,      \* the promise of m is resolved or rejected
  (* the turns *)
  pc,           \* unsent, queued, entry, setup, stream, done, empty, failed, over
  active,       \* activeQuery (and activeAbort): the turn it belongs to
  signal,       \* the abort controller of m's current query has fired
  depth,        \* opts._retryDepth
  cleaned,      \* opts._staleCleaned
  hidden,       \* opts.suppressOutput: a turn of a handover
  stale,        \* a result of m's current query said that its session is unknown
  (* autoHandover *)
  handover,     \* handoverInProgress
  hstep,        \* idle, brief, create, warm, over
  hmsg,         \* the message it waits for
  (* what the properties need *)
  disturbed     \* a promise was settled, or the queue reset, ahead of a turn's end

queue     == <<sent, pred, tail, settled>>
turns     == <<pc, active, signal, depth, cleaned, hidden, stale>>
handovers == <<handover, hstep, hmsg>>
vars      == <<queue, turns, handovers, disturbed>>

Init ==
  /\ sent = 0
  /\ pred = [m \in Msg |-> Nobody]
  /\ tail = Nobody
  /\ settled = [m \in Msg |-> FALSE]
  /\ pc = [m \in Msg |-> "unsent"]
  /\ active = Nobody
  /\ signal = [m \in Msg |-> FALSE]
  /\ depth = [m \in Msg |-> 0]
  /\ cleaned = [m \in Msg |-> FALSE]
  /\ hidden = [m \in Msg |-> FALSE]
  /\ stale = [m \in Msg |-> FALSE]
  /\ handover = FALSE
  /\ hstep = [h \in Handover |-> "idle"]
  /\ hmsg = [h \in Handover |-> Nobody]
  /\ disturbed = FALSE

InFlight(m) == pc[m] \in {"entry", "setup", "stream", "done", "empty", "failed"}

-----------------------------------------------------------------------------
(* Building blocks                                                         *)

\* sendMessage(content): the message that follows `sent`, behind `last`.
Enqueue(m, last, suppressOutput) ==
  /\ m = sent + 1
  /\ sent' = m
  /\ pred' = [pred EXCEPT ![m] = last]
  /\ tail' = m
  /\ hidden' = [hidden EXCEPT ![m] = suppressOutput]

\* Mutant: the query is forgotten, but not cancelled.
abortActiveQueryForgets == active' = Nobody /\ UNCHANGED signal

\* _abortActiveQuery: take activeQuery, forget it, then cancel it.
abortActiveQuery ==
  /\ active' = Nobody
  /\ signal' = [m \in Msg |-> signal[m] \/ m = active]

\* Mutant: activeQuery is not reset at the end of a stream.
KeepActive == UNCHANGED active

\* activeQuery = null at every way out of a stream, whosever query that is.
ClearActive == active' = Nobody

Goto(m, where) == pc' = [pc EXCEPT ![m] = where]

\* The query of m is over, and with it its abort controller.
QueryOver(m) ==
  /\ ClearActive
  /\ signal' = [signal EXCEPT ![m] = FALSE]
  /\ stale' = [stale EXCEPT ![m] = FALSE]

\* return _sendMessageImpl(content, { ...opts, _retryDepth: retryDepth + 1 })
CanRetry(m) == depth[m] < MaxRetry

Retry(m, clean) ==
  /\ CanRetry(m)
  /\ depth' = [depth EXCEPT ![m] = @ + 1]
  /\ cleaned' = [cleaned EXCEPT ![m] = @ \/ clean]
  /\ Goto(m, "entry")

\* The turn goes on to record how it ended: done, empty (nothing came from the
\* stream; still inside the try block) or failed (in its catch).
Close(m, how) == Goto(m, how) /\ UNCHANGED <<depth, cleaned>>

\* The turn returns or throws: its promise is settled if it was not before,
\* its locals are gone.
Return(m) ==
  /\ settled' = [settled EXCEPT ![m] = TRUE]
  /\ depth' = [depth EXCEPT ![m] = 0]
  /\ cleaned' = [cleaned EXCEPT ![m] = FALSE]

-----------------------------------------------------------------------------
(* A turn                                                                  *)

sendMessage(m) ==
  /\ Enqueue(m, tail, FALSE)
  /\ Goto(m, "queued")
  /\ UNCHANGED <<settled, active, signal, depth, cleaned, stale, handovers, disturbed>>

\* Mutant: a message waits for the active query instead of the promise.
UnblockedByQuery(m) == active = Nobody

\* Mutant: a message waits for the turn itself, not for its race with the watchdog.
UnblockedByTurn(m) == pred[m] # Nobody => pc[pred[m]] = "over"

\* The promise m waits for is settled, whether resolved or rejected.
Unblocked(m) == pred[m] # Nobody => settled[pred[m]]

\* The watchdog's timer starts, and the turn awaits getQuery().
Begin(m) ==
  /\ pc[m] = "queued"
  /\ Unblocked(m)
  /\ pred' = [pred EXCEPT ![m] = Nobody]
  /\ Goto(m, "entry")
  /\ UNCHANGED <<sent, tail, settled, active, signal, depth, cleaned, hidden, stale,
                 handovers, disturbed>>

\* "Kill any active query", then the awaits that set up the options.
Enter(m) ==
  /\ pc[m] = "entry"
  /\ abortActiveQuery
  /\ Goto(m, "setup")
  /\ UNCHANGED <<queue, depth, cleaned, hidden, stale, handovers, disturbed>>

\* One of them throws, outside the try block: the promise is rejected.
SetupThrows(m) ==
  /\ pc[m] \in {"entry", "setup"}
  /\ Return(m)
  /\ Goto(m, "over")
  /\ UNCHANGED <<sent, pred, tail, active, signal, hidden, stale, handovers, disturbed>>

\* activeQuery = queryFn(...), with a new abort controller
Launch(m) ==
  /\ pc[m] = "setup"
  /\ active' = m
  /\ Goto(m, "stream")
  /\ UNCHANGED <<queue, signal, depth, cleaned, hidden, stale, handovers, disturbed>>

\* The stream ends after a result or some text.
StreamEnds(m) ==
  /\ pc[m] = "stream"
  /\ QueryOver(m)
  /\ Close(m, "done")
  /\ UNCHANGED <<queue, hidden, handovers, disturbed>>

\* The stream ends with nothing: again on a fresh session, if there was a
\* session to drop, else an error.
StreamEndsEmpty(m) ==
  /\ pc[m] = "stream"
  /\ ~stale[m]
  /\ QueryOver(m)
  /\ Retry(m, FALSE) \/ Close(m, "empty")
  /\ UNCHANGED <<queue, hidden, handovers, disturbed>>

\* A result (there is one in a stream) says that the account is exhausted and
\* another one is available; the sentinel _accountRetry reaches the outer catch.
AccountExhausted(m) ==
  /\ pc[m] = "stream"
  /\ ~stale[m]
  /\ QueryOver(m)
  /\ \/ Retry(m, FALSE)
     \/ ~CanRetry(m) /\ Close(m, "failed")
  /\ UNCHANGED <<queue, hidden, handovers, disturbed>>

\* The stream throws: once more if the session is unknown, else an error.
StreamThrows(m) ==
  /\ pc[m] = "stream"
  /\ QueryOver(m)
  /\ \/ ~cleaned[m] /\ Retry(m, TRUE)
     \/ Close(m, "failed")
  /\ UNCHANGED <<queue, hidden, handovers, disturbed>>

\* A result says that the session is unknown: activeQuery = null and the
\* sentinel _staleRetry is thrown, which the catch around the message swallows
\* because it passes on _accountRetry only.  The loop goes on.
ResultStale(m) ==
  /\ pc[m] = "stream"
  /\ ~cleaned[m] /\ ~stale[m]
  /\ ClearActive
  /\ stale' = [stale EXCEPT ![m] = TRUE]
  /\ UNCHANGED <<queue, pc, signal, depth, cleaned, hidden, handovers, disturbed>>

\* The row is written, the turn returns.
Finish(m) ==
  /\ pc[m] \in {"done", "empty", "failed"}
  /\ Return(m)
  /\ Goto(m, "over")
  /\ UNCHANGED <<sent, pred, tail, active, signal, hidden, stale, handovers, disturbed>>

\* Writing the row throws inside the try block: its catch clears activeQuery
\* and tries to write once more.
FinishThrows(m) ==
  /\ pc[m] \in {"done", "empty"}
  /\ ClearActive
  /\ Goto(m, "failed")
  /\ UNCHANGED <<queue, signal, depth, cleaned, hidden, stale, handovers, disturbed>>

\* The timer of _sendMessageWithWatchdog: whatever query is active is aborted,
\* and the promise is resolved; the turn itself is not stopped.
Watchdog(m) ==
  /\ InFlight(m) /\ ~settled[m]
  /\ abortActiveQuery
  /\ settled' = [settled EXCEPT ![m] = TRUE]
  /\ disturbed' = TRUE
  /\ UNCHANGED <<sent, pred, tail, pc, depth, cleaned, hidden, stale, handovers>>

-----------------------------------------------------------------------------
(* abort, restart, compact                                                 *)

\* _sendQueue = Promise.resolve() while turns that nobody waits for any more
\* are under way
Orphans == \E m \in Msg : pc[m] # "unsent" /\ ~settled[m]

abort ==
  /\ active # Nobody
  /\ abortActiveQuery
  /\ tail' = Nobody
  /\ handover' = FALSE
  /\ disturbed' = (disturbed \/ Orphans)
  /\ UNCHANGED <<sent, pred, settled, pc, depth, cleaned, hidden, stale, hstep, hmsg>>

restart ==
  /\ active # Nobody
  /\ abortActiveQuery
  /\ UNCHANGED <<queue, pc, depth, cleaned, hidden, stale, handovers, disturbed>>

-----------------------------------------------------------------------------
(* autoHandover                                                            *)

HStep(h, step, m) ==
  /\ hstep' = [hstep EXCEPT ![h] = step]
  /\ hmsg' = [hmsg EXCEPT ![h] = m]

\* autoHandover up to its first await: the queue is reset, and the request for
\* the brief is sent.
BeginHandover(h, b) ==
  /\ ~handover /\ hstep[h] = "idle"
  /\ handover' = TRUE
  /\ HStep(h, "brief", b)
  /\ Enqueue(b, Nobody, TRUE)
  /\ UNCHANGED <<active, signal, stale>>

\* A visible turn ends above the token threshold: in one go it calls
\* autoHandover and returns.
HandoverAfterTurn(m, h, b) ==
  /\ pc[m] = "done" /\ ~hidden[m]
  /\ BeginHandover(h, b)
  /\ pc' = [pc EXCEPT ![m] = "over", ![b] = "queued"]
  /\ Return(m)
  /\ disturbed' = (disturbed \/ \E k \in Msg \ {m} : pc[k] # "unsent" /\ ~settled[k])

\* POST /handover calls autoHandover at any time.
HandoverOnRequest(h, b) ==
  /\ BeginHandover(h, b)
  /\ Goto(b, "queued")
  /\ disturbed' = (disturbed \/ Orphans)
  /\ UNCHANGED <<settled, depth, cleaned>>

\* There is a brief, or an error text long enough to pass for one: "kill
\* current session", then the new row.
BriefReady(h) ==
  /\ hstep[h] = "brief" /\ settled[hmsg[h]]
  /\ abortActiveQuery
  /\ HStep(h, "create", Nobody)
  /\ UNCHANGED <<queue, pc, depth, cleaned, hidden, stale, handover, disturbed>>

\* Behind whatever has been queued meanwhile.
SendWarm(h, m) ==
  /\ hstep[h] = "create"
  /\ HStep(h, "warm", m)
  /\ Enqueue(m, tail, TRUE)
  /\ Goto(m, "queued")
  /\ UNCHANGED <<settled, active, signal, depth, cleaned, stale, handover, disturbed>>

\* `finally`: after the warm turn, a brief that is too short, or an error.
HandoverEnds(h) ==
  /\ \/ hstep[h] \in {"brief", "warm"} /\ settled[hmsg[h]]
     \/ hstep[h] = "create"
  /\ handover' = FALSE
  /\ HStep(h, "over", Nobody)
  /\ UNCHANGED <<queue, turns, disturbed>>

\* Mutant: the timer resets the queue only.
HandoverWatchdogKeeps(h) ==
  /\ hstep[h] \in {"brief", "create", "warm"}
  /\ handover
  /\ abortActiveQuery
  /\ tail' = Nobody
  /\ disturbed' = (disturbed \/ Orphans)
  /\ UNCHANGED <<sent, pred, settled, pc, depth, cleaned, hidden, stale, handover, hstep, hmsg>>

\* The 10 minute timer of a handover that has not ended
HandoverWatchdog(h) ==
  /\ hstep[h] \in {"brief", "create", "warm"}
  /\ handover
  /\ handover' = FALSE
  /\ abortActiveQuery
  /\ tail' = Nobody
  /\ disturbed' = (disturbed \/ Orphans)
  /\ UNCHANGED <<sent, pred, settled, pc, depth, cleaned, hidden, stale, hstep, hmsg>>

-----------------------------------------------------------------------------

EndOfStream(m) ==
  StreamEnds(m) \/ StreamEndsEmpty(m) \/ AccountExhausted(m) \/ StreamThrows(m)

Turn(m) ==
  \/ sendMessage(m) \/ Begin(m) \/ Enter(m) \/ SetupThrows(m) \/ Launch(m)
  \/ EndOfStream(m) \/ ResultStale(m) \/ Finish(m) \/ FinishThrows(m) \/ Watchdog(m)

HandoverStep(h) ==
  \/ \E m, b \in Msg : HandoverAfterTurn(m, h, b)
  \/ \E b \in Msg : HandoverOnRequest(h, b)
  \/ BriefReady(h)
  \/ \E m \in Msg : SendWarm(h, m)
  \/ HandoverEnds(h)
  \/ HandoverWatchdog(h)

Next ==
  \/ \E m \in Msg : Turn(m)
  \/ \E h \in Handover : HandoverStep(h)
  \/ abort
  \/ restart

Spec == Init /\ [][Next]_vars

\* Promise callbacks run and timers fire.  Nothing else is fair: a setup, a
\* stream or a database call may hang for ever.
FairSpec ==
  /\ Spec
  /\ \A m \in Msg : WF_vars(Begin(m)) /\ WF_vars(Watchdog(m))
  /\ \A h \in Handover : WF_vars(HandoverWatchdog(h))

-----------------------------------------------------------------------------
(* Properties                                                              *)

TypeOK ==
  /\ sent \in 0 .. MaxMsg
  /\ pred \in [Msg -> Msg \union {Nobody}]
  /\ tail \in Msg \union {Nobody}
  /\ settled \in [Msg -> BOOLEAN]
  /\ pc \in [Msg -> {"unsent", "queued", "entry", "setup", "stream",
                   "done", "empty", "failed", "over"}]
  /\ active \in Msg \union {Nobody}
  /\ signal \in [Msg -> BOOLEAN]
  /\ depth \in [Msg -> 0 .. MaxRetry]
  /\ cleaned \in [Msg -> BOOLEAN]
  /\ hidden \in [Msg -> BOOLEAN]
  /\ stale \in [Msg -> BOOLEAN]
  /\ handover \in BOOLEAN
  /\ hstep \in [Handover -> {"idle", "brief", "create", "warm", "over"}]
  /\ hmsg \in [Handover -> Msg \union {Nobody}]
  /\ disturbed \in BOOLEAN

\* Turns run one at a time and in the order their messages were sent, retries,
\* rejected promises and handovers included, until the first time a watchdog
\* fires or the queue is reset over the head of a turn that has not ended.
TurnsInOrder ==
  ~disturbed =>
    \A m \in Msg :
      InFlight(m) => \A k \in Msg : k < m => pc[k] = "over"

\* Even after such a disturbance, activeQuery never refers to a query that has
\* ended or was cancelled: an abort is never wasted on a dead query.
ActiveIsAlive == active # Nobody => pc[active] = "stream" /\ ~signal[active]

\* Until such a disturbance a running query is always within reach of an abort,
\* a restart or a handover: activeQuery refers to every stream that is open,
\* not yet cancelled, and has not said that its session is unknown.
RunningIsReachable ==
  ~disturbed =>
    \A m \in Msg : pc[m] = "stream" /\ ~signal[m] /\ ~stale[m] => active = m

\* No message waits for ever: "the queue locked forever" was the incident the
\* watchdog was written for.
EverySendSettles == \A m \in Msg : pc[m] = "queued" ~> settled[m]

\* A handover does not block the session for ever.
HandoverIsReset == handover ~> ~handover

\* The two are liveness properties; the next two say what makes them hold, and
\* do so after any disturbance as well.

\* The queue never locks: at or before every message that waits there is one
\* that may begin, or one that runs with its watchdog's timer still to fire.
NoLockedQueue ==
  \A m \in Msg : pc[m] = "queued" =>
    \E k \in Msg :
      /\ k <= m
      /\ \/ pc[k] = "queued" /\ Unblocked(k)
         \/ InFlight(k) /\ ~settled[k]

\* handoverInProgress is never left set: some handover that will reset it, or
\* whose timer will, is under way.
HandoverHasOwner == handover => \E h \in Handover : hstep[h] \in {"brief", "create", "warm"}

\* A stale resume id in a result: "Clear it and retry fresh, once".  The turn
\* is not recorded as complete instead.
StaleResultIsRetried == [][\A m \in Msg : stale[m] => pc'[m] # "done"]_vars

-----------------------------------------------------------------------------
(* What the proofs need: undisturbed, the promises form one chain.         *)

Chain ==
  /\ \A m \in Msg : settled[m] <=> pc[m] = "over"
  /\ tail # Nobody => tail = sent
  /\ tail = Nobody => \A m \in Msg : m <= sent => settled[m]
  /\ \A m \in Msg : pc[m] = "queued" =>
       \/ pred[m] = m - 1 /\ m > 1
       \/ pred[m] = Nobody /\ \A k \in Msg : k < m => settled[k]
  /\ \A m \in Msg : InFlight(m) \/ pc[m] = "over" =>
       \A k \in Msg : k < m => settled[k]

ChainInv == ~disturbed => Chain

\* Messages are numbered in the order of their calls.
SentInv == \A m \in Msg : pc[m] = "unsent" <=> m > sent

\* Only the abort controller of an open stream can have fired.
SignalsAreOpen == \A m \in Msg : signal[m] => pc[m] = "stream"

\* A message waits for an earlier one, and a turn that is over is settled.
WaitInv ==
  /\ tail <= sent
  /\ \A m \in Msg : pred[m] # Nobody => pred[m] < m /\ m <= sent
  /\ \A m \in Msg : pc[m] = "over" => settled[m]

SessionInv ==
  /\ TypeOK
  /\ SentInv
  /\ SignalsAreOpen
  /\ ActiveIsAlive
  /\ ChainInv
=============================================================================
