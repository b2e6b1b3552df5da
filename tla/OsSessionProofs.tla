--------------------------- MODULE OsSessionProofs ---------------------------
(***************************************************************************)
(* Proofs about OsSession: the chain of promises runs the turns one at a   *)
(* time until something settles or resets it early, and activeQuery never  *)
(* refers to a dead query (by the inductive invariant SessionInv); no      *)
(* disturbance ever locks the queue (WaitInv); while undisturbed, every    *)
(* running query can be aborted.                                           *)
(***************************************************************************)
EXTENDS OsSession, WellFoundedInduction, TLAPS

\* The steps of a turn that leave the queue alone and keep the turn in flight.
Within(m) ==
  \/ Enter(m) \/ Launch(m) \/ EndOfStream(m) \/ ResultStale(m) \/ FinishThrows(m)

\* The steps that settle the promise of a turn by its end.
Ends(m) == SetupThrows(m) \/ Finish(m)

\* Before the first call nothing is queued, active or signalled.
LEMMA SessionInvInit == Init => SessionInv
<1> SUFFICES ASSUME Init PROVE SessionInv
  OBVIOUS
<1>1. TypeOK
  <2>1. 0 \in 0 .. MaxMsg /\ 0 \in 0 .. MaxRetry
    BY BoundAssumption
  <2>2. Nobody \in Msg \union {Nobody}
    OBVIOUS
  <2> QED
    BY <2>1, <2>2 DEF Init, TypeOK
<1>2. SentInv /\ SignalsAreOpen /\ ActiveIsAlive
  BY DEF Init, SentInv, SignalsAreOpen, ActiveIsAlive, Msg, Nobody
<1>3. ChainInv
  BY DEF Init, ChainInv, Chain, InFlight, Msg, Nobody
<1> QED
  BY <1>1, <1>2, <1>3 DEF SessionInv

-----------------------------------------------------------------------------
(* Types                                                                   *)

\* Where a turn can be.
Places ==
  {"unsent", "queued", "entry", "setup", "stream", "done", "empty", "failed", "over"}

\* The building blocks keep the types.
LEMMA EnqueueTypes ==
  ASSUME TypeOK, NEW m \in Msg, NEW last \in Msg \union {Nobody}, NEW b \in BOOLEAN,
         Enqueue(m, last, b)
  PROVE  /\ sent' \in 0 .. MaxMsg
         /\ pred' \in [Msg -> Msg \union {Nobody}]
         /\ tail' \in Msg \union {Nobody}
         /\ hidden' \in [Msg -> BOOLEAN]
BY BoundAssumption DEF Enqueue, TypeOK, Msg

\* A turn that returns.
LEMMA ReturnTypes ==
  ASSUME TypeOK, NEW m \in Msg, Return(m)
  PROVE  /\ settled' \in [Msg -> BOOLEAN]
         /\ depth' \in [Msg -> 0 .. MaxRetry]
         /\ cleaned' \in [Msg -> BOOLEAN]
<1>1. 0 \in 0 .. MaxRetry
  BY BoundAssumption
<1> QED
  BY <1>1 DEF Return, TypeOK

\* Cancelling a query is a Boolean affair.
LEMMA AbortTypes ==
  ASSUME TypeOK, abortActiveQuery
  PROVE  active' = Nobody /\ signal' \in [Msg -> BOOLEAN]
BY DEF abortActiveQuery, TypeOK

\* The end of a query, with a retry or a recorded outcome.
LEMMA EndOfStreamTypes ==
  ASSUME TypeOK, NEW m \in Msg, EndOfStream(m)
  PROVE  /\ pc[m] = "stream"
         /\ \E where \in {"entry", "done", "empty", "failed"} : pc' = [pc EXCEPT ![m] = where]
         /\ active' = Nobody
         /\ signal' = [signal EXCEPT ![m] = FALSE]
         /\ stale' = [stale EXCEPT ![m] = FALSE]
         /\ depth' \in [Msg -> 0 .. MaxRetry]
         /\ cleaned' \in [Msg -> BOOLEAN]
         /\ UNCHANGED <<queue, hidden, handovers, disturbed>>
<1>1. ASSUME NEW clean \in BOOLEAN, Retry(m, clean)
      PROVE  /\ pc' = [pc EXCEPT ![m] = "entry"]
             /\ depth' \in [Msg -> 0 .. MaxRetry]
             /\ cleaned' \in [Msg -> BOOLEAN]
  <2>1. depth[m] + 1 \in 0 .. MaxRetry
    BY <1>1, BoundAssumption DEF Retry, CanRetry, TypeOK
  <2> QED
    BY <1>1, <2>1 DEF Retry, Goto, TypeOK
<1>2. ASSUME NEW how, Close(m, how)
      PROVE  /\ pc' = [pc EXCEPT ![m] = how]
             /\ depth' \in [Msg -> 0 .. MaxRetry]
             /\ cleaned' \in [Msg -> BOOLEAN]
  BY <1>2 DEF Close, Goto, TypeOK
<1>3. /\ pc[m] = "stream" /\ QueryOver(m)
      /\ UNCHANGED <<queue, hidden, handovers, disturbed>>
      /\ \/ \E clean \in BOOLEAN : Retry(m, clean)
         \/ \E how \in {"done", "empty", "failed"} : Close(m, how)
  BY DEF EndOfStream, StreamEnds, StreamEndsEmpty, AccountExhausted, StreamThrows
<1>4. /\ active' = Nobody
      /\ signal' = [signal EXCEPT ![m] = FALSE]
      /\ stale' = [stale EXCEPT ![m] = FALSE]
  BY <1>3 DEF QueryOver, ClearActive
<1>5. CASE \E clean \in BOOLEAN : Retry(m, clean)
  BY <1>1, <1>3, <1>4, <1>5
<1>6. CASE \E how \in {"done", "empty", "failed"} : Close(m, how)
  BY <1>2, <1>3, <1>4, <1>6
<1> QED
  BY <1>3, <1>5, <1>6

\* autoHandover's first steps, whoever calls it.
LEMMA BeginHandoverTypes ==
  ASSUME TypeOK, NEW h \in Handover, NEW b \in Msg, BeginHandover(h, b)
  PROVE  /\ sent' \in 0 .. MaxMsg
         /\ pred' \in [Msg -> Msg \union {Nobody}]
         /\ tail' \in Msg \union {Nobody}
         /\ hidden' \in [Msg -> BOOLEAN]
         /\ handover' \in BOOLEAN
         /\ hstep' \in [Handover -> {"idle", "brief", "create", "warm", "over"}]
         /\ hmsg' \in [Handover -> Msg \union {Nobody}]
         /\ UNCHANGED <<active, signal, stale>>
<1>1. Enqueue(b, Nobody, TRUE)
  BY DEF BeginHandover
<1>2. /\ handover' = TRUE /\ HStep(h, "brief", b)
      /\ UNCHANGED <<active, signal, stale>>
  BY DEF BeginHandover
<1>3. /\ sent' \in 0 .. MaxMsg
      /\ pred' \in [Msg -> Msg \union {Nobody}]
      /\ tail' \in Msg \union {Nobody}
      /\ hidden' \in [Msg -> BOOLEAN]
  BY <1>1, EnqueueTypes
<1> QED
  BY <1>2, <1>3 DEF HStep, TypeOK

\* The steps of turns keep the types ...
LEMMA TurnTypes == ASSUME TypeOK, NEW m \in Msg, Turn(m) PROVE TypeOK'
<1>1. CASE sendMessage(m)
  <2>1. /\ sent' \in 0 .. MaxMsg
        /\ pred' \in [Msg -> Msg \union {Nobody}]
        /\ tail' \in Msg \union {Nobody}
        /\ hidden' \in [Msg -> BOOLEAN]
    <3>1. tail \in Msg \union {Nobody} /\ Enqueue(m, tail, FALSE)
      BY <1>1 DEF sendMessage, TypeOK
    <3> QED
      BY <3>1, EnqueueTypes
  <2> QED
    BY <1>1, <2>1 DEF sendMessage, Goto, handovers, TypeOK
<1>2. CASE Begin(m)
  BY <1>2 DEF Begin, Goto, handovers, TypeOK
<1>3. CASE Enter(m)
  BY <1>3, AbortTypes DEF Enter, Goto, queue, handovers, TypeOK
<1>4. CASE SetupThrows(m) \/ Finish(m)
  <2>1. Return(m) /\ pc' = [pc EXCEPT ![m] = "over"]
    BY <1>4 DEF SetupThrows, Finish, Goto
  <2>2. UNCHANGED <<sent, pred, tail, active, signal, hidden, stale, handovers, disturbed>>
    BY <1>4 DEF SetupThrows, Finish
  <2> QED
    BY <2>1, <2>2, ReturnTypes DEF handovers, TypeOK
<1>5. CASE Launch(m)
  BY <1>5 DEF Launch, Goto, queue, handovers, TypeOK
<1>6. CASE EndOfStream(m)
  BY <1>6, EndOfStreamTypes DEF queue, handovers, TypeOK
<1>7. CASE ResultStale(m)
  BY <1>7 DEF ResultStale, ClearActive, queue, handovers, TypeOK
<1>8. CASE FinishThrows(m)
  BY <1>8 DEF FinishThrows, ClearActive, Goto, queue, handovers, TypeOK
<1>9. CASE Watchdog(m)
  BY <1>9, AbortTypes DEF Watchdog, handovers, TypeOK
<1> QED
  BY <1>1, <1>2, <1>3, <1>4, <1>5, <1>6, <1>7, <1>8, <1>9 DEF Turn

\* ... and so do the steps of handovers.
LEMMA HandoverTypes == ASSUME TypeOK, NEW h \in Handover, HandoverStep(h) PROVE TypeOK'
<1>1. ASSUME NEW m \in Msg, NEW b \in Msg, HandoverAfterTurn(m, h, b) PROVE TypeOK'
  <2>1. BeginHandover(h, b)
    BY <1>1 DEF HandoverAfterTurn
  <2>2. pc' = [pc EXCEPT ![m] = "over", ![b] = "queued"] /\ Return(m) /\ disturbed' \in BOOLEAN
    BY <1>1 DEF HandoverAfterTurn, TypeOK
  <2>3. pc' \in [Msg -> Places]
    BY <2>2 DEF TypeOK, Places
  <2> QED
    BY <2>1, <2>2, <2>3, BeginHandoverTypes, ReturnTypes DEF TypeOK, Places
<1>2. ASSUME NEW b \in Msg, HandoverOnRequest(h, b) PROVE TypeOK'
  <2>1. BeginHandover(h, b)
    BY <1>2 DEF HandoverOnRequest
  <2>2. pc' = [pc EXCEPT ![b] = "queued"] /\ disturbed' \in BOOLEAN
    BY <1>2 DEF HandoverOnRequest, Goto, TypeOK
  <2>3. UNCHANGED <<settled, depth, cleaned>>
    BY <1>2 DEF HandoverOnRequest
  <2> QED
    BY <2>1, <2>2, <2>3, BeginHandoverTypes DEF TypeOK
<1>3. CASE BriefReady(h)
  BY <1>3, AbortTypes DEF BriefReady, HStep, queue, TypeOK
<1>4. ASSUME NEW m \in Msg, SendWarm(h, m) PROVE TypeOK'
  <2>1. tail \in Msg \union {Nobody} /\ Enqueue(m, tail, TRUE)
    BY <1>4 DEF SendWarm, TypeOK
  <2>2. /\ sent' \in 0 .. MaxMsg
        /\ pred' \in [Msg -> Msg \union {Nobody}]
        /\ tail' \in Msg \union {Nobody}
        /\ hidden' \in [Msg -> BOOLEAN]
    BY <2>1, EnqueueTypes
  <2> QED
    BY <1>4, <2>2 DEF SendWarm, HStep, Goto, TypeOK
<1>5. CASE HandoverEnds(h)
  BY <1>5 DEF HandoverEnds, HStep, queue, turns, TypeOK
<1>6. CASE HandoverWatchdog(h)
  BY <1>6, AbortTypes DEF HandoverWatchdog, TypeOK
<1> QED
  BY <1>1, <1>2, <1>3, <1>4, <1>5, <1>6 DEF HandoverStep

\* Every step keeps the types.
LEMMA TypeNext == TypeOK /\ [Next]_vars => TypeOK'
<1> SUFFICES ASSUME TypeOK, [Next]_vars PROVE TypeOK'
  OBVIOUS
<1>1. CASE \E m \in Msg : Turn(m)
  BY <1>1, TurnTypes
<1>2. CASE \E h \in Handover : HandoverStep(h)
  BY <1>2, HandoverTypes
<1>3. CASE abort
  BY <1>3, AbortTypes DEF abort, TypeOK
<1>4. CASE restart
  BY <1>4, AbortTypes DEF restart, queue, handovers, TypeOK
<1>5. CASE UNCHANGED vars
  BY <1>5 DEF vars, queue, turns, handovers, TypeOK
<1> QED
  BY <1>1, <1>2, <1>3, <1>4, <1>5 DEF Next

-----------------------------------------------------------------------------
(* The number of messages                                                  *)

\* How pc moves in a step of a turn that sends no message.
LEMMA Moves ==
  ASSUME TypeOK, NEW m \in Msg, Within(m) \/ Begin(m) \/ Ends(m) \/ Watchdog(m)
  PROVE  /\ pc[m] # "unsent" /\ pc'[m] # "unsent"
         /\ \A k \in Msg \ {m} : pc'[k] = pc[k]
         /\ sent' = sent
<1>1. CASE EndOfStream(m)
  BY <1>1, EndOfStreamTypes DEF queue, TypeOK
<1>2. CASE Enter(m) \/ Launch(m) \/ ResultStale(m) \/ FinishThrows(m)
  BY <1>2 DEF Enter, Launch, ResultStale, FinishThrows, Goto, queue, InFlight, TypeOK
<1>3. CASE Begin(m) \/ Ends(m) \/ Watchdog(m)
  BY <1>3 DEF Begin, Ends, SetupThrows, Finish, Watchdog, Goto, queue, InFlight, TypeOK
<1> QED
  BY <1>1, <1>2, <1>3 DEF Within

\* What a call of sendMessage does, whoever makes it.
LEMMA Sends ==
  ASSUME TypeOK, NEW m \in Msg, NEW last, NEW b, Enqueue(m, last, b)
  PROVE  /\ m = sent + 1 /\ sent' = m /\ tail' = m
         /\ pred'[m] = last
         /\ \A k \in Msg \ {m} : pred'[k] = pred[k]
BY DEF Enqueue, TypeOK

\* Only a message that is sent leaves "unsent".
LEMMA SentNext == TypeOK /\ SentInv /\ [Next]_vars => SentInv'
<1> SUFFICES ASSUME TypeOK, SentInv, [Next]_vars PROVE SentInv'
  OBVIOUS
<1>0. sent \in Nat /\ Msg \subseteq Nat
  BY DEF TypeOK, Msg
<1>1. ASSUME NEW m \in Msg, NEW last, NEW b, Enqueue(m, last, b),
             pc'[m] = "queued", \A k \in Msg \ {m} : pc'[k] = "unsent" <=> pc[k] = "unsent"
      PROVE  SentInv'
  <2>1. m = sent + 1 /\ sent' = m
    BY <1>1, Sends
  <2> QED
    BY <1>0, <1>1, <2>1 DEF SentInv
<1>2. ASSUME NEW m \in Msg, sendMessage(m) PROVE SentInv'
  <2>1. Enqueue(m, tail, FALSE) /\ pc' = [pc EXCEPT ![m] = "queued"]
    BY <1>2 DEF sendMessage, Goto
  <2> QED
    BY <1>1, <2>1 DEF TypeOK
<1>3. ASSUME NEW m \in Msg, Within(m) \/ Begin(m) \/ Ends(m) \/ Watchdog(m) PROVE SentInv'
  BY <1>3, Moves DEF SentInv
<1>4. ASSUME NEW h \in Handover, NEW m \in Msg, NEW b \in Msg, HandoverAfterTurn(m, h, b)
      PROVE  SentInv'
  <2>1. Enqueue(b, Nobody, TRUE) /\ pc[m] = "done"
    BY <1>4 DEF HandoverAfterTurn, BeginHandover
  <2>2. m # b
    BY <1>0, <2>1 DEF SentInv, Enqueue
  <2>3. pc' = [pc EXCEPT ![m] = "over", ![b] = "queued"]
    BY <1>4 DEF HandoverAfterTurn
  <2> QED
    BY <1>1, <2>1, <2>2, <2>3 DEF TypeOK
<1>5. ASSUME NEW h \in Handover, NEW b \in Msg, HandoverOnRequest(h, b) PROVE SentInv'
  <2>1. Enqueue(b, Nobody, TRUE) /\ pc' = [pc EXCEPT ![b] = "queued"]
    BY <1>5 DEF HandoverOnRequest, BeginHandover, Goto
  <2> QED
    BY <1>1, <2>1 DEF TypeOK
<1>6. ASSUME NEW h \in Handover, NEW m \in Msg, SendWarm(h, m) PROVE SentInv'
  <2>1. Enqueue(m, tail, TRUE) /\ pc' = [pc EXCEPT ![m] = "queued"]
    BY <1>6 DEF SendWarm, Goto
  <2> QED
    BY <1>1, <2>1 DEF TypeOK
<1>7. ASSUME \/ \E h \in Handover : BriefReady(h) \/ HandoverEnds(h) \/ HandoverWatchdog(h)
             \/ abort \/ restart \/ UNCHANGED vars
      PROVE  SentInv'
  BY <1>7 DEF BriefReady, HandoverEnds, HandoverWatchdog, abort, restart,
              vars, queue, turns, SentInv
<1> QED
  BY <1>2, <1>3, <1>4, <1>5, <1>6, <1>7
     DEF Next, Turn, HandoverStep, Within, Ends

-----------------------------------------------------------------------------
(* The active query                                                        *)

\* activeQuery and the abort controllers, as one invariant.
Alive == SignalsAreOpen /\ ActiveIsAlive

\* Cancelling the active query.
LEMMA AbortAlive ==
  ASSUME TypeOK, Alive, abortActiveQuery,
         \A k \in Msg : pc[k] = "stream" => pc'[k] = "stream"
  PROVE  Alive'
<1>1. /\ active' = Nobody
      /\ signal' = [k \in Msg |-> signal[k] \/ k = active]
  BY DEF abortActiveQuery
<1>2. ActiveIsAlive'
  BY <1>1 DEF ActiveIsAlive
<1>3. \A k \in Msg : signal'[k] => pc[k] = "stream"
  <2>1. \A k \in Msg : k # Nobody
    BY DEF Msg, Nobody
  <2>2. \A k \in Msg : signal'[k] => signal[k] \/ k = active
    BY <1>1
  <2> QED
    BY <2>1, <2>2 DEF Alive, SignalsAreOpen, ActiveIsAlive
<1> QED
  BY <1>2, <1>3 DEF Alive, SignalsAreOpen

\* Steps that leave activeQuery and the controllers alone.
LEMMA SameAlive ==
  ASSUME TypeOK, Alive, UNCHANGED <<active, signal>>,
         \A k \in Msg : pc[k] = "stream" => pc'[k] = "stream"
  PROVE  Alive'
<1>1. active # Nobody => active \in Msg
  BY DEF TypeOK
<1> QED
  BY <1>1 DEF Alive, SignalsAreOpen, ActiveIsAlive

\* activeQuery never refers to a dead query.
LEMMA AliveNext == TypeOK /\ SentInv /\ Alive /\ [Next]_vars => Alive'
<1> SUFFICES ASSUME TypeOK, SentInv, Alive, [Next]_vars PROVE Alive'
  OBVIOUS
<1>0. sent \in Nat /\ Msg \subseteq Nat
  BY DEF TypeOK, Msg
<1>1. ASSUME NEW m \in Msg, EndOfStream(m) PROVE Alive'
  <2>1. /\ active' = Nobody /\ signal' = [signal EXCEPT ![m] = FALSE]
        /\ \A k \in Msg \ {m} : pc'[k] = pc[k]
    BY <1>1, EndOfStreamTypes DEF TypeOK
  <2>2. \A k \in Msg : signal'[k] => pc'[k] = "stream"
    BY <2>1 DEF Alive, SignalsAreOpen, TypeOK
  <2> QED
    BY <2>1, <2>2 DEF Alive, SignalsAreOpen, ActiveIsAlive
<1>2. ASSUME NEW m \in Msg, Enter(m) \/ Watchdog(m) PROVE Alive'
  <2>1. abortActiveQuery /\ \A k \in Msg : pc[k] = "stream" => pc'[k] = "stream"
    BY <1>2 DEF Enter, Watchdog, Goto, TypeOK
  <2> QED
    BY <2>1, AbortAlive
<1>3. ASSUME NEW m \in Msg, Launch(m) PROVE Alive'
  <2>1. /\ pc[m] = "setup" /\ pc'[m] = "stream" /\ active' = m /\ signal' = signal
        /\ \A k \in Msg \ {m} : pc'[k] = pc[k]
    BY <1>3 DEF Launch, Goto, TypeOK
  <2> QED
    BY <2>1 DEF Alive, SignalsAreOpen, ActiveIsAlive
<1>4. ASSUME NEW m \in Msg, ResultStale(m) \/ FinishThrows(m) PROVE Alive'
  <2>1. /\ active' = Nobody /\ signal' = signal
        /\ \A k \in Msg : pc[k] = "stream" => pc'[k] = "stream"
    BY <1>4 DEF ResultStale, FinishThrows, ClearActive, Goto, TypeOK
  <2> QED
    BY <2>1 DEF Alive, SignalsAreOpen, ActiveIsAlive
<1>5. ASSUME NEW m \in Msg, Begin(m) \/ Ends(m) PROVE Alive'
  <2>1. /\ UNCHANGED <<active, signal>>
        /\ \A k \in Msg : pc[k] = "stream" => pc'[k] = "stream"
    BY <1>5 DEF Begin, Ends, SetupThrows, Finish, Goto, TypeOK
  <2> QED
    BY <2>1, SameAlive
<1>6. ASSUME NEW m \in Msg, NEW last, NEW b, Enqueue(m, last, b),
             UNCHANGED <<active, signal>>, pc' = [pc EXCEPT ![m] = "queued"]
      PROVE  Alive'
  <2>1. pc[m] = "unsent"
    BY <1>0, <1>6 DEF Enqueue, SentInv
  <2>2. \A k \in Msg : pc[k] = "stream" => pc'[k] = "stream"
    BY <1>6, <2>1 DEF TypeOK
  <2> QED
    BY <1>6, <2>2, SameAlive
<1>7. ASSUME NEW m \in Msg, sendMessage(m) PROVE Alive'
  BY <1>6, <1>7 DEF sendMessage, Goto
<1>8. ASSUME NEW h \in Handover, NEW b \in Msg, HandoverOnRequest(h, b) PROVE Alive'
  BY <1>6, <1>8 DEF HandoverOnRequest, BeginHandover, Goto
<1>9. ASSUME NEW h \in Handover, NEW m \in Msg, SendWarm(h, m) PROVE Alive'
  BY <1>6, <1>9 DEF SendWarm, Goto
<1>10. ASSUME NEW h \in Handover, NEW m \in Msg, NEW b \in Msg, HandoverAfterTurn(m, h, b)
       PROVE  Alive'
  <2>1. /\ Enqueue(b, Nobody, TRUE) /\ pc[m] = "done" /\ UNCHANGED <<active, signal>>
        /\ pc' = [pc EXCEPT ![m] = "over", ![b] = "queued"]
    BY <1>10 DEF HandoverAfterTurn, BeginHandover
  <2>2. pc[b] = "unsent"
    BY <1>0, <2>1 DEF Enqueue, SentInv
  <2>3. \A k \in Msg : pc[k] = "stream" => pc'[k] = "stream"
    BY <2>1, <2>2 DEF TypeOK
  <2> QED
    BY <2>1, <2>3, SameAlive
<1>11. ASSUME (\E h \in Handover : BriefReady(h) \/ HandoverWatchdog(h)) \/ abort \/ restart
       PROVE  Alive'
  <2>1. abortActiveQuery /\ pc' = pc
    BY <1>11 DEF BriefReady, HandoverWatchdog, abort, restart
  <2> QED
    BY <2>1, AbortAlive
<1>12. ASSUME (\E h \in Handover : HandoverEnds(h)) \/ UNCHANGED vars PROVE Alive'
  <2>1. UNCHANGED <<active, signal, pc>>
    BY <1>12 DEF HandoverEnds, vars, turns
  <2> QED
    BY <2>1, SameAlive
<1> QED
  BY <1>1, <1>2, <1>3, <1>4, <1>5, <1>7, <1>8, <1>9, <1>10, <1>11, <1>12
     DEF Next, Turn, HandoverStep, Ends

-----------------------------------------------------------------------------
(* The chain of promises                                                   *)

\* A disturbance is never forgotten.
LEMMA DisturbedStays ==
  ASSUME TypeOK, [Next]_vars, ~disturbed'
  PROVE  ~disturbed
<1>1. ASSUME NEW m \in Msg, EndOfStream(m) PROVE ~disturbed
  BY <1>1, EndOfStreamTypes
<1>2. ASSUME NEW m \in Msg,
             \/ sendMessage(m) \/ Begin(m) \/ Enter(m) \/ SetupThrows(m) \/ Launch(m)
             \/ ResultStale(m) \/ Finish(m) \/ FinishThrows(m) \/ Watchdog(m)
      PROVE  ~disturbed
  BY <1>2 DEF sendMessage, Begin, Enter, SetupThrows, Launch, ResultStale, Finish,
              FinishThrows, Watchdog
<1>3. ASSUME NEW h \in Handover, HandoverStep(h) PROVE ~disturbed
  BY <1>3 DEF HandoverStep, HandoverAfterTurn, HandoverOnRequest, BriefReady, SendWarm,
              HandoverEnds, HandoverWatchdog
<1>4. ASSUME abort \/ restart \/ UNCHANGED vars PROVE ~disturbed
  BY <1>4 DEF abort, restart, vars
<1> QED
  BY <1>1, <1>2, <1>3, <1>4 DEF Next, Turn

\* A turn that goes on, or one that a resolved promise lets begin.
LEMMA WithinKeepsChain ==
  ASSUME TypeOK, Chain, NEW m \in Msg, Within(m)
  PROVE  Chain'
<1>1. /\ UNCHANGED <<sent, pred, tail, settled>>
      /\ pc'[m] \in {"entry", "setup", "stream", "done", "empty", "failed"}
      /\ pc[m] \in {"entry", "setup", "stream", "done", "empty", "failed"}
      /\ \A k \in Msg \ {m} : pc'[k] = pc[k]
  <2>1. CASE EndOfStream(m)
    BY <2>1, EndOfStreamTypes DEF queue, TypeOK
  <2>2. CASE Enter(m) \/ Launch(m)
    BY <2>2 DEF Enter, Launch, Goto, queue, TypeOK
  <2>3. CASE ResultStale(m) \/ FinishThrows(m)
    BY <2>3 DEF ResultStale, FinishThrows, Goto, queue, TypeOK
  <2> QED
    BY <2>1, <2>2, <2>3 DEF Within
<1>2. \A k \in Msg : /\ pc'[k] = "over" <=> pc[k] = "over"
                     /\ pc'[k] = "queued" <=> pc[k] = "queued"
                     /\ InFlight(k)' <=> InFlight(k)
  BY <1>1 DEF InFlight
<1> QED
  BY <1>1, <1>2 DEF Chain

\* A turn begins only when the one before it, and so every one before it, is over.
LEMMA BeginKeepsChain ==
  ASSUME TypeOK, Chain, NEW m \in Msg, Begin(m)
  PROVE  Chain'
<1>1. /\ UNCHANGED <<sent, tail, settled>> /\ pc[m] = "queued" /\ pc'[m] = "entry"
      /\ \A k \in Msg \ {m} : pc'[k] = pc[k] /\ pred'[k] = pred[k]
  BY DEF Begin, Goto, TypeOK
<1>2. \A k \in Msg : k < m => settled[k]
  <2>1. CASE pred[m] = m - 1 /\ m > 1
    <3>0. m - 1 \in Msg /\ m - 1 # Nobody
      BY <2>1, BoundAssumption DEF Msg, Nobody
    <3>1. m - 1 \in Msg /\ settled[m - 1]
      BY <2>1, <3>0 DEF Begin, Unblocked
    <3>2. \A k \in Msg : k < m - 1 => settled[k]
      BY <3>1 DEF Chain
    <3>3. \A k \in Msg : k < m => k = m - 1 \/ k < m - 1
      BY DEF Msg
    <3> QED
      BY <3>1, <3>2, <3>3
  <2> QED
    BY <1>1, <2>1 DEF Chain
<1>3. \A k \in Msg \ {m} : InFlight(k)' <=> InFlight(k)
  BY <1>1 DEF InFlight
<1>4. ~(pc'[m] = "over") /\ ~(pc[m] = "over") /\ ~(pc'[m] = "queued")
  BY <1>1
<1> QED
  BY <1>1, <1>2, <1>3, <1>4 DEF Chain

\* A turn that ends settles its own promise.
LEMMA EndKeepsChain ==
  ASSUME TypeOK, Chain, NEW m \in Msg, Ends(m)
  PROVE  Chain'
<1>1. /\ UNCHANGED <<sent, pred, tail>> /\ settled'[m] /\ pc'[m] = "over"
      /\ \A k \in Msg \ {m} : pc'[k] = pc[k] /\ settled'[k] = settled[k]
  BY DEF Ends, SetupThrows, Finish, Return, Goto, TypeOK
<1>2. InFlight(m)
  BY DEF Ends, SetupThrows, Finish, InFlight
<1>3. \A k \in Msg : settled[k] => settled'[k]
  BY <1>1
<1>4. \A k \in Msg \ {m} : InFlight(k)' <=> InFlight(k)
  BY <1>1 DEF InFlight
<1>5. \A k \in Msg : k < m => settled[k]
  BY <1>2 DEF Chain
<1> QED
  BY <1>1, <1>3, <1>4, <1>5 DEF Chain

\* A call of sendMessage lengthens the chain, or begins one where all is over.
LEMMA EnqueueKeepsChain ==
  ASSUME TypeOK, SentInv, Chain, NEW m \in Msg, NEW last, NEW b, Enqueue(m, last, b),
         pc' = [pc EXCEPT ![m] = "queued"], settled' = settled,
         \/ last = tail
         \/ last = Nobody /\ ~Orphans
  PROVE  Chain'
<1>0. sent \in Nat /\ Msg \subseteq Nat \ {0}
  BY DEF TypeOK, Msg
<1>1. /\ m = sent + 1 /\ sent' = m /\ tail' = m /\ pred'[m] = last
      /\ \A k \in Msg \ {m} : pred'[k] = pred[k] /\ pc'[k] = pc[k]
      /\ pc'[m] = "queued"
  BY Sends DEF TypeOK
<1>2. pc[m] = "unsent"
  BY <1>0, <1>1 DEF SentInv
<1>3. \/ last = m - 1 /\ m > 1
      \/ last = Nobody /\ \A k \in Msg : k < m => settled[k]
  <2>1. CASE last = tail /\ tail # Nobody
    <3>1. last = sent /\ sent # 0
      BY <2>1 DEF Chain, Nobody
    <3> QED
      BY <1>0, <1>1, <3>1
  <2>2. CASE last = tail /\ tail = Nobody
    BY <1>0, <1>1, <2>2 DEF Chain
  <2>3. CASE last = Nobody /\ ~Orphans
    BY <1>0, <1>1, <2>3 DEF Orphans, SentInv
  <2> QED
    BY <2>1, <2>2, <2>3
<1>4. ~settled[m]
  BY <1>2 DEF Chain
<1>5. \A k \in Msg \ {m} : InFlight(k)' <=> InFlight(k)
  BY <1>1 DEF InFlight
<1>6. ~InFlight(m)'
  BY <1>1 DEF InFlight
<1>7. tail' # Nobody
  BY <1>0, <1>1 DEF Nobody
<1> QED
  BY <1>1, <1>2, <1>3, <1>4, <1>5, <1>6, <1>7 DEF Chain

\* A visible turn that ends with a handover: its promise is settled, and the
\* handover's first message begins a chain of its own.
LEMMA HandoverKeepsChain ==
  ASSUME TypeOK, SentInv, Chain, NEW h \in Handover, NEW m \in Msg, NEW b \in Msg,
         HandoverAfterTurn(m, h, b), ~disturbed'
  PROVE  Chain'
<1>0. sent \in Nat /\ Msg \subseteq Nat \ {0}
  BY DEF TypeOK, Msg
<1>1. /\ Enqueue(b, Nobody, TRUE) /\ pc[m] = "done" /\ Return(m)
      /\ pc' = [pc EXCEPT ![m] = "over", ![b] = "queued"]
      /\ \A k \in Msg \ {m} : pc[k] = "unsent" \/ settled[k]
  BY DEF HandoverAfterTurn, BeginHandover
<1>2. b = sent + 1 /\ sent' = b /\ tail' = b /\ pred'[b] = Nobody
  BY <1>1, Sends
<1>3. pc[b] = "unsent" /\ m # b
  BY <1>0, <1>1, <1>2 DEF SentInv
<1>4. /\ pc'[m] = "over" /\ settled'[m] /\ pc'[b] = "queued"
      /\ \A k \in Msg \ {m} : settled'[k] = settled[k]
      /\ \A k \in Msg \ {m, b} : pc'[k] = pc[k]
  BY <1>1, <1>3 DEF Return, TypeOK
<1>5. ~settled[b] /\ \A k \in Msg \ {m, b} : pc[k] \in {"unsent", "over"}
  BY <1>1, <1>3 DEF Chain
<1>6. \A k \in Msg : k < b => settled'[k]
  BY <1>0, <1>1, <1>2, <1>4 DEF SentInv
<1>7. \A k \in Msg \ {m, b} : pc[k] = "over" => k < b
  BY <1>0, <1>2 DEF SentInv
<1>8. m < b
  BY <1>0, <1>1, <1>2 DEF SentInv
<1>9. \A k \in Msg : settled'[k] <=> pc'[k] = "over"
  BY <1>3, <1>4, <1>5 DEF Chain
<1>10. tail' # Nobody /\ tail' = sent'
  BY <1>0, <1>2 DEF Nobody
<1>11. \A k \in Msg : pc'[k] = "queued" => k = b
  BY <1>4, <1>5
<1>12. \A k \in Msg : InFlight(k)' \/ pc'[k] = "over" => k < b
  BY <1>4, <1>5, <1>7, <1>8 DEF InFlight
<1>13. \A k \in Msg : k < b => \A j \in Msg : j < k => j < b
  BY <1>0
<1> QED
  BY <1>2, <1>6, <1>9, <1>10, <1>11, <1>12, <1>13 DEF Chain

\* Every step keeps the chain, until one disturbs it.
LEMMA ChainNext == TypeOK /\ SentInv /\ ChainInv /\ [Next]_vars => ChainInv'
<1> SUFFICES ASSUME TypeOK, SentInv, ChainInv, [Next]_vars, ~disturbed' PROVE Chain'
  BY DEF ChainInv
<1>0. Chain
  BY DisturbedStays DEF ChainInv
<1>1. ASSUME NEW m \in Msg, sendMessage(m) PROVE Chain'
  <2>1. /\ Enqueue(m, tail, FALSE) /\ pc' = [pc EXCEPT ![m] = "queued"]
        /\ settled' = settled
    BY <1>1 DEF sendMessage, Goto
  <2> QED
    BY <1>0, <2>1, EnqueueKeepsChain
<1>2. ASSUME NEW m \in Msg, Within(m) PROVE Chain'
  BY <1>0, <1>2, WithinKeepsChain
<1>3. ASSUME NEW m \in Msg, Begin(m) PROVE Chain'
  BY <1>0, <1>3, BeginKeepsChain
<1>4. ASSUME NEW m \in Msg, Ends(m) PROVE Chain'
  BY <1>0, <1>4, EndKeepsChain
<1>5. ASSUME NEW m \in Msg, Watchdog(m) PROVE Chain'
  BY <1>5 DEF Watchdog
<1>6. ASSUME NEW h \in Handover, NEW m \in Msg, NEW b \in Msg, HandoverAfterTurn(m, h, b)
      PROVE  Chain'
  BY <1>0, <1>6, HandoverKeepsChain
<1>7. ASSUME NEW h \in Handover, NEW b \in Msg, HandoverOnRequest(h, b) PROVE Chain'
  <2>1. /\ Enqueue(b, Nobody, TRUE) /\ pc' = [pc EXCEPT ![b] = "queued"]
        /\ settled' = settled /\ ~Orphans
    BY <1>7 DEF HandoverOnRequest, BeginHandover, Goto
  <2> QED
    BY <1>0, <2>1, EnqueueKeepsChain
<1>8. ASSUME NEW h \in Handover, NEW m \in Msg, SendWarm(h, m) PROVE Chain'
  <2>1. /\ Enqueue(m, tail, TRUE) /\ pc' = [pc EXCEPT ![m] = "queued"]
        /\ settled' = settled
    BY <1>8 DEF SendWarm, Goto
  <2> QED
    BY <1>0, <2>1, EnqueueKeepsChain
<1>9. ASSUME (\E h \in Handover : HandoverWatchdog(h)) \/ abort PROVE Chain'
  <2>1. /\ tail' = Nobody /\ ~Orphans
        /\ UNCHANGED <<sent, pred, settled, pc>>
    BY <1>9 DEF HandoverWatchdog, abort
  <2>2. \A m \in Msg : m <= sent => settled[m]
    <3>1. sent \in Nat /\ Msg \subseteq Nat
      BY DEF TypeOK, Msg
    <3> QED
      BY <2>1, <3>1 DEF Orphans, SentInv
  <2> QED
    BY <1>0, <2>1, <2>2 DEF Chain, InFlight
<1>10. ASSUME \/ \E h \in Handover : BriefReady(h) \/ HandoverEnds(h)
              \/ restart \/ UNCHANGED vars
       PROVE  Chain'
  <2>1. UNCHANGED <<sent, pred, tail, settled, pc>>
    BY <1>10 DEF BriefReady, HandoverEnds, restart, vars, queue, turns
  <2> QED
    BY <1>0, <2>1 DEF Chain, InFlight
<1> QED
  BY <1>1, <1>2, <1>3, <1>4, <1>5, <1>6, <1>7, <1>8, <1>9, <1>10
     DEF Next, Turn, HandoverStep, Within, Ends

-----------------------------------------------------------------------------

\* SessionInv holds throughout, for any number of messages, retries and handovers.
THEOREM SessionInvariant == Spec => []SessionInv
<1>1. SessionInv /\ [Next]_vars => SessionInv'
  BY TypeNext, SentNext, AliveNext, ChainNext DEF SessionInv, Alive
<1> QED
  BY SessionInvInit, <1>1, PTL DEF Spec

\* Turns run one at a time and in order, until a promise is settled or the queue
\* is reset ahead of a turn's end.
THEOREM TurnsInOrderSafe == Spec => []TurnsInOrder
<1>1. SessionInv => TurnsInOrder
  BY DEF SessionInv, ChainInv, Chain, TurnsInOrder
<1> QED
  BY <1>1, SessionInvariant, PTL

\* Whatever watchdogs, aborts, restarts and handovers do to each other,
\* activeQuery is a query whose stream is open and which nobody has cancelled.
THEOREM ActiveIsAliveSafe == Spec => []ActiveIsAlive
<1>1. SessionInv => ActiveIsAlive
  BY DEF SessionInv
<1> QED
  BY <1>1, SessionInvariant, PTL

\* Every variable keeps its type, for every value of the constants.
THEOREM SessionTypes == Spec => []TypeOK
<1>1. SessionInv => TypeOK
  BY DEF SessionInv
<1> QED
  BY <1>1, SessionInvariant, PTL

-----------------------------------------------------------------------------
(* Who waits for whom                                                      *)

\* A set of naturals that is not empty has a least element.
LEMMA LeastNatural ==
  ASSUME NEW S \in SUBSET Nat, S # {}
  PROVE  \E n \in S : \A m \in S : n <= m
<1>1. PICK n \in S : \A m \in S : ~(<<m, n>> \in OpToRel(<, Nat))
  BY NatLessThanWellFounded, WFMin
<1>2. \A m \in S : ~(m < n)
  BY <1>1 DEF OpToRel
<1> QED
  BY <1>2

\* At the start nobody waits.
LEMMA WaitInvInit == Init => WaitInv
BY DEF Init, WaitInv, Msg, Nobody

\* A call of sendMessage waits for an earlier call or for none.
LEMMA EnqueueKeepsWait ==
  ASSUME TypeOK, SentInv, WaitInv, NEW m \in Msg, NEW last \in {tail, Nobody}, NEW b,
         Enqueue(m, last, b), pc'[m] # "over",
         \A k \in Msg \ {m} : pc'[k] = "over" => settled'[k]
  PROVE  WaitInv'
<1>0. sent \in Nat /\ Msg \subseteq Nat /\ tail \in Nat /\ Nobody = 0
  BY DEF TypeOK, Msg, Nobody
<1>1. /\ m = sent + 1 /\ sent' = m /\ tail' = m /\ pred'[m] = last
      /\ \A k \in Msg \ {m} : pred'[k] = pred[k]
  BY Sends
<1>2. last < m
  BY <1>0, <1>1 DEF WaitInv
<1>3. \A k \in Msg \ {m} : pred'[k] # Nobody => pred'[k] < k /\ k <= sent'
  BY <1>0, <1>1 DEF WaitInv
<1>4. \A k \in Msg : pc'[k] = "over" => settled'[k]
  OBVIOUS
<1> QED
  BY <1>0, <1>1, <1>2, <1>3, <1>4 DEF WaitInv

\* What a step of a turn does to the chain of promises: it takes a message out
\* of it at most, and settles every turn it ends.
LEMMA TurnKeepsWait ==
  ASSUME TypeOK, WaitInv, NEW m \in Msg, Within(m) \/ Begin(m) \/ Ends(m) \/ Watchdog(m)
  PROVE  WaitInv'
<1>1. CASE EndOfStream(m)
  <2>1. UNCHANGED <<sent, pred, tail, settled>>
    BY <1>1, EndOfStreamTypes DEF queue
  <2>2. \A k \in Msg : pc'[k] = "over" => pc[k] = "over"
    BY <1>1, EndOfStreamTypes DEF TypeOK
  <2> QED
    BY <2>1, <2>2 DEF WaitInv
<1>2. CASE Enter(m) \/ Launch(m) \/ ResultStale(m) \/ FinishThrows(m)
  <2>1. UNCHANGED <<sent, pred, tail, settled>>
    BY <1>2 DEF Enter, Launch, ResultStale, FinishThrows, queue
  <2>2. \A k \in Msg : pc'[k] = "over" => pc[k] = "over"
    BY <1>2 DEF Enter, Launch, ResultStale, FinishThrows, Goto, TypeOK
  <2> QED
    BY <2>1, <2>2 DEF WaitInv
<1>3. CASE Begin(m)
  <2>1. /\ UNCHANGED <<sent, tail, settled>>
        /\ pred' = [pred EXCEPT ![m] = Nobody] /\ pc' = [pc EXCEPT ![m] = "entry"]
    BY <1>3 DEF Begin, Goto
  <2> QED
    BY <2>1 DEF WaitInv, TypeOK
<1>4. CASE Ends(m)
  <2>1. /\ UNCHANGED <<sent, pred, tail>>
        /\ settled' = [settled EXCEPT ![m] = TRUE] /\ pc' = [pc EXCEPT ![m] = "over"]
    BY <1>4 DEF Ends, SetupThrows, Finish, Return, Goto
  <2> QED
    BY <2>1 DEF WaitInv, TypeOK
<1>5. CASE Watchdog(m)
  <2>1. UNCHANGED <<sent, pred, tail, pc>> /\ settled' = [settled EXCEPT ![m] = TRUE]
    BY <1>5 DEF Watchdog
  <2> QED
    BY <2>1 DEF WaitInv, TypeOK
<1> QED
  BY <1>1, <1>2, <1>3, <1>4, <1>5 DEF Within

\* Every step keeps it, the resets of the queue included: they only let later
\* messages wait for nobody.
LEMMA WaitInvNext == SessionInv /\ WaitInv /\ [Next]_vars => WaitInv'
<1> SUFFICES ASSUME SessionInv, WaitInv, [Next]_vars PROVE WaitInv'
  OBVIOUS
<1>0. TypeOK /\ SentInv /\ sent \in Nat /\ Msg \subseteq Nat
  BY DEF SessionInv, TypeOK, Msg
<1>1. ASSUME NEW m \in Msg, NEW last \in {tail, Nobody}, NEW b, Enqueue(m, last, b),
             pc' = [pc EXCEPT ![m] = "queued"], settled' = settled
      PROVE  WaitInv'
  <2>1. pc'[m] # "over" /\ \A k \in Msg \ {m} : pc'[k] = "over" => settled'[k]
    BY <1>0, <1>1 DEF WaitInv, TypeOK
  <2> QED
    BY <1>0, <1>1, <2>1, EnqueueKeepsWait
<1>2. ASSUME NEW m \in Msg, sendMessage(m) PROVE WaitInv'
  BY <1>1, <1>2 DEF sendMessage, Goto
<1>3. ASSUME NEW h \in Handover, NEW b \in Msg, HandoverOnRequest(h, b) PROVE WaitInv'
  BY <1>1, <1>3 DEF HandoverOnRequest, BeginHandover, Goto
<1>4. ASSUME NEW h \in Handover, NEW m \in Msg, SendWarm(h, m) PROVE WaitInv'
  BY <1>1, <1>4 DEF SendWarm, Goto
<1>5. ASSUME NEW h \in Handover, NEW m \in Msg, NEW b \in Msg, HandoverAfterTurn(m, h, b)
      PROVE  WaitInv'
  <2>1. /\ Enqueue(b, Nobody, TRUE) /\ pc' = [pc EXCEPT ![m] = "over", ![b] = "queued"]
        /\ settled' = [settled EXCEPT ![m] = TRUE]
    BY <1>5 DEF HandoverAfterTurn, BeginHandover, Return
  <2>2. pc'[b] # "over" /\ \A k \in Msg \ {b} : pc'[k] = "over" => settled'[k]
    BY <1>0, <2>1 DEF WaitInv, TypeOK
  <2> QED
    BY <1>0, <2>1, <2>2, EnqueueKeepsWait
<1>6. ASSUME NEW m \in Msg, Within(m) \/ Begin(m) \/ Ends(m) \/ Watchdog(m) PROVE WaitInv'
  BY <1>0, <1>6, TurnKeepsWait
<1>7. ASSUME (\E h \in Handover : HandoverWatchdog(h)) \/ abort PROVE WaitInv'
  <2>1. tail' = Nobody /\ UNCHANGED <<sent, pred, settled, pc>>
    BY <1>7 DEF HandoverWatchdog, abort
  <2> QED
    BY <1>0, <2>1 DEF WaitInv, Nobody
<1>8. ASSUME \/ \E h \in Handover : BriefReady(h) \/ HandoverEnds(h)
             \/ restart \/ UNCHANGED vars
      PROVE  WaitInv'
  <2>1. UNCHANGED <<sent, pred, tail, settled, pc>>
    BY <1>8 DEF BriefReady, HandoverEnds, restart, vars, queue, turns
  <2> QED
    BY <2>1 DEF WaitInv
<1> QED
  BY <1>2, <1>3, <1>4, <1>5, <1>6, <1>7, <1>8 DEF Next, Turn, HandoverStep, Within, Ends

\* The first message that is neither settled nor given up waits for nothing.
LEMMA FirstIsFree == TypeOK /\ SentInv /\ WaitInv => NoLockedQueue
<1> SUFFICES ASSUME TypeOK, SentInv, WaitInv, NEW m \in Msg, pc[m] = "queued"
             PROVE  \E k \in Msg : /\ k <= m
                                   /\ \/ pc[k] = "queued" /\ Unblocked(k)
                                      \/ InFlight(k) /\ ~settled[k]
  BY DEF NoLockedQueue
<1> DEFINE Waits == {k \in Msg : k <= m /\ (pc[k] = "queued" \/ (InFlight(k) /\ ~settled[k]))}
<1>0. sent \in Nat /\ Msg \subseteq Nat
  BY DEF TypeOK, Msg
<1>1. Waits \in SUBSET Nat /\ m \in Waits
  <2>1. m \in Nat /\ m <= m
    BY <1>0
  <2> QED
    BY <1>0, <2>1
<1>2. PICK k \in Waits : \A j \in Waits : k <= j
  <2> HIDE DEF Waits
  <2> QED
    BY <1>1, LeastNatural
<1>3. ASSUME pc[k] = "queued", pred[k] # Nobody PROVE settled[pred[k]]
  <2>0. k \in Msg /\ k \in Nat /\ m \in Nat /\ k <= m
    BY <1>0, <1>2
  <2>1. pred[k] \in Msg /\ pred[k] \in Nat /\ pred[k] < k /\ pred[k] <= sent
    <3>1. pred[k] \in Msg /\ pred[k] < k /\ k <= sent
      BY <1>3, <2>0 DEF WaitInv, TypeOK
    <3>2. pred[k] \in Nat
      BY <3>1 DEF Msg
    <3> HIDE DEF Waits
    <3> QED
      BY <1>0, <2>0, <3>1, <3>2
  <2>2. pred[k] \notin Waits
    BY <1>2, <2>0, <2>1
  <2>3. pred[k] <= m
    BY <2>0, <2>1
  <2>4. pc[pred[k]] # "unsent"
    BY <1>0, <2>1 DEF SentInv
  <2> QED
    BY <2>1, <2>2, <2>3, <2>4 DEF WaitInv, InFlight, TypeOK
<1> QED
  BY <1>2, <1>3 DEF Unblocked

-----------------------------------------------------------------------------
(* The reach of an abort                                                   *)

\* Undisturbed, one turn at a time is in flight.
LEMMA OneInFlight ==
  ASSUME TypeOK, Chain, NEW m \in Msg, NEW k \in Msg, InFlight(m), InFlight(k)
  PROVE  m = k
<1>1. ASSUME NEW i \in Msg, NEW j \in Msg, InFlight(i), InFlight(j), i < j PROVE FALSE
  BY <1>1 DEF Chain, InFlight
<1>2. m < k \/ k < m \/ m = k
  BY DEF Msg
<1> QED
  BY <1>1, <1>2

\* What cancels activeQuery fires the controller of the one running stream.
LEMMA AbortReaches ==
  ASSUME TypeOK, abortActiveQuery,
         \A m \in Msg : pc[m] = "stream" /\ ~signal[m] /\ ~stale[m] => active = m,
         stale' = stale, \A m \in Msg : pc'[m] = "stream" => pc[m] = "stream"
  PROVE  \A m \in Msg : ~(pc'[m] = "stream" /\ ~signal'[m] /\ ~stale'[m])
BY DEF abortActiveQuery, TypeOK

\* Every step keeps a running query within reach, until one disturbs the order.
LEMMA ReachNext == SessionInv /\ RunningIsReachable /\ [Next]_vars => RunningIsReachable'
<1> SUFFICES ASSUME SessionInv, RunningIsReachable, [Next]_vars, ~disturbed'
             PROVE  \A m \in Msg : pc'[m] = "stream" /\ ~signal'[m] /\ ~stale'[m] => active' = m
  BY DEF RunningIsReachable
<1>0. TypeOK /\ SentInv /\ ~disturbed /\ sent \in Nat /\ Msg \subseteq Nat
  BY DisturbedStays DEF SessionInv, TypeOK, Msg
<1>1. Chain /\ \A m \in Msg : pc[m] = "stream" /\ ~signal[m] /\ ~stale[m] => active = m
  BY <1>0 DEF SessionInv, ChainInv, RunningIsReachable
<1> DEFINE Reached == \A m \in Msg : pc'[m] = "stream" /\ ~signal'[m] /\ ~stale'[m]
                                       => active' = m
<1>2. ASSUME NEW m \in Msg, EndOfStream(m) \/ FinishThrows(m) PROVE Reached
  <2>1. InFlight(m) /\ pc'[m] # "stream" /\ \A k \in Msg \ {m} : pc'[k] = pc[k]
    <3>1. CASE EndOfStream(m)
      BY <1>0, <3>1, EndOfStreamTypes DEF InFlight, TypeOK
    <3>2. CASE FinishThrows(m)
      BY <1>0, <3>2 DEF FinishThrows, Goto, InFlight, TypeOK
    <3> QED
      BY <1>2, <3>1, <3>2
  <2>2. \A k \in Msg \ {m} : pc[k] # "stream"
    BY <1>0, <1>1, <2>1, OneInFlight DEF InFlight
  <2> QED
    BY <2>1, <2>2
<1>3. ASSUME NEW m \in Msg, Launch(m) PROVE Reached
  <2>1. InFlight(m) /\ active' = m /\ \A k \in Msg \ {m} : pc'[k] = pc[k]
    BY <1>0, <1>3 DEF Launch, Goto, InFlight, TypeOK
  <2>2. \A k \in Msg \ {m} : pc[k] # "stream"
    BY <1>0, <1>1, <2>1, OneInFlight DEF InFlight
  <2> QED
    BY <2>1, <2>2
<1>4. ASSUME NEW m \in Msg, ResultStale(m) PROVE Reached
  <2>1. /\ InFlight(m) /\ stale'[m] /\ pc' = pc
    BY <1>0, <1>4 DEF ResultStale, InFlight, TypeOK
  <2>2. \A k \in Msg \ {m} : pc[k] # "stream"
    BY <1>0, <1>1, <2>1, OneInFlight DEF InFlight
  <2> QED
    BY <2>1, <2>2
<1>5. ASSUME \/ \E m \in Msg : Enter(m)
             \/ \E h \in Handover : BriefReady(h) \/ HandoverWatchdog(h)
             \/ abort \/ restart
      PROVE  Reached
  <2>1. /\ abortActiveQuery /\ stale' = stale
        /\ \A k \in Msg : pc'[k] = "stream" => pc[k] = "stream"
    BY <1>0, <1>5 DEF Enter, BriefReady, HandoverWatchdog, abort, restart, Goto, TypeOK
  <2> QED
    BY <1>0, <1>1, <2>1, AbortReaches
<1>6. ASSUME UNCHANGED <<active, signal, stale>>,
             \A k \in Msg : pc'[k] = "stream" => pc[k] = "stream"
      PROVE  Reached
  BY <1>1, <1>6
<1>7. ASSUME NEW m \in Msg, sendMessage(m) \/ Begin(m) \/ Ends(m) PROVE Reached
  <2>1. /\ UNCHANGED <<active, signal, stale>>
        /\ \A k \in Msg : pc'[k] = "stream" => pc[k] = "stream"
    BY <1>0, <1>7 DEF sendMessage, Begin, Ends, SetupThrows, Finish, Goto, TypeOK
  <2> QED
    BY <1>6, <2>1
<1>8. ASSUME NEW m \in Msg, Watchdog(m) PROVE Reached
  BY <1>8 DEF Watchdog
<1>9. ASSUME NEW h \in Handover, NEW m \in Msg, NEW b \in Msg,
             HandoverAfterTurn(m, h, b) \/ HandoverOnRequest(h, b) \/ SendWarm(h, b)
      PROVE  Reached
  <2>1. /\ UNCHANGED <<active, signal, stale>>
        /\ \A k \in Msg : pc'[k] = "stream" => pc[k] = "stream"
    BY <1>0, <1>9 DEF HandoverAfterTurn, HandoverOnRequest, SendWarm, BeginHandover, Goto, TypeOK
  <2> QED
    BY <1>6, <2>1
<1>10. ASSUME (\E h \in Handover : HandoverEnds(h)) \/ UNCHANGED vars PROVE Reached
  <2>1. UNCHANGED <<active, signal, stale, pc>>
    BY <1>10 DEF HandoverEnds, vars, turns
  <2> QED
    BY <1>6, <2>1
<1> QED
  BY <1>2, <1>3, <1>4, <1>5, <1>7, <1>8, <1>9, <1>10 DEF Next, Turn, HandoverStep, Ends

-----------------------------------------------------------------------------
(* The flag handoverInProgress                                             *)

\* Every step that sets or keeps the flag keeps an owner of it.
LEMMA OwnerNext == TypeOK /\ HandoverHasOwner /\ [Next]_vars => HandoverHasOwner'
<1> SUFFICES ASSUME TypeOK, HandoverHasOwner, [Next]_vars, handover'
             PROVE  \E h \in Handover : hstep'[h] \in {"brief", "create", "warm"}
  BY DEF HandoverHasOwner
<1>1. ASSUME UNCHANGED <<handover, hstep>>
      PROVE  \E h \in Handover : hstep'[h] \in {"brief", "create", "warm"}
  BY <1>1 DEF HandoverHasOwner
<1>2. ASSUME NEW m \in Msg, Turn(m) PROVE UNCHANGED <<handover, hstep>>
  <2>1. CASE EndOfStream(m)
    BY <2>1, EndOfStreamTypes DEF handovers
  <2>2. CASE ~EndOfStream(m)
    BY <1>2, <2>2 DEF Turn, sendMessage, Begin, Enter, SetupThrows, Launch, ResultStale,
                      Finish, FinishThrows, Watchdog, handovers
  <2> QED
    BY <2>1, <2>2
<1>3. ASSUME NEW h \in Handover, NEW b \in Msg, BeginHandover(h, b)
      PROVE  hstep'[h] \in {"brief", "create", "warm"}
  BY <1>3 DEF BeginHandover, HStep, TypeOK
<1>4. ASSUME NEW h \in Handover, NEW m \in Msg, NEW b \in Msg,
             HandoverAfterTurn(m, h, b) \/ HandoverOnRequest(h, b)
      PROVE  hstep'[h] \in {"brief", "create", "warm"}
  BY <1>3, <1>4 DEF HandoverAfterTurn, HandoverOnRequest
<1>5. ASSUME NEW h \in Handover, BriefReady(h) \/ \E m \in Msg : SendWarm(h, m)
      PROVE  hstep'[h] \in {"brief", "create", "warm"}
  BY <1>5 DEF BriefReady, SendWarm, HStep, TypeOK
<1>6. ASSUME (\E h \in Handover : HandoverEnds(h) \/ HandoverWatchdog(h)) \/ abort PROVE FALSE
  BY <1>6 DEF HandoverEnds, HandoverWatchdog, abort
<1>7. ASSUME restart \/ UNCHANGED vars PROVE UNCHANGED <<handover, hstep>>
  BY <1>7 DEF restart, vars, handovers
<1> QED
  BY <1>1, <1>2, <1>4, <1>5, <1>6, <1>7 DEF Next, HandoverStep

-----------------------------------------------------------------------------

\* Whatever watchdogs, aborts and handovers do to the queue: behind every message
\* that waits there is one that may begin or whose timer is running.
THEOREM NoLockedQueueSafe == Spec => []NoLockedQueue
<1>1. SessionInv => TypeOK /\ SentInv
  BY DEF SessionInv
<1> QED
  BY <1>1, SessionInvariant, WaitInvInit, WaitInvNext, FirstIsFree, PTL DEF Spec

\* Until a disturbance, abort, restart and handover find every running query.
THEOREM RunningIsReachableSafe == Spec => []RunningIsReachable
<1>1. Init => RunningIsReachable
  BY DEF Init, RunningIsReachable
<1> QED
  BY <1>1, SessionInvariant, ReachNext, PTL DEF Spec

\* A set handoverInProgress always has a handover under way that owns it.
THEOREM HandoverHasOwnerSafe == Spec => []HandoverHasOwner
<1>1. Init => HandoverHasOwner
  BY DEF Init, HandoverHasOwner
<1>2. SessionInv => TypeOK
  BY DEF SessionInv
<1> QED
  BY <1>1, <1>2, SessionInvariant, OwnerNext, PTL DEF Spec
=============================================================================
