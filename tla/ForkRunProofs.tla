---------------------------- MODULE ForkRunProofs ----------------------------
(***************************************************************************)
(* Proofs about ForkRun.  The inductive invariant RunInv of that module    *)
(* says, for each point of the run loop, what it has left in the Map and   *)
(* in the table, and how the two ways of a message to the prompt generator *)
(* fit together.  Its proof is in two halves: the loop with its row, and   *)
(* the generator with the injected messages.  The last section proves      *)
(* what module ForkReport says of the report that the loop extracts.       *)
(***************************************************************************)
EXTENDS ForkRun, ForkReport, SequenceTheorems, WellFoundedInduction, TLAPS

\* The half of RunInv about the run loop, the Map and the table os_forks.
LoopInv == TypeOK /\ StatusAt /\ RowIsCurrent /\ PostedOnce /\ ReportFollowsRow

\* The half about the generator of spawnFork and sendMessageToFork.
PromptInv == NoLostWakeup /\ InjectionOrder

-----------------------------------------------------------------------------
(* The run loop and its row                                                *)

\* At its registration a fork has no row, one statement and no report.
LEMMA LoopInvInit == Init => LoopInv
<1> SUFFICES ASSUME Init PROVE LoopInv
  OBVIOUS
<1>1. TypeOK
  <2>1. <<>> \in Seq(Nat)
    BY EmptySeq
  <2> QED
    BY <2>1 DEF Init, TypeOK, Status, Live, Terminal
<1>2. StatusAt /\ PostedOnce /\ ReportFollowsRow
  BY DEF Init, StatusAt, PostedOnce, ReportFollowsRow
<1>3. RowIsCurrent
  BY DEF Init, RowIsCurrent, Latest
<1> QED
  BY <1>1, <1>2, <1>3 DEF LoopInv

\* Every step keeps the types.
LEMMA TypeNext == TypeOK /\ [Next]_vars => TypeOK'
<1> SUFFICES ASSUME TypeOK, [Next]_vars PROVE TypeOK'
  OBVIOUS
<1> USE DEF TypeOK, Status, Live, Terminal
<1>1. CASE Advance
  <2>1. CASE PostReport
    BY <2>1 DEF PostReport, prompt
  <2>2. CASE BeginQuery
    BY <2>2 DEF BeginQuery, Send, prompt
  <2>3. CASE StartLoop \/ BeginStream \/ AfterDone \/ AfterFailure \/ Evict
    <3>1. pc' \in {"query", "stream", "post", "linger", "over"}
      BY <2>3 DEF StartLoop, BeginStream, AfterDone, AfterFailure, Evict
    <3>2. status' \in {status, "absent"} /\ UNCHANGED <<signal, report, prompt, db>>
      BY <2>3 DEF StartLoop, BeginStream, AfterDone, AfterFailure, Evict
    <3> QED
      BY <3>1, <3>2 DEF prompt, db
  <2> QED
    BY <1>1, <2>1, <2>2, <2>3 DEF Advance
<1>2. CASE EndOfStream
  BY <1>2 DEF EndOfStream, StreamEnds, LoopThrows, CloseInput, Send, prompt
<1>3. CASE Database
  <2>1. CASE DbTakes
    BY <2>1 DEF DbTakes, Stored, loop, prompt
  <2>2. CASE DbFails
    BY <2>2 DEF DbFails, loop, prompt
  <2> QED
    BY <1>3, <2>1, <2>2 DEF Database
<1>4. CASE ReadReport \/ ReadResult \/ Crash
  BY <1>4 DEF ReadReport, ReadResult, Crash, CloseInput, loop, prompt, db
<1>5. CASE YieldBrief \/ YieldNothing
  <2>1. gen' \in {"ready", "ended", "waiting"}
    BY <1>5 DEF YieldBrief, YieldNothing, Exhausted
  <2>2. UNCHANGED <<loop, inputClosed, pendingMsgs, accepted, given, db>>
    BY <1>5 DEF YieldBrief, YieldNothing
  <2> QED
    BY <2>1, <2>2 DEF loop, db
<1>6. CASE YieldMessage
  <2>1. Head(pendingMsgs) \in Nat /\ Tail(pendingMsgs) \in Seq(Nat)
    BY <1>6, HeadTailProperties DEF YieldMessage
  <2> QED
    BY <1>6, <2>1 DEF YieldMessage, NextMessage, loop, db
<1>7. CASE sendMessageToFork
  <2>1. Len(accepted) + 1 \in Nat
    BY LenProperties
  <2> DEFINE m == Len(accepted) + 1
  <2>2. accepted' = Append(accepted, m) /\ Inject(m) /\ UNCHANGED <<loop, inputClosed, db>>
    BY <1>7 DEF sendMessageToFork
  <2> HIDE DEF m
  <2>3. /\ Append(accepted, m) \in Seq(Nat)
        /\ Append(given, m) \in Seq(Nat)
        /\ Append(pendingMsgs, m) \in Seq(Nat)
    BY <2>1, AppendProperties DEF m
  <2>4. /\ gen' \in {gen, "ready"}
        /\ given' \in {given, Append(given, m)}
        /\ pendingMsgs' \in {pendingMsgs, Append(pendingMsgs, m)}
    BY <2>2 DEF Inject
  <2>5. /\ gen' \in {"brief", "ready", "waiting", "ended"}
        /\ given' \in Seq(Nat) /\ pendingMsgs' \in Seq(Nat) /\ accepted' \in Seq(Nat)
    BY <2>2, <2>3, <2>4
  <2> QED
    BY <2>2, <2>5 DEF loop, db
<1>8. CASE abortFork
  BY <1>8 DEF abortFork, prompt, db
<1>9. CASE UNCHANGED vars
  BY <1>9 DEF vars, loop, prompt, db
<1> QED
  BY <1>1, <1>2, <1>3, <1>4, <1>5, <1>6, <1>7, <1>8, <1>9 DEF Next

\* A step that leaves the loop's variables and the table alone keeps LoopInv.
LEMMA LoopUntouched ==
  ASSUME LoopInv, TypeOK',
         UNCHANGED <<pc, status, report, row, writes, posted, failed>>
  PROVE  LoopInv'
BY DEF LoopInv, StatusAt, RowIsCurrent, PostedOnce, ReportFollowsRow, Latest, Terminal

\* What the statements of the run loop leave behind fits the point it reaches.
LEMMA LoopInvNext == LoopInv /\ [Next]_vars => LoopInv'
<1> SUFFICES ASSUME LoopInv, [Next]_vars PROVE LoopInv'
  OBVIOUS
<1>0. TypeOK /\ TypeOK'
  BY TypeNext DEF LoopInv
<1> DEFINE Rest == StatusAt /\ RowIsCurrent /\ PostedOnce /\ ReportFollowsRow
<1> SUFFICES Rest'
  BY <1>0 DEF LoopInv
<1> USE DEF LoopInv, TypeOK, StatusAt, RowIsCurrent, PostedOnce, ReportFollowsRow,
            Latest, Status, Live, Terminal
<1>1. CASE StartLoop
  BY <1>0, <1>1 DEF StartLoop, Answered, prompt, db
<1>2. CASE BeginQuery
  BY <1>0, <1>2 DEF BeginQuery, Send, prompt
<1>3. CASE BeginStream
  BY <1>0, <1>3 DEF BeginStream, Answered, prompt, db
<1>4. CASE AfterDone
  BY <1>0, <1>4 DEF AfterDone, Answered, prompt, db
<1>5. CASE AfterFailure
  BY <1>0, <1>5 DEF AfterFailure, Answered, prompt, db
<1>6. CASE PostReport
  BY <1>0, <1>6 DEF PostReport, prompt
<1>7. CASE Evict
  BY <1>0, <1>7 DEF Evict, prompt, db
<1>8. CASE StreamEnds
  BY <1>0, <1>8 DEF StreamEnds, Send, prompt
<1>9. CASE LoopThrows
  BY <1>0, <1>9 DEF LoopThrows, Send
<1>10. CASE DbTakes
  BY <1>0, <1>10 DEF DbTakes, Stored, loop, prompt
<1>11. CASE DbFails
  BY <1>0, <1>11 DEF DbFails, loop, prompt
<1>12. CASE ReadReport
  BY <1>0, <1>12 DEF ReadReport, prompt, db
<1>13. CASE ReadResult
  BY <1>0, <1>13 DEF ReadResult, db
<1>14. CASE Crash
  BY <1>0, <1>14 DEF Crash, prompt
<1>15. CASE YieldBrief \/ YieldMessage \/ YieldNothing \/ sendMessageToFork
  BY <1>0, <1>15, LoopUntouched
     DEF YieldBrief, YieldMessage, YieldNothing, sendMessageToFork, loop, db
<1>16. CASE abortFork
  BY <1>0, <1>16, LoopUntouched DEF abortFork, db
<1>17. CASE UNCHANGED vars
  BY <1>0, <1>17, LoopUntouched DEF vars, loop, db
<1> QED
  BY <1>1, <1>2, <1>3, <1>4, <1>5, <1>6, <1>7, <1>8, <1>9, <1>10, <1>11, <1>12,
     <1>13, <1>14, <1>15, <1>16, <1>17
     DEF Next, Advance, EndOfStream, Database

-----------------------------------------------------------------------------
(* The generator and the injected messages                                 *)

\* Nothing is injected before spawnFork has registered the fork.
LEMMA PromptInvInit == Init => PromptInv
BY ConcatEmptySeq DEF Init, PromptInv, NoLostWakeup, InjectionOrder

\* shift() takes the message from one side of the sequence to the other.
LEMMA ShiftKeepsOrder ==
  ASSUME NEW s \in Seq(Nat), NEW t \in Seq(Nat), t # <<>>
  PROVE  Append(s, Head(t)) \o Tail(t) = s \o t
<1>1. Head(t) \in Nat /\ Tail(t) \in Seq(Nat)
  BY HeadTailProperties
<1>2. t = <<Head(t)>> \o Tail(t)
  <2>1. Len(t) \in Nat \ {0} /\ 1 \in 1 .. Len(t) /\ Len(t) \in 1 .. Len(t)
    BY EmptySeq
  <2>2. SubSeq(t, 1, Len(t)) = <<t[1]>> \o SubSeq(t, 2, Len(t))
    BY <2>1, SubSeqRecursiveFirst
  <2>3. SubSeq(t, 1, Len(t)) = t /\ Tail(t) = SubSeq(t, 2, Len(t))
    BY SubSeqFull, TailIsSubSeq
  <2>4. Head(t) = t[1]
    BY HeadTailOfSubSeq, <2>1, <2>3
  <2> QED
    BY <2>2, <2>3, <2>4
<1> DEFINE h == <<Head(t)>>
<1>3. h \in Seq(Nat)
  BY <1>1
<1>4. Append(s, Head(t)) = s \o h
  BY <1>1, AppendIsConcat
<1> HIDE DEF h
<1>5. (s \o h) \o Tail(t) = s \o (h \o Tail(t))
  BY <1>1, <1>3, ConcatAssociative
<1> QED
  BY <1>2, <1>4, <1>5 DEF h

\* push(m) on the one side appends m to the whole.
LEMMA PushKeepsOrder ==
  ASSUME NEW s \in Seq(Nat), NEW t \in Seq(Nat), NEW m \in Nat
  PROVE  s \o Append(t, m) = Append(s \o t, m)
<1> DEFINE u == <<m>>
<1>1. u \in Seq(Nat)
  OBVIOUS
<1>2. s \o t \in Seq(Nat)
  BY ConcatProperties
<1>3. Append(t, m) = t \o u /\ Append(s \o t, m) = (s \o t) \o u
  BY <1>2, AppendIsConcat
<1> HIDE DEF u
<1> QED
  BY <1>1, <1>3, ConcatAssociative

\* The sleeping generator is woken by the two things that end its sleep, and
\* the direct way to it is taken only when the queue is empty.
LEMMA PromptInvNext == TypeOK /\ PromptInv /\ [Next]_vars => PromptInv'
<1> SUFFICES ASSUME TypeOK, PromptInv, [Next]_vars PROVE PromptInv'
  OBVIOUS
<1> USE DEF PromptInv, NoLostWakeup, InjectionOrder
<1>0. /\ given \in Seq(Nat) /\ pendingMsgs \in Seq(Nat)
      /\ gen \in {"brief", "ready", "waiting", "ended"}
  BY DEF TypeOK
<1>1. CASE YieldMessage
  BY <1>0, <1>1, ShiftKeepsOrder DEF YieldMessage, NextMessage
<1>2. CASE YieldBrief \/ YieldNothing
  BY <1>2 DEF YieldBrief, YieldNothing, Exhausted
<1>3. CASE sendMessageToFork
  <2> DEFINE m == Len(accepted) + 1
  <2>1. m \in Nat
    BY LenProperties DEF TypeOK
  <2>2. accepted' = Append(accepted, m) /\ Inject(m) /\ inputClosed' = inputClosed
    BY <1>3 DEF sendMessageToFork
  <2> HIDE DEF m
  <2>3. CASE gen = "waiting"
    <3>1. pendingMsgs = <<>> /\ pendingMsgs' = <<>> /\ given' = Append(given, m)
      BY <2>2, <2>3 DEF Inject
    <3>2. given = accepted /\ Append(given, m) \in Seq(Nat)
      BY <1>0, <2>1, <3>1, ConcatEmptySeq
    <3>3. given' \o pendingMsgs' = given'
      BY <3>1, <3>2, ConcatEmptySeq
    <3> QED
      BY <2>2, <2>3, <3>1, <3>2, <3>3 DEF Inject
  <2>4. CASE gen # "waiting"
    <3>1. gen' = gen /\ given' = given /\ pendingMsgs' = Append(pendingMsgs, m)
      BY <2>2, <2>4 DEF Inject
    <3> QED
      BY <1>0, <2>1, <2>2, <2>4, <3>1, PushKeepsOrder
  <2> QED
    BY <2>3, <2>4
<1>4. CASE ReadResult \/ LoopThrows
  BY <1>4 DEF ReadResult, LoopThrows, CloseInput
<1>5. CASE UNCHANGED prompt
  BY <1>5 DEF prompt
<1>6. ASSUME Advance \/ StreamEnds \/ Database \/ ReadReport \/ Crash \/ abortFork
             \/ UNCHANGED vars
      PROVE  UNCHANGED prompt
  BY <1>6 DEF Advance, StartLoop, BeginQuery, BeginStream, AfterDone, AfterFailure,
              PostReport, Evict, StreamEnds, Database, DbTakes, DbFails, ReadReport,
              Crash, abortFork, vars
<1> QED
  BY <1>1, <1>2, <1>3, <1>4, <1>5, <1>6 DEF Next, EndOfStream

-----------------------------------------------------------------------------

\* RunInv holds throughout a fork's life, restarts and failed statements included.
THEOREM RunInvariant == Spec => []RunInv
<1>1. Init => LoopInv /\ PromptInv
  BY LoopInvInit, PromptInvInit
<1>2. LoopInv /\ PromptInv /\ [Next]_vars => (LoopInv /\ PromptInv)'
  BY LoopInvNext, PromptInvNext DEF LoopInv
<1>3. LoopInv /\ PromptInv => RunInv
  BY DEF LoopInv, PromptInv, RunInv
<1> QED
  BY <1>1, <1>2, <1>3, PTL DEF Spec

\* Whatever the number of injected messages: they reach the SDK in the order
\* sendMessageToFork accepted them, each once.
THEOREM InjectionOrderSafe == Spec => []InjectionOrder
<1>1. RunInv => InjectionOrder
  BY DEF RunInv
<1> QED
  BY <1>1, RunInvariant, PTL

\* The generator of spawnFork never sleeps past a message or its closed input.
THEOREM NoLostWakeupSafe == Spec => []NoLostWakeup
<1>1. RunInv => NoLostWakeup
  BY DEF RunInv
<1> QED
  BY <1>1, RunInvariant, PTL

\* The row of a fork whose loop is over shows how it ended.
THEOREM RowShowsTheEndSafe == Spec => []RowShowsTheEnd
<1>1. RunInv => RowShowsTheEnd
  BY DEF RunInv, RowIsCurrent, RowShowsTheEnd, Latest
<1> QED
  BY <1>1, RunInvariant, PTL

\* A report reaches main at most once and after its row.
THEOREM ReportFollowsRowSafe == Spec => []ReportFollowsRow
<1>1. RunInv => ReportFollowsRow
  BY DEF RunInv
<1> QED
  BY <1>1, RunInvariant, PTL

\* No late statement and no step of the loop takes back a fork's end.
THEOREM EndIsFinalSafe == Spec => EndIsFinal
<1> DEFINE Final == /\ status \in Terminal => status' \in {status, "absent"}
                    /\ row \in Terminal => row' = row
<1>1. ASSUME RunInv, [Next]_vars PROVE Final
  <2>0. StatusAt /\ RowIsCurrent /\ TypeOK
    BY <1>1 DEF RunInv
  <2> USE <2>0 DEF StatusAt, RowIsCurrent, Latest, Terminal
  <2>1. CASE Advance
    BY <2>1 DEF Advance, StartLoop, BeginQuery, BeginStream, AfterDone, AfterFailure,
                PostReport, Evict, Answered, db
  <2>2. CASE EndOfStream
    BY <2>2 DEF EndOfStream, StreamEnds, LoopThrows
  <2>3. CASE Database
    BY <2>3 DEF Database, DbTakes, DbFails, Stored, loop
  <2>4. CASE ReadReport \/ ReadResult \/ Crash \/ abortFork
    BY <2>4 DEF ReadReport, ReadResult, Crash, abortFork, db
  <2>5. CASE YieldBrief \/ YieldMessage \/ YieldNothing \/ sendMessageToFork
    BY <2>5 DEF YieldBrief, YieldMessage, YieldNothing, sendMessageToFork, loop, db
  <2>6. CASE UNCHANGED vars
    BY <2>6 DEF vars, loop, db
  <2> QED
    BY <1>1, <2>1, <2>2, <2>3, <2>4, <2>5, <2>6 DEF Next
<1>2. RunInv /\ [Next]_vars => [Final]_vars
  BY <1>1
<1> QED
  BY <1>2, RunInvariant, PTL DEF Spec, EndIsFinal

\* Every variable keeps its type, for every value of the constants.
THEOREM RunTypes == Spec => []TypeOK
<1>1. RunInv => TypeOK
  BY DEF RunInv
<1> QED
  BY <1>1, RunInvariant, PTL

-----------------------------------------------------------------------------
(* The report (module ForkReport)                                          *)

\* A set of naturals that is not empty has a least element.
LEMMA LeastNatural ==
  ASSUME NEW S \in SUBSET Nat, S # {}
  PROVE  \E n \in S : \A m \in S : n <= m
<1>1. PICK n \in S : \A m \in S : ~(<<m, n>> \in OpToRel(<, Nat))
  BY NatLessThanWellFounded, WFMin
<1>2. \A m \in S : ~(m < n)
  BY <1>1 DEF OpToRel
<1> QED
  BY <1>2

\* What FirstFrom returns: the leftmost match, or the default without one.
LEMMA FirstFromIsFirst ==
  ASSUME NEW t \in Seq(Token), NEW tok, NEW from \in Nat, NEW default,
         NEW first, first = FirstFrom(t, tok, from, default)
  PROVE  \/ /\ first \in 1 .. Len(t) /\ from <= first /\ t[first] = tok
            /\ \A j \in 1 .. Len(t) : j >= from /\ t[j] = tok => first <= j
         \/ /\ first = default
            /\ \A j \in 1 .. Len(t) : j >= from => t[j] # tok
<1> DEFINE P == {i \in Positions(t, tok) : i >= from}
<1>1. P \in SUBSET Nat
  BY DEF Positions
<1>2. CASE P = {}
  BY <1>2 DEF FirstFrom, Positions
<1>3. CASE P # {}
  <2>1. \E i \in P : \A j \in P : i <= j
    BY <1>1, <1>3, LeastNatural
  <2>2. first = CHOOSE i \in P : \A j \in P : i <= j
    BY <1>3 DEF FirstFrom
  <2>3. first \in P /\ \A j \in P : first <= j
    BY <2>1, <2>2
  <2> QED
    BY <2>3 DEF Positions
<1> QED
  BY <1>2, <1>3

\* When a tag has nothing after it on its line, [^\n]* after it is empty.
LEMMA LineEndsAtTag ==
  ASSUME NEW t \in Seq(Token), NEW tag \in {ReportTag, NextTag},
         OnOwnLine(t, tag), NEW i \in 1 .. Len(t), t[i] = tag
  PROVE  FirstFrom(t, Newline, i, Len(t) + 1) = i + 1
<1> DEFINE eol == FirstFrom(t, Newline, i, Len(t) + 1)
<1>1. tag # Newline
  BY DEF ReportTag, NextTag, Newline
<1>2. i = Len(t) \/ t[i + 1] = Newline
  BY DEF OnOwnLine, Positions
<1>3. Len(t) \in Nat
  BY LenProperties
<1>4. \/ /\ eol \in 1 .. Len(t) /\ i <= eol /\ t[eol] = Newline
         /\ \A j \in 1 .. Len(t) : j >= i /\ t[j] = Newline => eol <= j
      \/ /\ eol = Len(t) + 1
         /\ \A j \in 1 .. Len(t) : j >= i => t[j] # Newline
  BY FirstFromIsFirst
<1> HIDE DEF eol
<1>5. ASSUME i = Len(t) PROVE eol = i + 1
  BY <1>1, <1>3, <1>4, <1>5
<1>6. ASSUME i # Len(t) PROVE eol = i + 1
  <2>1. i + 1 \in 1 .. Len(t) /\ t[i + 1] = Newline
    BY <1>2, <1>3, <1>6
  <2>2. eol \in 1 .. Len(t) /\ i <= eol /\ t[eol] = Newline /\ eol <= i + 1
    BY <1>3, <1>4, <2>1
  <2> QED
    BY <1>1, <1>3, <2>2
<1> QED
  BY <1>5, <1>6 DEF eol

\* The first [NEXT_STEP] after a report tag is the first one after its line.
LEMMA StopAfterTag ==
  ASSUME NEW t \in Seq(Token), NEW i \in 1 .. Len(t), t[i] = ReportTag
  PROVE  FirstFrom(t, NextTag, i + 1, Len(t) + 1)
           = FirstFrom(t, NextTag, i, Len(t) + 1)
<1>1. Len(t) \in Nat
  BY LenProperties
<1>2. t[i] # NextTag
  BY DEF ReportTag, NextTag
<1> DEFINE here  == FirstFrom(t, NextTag, i, Len(t) + 1)
           after == FirstFrom(t, NextTag, i + 1, Len(t) + 1)
<1>3. \/ /\ here \in 1 .. Len(t) /\ i <= here /\ t[here] = NextTag
         /\ \A j \in 1 .. Len(t) : j >= i /\ t[j] = NextTag => here <= j
      \/ /\ here = Len(t) + 1
         /\ \A j \in 1 .. Len(t) : j >= i => t[j] # NextTag
  BY FirstFromIsFirst
<1>4. \/ /\ after \in 1 .. Len(t) /\ i + 1 <= after /\ t[after] = NextTag
         /\ \A j \in 1 .. Len(t) : j >= i + 1 /\ t[j] = NextTag => after <= j
      \/ /\ after = Len(t) + 1
         /\ \A j \in 1 .. Len(t) : j >= i + 1 => t[j] # NextTag
  <2>1. i + 1 \in Nat
    OBVIOUS
  <2> QED
    BY <2>1, FirstFromIsFirst
<1> HIDE DEF here, after
<1>5. \A j \in 1 .. Len(t) : j >= i /\ t[j] = NextTag => j >= i + 1
  BY <1>1, <1>2
<1>6. after = here
  BY <1>1, <1>2, <1>3, <1>4, <1>5
<1> QED
  BY <1>6 DEF here, after

\* For one transcript of any length over any words: what stands on lines of its
\* own is captured as the prompt asks for it.
LEMMA OwnLineIsCaptured ==
  ASSUME NEW t \in Seq(Token)
  PROVE  /\ OnOwnLine(t, ReportTag) => Report(t) = AskedReport(t)
         /\ OnOwnLine(t, NextTag) => NextStep(t) = AskedNextStep(t)
<1> DEFINE tag(tok) == FirstFrom(t, tok, 1, 0)
<1>1. \A tok : tag(tok) # 0 => tag(tok) \in 1 .. Len(t) /\ t[tag(tok)] = tok
  BY FirstFromIsFirst
<1>2. ASSUME OnOwnLine(t, ReportTag), tag(ReportTag) # 0
      PROVE  Report(t) = AskedReport(t)
  <2>1. FirstFrom(t, Newline, tag(ReportTag), Len(t) + 1)
          = tag(ReportTag) + 1
    BY <1>1, <1>2, LineEndsAtTag
  <2>2. FirstFrom(t, NextTag, tag(ReportTag) + 1, Len(t) + 1)
          = FirstFrom(t, NextTag, tag(ReportTag), Len(t) + 1)
    BY <1>1, <1>2, StopAfterTag
  <2> QED
    BY <2>1, <2>2 DEF Report, AskedReport
<1>3. ASSUME OnOwnLine(t, NextTag), tag(NextTag) # 0
      PROVE  NextStep(t) = AskedNextStep(t)
  <2>1. FirstFrom(t, Newline, tag(NextTag), Len(t) + 1)
          = tag(NextTag) + 1
    BY <1>1, <1>3, LineEndsAtTag
  <2> QED
    BY <2>1 DEF NextStep, AskedNextStep
<1>4. tag(ReportTag) = 0 => Report(t) = AskedReport(t)
  BY DEF Report, AskedReport
<1>5. tag(NextTag) = 0 => NextStep(t) = AskedNextStep(t)
  BY DEF NextStep, AskedNextStep
<1> QED
  BY <1>2, <1>3, <1>4, <1>5

\* However long the transcript grows, and whatever the words: a report or next
\* step whose tags stand on lines of their own comes out as the prompt asks.
THEOREM OwnLinesAreCaptured == TextSpec => []CapturedWhenOnOwnLine
<1> DEFINE Typed == transcript \in Seq(Token)
<1>1. TextInit => Typed
  BY EmptySeq DEF TextInit
<1>2. Typed /\ [TextNext]_transcript => Typed'
  BY AppendProperties DEF TextNext
<1>3. Typed => CapturedWhenOnOwnLine
  BY OwnLineIsCaptured DEF CapturedWhenOnOwnLine
<1> QED
  BY <1>1, <1>2, <1>3, PTL DEF TextSpec
=============================================================================
