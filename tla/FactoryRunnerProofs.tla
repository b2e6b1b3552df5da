------------------------- MODULE FactoryRunnerProofs -------------------------
(***************************************************************************)
(* Proofs about FactoryRunner: types; that a paused row has the id of the  *)
(* client; and that the calls of an undisturbed session follow one another *)
(* (Alone), so that its process is the tracked one and the API reads the   *)
(* result of the process that ended.  And that nothing sends heartbeats    *)
(* for a process that ended and whose end was handled (BeatInv).           *)
(***************************************************************************)
EXTENDS FactoryRunner, TLAPS

LEMMA BeginFacts ==
  ASSUME TypeOK, NEW k \in {"start", "resume"}, NEW s \in Session, Begin(k, s)
  PROVE  /\ calls' = calls + 1 /\ calls' \in Call /\ calls' > calls /\ calls' # None
         /\ of' \in [Call -> Session] /\ kind' \in [Call -> {"start", "resume"}]
         /\ of' = [of EXCEPT ![calls'] = s]
         /\ pc' = [pc EXCEPT ![calls'] = IF k = "start" THEN "status" ELSE "read"]
BY BoundAssumption DEF TypeOK, Begin, Call, None

LEMMA TypeOKNext == TypeOK /\ [Next]_vars => TypeOK'
<1> SUFFICES ASSUME TypeOK, [Next]_vars PROVE TypeOK'
  OBVIOUS
<1> USE DEF TypeOK, row, client, runner, bounds, Active, Rest, Update, None
<1>1. CASE UNCHANGED vars
  BY <1>1 DEF vars
<1>2. ASSUME NEW s \in Session, Request(s) PROVE TypeOK'
  BY <1>2, BeginFacts, BoundAssumption DEF Request, Begin
<1>3. ASSUME NEW s \in Session, Resume(s) PROVE TypeOK'
  <2>1. Begin("resume", s)
    BY <1>3 DEF Resume
  <2>2. orders' \in Nat /\ meddled' \subseteq Session
    BY <1>3 DEF Resume, Order
  <2>3. calls' \in 0 .. MaxCall /\ of' \in [Call -> Session] /\ kind' \in [Call -> {"start", "resume"}]
    BY <2>1, BoundAssumption DEF Begin, Call
  <2>4. pc' \in [Call -> {"idle", "status", "context", "read", "locate", "mark", "beat", "open", "failed"}]
    BY <2>1 DEF Begin
  <2>5. UNCHANGED <<row, phase, tracked, proc, known, killed, stopped, timer, close, pending, read, downs, faults>>
    BY <1>3 DEF Resume
  <2> HIDE DEF Update
  <2> QED
    BY <2>2, <2>3, <2>4, <2>5
<1>4. ASSUME NEW s \in Session, Stop(s) PROVE TypeOK'
  BY <1>4 DEF Stop, Order
<1>5. ASSUME NEW s \in Session, WatchDead(s) PROVE TypeOK'
  BY <1>5 DEF WatchDead, TrackedAtEnd
<1>6. ASSUME NEW s \in Session, WatchStalled(s) PROVE TypeOK'
  BY <1>6 DEF WatchStalled, TrackedAtEnd
<1>7. ASSUME NEW s \in Session, Age(s) PROVE TypeOK'
  BY <1>7 DEF Age
<1>8. ASSUME NEW s \in Session, Cleanup(s) PROVE TypeOK'
  BY <1>8 DEF Cleanup
<1>9. ASSUME NEW c \in Call, Started(c) PROVE TypeOK'
  BY <1>9 DEF Started
<1>10. ASSUME NEW c \in Call, StartFails(c) PROVE TypeOK'
  BY <1>10 DEF StartFails, Fault
<1>11. ASSUME NEW c \in Call, Spawn(c) PROVE TypeOK'
  BY <1>11 DEF Spawn
<1>12. ASSUME NEW c \in Call, Detach(c) PROVE TypeOK'
  BY <1>12 DEF Detach
<1>13. ASSUME NEW c \in Call, Respawn(c) PROVE TypeOK'
  BY <1>13 DEF Respawn, TrackedAtRespawn
<1>14. ASSUME NEW c \in Call, Mark(c) PROVE TypeOK'
  BY <1>14 DEF Mark, Fault, NoFault
<1>15. ASSUME NEW c \in Call, Beat(c) PROVE TypeOK'
  BY <1>15 DEF Beat
<1>16. ASSUME NEW c \in Call, Speak(c) PROVE TypeOK'
  BY <1>16 DEF Speak, Fault, NoFault
<1>17. ASSUME NEW c \in Call, Exit(c) PROVE TypeOK'
  BY <1>17 DEF Exit
<1>18. ASSUME NEW c \in Call, CloseEvent(c) PROVE TypeOK'
  BY <1>18 DEF CloseEvent, StatusAtClose, TrackedAtEnd, TimerAtEnd, Ended
<1>19. ASSUME NEW c \in Call, Unheard(c) PROVE TypeOK'
  BY <1>19 DEF Unheard, Ended
<1>20. ASSUME NEW c \in Call, Drained(c) PROVE TypeOK'
  BY <1>20 DEF Drained, TrackedAtEnd, TimerAtEnd
<1>21. ASSUME NEW c \in Call, Record(c) PROVE TypeOK'
  <2>1. status' \in [Session -> {"absent"} \union Active \union Rest]
    BY <1>21 DEF Record, Fault, NoFault, Verdict
  <2>2. close' \in [Call -> {"none", "drain", "record", "retry", "publish", "published", "reviewed",
                             "quiet", "unheard"}]
    <3>1. CASE close' = [close EXCEPT ![c] = IF proc[c] = "signal" THEN "quiet" ELSE "publish"]
      BY <3>1
    <3>2. CASE close' = [close EXCEPT ![c] =
             CASE close[c] = "retry" \/ (kind[c] = "resume" /\ proc[c] # "signal") -> "publish"
               [] proc[c] \in {"signal", "nospawn"} -> "quiet"
               [] OTHER -> "retry"]
      BY <3>2
    <3> QED
      BY <1>21, <3>1, <3>2 DEF Record
  <2>3. faults' \in Nat /\ meddled' \subseteq Session
    BY <1>21 DEF Record, Fault, NoFault
  <2>4. UNCHANGED <<cli, sent, beat, phase, tracked, calls, of, kind, pc, proc, known, killed, stopped, timer,
                    pending, read, orders, downs>>
    BY <1>21 DEF Record
  <2> HIDE DEF Update
  <2> QED
    BY <2>1, <2>2, <2>3, <2>4
<1>22. ASSUME NEW c \in Call, Publish(c) PROVE TypeOK'
  BY <1>22 DEF Publish
<1>23. ASSUME NEW c \in Call, Review(c) PROVE TypeOK'
  BY <1>23 DEF Review
<1>24. ASSUME NEW c \in Call, KillPaused(c) PROVE TypeOK'
  BY <1>24 DEF KillPaused, TrackedAtEnd
<1>25. ASSUME NEW s \in Session, NEW what \in Rest, Write(s, what) PROVE TypeOK'
  BY <1>25 DEF Write, Fault, NoFault
<1>26. CASE Shutdown
  BY <1>26 DEF Shutdown
<1>27. CASE Die
  BY <1>27 DEF Die, AtRest
<1>28. CASE Boot
  BY <1>28 DEF Boot
<1>29. ASSUME NEW s \in Session, WriteId(s) PROVE TypeOK'
  BY <1>29 DEF WriteId, Fault, NoFault
<1> QED
  BY <1>1, <1>2, <1>3, <1>4, <1>5, <1>6, <1>7, <1>8, <1>9, <1>10, <1>11, <1>12, <1>13,
     <1>14, <1>15, <1>16, <1>17, <1>18, <1>19, <1>20, <1>21, <1>22, <1>23, <1>24, <1>25,
     <1>26, <1>27, <1>28, <1>29
     DEF Next, Handler, Update

LEMMA InitTypeOK == Init => TypeOK
<1> SUFFICES ASSUME Init PROVE TypeOK
  OBVIOUS
<1>1. (CHOOSE s \in Session : TRUE) \in Session
  BY BoundAssumption
<1>2. of \in [Call -> Session]
  BY <1>1 DEF Init
<1>3. calls \in 0 .. MaxCall
  BY BoundAssumption DEF Init
<1> QED
  BY <1>2, <1>3 DEF Init, TypeOK, Active, Rest

\* Every variable of the runner keeps its type.
THEOREM RunnerTypes == Spec => []TypeOK
<1>1. Init => TypeOK
  BY InitTypeOK
<1> QED
  BY <1>1, TypeOKNext, PTL DEF Spec

-----------------------------------------------------------------------------
(* Calls and the processes they have.                                      *)

\* Calls that have not begun.
Unbegun ==
  \A c \in Call : c > calls =>
    pc[c] = "idle" /\ proc[c] = "none" /\ close[c] = "none" /\ c \notin known /\ c \notin stopped
TrackedIsOf ==
  \A s \in Session : tracked[s] # None => of[tracked[s]] = s /\ tracked[s] <= calls
Reached == \A c \in Call : pc[c] # "idle" => c <= calls
DownIsCounted == phase = "down" => downs > 0

Shape == TypeOK /\ Unbegun /\ TrackedIsOf /\ Reached /\ DownIsCounted

LEMMA ShapeNext == Shape /\ [Next]_vars => Shape'
<1> SUFFICES ASSUME Shape, [Next]_vars PROVE Shape'
  OBVIOUS
<1>0. TypeOK'
  BY TypeOKNext DEF Shape
<1> USE DEF Shape, TypeOK, Unbegun, TrackedIsOf, Reached, DownIsCounted, row, client, runner, bounds
<1>1. CASE UNCHANGED vars
  BY <1>0, <1>1 DEF vars
<1>2. ASSUME NEW s \in Session, Request(s) PROVE Shape'
  BY <1>0, <1>2, BeginFacts, BoundAssumption DEF Request, Begin, Call
<1>3. ASSUME NEW s \in Session, Resume(s) PROVE Shape'
  BY <1>0, <1>3, BeginFacts, BoundAssumption DEF Resume, Begin, Order, Call
<1>4. ASSUME NEW s \in Session, Stop(s) PROVE Shape'
  <2>1. \A c \in stopped' \ stopped : c = tracked[s] /\ c # None
    BY <1>4 DEF Stop
  <2>2. Unbegun'
    BY <1>4, <2>1 DEF Stop, Call
  <2> QED
    BY <1>0, <1>4, <2>2 DEF Stop
<1>5. ASSUME NEW s \in Session, WatchDead(s) PROVE Shape'
  BY <1>0, <1>5 DEF WatchDead, TrackedAtEnd
<1>6. ASSUME NEW s \in Session, WatchStalled(s) PROVE Shape'
  BY <1>0, <1>6 DEF WatchStalled, TrackedAtEnd
<1>7. ASSUME NEW s \in Session, Age(s) PROVE Shape'
  BY <1>0, <1>7 DEF Age
<1>8. ASSUME NEW s \in Session, Cleanup(s) PROVE Shape'
  BY <1>0, <1>8 DEF Cleanup
<1>9. ASSUME NEW c \in Call, Started(c) PROVE Shape'
  BY <1>0, <1>9 DEF Started
<1>10. ASSUME NEW c \in Call, StartFails(c) PROVE Shape'
  BY <1>0, <1>10 DEF StartFails, Fault
<1>11. ASSUME NEW c \in Call, Spawn(c) PROVE Shape'
  BY <1>0, <1>11 DEF Spawn
<1>12. ASSUME NEW c \in Call, Detach(c) PROVE Shape'
  BY <1>0, <1>12 DEF Detach
<1>13. ASSUME NEW c \in Call, Respawn(c) PROVE Shape'
  BY <1>0, <1>13 DEF Respawn, TrackedAtRespawn
<1>14. ASSUME NEW c \in Call, Mark(c) PROVE Shape'
  BY <1>0, <1>14 DEF Mark, Fault, NoFault
<1>15. ASSUME NEW c \in Call, Beat(c) PROVE Shape'
  BY <1>0, <1>15 DEF Beat
<1>16. ASSUME NEW c \in Call, Speak(c) PROVE Shape'
  BY <1>0, <1>16 DEF Speak, Fault, NoFault
<1>17. ASSUME NEW c \in Call, Exit(c) PROVE Shape'
  BY <1>0, <1>17 DEF Exit
<1>18. ASSUME NEW c \in Call, CloseEvent(c) PROVE Shape'
  BY <1>0, <1>18 DEF CloseEvent, StatusAtClose, TrackedAtEnd, TimerAtEnd, Ended
<1>19. ASSUME NEW c \in Call, Unheard(c) PROVE Shape'
  BY <1>0, <1>19 DEF Unheard, Ended
<1>20. ASSUME NEW c \in Call, Drained(c) PROVE Shape'
  BY <1>0, <1>20 DEF Drained, TrackedAtEnd, TimerAtEnd
<1>21. ASSUME NEW c \in Call, Record(c) PROVE Shape'
  BY <1>0, <1>21 DEF Record, Fault, NoFault
<1>22. ASSUME NEW c \in Call, Publish(c) PROVE Shape'
  BY <1>0, <1>22 DEF Publish
<1>23. ASSUME NEW c \in Call, Review(c) PROVE Shape'
  BY <1>0, <1>23 DEF Review
<1>24. ASSUME NEW c \in Call, KillPaused(c) PROVE Shape'
  BY <1>0, <1>24 DEF KillPaused, TrackedAtEnd
<1>25. ASSUME NEW s \in Session, NEW what \in Rest, Write(s, what) PROVE Shape'
  BY <1>0, <1>25 DEF Write, Fault, NoFault
<1>26. CASE Shutdown
  <2>1. \A c \in stopped' \ stopped : \E s \in Session : c = tracked[s] /\ c # None
    BY <1>26 DEF Shutdown
  <2>2. Unbegun'
    BY <1>26, <2>1 DEF Shutdown, Call
  <2>3. DownIsCounted'
    BY <1>26 DEF Shutdown
  <2> QED
    BY <1>0, <1>26, <2>2, <2>3 DEF Shutdown
<1>27. CASE Die
  <2>1. Unbegun'
    BY <1>27 DEF Die, Call
  <2>2. TrackedIsOf'
    BY <1>27 DEF Die
  <2>3. Reached'
    BY <1>27 DEF Die
  <2>4. DownIsCounted'
    BY <1>27 DEF Die
  <2> QED
    BY <1>0, <2>1, <2>2, <2>3, <2>4
<1>28. CASE Boot
  BY <1>0, <1>28 DEF Boot
<1>29. ASSUME NEW s \in Session, WriteId(s) PROVE Shape'
  BY <1>0, <1>29 DEF WriteId, Fault, NoFault
<1> QED
  BY <1>1, <1>2, <1>3, <1>4, <1>5, <1>6, <1>7, <1>8, <1>9, <1>10, <1>11, <1>12, <1>13,
     <1>14, <1>15, <1>16, <1>17, <1>18, <1>19, <1>20, <1>21, <1>22, <1>23, <1>24, <1>25,
     <1>26, <1>27, <1>28, <1>29
     DEF Next, Handler, Update

LEMMA InitShape == Init => Shape
<1> SUFFICES ASSUME Init PROVE Shape
  OBVIOUS
<1>1. TypeOK
  BY InitTypeOK
<1> QED
  BY <1>1 DEF Init, Shape, Unbegun, TrackedIsOf, Reached, DownIsCounted

LEMMA ShapeAlways == Spec => []Shape
BY InitShape, ShapeNext, PTL DEF Spec

-----------------------------------------------------------------------------
(* Paused rows.                                                            *)

KnownIsWritten == \A c \in known : of[c] \in cli \union sent
ResumedIsWritten == \A c \in Call : pc[c] \in {"locate", "mark", "beat"} => of[c] \in cli
PausedHasId ==
  \A s \in Session : status[s] = "paused" \/ <<s, "paused">> \in pending => s \in cli \union sent

Resumable ==
  downs = 0 /\ phase = "up" /\ faults = 0 => KnownIsWritten /\ ResumedIsWritten /\ PausedHasId

LEMMA ResumableNext == Shape /\ Resumable /\ [Next]_vars => Resumable'
<1> SUFFICES ASSUME Shape, Resumable, [Next]_vars PROVE Resumable'
  OBVIOUS
<1> USE DEF Shape, TypeOK, Unbegun, TrackedIsOf, DownIsCounted, Resumable, KnownIsWritten, ResumedIsWritten,
        PausedHasId, row, client, runner, bounds, None
<1>1. CASE UNCHANGED vars
  BY <1>1 DEF vars
<1>2. ASSUME NEW s \in Session, Request(s) PROVE Resumable'
  BY <1>2, BeginFacts, BoundAssumption DEF Request, Begin
<1>3. ASSUME NEW s \in Session, Resume(s) PROVE Resumable'
  BY <1>3, BeginFacts, BoundAssumption DEF Resume, Begin, Order
<1>4. ASSUME NEW s \in Session, Stop(s) PROVE Resumable'
  BY <1>4 DEF Stop, Order
<1>5. ASSUME NEW s \in Session, WatchDead(s) PROVE Resumable'
  BY <1>5 DEF WatchDead, TrackedAtEnd
<1>6. ASSUME NEW s \in Session, WatchStalled(s) PROVE Resumable'
  BY <1>6 DEF WatchStalled, TrackedAtEnd
<1>7. ASSUME NEW s \in Session, Age(s) PROVE Resumable'
  BY <1>7 DEF Age
<1>8. ASSUME NEW s \in Session, Cleanup(s) PROVE Resumable'
  BY <1>8 DEF Cleanup
<1>9. ASSUME NEW c \in Call, Started(c) PROVE Resumable'
  BY <1>9 DEF Started
<1>10. ASSUME NEW c \in Call, StartFails(c) PROVE Resumable'
  BY <1>10 DEF StartFails, Fault
<1>11. ASSUME NEW c \in Call, Spawn(c) PROVE Resumable'
  BY <1>11 DEF Spawn
<1>12. ASSUME NEW c \in Call, Detach(c) PROVE Resumable'
  BY <1>12 DEF Detach
<1>13. ASSUME NEW c \in Call, Respawn(c) PROVE Resumable'
  BY <1>13 DEF Respawn, TrackedAtRespawn
<1>14. ASSUME NEW c \in Call, Mark(c) PROVE Resumable'
  BY <1>14 DEF Mark, Fault, NoFault
<1>15. ASSUME NEW c \in Call, Beat(c) PROVE Resumable'
  BY <1>15 DEF Beat
<1>16. ASSUME NEW c \in Call, Speak(c) PROVE Resumable'
  BY <1>16 DEF Speak, Fault, NoFault
<1>17. ASSUME NEW c \in Call, Exit(c) PROVE Resumable'
  BY <1>17 DEF Exit
<1>18. ASSUME NEW c \in Call, CloseEvent(c) PROVE Resumable'
  BY <1>18 DEF CloseEvent, StatusAtClose, TrackedAtEnd, TimerAtEnd, Ended
<1>19. ASSUME NEW c \in Call, Unheard(c) PROVE Resumable'
  BY <1>19 DEF Unheard, Ended
<1>20. ASSUME NEW c \in Call, Drained(c) PROVE Resumable'
  BY <1>20 DEF Drained, TrackedAtEnd, TimerAtEnd
<1>21. ASSUME NEW c \in Call, Record(c) PROVE Resumable'
  BY <1>21 DEF Record, Fault, NoFault, Verdict
<1>22. ASSUME NEW c \in Call, Publish(c) PROVE Resumable'
  BY <1>22 DEF Publish
<1>23. ASSUME NEW c \in Call, Review(c) PROVE Resumable'
  BY <1>23 DEF Review
<1>24. ASSUME NEW c \in Call, KillPaused(c) PROVE Resumable'
  BY <1>24 DEF KillPaused, TrackedAtEnd
<1>25. ASSUME NEW s \in Session, NEW what \in Rest, Write(s, what) PROVE Resumable'
  BY <1>25 DEF Write, Fault, NoFault
<1>26. CASE Shutdown
  BY <1>26 DEF Shutdown
<1>27. CASE Die
  BY <1>27 DEF Die, AtRest
<1>28. CASE Boot
  BY <1>28 DEF Boot
<1>29. ASSUME NEW s \in Session, WriteId(s) PROVE Resumable'
  BY <1>29 DEF WriteId, Fault, NoFault
<1> QED
  BY <1>1, <1>2, <1>3, <1>4, <1>5, <1>6, <1>7, <1>8, <1>9, <1>10, <1>11, <1>12, <1>13,
     <1>14, <1>15, <1>16, <1>17, <1>18, <1>19, <1>20, <1>21, <1>22, <1>23, <1>24, <1>25,
     <1>26, <1>27, <1>28, <1>29
     DEF Next, Handler, Update

\* A paused row has the id that resumeSession asks for, or the update that brings
\* it is under way.
THEOREM PausedHasItsId == Spec => []PausedIsResumable
<1>1. Init => Resumable
  BY DEF Init, Resumable, KnownIsWritten, ResumedIsWritten, PausedHasId
<1>2. Resumable => PausedIsResumable
  BY DEF Resumable, PausedHasId, PausedIsResumable
<1> QED
  BY <1>1, <1>2, ResumableNext, ShapeAlways, PTL DEF Spec

-----------------------------------------------------------------------------
(* Undisturbed sessions.                                                   *)

\* Nothing is left to do for c.
OverCall(c) ==
  /\ pc[c] \in {"open", "failed"} /\ proc[c] # "live"
  /\ close[c] \in {"reviewed", "quiet"} \/ (close[c] = "none" /\ proc[c] = "none")

\* Only the last call of an undisturbed session has anything to do.
Alone ==
  \A c, d \in Call : of[c] = of[d] /\ of[c] \notin meddled /\ d < c /\ c <= calls => OverCall(d)
AbsentIsNew == \A c \in Call : c <= calls => status[of[c]] # "absent"
NotSpawned ==
  \A c \in Call : pc[c] \in {"idle", "status", "context", "read", "locate"} =>
    proc[c] = "none" /\ close[c] = "none"
Spawned == \A c \in Call : proc[c] = "live" => pc[c] \in {"mark", "beat", "open"} \/ of[c] \in meddled
StopMeddles == \A c \in stopped : of[c] \in meddled
PendingMeddles == \A p \in pending : p[1] \in meddled

\* From the event of its end on, a call has ended and its handlers were there.
EndIsHeard ==
  \A c \in Call : close[c] \in {"drain", "record", "retry", "publish", "published", "reviewed"} =>
    (Ended(c) /\ pc[c] = "open") \/ of[c] \in meddled
\* What is published is in the row, and stays there until it is reviewed.
ResultInRow ==
  \A c \in Call : close[c] \in {"publish", "published"} =>
    (status[of[c]] = IF proc[c] = "zero" THEN "complete" ELSE "error") \/ of[c] \in meddled

Apart ==
  /\ Alone /\ AbsentIsNew /\ NotSpawned /\ Spawned /\ StopMeddles /\ PendingMeddles
  /\ EndIsHeard /\ ResultInRow /\ UndisturbedIsTracked /\ ResultReachesReview

\* Something is left to do for c.
AtWork(c) ==
  \/ pc[c] \in {"status", "context", "read", "locate", "mark", "beat"}
  \/ proc[c] = "live"
  \/ close[c] \in {"drain", "record", "retry", "publish", "published"}
  \/ Ended(c) /\ pc[c] = "open" /\ close[c] = "none"

\* Two calls of an undisturbed session that both have something to do are one.
LEMMA OneAtWork ==
  ASSUME Shape, Alone, NEW c \in Call, of[c] \notin meddled, AtWork(c)
  PROVE  \A d \in Call : of[d] = of[c] /\ AtWork(d) => d = c
<1> SUFFICES ASSUME NEW d \in Call, of[d] = of[c], AtWork(d) PROVE d = c
  OBVIOUS
<1>1. ~OverCall(c) /\ ~OverCall(d)
  BY DEF AtWork, OverCall, Ended
<1>2. c <= calls /\ d <= calls
  BY DEF Shape, TypeOK, Unbegun, AtWork, Ended, Call
<1> QED
  BY <1>1, <1>2 DEF Shape, TypeOK, Alone, Call

LEMMA ApartNext == Shape /\ Apart /\ [Next]_vars => Apart'
<1> SUFFICES ASSUME Shape, Apart, [Next]_vars PROVE Apart'
  OBVIOUS
<1> USE DEF Shape, TypeOK, Unbegun, TrackedIsOf, Reached, Apart, Alone, OverCall, AbsentIsNew, NotSpawned, Spawned,
        StopMeddles, PendingMeddles, EndIsHeard, ResultInRow, UndisturbedIsTracked, ResultReachesReview, Ended,
        row, client, runner, bounds, None
<1>1. CASE UNCHANGED vars
  BY <1>1 DEF vars
<1>2. ASSUME NEW s \in Session, Request(s) PROVE Apart'
  <2>1. Alone'
    <3>1. CASE calls' = calls /\ of' = of /\ pc' = pc
      BY <1>2, <3>1 DEF Request
    <3>2. CASE Begin("start", s)
      <4>1. \A c \in Call : c <= calls => of[c] # s
        BY <1>2 DEF Request
      <4>2. calls' = calls + 1 /\ of' = [of EXCEPT ![calls'] = s] /\ pc' = [pc EXCEPT ![calls'] = "status"]
        BY <3>2 DEF Begin
      <4> QED
        BY <1>2, <4>1, <4>2 DEF Request, Call
    <3> QED
      BY <1>2, <3>1, <3>2 DEF Request
  <2>2. AbsentIsNew'
    <3>1. CASE calls' = calls /\ of' = of /\ pc' = pc
      BY <1>2, <3>1 DEF Request
    <3>2. CASE Begin("start", s)
      <4>1. \A c \in Call : c <= calls => of[c] # s
        BY <1>2 DEF Request
      <4>2. calls' = calls + 1 /\ of' = [of EXCEPT ![calls'] = s] /\ pc' = [pc EXCEPT ![calls'] = "status"]
        BY <3>2 DEF Begin
      <4> QED
        BY <1>2, <4>1, <4>2 DEF Request, Call
    <3> QED
      BY <1>2, <3>1, <3>2 DEF Request
  <2>3. NotSpawned'
    BY <1>2, BeginFacts, BoundAssumption DEF Request, Begin
  <2>4. Spawned'
    BY <1>2, BeginFacts, BoundAssumption DEF Request, Begin
  <2>5. StopMeddles'
    BY <1>2, BeginFacts, BoundAssumption DEF Request, Begin
  <2>6. PendingMeddles'
    BY <1>2, BeginFacts, BoundAssumption DEF Request, Begin
  <2>7. EndIsHeard'
    BY <1>2, BeginFacts, BoundAssumption DEF Request, Begin
  <2>8. ResultInRow'
    BY <1>2, BeginFacts, BoundAssumption DEF Request, Begin
  <2>9. UndisturbedIsTracked'
    BY <1>2, BeginFacts, BoundAssumption DEF Request, Begin
  <2>10. ResultReachesReview'
    BY <1>2, BeginFacts, BoundAssumption DEF Request, Begin
  <2> QED
    BY <2>1, <2>2, <2>3, <2>4, <2>5, <2>6, <2>7, <2>8, <2>9, <2>10
<1>3. ASSUME NEW s \in Session, Resume(s) PROVE Apart'
  BY <1>3, BeginFacts, BoundAssumption DEF Resume, Begin, Order, AtRest, Call
<1>4. ASSUME NEW s \in Session, Stop(s) PROVE Apart'
  BY <1>4 DEF Stop, Order
<1>5. ASSUME NEW s \in Session, WatchDead(s) PROVE Apart'
  BY <1>5 DEF WatchDead, TrackedAtEnd
<1>6. ASSUME NEW s \in Session, WatchStalled(s) PROVE Apart'
  BY <1>6 DEF WatchStalled, TrackedAtEnd
<1>7. ASSUME NEW s \in Session, Age(s) PROVE Apart'
  BY <1>7 DEF Age
<1>8. ASSUME NEW s \in Session, Cleanup(s) PROVE Apart'
  BY <1>8 DEF Cleanup
<1>9. ASSUME NEW c \in Call, Started(c) PROVE Apart'
  <2>1. Alone'
    BY <1>9 DEF Started
  <2>2. AbsentIsNew'
    BY <1>9 DEF Started
  <2>3. NotSpawned'
    BY <1>9 DEF Started
  <2>4. Spawned'
    BY <1>9 DEF Started
  <2>5. StopMeddles'
    BY <1>9 DEF Started
  <2>6. PendingMeddles'
    BY <1>9 DEF Started
  <2>7. EndIsHeard'
    BY <1>9 DEF Started
  <2>8. ResultInRow'
    <3>1. \A d \in Call : of[d] = of[c] /\ of[c] \notin meddled /\ AtWork(d) => d = c
      BY <1>9, OneAtWork DEF Started, AtWork
    <3> QED
      BY <1>9, <3>1 DEF Started, AtWork
  <2>9. UndisturbedIsTracked'
    BY <1>9 DEF Started
  <2>10. ResultReachesReview'
    BY <1>9 DEF Started
  <2> QED
    BY <2>1, <2>2, <2>3, <2>4, <2>5, <2>6, <2>7, <2>8, <2>9, <2>10
<1>10. ASSUME NEW c \in Call, StartFails(c) PROVE Apart'
  BY <1>10 DEF StartFails, Fault
<1>11. ASSUME NEW c \in Call, Spawn(c) PROVE Apart'
  <2>1. Alone'
    BY <1>11 DEF Spawn
  <2>2. AbsentIsNew'
    BY <1>11 DEF Spawn
  <2>3. NotSpawned'
    BY <1>11 DEF Spawn
  <2>4. Spawned'
    BY <1>11 DEF Spawn
  <2>5. StopMeddles'
    BY <1>11 DEF Spawn
  <2>6. PendingMeddles'
    BY <1>11 DEF Spawn
  <2>7. EndIsHeard'
    BY <1>11 DEF Spawn
  <2>8. ResultInRow'
    BY <1>11 DEF Spawn
  <2>9. UndisturbedIsTracked'
    <3>1. \A d \in Call : of[d] = of[c] /\ of[c] \notin meddled /\ AtWork(d) => d = c
      BY <1>11, OneAtWork DEF Spawn, AtWork
    <3> QED
      BY <1>11, <3>1 DEF Spawn, AtWork
  <2>10. ResultReachesReview'
    BY <1>11 DEF Spawn
  <2> QED
    BY <2>1, <2>2, <2>3, <2>4, <2>5, <2>6, <2>7, <2>8, <2>9, <2>10
<1>12. ASSUME NEW c \in Call, Detach(c) PROVE Apart'
  <2>1. Alone'
    BY <1>12 DEF Detach
  <2>2. AbsentIsNew'
    BY <1>12 DEF Detach
  <2>3. NotSpawned'
    BY <1>12 DEF Detach
  <2>4. Spawned'
    BY <1>12 DEF Detach
  <2>5. StopMeddles'
    BY <1>12 DEF Detach
  <2>6. PendingMeddles'
    BY <1>12 DEF Detach
  <2>7. EndIsHeard'
    BY <1>12 DEF Detach
  <2>8. ResultInRow'
    BY <1>12 DEF Detach
  <2>9. UndisturbedIsTracked'
    <3>1. \A d \in Call : of[d] = of[c] /\ of[c] \notin meddled /\ AtWork(d) => d = c
      BY <1>12, OneAtWork DEF Detach, AtWork
    <3> QED
      BY <1>12, <3>1 DEF Detach, AtWork
  <2>10. ResultReachesReview'
    BY <1>12 DEF Detach
  <2> QED
    BY <2>1, <2>2, <2>3, <2>4, <2>5, <2>6, <2>7, <2>8, <2>9, <2>10
<1>13. ASSUME NEW c \in Call, Respawn(c) PROVE Apart'
  <2>1. Alone'
    BY <1>13 DEF Respawn, TrackedAtRespawn
  <2>2. AbsentIsNew'
    BY <1>13 DEF Respawn, TrackedAtRespawn
  <2>3. NotSpawned'
    BY <1>13 DEF Respawn, TrackedAtRespawn
  <2>4. Spawned'
    BY <1>13 DEF Respawn, TrackedAtRespawn
  <2>5. StopMeddles'
    BY <1>13 DEF Respawn, TrackedAtRespawn
  <2>6. PendingMeddles'
    BY <1>13 DEF Respawn, TrackedAtRespawn
  <2>7. EndIsHeard'
    BY <1>13 DEF Respawn, TrackedAtRespawn
  <2>8. ResultInRow'
    BY <1>13 DEF Respawn, TrackedAtRespawn
  <2>9. UndisturbedIsTracked'
    <3>1. \A d \in Call : of[d] = of[c] /\ of[c] \notin meddled /\ AtWork(d) => d = c
      BY <1>13, OneAtWork DEF Respawn, AtWork
    <3> QED
      BY <1>13, <3>1 DEF Respawn, TrackedAtRespawn, AtWork
  <2>10. ResultReachesReview'
    BY <1>13 DEF Respawn, TrackedAtRespawn
  <2> QED
    BY <2>1, <2>2, <2>3, <2>4, <2>5, <2>6, <2>7, <2>8, <2>9, <2>10
<1>14. ASSUME NEW c \in Call, Mark(c) PROVE Apart'
  <2>1. Alone'
    BY <1>14 DEF Mark, Fault, NoFault
  <2>2. AbsentIsNew'
    BY <1>14 DEF Mark, Fault, NoFault
  <2>3. NotSpawned'
    BY <1>14 DEF Mark, Fault, NoFault
  <2>4. Spawned'
    BY <1>14 DEF Mark, Fault, NoFault
  <2>5. StopMeddles'
    BY <1>14 DEF Mark, Fault, NoFault
  <2>6. PendingMeddles'
    BY <1>14 DEF Mark, Fault, NoFault
  <2>7. EndIsHeard'
    BY <1>14 DEF Mark, Fault, NoFault
  <2>8. ResultInRow'
    <3>1. \A d \in Call : of[d] = of[c] /\ of[c] \notin meddled /\ AtWork(d) => d = c
      BY <1>14, OneAtWork DEF Mark, AtWork
    <3> QED
      BY <1>14, <3>1 DEF Mark, Fault, NoFault, AtWork
  <2>9. UndisturbedIsTracked'
    BY <1>14 DEF Mark, Fault, NoFault
  <2>10. ResultReachesReview'
    BY <1>14 DEF Mark, Fault, NoFault
  <2> QED
    BY <2>1, <2>2, <2>3, <2>4, <2>5, <2>6, <2>7, <2>8, <2>9, <2>10
<1>15. ASSUME NEW c \in Call, Beat(c) PROVE Apart'
  BY <1>15 DEF Beat
<1>16. ASSUME NEW c \in Call, Speak(c) PROVE Apart'
  BY <1>16 DEF Speak, Fault, NoFault
<1>17. ASSUME NEW c \in Call, Exit(c) PROVE Apart'
  BY <1>17 DEF Exit
<1>18. ASSUME NEW c \in Call, CloseEvent(c) PROVE Apart'
  <2>1. Alone'
    BY <1>18 DEF CloseEvent, StatusAtClose, TrackedAtEnd, TimerAtEnd, Ended
  <2>2. AbsentIsNew'
    BY <1>18 DEF CloseEvent, StatusAtClose, TrackedAtEnd, TimerAtEnd, Ended
  <2>3. NotSpawned'
    BY <1>18 DEF CloseEvent, StatusAtClose, TrackedAtEnd, TimerAtEnd, Ended
  <2>4. Spawned'
    BY <1>18 DEF CloseEvent, StatusAtClose, TrackedAtEnd, TimerAtEnd, Ended
  <2>5. StopMeddles'
    BY <1>18 DEF CloseEvent, StatusAtClose, TrackedAtEnd, TimerAtEnd, Ended
  <2>6. PendingMeddles'
    BY <1>18 DEF CloseEvent, StatusAtClose, TrackedAtEnd, TimerAtEnd, Ended
  <2>7. EndIsHeard'
    BY <1>18 DEF CloseEvent, StatusAtClose, TrackedAtEnd, TimerAtEnd, Ended
  <2>8. ResultInRow'
    BY <1>18 DEF CloseEvent, StatusAtClose, TrackedAtEnd, TimerAtEnd, Ended
  <2>9. UndisturbedIsTracked'
    <3>1. \A d \in Call : of[d] = of[c] /\ of[c] \notin meddled /\ AtWork(d) => d = c
      BY <1>18, OneAtWork DEF CloseEvent, AtWork, Ended
    <3> QED
      BY <1>18, <3>1 DEF CloseEvent, StatusAtClose, TrackedAtEnd, TimerAtEnd, Ended, AtWork
  <2>10. ResultReachesReview'
    BY <1>18 DEF CloseEvent, StatusAtClose, TrackedAtEnd, TimerAtEnd, Ended
  <2> QED
    BY <2>1, <2>2, <2>3, <2>4, <2>5, <2>6, <2>7, <2>8, <2>9, <2>10
<1>19. ASSUME NEW c \in Call, Unheard(c) PROVE Apart'
  BY <1>19 DEF Unheard, Ended
<1>20. ASSUME NEW c \in Call, Drained(c) PROVE Apart'
  <2>1. Alone'
    BY <1>20 DEF Drained, TrackedAtEnd, TimerAtEnd
  <2>2. AbsentIsNew'
    BY <1>20 DEF Drained, TrackedAtEnd, TimerAtEnd
  <2>3. NotSpawned'
    BY <1>20 DEF Drained, TrackedAtEnd, TimerAtEnd
  <2>4. Spawned'
    BY <1>20 DEF Drained, TrackedAtEnd, TimerAtEnd
  <2>5. StopMeddles'
    BY <1>20 DEF Drained, TrackedAtEnd, TimerAtEnd
  <2>6. PendingMeddles'
    BY <1>20 DEF Drained, TrackedAtEnd, TimerAtEnd
  <2>7. EndIsHeard'
    BY <1>20 DEF Drained, TrackedAtEnd, TimerAtEnd
  <2>8. ResultInRow'
    BY <1>20 DEF Drained, TrackedAtEnd, TimerAtEnd
  <2>9. UndisturbedIsTracked'
    <3>1. \A d \in Call : of[d] = of[c] /\ of[c] \notin meddled /\ AtWork(d) => d = c
      BY <1>20, OneAtWork DEF Drained, AtWork
    <3> QED
      BY <1>20, <3>1 DEF Drained, TrackedAtEnd, TimerAtEnd, AtWork
  <2>10. ResultReachesReview'
    BY <1>20 DEF Drained, TrackedAtEnd, TimerAtEnd
  <2> QED
    BY <2>1, <2>2, <2>3, <2>4, <2>5, <2>6, <2>7, <2>8, <2>9, <2>10
<1>21. ASSUME NEW c \in Call, Record(c) PROVE Apart'
  <2>1. Alone'
    BY <1>21 DEF Record, Fault, NoFault, Verdict
  <2>2. AbsentIsNew'
    BY <1>21 DEF Record, Fault, NoFault, Verdict
  <2>3. NotSpawned'
    BY <1>21 DEF Record, Fault, NoFault, Verdict
  <2>4. Spawned'
    BY <1>21 DEF Record, Fault, NoFault, Verdict
  <2>5. StopMeddles'
    BY <1>21 DEF Record, Fault, NoFault, Verdict
  <2>6. PendingMeddles'
    BY <1>21 DEF Record, Fault, NoFault, Verdict
  <2>7. EndIsHeard'
    BY <1>21 DEF Record, Fault, NoFault, Verdict
  <2>8. ResultInRow'
    <3>1. \A d \in Call : of[d] = of[c] /\ of[c] \notin meddled /\ AtWork(d) => d = c
      BY <1>21, OneAtWork DEF Record, AtWork
    <3> QED
      BY <1>21, <3>1 DEF Record, Fault, NoFault, Verdict, AtWork
  <2>9. UndisturbedIsTracked'
    BY <1>21 DEF Record, Fault, NoFault, Verdict
  <2>10. ResultReachesReview'
    BY <1>21 DEF Record, Fault, NoFault, Verdict
  <2> QED
    BY <2>1, <2>2, <2>3, <2>4, <2>5, <2>6, <2>7, <2>8, <2>9, <2>10
<1>22. ASSUME NEW c \in Call, Publish(c) PROVE Apart'
  BY <1>22 DEF Publish
<1>23. ASSUME NEW c \in Call, Review(c) PROVE Apart'
  BY <1>23 DEF Review
<1>24. ASSUME NEW c \in Call, KillPaused(c) PROVE Apart'
  BY <1>24 DEF KillPaused, TrackedAtEnd
<1>25. ASSUME NEW s \in Session, NEW what \in Rest, Write(s, what) PROVE Apart'
  <2>1. Alone'
    BY <1>25 DEF Write, Fault, NoFault
  <2>2. AbsentIsNew'
    BY <1>25 DEF Write, Fault, NoFault, Rest
  <2>3. NotSpawned'
    BY <1>25 DEF Write, Fault, NoFault
  <2>4. Spawned'
    BY <1>25 DEF Write, Fault, NoFault
  <2>5. StopMeddles'
    BY <1>25 DEF Write, Fault, NoFault
  <2>6. PendingMeddles'
    BY <1>25 DEF Write, Fault, NoFault
  <2>7. EndIsHeard'
    BY <1>25 DEF Write, Fault, NoFault
  <2>8. ResultInRow'
    BY <1>25 DEF Write, Fault, NoFault
  <2>9. UndisturbedIsTracked'
    BY <1>25 DEF Write, Fault, NoFault
  <2>10. ResultReachesReview'
    BY <1>25 DEF Write, Fault, NoFault
  <2> QED
    BY <2>1, <2>2, <2>3, <2>4, <2>5, <2>6, <2>7, <2>8, <2>9, <2>10
<1>26. CASE Shutdown
  BY <1>26 DEF Shutdown
<1>27. CASE Die
  BY <1>27 DEF Die, AtRest
<1>28. CASE Boot
  BY <1>28 DEF Boot
<1>29. ASSUME NEW s \in Session, WriteId(s) PROVE Apart'
  BY <1>29 DEF WriteId, Fault, NoFault
<1> QED
  BY <1>1, <1>2, <1>3, <1>4, <1>5, <1>6, <1>7, <1>8, <1>9, <1>10, <1>11, <1>12, <1>13,
     <1>14, <1>15, <1>16, <1>17, <1>18, <1>19, <1>20, <1>21, <1>22, <1>23, <1>24, <1>25,
     <1>26, <1>27, <1>28, <1>29
     DEF Next, Handler, Update

LEMMA ApartAlways == Spec => []Apart
<1>1. Init => Apart
  <2> SUFFICES ASSUME Init PROVE Apart
    OBVIOUS
  <2>1. /\ \A c \in Call : pc[c] = "idle" /\ proc[c] = "none" /\ close[c] = "none" /\ ~(c <= calls)
        /\ stopped = {} /\ pending = {}
    BY DEF Init, Call
  <2>2. Alone /\ AbsentIsNew
    BY <2>1 DEF Alone, AbsentIsNew
  <2> QED
    BY <2>1, <2>2 DEF Apart, NotSpawned, Spawned, StopMeddles, PendingMeddles, EndIsHeard, ResultInRow,
       UndisturbedIsTracked, ResultReachesReview
<1> QED
  BY <1>1, ApartNext, ShapeAlways, PTL DEF Spec

\* The process of an undisturbed session is the one that activeSessions has for it.
THEOREM UndisturbedStaysTracked == Spec => []UndisturbedIsTracked
<1>1. Apart => UndisturbedIsTracked
  BY DEF Apart
<1> QED
  BY <1>1, ApartAlways, PTL

\* The API decides about an undisturbed session by the result of the process that ended.
THEOREM ReviewReadsTheResult == Spec => []ResultReachesReview
<1>1. Apart => ResultReachesReview
  BY DEF Apart
<1> QED
  BY <1>1, ApartAlways, PTL

-----------------------------------------------------------------------------
(* Heartbeats.                                                             *)

\* A call that has not got so far as to have handlers has none that ran.
NotHandled ==
  \A c \in Call : pc[c] \in {"status", "context", "read", "locate", "mark", "beat"} =>
    close[c] \in {"none", "unheard"}
HasProcess == \A c \in Call : pc[c] \in {"mark", "beat"} \/ c \in timer => proc[c] # "none"
Beating == \A c \in timer : pc[c] = "open" /\ close[c] \in {"none", "drain", "unheard"}

BeatInv == NotHandled /\ HasProcess /\ Beating

\* The handlers of a process's end take the timer away before they end.
LEMMA BeatInvNext == Shape /\ BeatInv /\ [Next]_vars => BeatInv'
<1> SUFFICES ASSUME Shape, BeatInv, [Next]_vars PROVE BeatInv'
  OBVIOUS
<1> USE DEF Shape, TypeOK, Unbegun, TrackedIsOf, Reached, BeatInv, NotHandled, HasProcess,
        Beating, row, client, runner, bounds, None
<1>1. CASE UNCHANGED vars
  BY <1>1 DEF vars
<1>2. ASSUME NEW s \in Session, Request(s) PROVE BeatInv'
  BY <1>2, BeginFacts, BoundAssumption DEF Request, Begin
<1>3. ASSUME NEW s \in Session, Resume(s) PROVE BeatInv'
  BY <1>3, BeginFacts, BoundAssumption DEF Resume, Begin, Order
<1>4. ASSUME NEW s \in Session, Stop(s) PROVE BeatInv'
  BY <1>4 DEF Stop, Order
<1>5. ASSUME NEW s \in Session, WatchDead(s) PROVE BeatInv'
  BY <1>5 DEF WatchDead, TrackedAtEnd
<1>6. ASSUME NEW s \in Session, WatchStalled(s) PROVE BeatInv'
  BY <1>6 DEF WatchStalled, TrackedAtEnd
<1>7. ASSUME NEW s \in Session, Age(s) PROVE BeatInv'
  BY <1>7 DEF Age
<1>8. ASSUME NEW s \in Session, Cleanup(s) PROVE BeatInv'
  BY <1>8 DEF Cleanup
<1>9. ASSUME NEW c \in Call, Started(c) PROVE BeatInv'
  BY <1>9 DEF Started
<1>10. ASSUME NEW c \in Call, StartFails(c) PROVE BeatInv'
  BY <1>10 DEF StartFails, Fault
<1>11. ASSUME NEW c \in Call, Spawn(c) PROVE BeatInv'
  BY <1>11 DEF Spawn
<1>12. ASSUME NEW c \in Call, Detach(c) PROVE BeatInv'
  BY <1>12 DEF Detach
<1>13. ASSUME NEW c \in Call, Respawn(c) PROVE BeatInv'
  BY <1>13 DEF Respawn, TrackedAtRespawn
<1>14. ASSUME NEW c \in Call, Mark(c) PROVE BeatInv'
  BY <1>14 DEF Mark, Fault, NoFault
<1>15. ASSUME NEW c \in Call, Beat(c) PROVE BeatInv'
  BY <1>15 DEF Beat
<1>16. ASSUME NEW c \in Call, Speak(c) PROVE BeatInv'
  BY <1>16 DEF Speak, Fault, NoFault
<1>17. ASSUME NEW c \in Call, Exit(c) PROVE BeatInv'
  BY <1>17 DEF Exit
<1>18. ASSUME NEW c \in Call, CloseEvent(c) PROVE BeatInv'
  BY <1>18 DEF CloseEvent, StatusAtClose, TrackedAtEnd, TimerAtEnd, Ended
<1>19. ASSUME NEW c \in Call, Unheard(c) PROVE BeatInv'
  BY <1>19 DEF Unheard, Ended
<1>20. ASSUME NEW c \in Call, Drained(c) PROVE BeatInv'
  BY <1>20 DEF Drained, TrackedAtEnd, TimerAtEnd
<1>21. ASSUME NEW c \in Call, Record(c) PROVE BeatInv'
  BY <1>21 DEF Record, Fault, NoFault, Verdict
<1>22. ASSUME NEW c \in Call, Publish(c) PROVE BeatInv'
  BY <1>22 DEF Publish
<1>23. ASSUME NEW c \in Call, Review(c) PROVE BeatInv'
  BY <1>23 DEF Review
<1>24. ASSUME NEW c \in Call, KillPaused(c) PROVE BeatInv'
  BY <1>24 DEF KillPaused, TrackedAtEnd
<1>25. ASSUME NEW s \in Session, NEW what \in Rest, Write(s, what) PROVE BeatInv'
  BY <1>25 DEF Write, Fault, NoFault
<1>26. CASE Shutdown
  BY <1>26 DEF Shutdown
<1>27. CASE Die
  BY <1>27 DEF Die, AtRest
<1>28. CASE Boot
  BY <1>28 DEF Boot
<1>29. ASSUME NEW s \in Session, WriteId(s) PROVE BeatInv'
  BY <1>29 DEF WriteId, Fault, NoFault
<1> QED
  BY <1>1, <1>2, <1>3, <1>4, <1>5, <1>6, <1>7, <1>8, <1>9, <1>10, <1>11, <1>12, <1>13,
     <1>14, <1>15, <1>16, <1>17, <1>18, <1>19, <1>20, <1>21, <1>22, <1>23, <1>24, <1>25,
     <1>26, <1>27, <1>28, <1>29
     DEF Next, Handler, Update

\* Heartbeats are sent for processes that live, or whose end is about to be handled,
\* or was not heard: whatever is stopped, resumed, watched and shut down meanwhile.
THEOREM HeartbeatsEnd == Spec => []HeartbeatIsHonest
<1>1. Init => BeatInv
  BY DEF Init, BeatInv, NotHandled, HasProcess, Beating
<1>2. Shape /\ BeatInv => HeartbeatIsHonest
  BY DEF Shape, TypeOK, BeatInv, HasProcess, Beating, HeartbeatIsHonest, Ended
<1> QED
  BY <1>1, <1>2, BeatInvNext, ShapeAlways, PTL DEF Spec
=============================================================================
