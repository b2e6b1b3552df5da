--------------------------- MODULE SchedulerProofs ---------------------------
(***************************************************************************)
(* Proofs about Scheduler: its inductive invariant, and from it that a     *)
(* task fires at most once per due time and that chained tasks are not     *)
(* left behind, for any set of tasks, handlers and bounds.  From the types *)
(* alone, that no task once created overtakes a due one in a poll's order. *)
(***************************************************************************)
EXTENDS Scheduler, TLAPS

Steps == {"idle", "post", "update", "rescue", "chain", "requeue"}

TableOK ==
  /\ status \in [Task -> {"absent", "active", "stopped", "completed"}]
  /\ wait \in [Task -> Ticks]
  /\ OrderOK
  /\ \A t \in Task : wait[t] # Never => status[t] = "active"

HistoryOK ==
  /\ armed \in BOOLEAN
  /\ fired \in [Task -> 0 .. 2]
  /\ excused \subseteq Task
  /\ polls \in 0 .. MaxPoll /\ edits \in 0 .. MaxEdit /\ faults \in 0 .. MaxFault

LEMMA TypeParts == TypeOK <=> TableOK /\ HandlerOK /\ HistoryOK
  BY Zenon DEF TypeOK, TableOK, HistoryOK

-----------------------------------------------------------------------------
(* What the statements do to the table                                     *)

\* A task that becomes active, or stays so, takes a place in its tick.
LEMMA PlaceOK ==
  ASSUME TableOK, NEW t \in Task, NEW d \in Nat, NEW S \in SUBSET InTick(d),
         wait' = [wait EXCEPT ![t] = d], before' = PlacedBehind(t, d, S),
         status' \in [Task -> {"absent", "active", "stopped", "completed"}],
         \A u \in Task \ {t} : status'[u] = status[u],
         status'[t] = "active"
  PROVE  TableOK'
<1>1. wait' \in [Task -> Ticks] /\ before' \in SUBSET (Task \X Task)
  BY TimeAssumption DEF TableOK, OrderOK, PlacedBehind, Ticks
<1>2. \A u \in Task : wait'[u] = IF u = t THEN d ELSE wait[u]
  BY DEF TableOK
<1>3. ASSUME NEW u \in Task, NEW v \in Task
      PROVE  <<u, v>> \in before' <=>
               \/ u # t /\ v # t /\ <<u, v>> \in before
               \/ v = t /\ u # t /\ wait[u] # Never /\ (wait[u] < d \/ u \in S)
               \/ u = t /\ v # t /\ wait[v] # Never /\ wait[v] >= d /\ v \notin S
  BY DEF PlacedBehind
<1>4. \A u \in S : wait[u] = d
  BY DEF InTick
<1>5. Never \notin Nat /\ d # Never /\ (\A u \in Task : wait[u] \in Nat \union {Never})
  BY TimeAssumption DEF TableOK, Ticks
<1>6. OrderOK'
  BY <1>1, <1>2, <1>3, <1>4, <1>5 DEF TableOK, OrderOK
<1> QED
  BY <1>1, <1>2, <1>6 DEF TableOK

\* The pairs of the order after a task was placed
LEMMA PlacedPairs ==
  ASSUME TableOK, NEW t \in Task, NEW d \in Nat, NEW u \in Task, NEW v \in Task
  PROVE  <<u, v>> \in Placed(t, d) <=>
           \/ u # t /\ v # t /\ <<u, v>> \in before
           \/ v = t /\ u # t /\ wait[u] # Never /\ wait[u] <= d
           \/ u = t /\ v # t /\ wait[v] # Never /\ wait[v] > d
<1>1. Never \notin Nat /\ wait[u] \in Nat \union {Never} /\ wait[v] \in Nat \union {Never}
  BY TimeAssumption DEF TableOK, Ticks
<1>2. (u \in InTick(d) <=> wait[u] = d) /\ (v \in InTick(d) <=> wait[v] = d)
  BY DEF InTick
<1> QED
  BY <1>1, <1>2 DEF Placed, PlacedBehind

\* SET next_run_at keeps the table well formed.
LEMMA SetNextRunOK ==
  ASSUME TableOK, NEW t \in Task, NEW d \in Nat, SetNextRun(t, d),
         status' \in [Task -> {"absent", "active", "stopped", "completed"}],
         \A u \in Task \ {t} : status'[u] = status[u],
         status[t] = "active" => status'[t] = "active"
  PROVE  TableOK'
<1>1. CASE status'[t] # "active"
  <2>1. wait' = wait /\ before' = before
    BY <1>1 DEF SetNextRun
  <2>2. wait[t] = Never
    BY <1>1 DEF TableOK
  <2> QED
    BY <1>1, <2>1, <2>2 DEF TableOK, OrderOK
<1>2. CASE status'[t] = "active"
  <2>1. wait' = [wait EXCEPT ![t] = d] /\ before' = PlacedBehind(t, d, InTick(d))
    BY <1>2 DEF SetNextRun, Placed
  <2> QED
    BY <1>2, <2>1, PlaceOK
<1> QED
  BY <1>1, <1>2

\* Forgetting next_run_at keeps the table well formed.
LEMMA ForgetOK ==
  ASSUME TableOK, NEW t \in Task, Forget(t),
         status' \in [Task -> {"absent", "active", "stopped", "completed"}],
         \A u \in Task \ {t} : status'[u] = status[u]
  PROVE  TableOK'
<1>1. wait' \in [Task -> Ticks] /\ before' \in SUBSET (Task \X Task)
  BY DEF Forget, TableOK, OrderOK, Ticks
<1>2. \A u \in Task : wait'[u] = IF u = t THEN Never ELSE wait[u]
  BY DEF Forget, TableOK
<1>3. \A u, v \in Task :
        <<u, v>> \in before' <=> u # t /\ v # t /\ <<u, v>> \in before
  BY DEF Forget
<1>4. OrderOK'
  BY <1>1, <1>2, <1>3 DEF TableOK, OrderOK
<1> QED
  BY <1>1, <1>2, <1>4 DEF TableOK

-----------------------------------------------------------------------------
(* What the steps of a handler do to its variables                         *)

\* Going on with the crons to put off
LEMMA GoOnOK ==
  ASSUME HandlerOK, NEW p \in Handler, NEW S \in SUBSET due[p], GoOn(p, S),
         cur' = [cur EXCEPT ![p] = Nothing], todo[p] = {}, todo' = todo
  PROVE  HandlerOK'
<1>1. /\ pc' \in [Handler -> Steps] /\ due' \in [Handler -> SUBSET Cron]
      /\ sight' \in [Handler -> SUBSET (Task \X Task)]
      /\ cur' \in [Handler -> Task \union {Nothing}]
      /\ todo' \in [Handler -> SUBSET Chained]
      /\ put' \in [Handler -> Nat]
  BY DEF HandlerOK, GoOn, Steps
<1>2. ASSUME NEW q \in Handler
      PROVE  /\ cur'[q] # Nothing <=> pc'[q] \in {"post", "update", "rescue", "chain"}
             /\ pc'[q] = "rescue" => cur'[q] \in Cron
             /\ pc'[q] = "chain" => cur'[q] \notin Cron
             /\ cur'[q] = Nothing => todo'[q] = {}
             /\ due'[q] # {} => pc'[q] # "idle" /\ put'[q] # 0
  <2>1. CASE q = p
    BY <2>1 DEF HandlerOK, GoOn
  <2>2. CASE q # p
    BY <2>2 DEF HandlerOK, GoOn
  <2> QED
    BY <2>1, <2>2
<1> QED
  BY <1>1, <1>2 DEF HandlerOK, Steps

\* fireTask returns
LEMMA ReturnOK ==
  ASSUME HandlerOK, NEW p \in Handler, NEW C \in SUBSET Chained,
         NEW S \in SUBSET due[p], pc[p] # "idle", todo[p] \subseteq C, Return(p, C, S)
  PROVE  HandlerOK'
<1>1. CASE C = {}
  BY <1>1, GoOnOK DEF Return
<1>2. CASE C # {}
  <2>1. PICK c \in C : /\ pc' = [pc EXCEPT ![p] = "post"]
                       /\ cur' = [cur EXCEPT ![p] = c]
                       /\ todo' = [todo EXCEPT ![p] = C \ {c}]
                       /\ UNCHANGED <<due, sight, put>>
    BY <1>2 DEF Return
  <2>2. c \in Task /\ c # Nothing
    BY TaskAssumption DEF Task
  <2> QED
    BY <2>1, <2>2 DEF HandlerOK
<1> QED
  BY <1>1, <1>2

\* A poll starts to fire a task
LEMMA StartOK ==
  ASSUME TypeOK, NEW p \in Handler, NEW t \in Task, NEW S \in SUBSET Cron,
         NEW d \in Nat \ {0}, pc[p] = "idle", Start(p, t, S, d)
  PROVE  HandlerOK'
  BY TaskAssumption DEF TypeOK, OrderOK, HandlerOK, Start

-----------------------------------------------------------------------------
(* Type correctness                                                        *)

LEMMA TypeInit == Init => TypeOK
<1> SUFFICES ASSUME Init PROVE TypeOK
  OBVIOUS
<1>1. TableOK
  BY TimeAssumption DEF Init, TableOK, OrderOK, Ticks
<1>2. HandlerOK
  BY DEF Init, HandlerOK
<1>3. HistoryOK
  BY BoundAssumption DEF Init, HistoryOK
<1> QED
  BY <1>1, <1>2, <1>3, TypeParts

\* Who fires has a task in hand.
LEMMA CurIsTask ==
  ASSUME HandlerOK, NEW p \in Handler, pc[p] \in {"post", "update", "rescue", "chain"}
  PROVE  cur[p] \in Task /\ cur[p] # Nothing /\ Period \in [Cron -> Nat \ {0}]
  BY TimeAssumption DEF HandlerOK

\* Every put-off is by at least one tick.
LEMMA PutOffPositive ==
  ASSUME HandlerOK, NEW p \in Handler, NEW t \in due[p]
  PROVE  PutOff(p, t) \in Nat \ {0} /\ t \in Task /\ t \in Cron
  BY TimeAssumption DEF HandlerOK, PutOff, Task

LEMMA TableStep ==
  ASSUME TypeOK, Next
  PROVE  TableOK'
<1> USE TypeParts
<1>0. CASE UNCHANGED table
  BY <1>0 DEF table, TableOK, OrderOK
<1>1. CASE Tick
  <2>1. /\ UNCHANGED <<status, before>> /\ wait' \in [Task -> Ticks]
        /\ \A t \in Task : wait'[t] = IF wait[t] \in {0, Never} THEN wait[t] ELSE wait[t] - 1
    BY <1>1 DEF Tick, TableOK, Ticks
  <2>2. \A t \in Task : wait[t] \in Nat \union {Never}
    BY DEF TableOK, Ticks
  <2> QED
    BY <2>1, <2>2, TimeAssumption DEF TableOK, OrderOK
<1>2. ASSUME NEW t \in Task, Create(t)
      PROVE  TableOK'
  <2>1. status' = [status EXCEPT ![t] = "active"]
    BY <1>2 DEF Create
  <2>2. status' \in [Task -> {"absent", "active", "stopped", "completed"}]
    BY <2>1 DEF TableOK
  <2>3. CASE \E d \in Nat : SetNextRun(t, d)
    BY <2>1, <2>2, <2>3, SetNextRunOK DEF TableOK
  <2>4. CASE UNCHANGED <<wait, before>>
    BY <2>1, <2>2, <2>4 DEF TableOK, OrderOK
  <2>5. CASE \E d \in 0 .. MaxDelay : CreateAt(t, d)
    <3>1. PICK d \in Nat : CreateAt(t, d)
      BY <2>5, BoundAssumption
    <3> QED
      BY <2>1, <2>2, <3>1, PlaceOK DEF CreateAt, TableOK
  <2> QED
    BY <1>2, <2>3, <2>4, <2>5, TimeAssumption DEF Create
<1>3. ASSUME NEW t \in Task, Stop(t)
      PROVE  TableOK'
  BY <1>3, ForgetOK DEF Stop, TableOK
<1>4. ASSUME NEW t \in Task, Resume(t)
      PROVE  TableOK'
  <2>1. status' = [status EXCEPT ![t] = "active"] /\ SetNextRun(t, 0)
    BY <1>4 DEF Resume
  <2> QED
    BY <2>1, SetNextRunOK DEF TableOK
<1>5. ASSUME NEW p \in Handler, Requeue(p)
      PROVE  TableOK'
  <2>1. PICK t \in NextOff(p) : SetNextRun(t, PutOff(p, t))
    BY <1>5 DEF Requeue
  <2>2. t \in Task /\ PutOff(p, t) \in Nat
    BY PutOffPositive DEF NextOff
  <2> QED
    BY <1>5, <2>1, <2>2, SetNextRunOK DEF Requeue, TableOK
<1>6. ASSUME NEW p \in Handler, UpdateCron(p) \/ Rescue(p)
      PROVE  TableOK'
  <2>1. cur[p] \in Cron /\ SetNextRun(cur[p], Period[cur[p]]) /\ UNCHANGED status
    BY <1>6 DEF UpdateCron, Rescue, HandlerOK
  <2>2. cur[p] \in Task /\ Period[cur[p]] \in Nat
    BY <2>1, TimeAssumption DEF Task
  <2> QED
    BY <2>1, <2>2, SetNextRunOK DEF TableOK
<1>7. ASSUME NEW p \in Handler, UpdateOneShot(p)
      PROVE  TableOK'
  BY <1>7, ForgetOK, CurIsTask DEF UpdateOneShot, TableOK
<1>8. CASE Tools
  <2>1. ASSUME NEW p \in Mcp, NEW t \in Task, RunNow(p, t)
        PROVE  UNCHANGED table
    BY <2>1 DEF RunNow
  <2> QED
    BY <1>8, <1>0, <1>2, <1>3, <1>4, <2>1 DEF Tools
<1>9. ASSUME NEW p \in Handler, Poll(p) \/ Crash(p) \/ Critical
      PROVE  UNCHANGED table
  BY <1>9 DEF Poll, NotNow, GoAhead, Start, Critical, Crash
<1>10. ASSUME NEW p \in Handler, Fire(p)
       PROVE  TableOK'
  <2>1. CASE Accept(p) \/ PostThrows(p) \/ UpdateFails(p) \/ RescueFails(p)
              \/ Chain(p) \/ ChainFails(p) \/ RequeueFails(p)
    BY <1>0, <2>1 DEF Accept, PostThrows, UpdateFails, RescueFails, Chain, ChainFails, RequeueFails
  <2> QED
    BY <1>10, <1>5, <1>6, <1>7, <2>1 DEF Fire
<1>11. Api \in Handler
  BY DEF Handler
<1> QED
  BY <1>0, <1>1, <1>8, <1>9, <1>10, <1>11 DEF Next

LEMMA HandlerStep ==
  ASSUME TypeOK, Next
  PROVE  HandlerOK'
<1> USE TypeParts
<1>0. CASE UNCHANGED handlers
  BY <1>0 DEF handlers, HandlerOK
<1>1. CASE Tick
  BY <1>0, <1>1 DEF Tick
<1>2. CASE Tools
  <2>1. ASSUME NEW p \in Mcp, NEW t \in Task, RunNow(p, t)
        PROVE  HandlerOK'
    <3>1. p \in Handler /\ t # Nothing
      BY TaskAssumption DEF Handler
    <3> QED
      BY <2>1, <3>1 DEF RunNow, HandlerOK
  <2> QED
    BY <1>0, <1>2, <2>1 DEF Tools, Create, Stop, Resume
<1>3. ASSUME NEW p \in Handler, Poll(p)
      PROVE  HandlerOK'
  <2>1. CASE NotNow(p)
    BY <1>0, <2>1 DEF NotNow
  <2>2. CASE GoAhead(p)
    <3>1. PICK t \in FirstOf(DueNow) : Start(p, t, (DueNow \intersect Cron) \ {t}, Minute)
      BY <2>2 DEF GoAhead
    <3>2. t \in Task /\ Minute \in Nat \ {0} /\ pc[p] = "idle"
      BY <2>2 DEF FirstOf, DueNow, Minute, GoAhead, Wakes
    <3> QED
      BY <3>1, <3>2, StartOK
  <2> QED
    BY <1>3, <2>1, <2>2 DEF Poll
<1>4. CASE Critical
  <2>1. Api \in Handler /\ pc[Api] = "idle" /\ cur[Api] = Nothing
    BY <1>4 DEF Critical, Wakes, Handler, HandlerOK
  <2>2. ASSUME NEW t \in FirstOf(DueNow \intersect Essential), Start(Api, t, {}, 0)
        PROVE  HandlerOK'
    <3>1. t \in Task
      BY DEF FirstOf, DueNow
    <3>2. Start(Api, t, {}, Minute)
      BY <2>2 DEF Start
    <3> QED
      BY <2>1, <3>1, <3>2, StartOK DEF Minute
  <2>3. ASSUME /\ pc' = [pc EXCEPT ![Api] = "requeue"]
               /\ due' = [due EXCEPT ![Api] = DueNow \intersect Cron]
               /\ sight' = [sight EXCEPT ![Api] =
                              {b \in before : b[1] \in DueNow \intersect Cron
                                            /\ b[2] \in DueNow \intersect Cron}]
               /\ put' = [put EXCEPT ![Api] = Hour]
               /\ UNCHANGED <<cur, todo>>
        PROVE  HandlerOK'
    <3>1. before \in SUBSET (Task \X Task) /\ Hour \in Nat \ {0}
      BY TimeAssumption DEF TableOK, OrderOK
    <3> QED
      BY <2>1, <2>3, <3>1 DEF HandlerOK
  <2> QED
    BY <1>4, <2>2, <2>3 DEF Critical
<1>5. ASSUME NEW p \in Handler, Crash(p)
      PROVE  HandlerOK'
  BY <1>5 DEF Crash, HandlerOK
<1>6. ASSUME NEW p \in Handler, Fire(p)
      PROVE  HandlerOK'
  <2>1. todo[p] \in SUBSET Chained /\ due[p] \in SUBSET due[p] /\ {} \in SUBSET due[p]
    BY DEF HandlerOK
  <2>2. CASE Accept(p)
    BY <2>2 DEF Accept, HandlerOK
  <2>3. CASE Catch(p) /\ pc[p] \in {"post", "update"}
    <3>1. CASE cur[p] \in Cron /\ pc' = [pc EXCEPT ![p] = "rescue"]
               /\ UNCHANGED <<due, sight, cur, todo, put>>
      <4>1. cur[p] # Nothing
        BY <2>3 DEF HandlerOK
      <4> QED
        BY <3>1, <4>1, <2>3 DEF HandlerOK
    <3> QED
      BY <2>1, <2>3, <3>1, ReturnOK DEF Catch
  <2>4. CASE UpdateCron(p) \/ Rescue(p)
    BY <2>1, <2>4, ReturnOK DEF UpdateCron, Rescue
  <2>5. CASE UpdateOneShot(p)
    BY <2>5 DEF UpdateOneShot, HandlerOK
  <2>6. CASE RescueFails(p)
    BY <2>1, <2>6, ReturnOK DEF RescueFails
  <2>7. CASE Chain(p)
    <3>1. PICK C \in SUBSET Chained : todo[p] \subseteq C /\ Return(p, C, due[p])
      BY <2>1, <2>7 DEF Chain
    <3> QED
      BY <2>1, <2>7, <3>1, ReturnOK DEF Chain
  <2>8. CASE ChainFails(p)
    BY <2>1, <2>8, ReturnOK DEF ChainFails
  <2>9. CASE Requeue(p) \/ RequeueFails(p)
    <3>1. pc[p] = "requeue" /\ cur[p] = Nothing /\ todo[p] = {} /\ UNCHANGED <<cur, todo>>
      BY <2>9 DEF Requeue, RequeueFails, HandlerOK
    <3>2. PICK S \in SUBSET due[p] : GoOn(p, S)
      BY <2>9 DEF Requeue, RequeueFails
    <3>3. cur' = [cur EXCEPT ![p] = Nothing]
      BY <3>1 DEF HandlerOK
    <3> QED
      BY <3>1, <3>2, <3>3, GoOnOK
  <2> QED
    BY <1>6, <2>2, <2>3, <2>4, <2>5, <2>6, <2>7, <2>8, <2>9 DEF Fire, PostThrows, UpdateFails
<1> QED
  BY <1>1, <1>2, <1>3, <1>4, <1>5, <1>6 DEF Next

LEMMA HistoryStep ==
  ASSUME TypeOK, Next
  PROVE  HistoryOK'
<1> USE TypeParts, BoundAssumption
<1>0. ASSUME NEW S \in SUBSET Task, Fault(S), UNCHANGED <<polls, edits>>
      PROVE  /\ excused' \subseteq Task /\ faults' \in 0 .. MaxFault
             /\ polls' \in 0 .. MaxPoll /\ edits' \in 0 .. MaxEdit
  BY <1>0 DEF Fault, HistoryOK
<1>1. CASE Tick
  BY <1>1 DEF Tick, HistoryOK, counts
<1>2. CASE Tools
  BY <1>2, TaskAssumption DEF Tools, Create, Stop, Resume, RunNow, CanEdit, HistoryOK, counts
<1>3. ASSUME NEW p \in Handler, Poll(p)
      PROVE  HistoryOK'
  <2>1. /\ armed' \in BOOLEAN /\ polls' \in 0 .. MaxPoll
        /\ UNCHANGED <<fired, edits, faults>>
    <3>1. Wakes(p) /\ UNCHANGED <<fired, edits, faults>>
      BY <1>3 DEF Poll, NotNow, GoAhead, Start
    <3>2. polls \in Nat /\ MaxPoll \in Nat /\ polls <= MaxPoll
      BY DEF HistoryOK
    <3>3. CASE p = Api
      <4>1. armed' = FALSE /\ polls' = polls
        BY <3>1, <3>3, Zenon DEF Wakes
      <4> QED
        BY <3>1, <4>1 DEF HistoryOK
    <3>4. CASE p # Api
      <4>1. polls < MaxPoll /\ polls' = polls + 1 /\ armed' = armed
        BY <3>1, <3>4, Zenon DEF Wakes
      <4> QED
        BY <3>1, <3>2, <4>1 DEF HistoryOK
    <3> QED
      BY <3>3, <3>4
  <2>2. excused' \subseteq Task
    BY <1>3 DEF Poll, NotNow, GoAhead, Start, HistoryOK, FirstOf, DueNow
  <2> QED
    BY <2>1, <2>2 DEF HistoryOK
<1>4. CASE Critical
  BY <1>4 DEF Critical, Start, Wakes, HistoryOK, FirstOf, DueNow
<1>5. ASSUME NEW p \in Handler
      PROVE  /\ todo[p] \in SUBSET Task /\ Children(cur[p]) \in SUBSET Task
             /\ {cur[p]} \ {Nothing} \in SUBSET Task
             /\ {cur[p]} \intersect Chained \in SUBSET Task
             /\ pc[p] \in {"post", "update"} => {cur[p]} \in SUBSET Task
  BY CurIsTask DEF HandlerOK, Children, Task
<1>6. ASSUME NEW p \in Handler, Crash(p)
      PROVE  HistoryOK'
  <2>1. PICK S \in SUBSET Task : Fault(S)
    BY <1>5, <1>6 DEF Crash
  <2> QED
    BY <1>0, <1>6, <2>1 DEF Crash, HistoryOK
<1>7. ASSUME NEW t \in Task, CountShot(t)
      PROVE  fired' \in [Task -> 0 .. 2]
  BY <1>7 DEF CountShot, HistoryOK
<1>8. ASSUME NEW p \in Handler, Fire(p)
      PROVE  HistoryOK'
  <2>1. CASE Accept(p)
    BY <1>7, <2>1, CurIsTask DEF Accept, HistoryOK, counts
  <2>2. CASE PostThrows(p)
    <3>1. PICK S \in SUBSET Task : Fault(S)
      BY <1>5, <2>2 DEF PostThrows
    <3>2. fired' \in [Task -> 0 .. 2]
      BY <1>7, <2>2, CurIsTask DEF PostThrows, HistoryOK
    <3> QED
      BY <1>0, <2>2, <3>1, <3>2 DEF PostThrows, HistoryOK
  <2>3. CASE UpdateFails(p) \/ RescueFails(p) \/ ChainFails(p) \/ RequeueFails(p)
    <3>1. PICK S \in SUBSET Task : Fault(S)
      BY <1>5, <2>3 DEF UpdateFails, RescueFails, ChainFails, RequeueFails
    <3> QED
      BY <1>0, <2>3, <3>1 DEF UpdateFails, RescueFails, ChainFails, RequeueFails, HistoryOK
  <2>4. CASE Chain(p)
    BY <2>4 DEF Chain, HistoryOK, counts, Task
  <2>5. CASE UpdateCron(p) \/ UpdateOneShot(p) \/ Rescue(p) \/ Requeue(p)
    BY <2>5 DEF UpdateCron, UpdateOneShot, Rescue, Requeue, HistoryOK, counts
  <2> QED
    BY <1>8, <2>1, <2>2, <2>3, <2>4, <2>5 DEF Fire
<1> QED
  BY <1>1, <1>2, <1>3, <1>4, <1>6, <1>8 DEF Next

LEMMA TypeStep == TypeOK /\ [Next]_vars => TypeOK'
<1>1. TypeOK /\ Next => TypeOK'
  BY TableStep, HandlerStep, HistoryStep, TypeParts, PTL
<1>2. TypeOK /\ UNCHANGED vars => TypeOK'
  BY DEF TypeOK, OrderOK, HandlerOK, vars, table, handlers, counts
<1> QED
  BY <1>1, <1>2

\* Types, and the order of the next runs.
THEOREM TypeInvariant == Spec => []TypeOK
  BY TypeInit, TypeStep, PTL DEF Spec

-----------------------------------------------------------------------------
(* Who has which task in hand                                              *)

\* A hand in terms of the variables
LEMMA HandDef ==
  ASSUME NEW t \in Task, NEW p \in Handler
  PROVE  /\ t \in Firing(p) <=> t \in todo[p] \/ cur[p] = t
         /\ (t \in Firing(p))' <=> t \in todo'[p] \/ cur'[p] = t
         /\ t # Nothing
  BY TaskAssumption DEF Firing

\* A handler that returns from fireTask holds the tasks of C, the first of
\* them to be posted; the others hold what they held.
LEMMA ReturnHand ==
  ASSUME HandlerOK, NEW p \in Handler, NEW C \in SUBSET Chained, NEW S,
         todo[p] \subseteq C, Return(p, C, S)
  PROVE  /\ \A t \in Task : t \in todo'[p] \/ cur'[p] = t <=> t \in C
         /\ \A t \in Task : cur'[p] = t => pc'[p] = "post" /\ t \notin todo'[p]
         /\ \A q \in Handler \ {p} :
              cur'[q] = cur[q] /\ todo'[q] = todo[q] /\ pc'[q] = pc[q]
<1>1. CASE C = {}
  <2>1. /\ cur' = [cur EXCEPT ![p] = Nothing] /\ todo' = todo
        /\ \A q \in Handler \ {p} : pc'[q] = pc[q]
    BY <1>1 DEF Return, GoOn, HandlerOK
  <2> QED
    BY <1>1, <2>1, TaskAssumption DEF HandlerOK
<1>2. CASE C # {}
  <2>1. PICK c \in C : /\ pc' = [pc EXCEPT ![p] = "post"]
                       /\ cur' = [cur EXCEPT ![p] = c]
                       /\ todo' = [todo EXCEPT ![p] = C \ {c}]
    BY <1>2 DEF Return
  <2> QED
    BY <2>1 DEF HandlerOK
<1> QED
  BY <1>1, <1>2

\* A write of next_run_at takes a task out of the next poll's sight.
LEMMA SetNextRunWait ==
  ASSUME TableOK, NEW t \in Task, NEW d \in Nat \ {0}, SetNextRun(t, d), status' = status
  PROVE  wait'[t] # 0 /\ \A u \in Task \ {t} : wait'[u] = wait[u]
<1>1. CASE status[t] = "active"
  BY <1>1 DEF SetNextRun, TableOK
<1>2. CASE status[t] # "active"
  BY <1>2, TimeAssumption DEF SetNextRun, TableOK
<1> QED
  BY <1>1, <1>2

\* The hands of the handlers other than p
Aside(p) ==
  \A q \in Handler \ {p} : cur'[q] = cur[q] /\ todo'[q] = todo[q] /\ pc'[q] = pc[q]

\* What the steps of fireTask have in common: p keeps, of the tasks it holds,
\* those it has not posted.
Drops(p) ==
  /\ \A t \in Task : t \in todo'[p] \/ cur'[p] = t <=> t \in todo[p]
  /\ \A t \in Task : cur'[p] = t => pc'[p] = "post" /\ t \notin todo'[p]
  /\ Aside(p)

LEMMA ReturnDrops ==
  ASSUME HandlerOK, NEW p \in Handler, NEW S, Return(p, todo[p], S)
  PROVE  Drops(p)
<1>1. todo[p] \in SUBSET Chained /\ todo[p] \subseteq todo[p]
  BY DEF HandlerOK
<1> QED
  BY <1>1, ReturnHand DEF Drops, Aside

\* The catch keeps the task when it is a cron.
Keeps(p, step) ==
  /\ pc' = [pc EXCEPT ![p] = step]
  /\ UNCHANGED <<cur, todo>>

LEMMA CatchDrops ==
  ASSUME HandlerOK, NEW p \in Handler, Catch(p)
  PROVE  Drops(p) \/ (Keeps(p, "rescue") /\ cur[p] \in Cron)
  BY ReturnDrops DEF Catch, Keeps

-----------------------------------------------------------------------------
(* A task without excuse fires once                                        *)

LEMMA DropsShot ==
  ASSUME HandlerOK, NEW p \in Handler, Drops(p),
         NEW t \in Task, OneHand(t), Posted(t),
         fired'[t] = fired[t], status'[t] = status[t],
         wait'[t] = wait[t] \/ (cur[p] = t /\ wait'[t] # 0),
         cur[p] = t /\ pc[p] = "update" => wait'[t] # 0 /\ t \notin Chained
  PROVE  OneHand(t)' /\ Posted(t)'
<1> USE HandDef
<1>1. \A q \in Handler : (t \in Firing(q))' => t \in Firing(q)
  BY DEF Drops, Aside
<1>2. OneHand(t)'
  BY <1>1 DEF OneHand, Drops, Aside
<1>3. ASSUME NEW q \in Handler, cur'[q] = t
      PROVE  /\ pc'[q] = "rescue" => fired'[t] = 0
             /\ pc'[q] = "chain" => wait'[t] = Never
  <2>1. CASE q = p
    BY <1>3, <2>1 DEF Drops
  <2>2. CASE q # p
    <3>1. cur[q] = t /\ pc'[q] = pc[q] /\ (cur[p] = t => p = q)
      BY <1>3, <2>2 DEF Drops, Aside, OneHand
    <3> QED
      BY <2>2, <3>1 DEF Posted
  <2> QED
    BY <2>1, <2>2
<1>4. ASSUME fired[t] # 0
      PROVE  \A q \in Handler : t \notin todo'[q] /\ ~(cur'[q] = t /\ pc'[q] = "post")
  BY <1>4 DEF Posted, Drops, Aside
<1>5. ASSUME fired[t] # 0, wait'[t] = 0 \/ (t \in Chained /\ status[t] = "active")
      PROVE  \E q \in Handler : cur'[q] = t /\ pc'[q] = "update"
  <2>1. PICK q \in Handler : cur[q] = t /\ pc[q] = "update"
    BY <1>5 DEF Posted
  <2>2. q # p
    BY <1>5, <2>1
  <2> QED
    BY <2>1, <2>2 DEF Drops, Aside
<1> QED
  BY <1>2, <1>3, <1>4, <1>5 DEF Posted

\* A step that leaves the hands and the table alone
LEMMA StillShot ==
  ASSUME NEW t \in Task, OneHand(t), Posted(t), UNCHANGED <<pc, cur, todo>>,
         fired'[t] = fired[t], status'[t] = status[t], wait'[t] = wait[t]
  PROVE  OneHand(t)' /\ Posted(t)'
<1>1. OneHand(t)'
  BY HandDef DEF OneHand
<1> QED
  BY <1>1 DEF Posted

LEMMA StartShot ==
  ASSUME TypeOK, ShotInv, NEW p \in Handler, NEW u \in Task, NEW S, NEW d,
         pc[p] = "idle", wait[u] = 0, Start(p, u, S, d),
         NEW t \in Task \ excused'
  PROVE  OneHand(t)' /\ Posted(t)'
<1> USE HandDef, TypeParts
<1>1. t \notin excused /\ OneHand(t) /\ Posted(t)
  BY DEF Start, ShotInv
<1>2. /\ cur[p] = Nothing /\ todo[p] = {} /\ cur'[p] = u /\ pc'[p] = "post" /\ todo' = todo
      /\ \A q \in Handler \ {p} : cur'[q] = cur[q] /\ pc'[q] = pc[q]
      /\ UNCHANGED <<table, fired>>
  BY DEF HandlerOK, Start
<1>3. CASE t = u
  <2>1. \A q \in Handler \ {p} : t \notin Firing(q)
    BY <1>3 DEF Start, Others
  <2>2. OneHand(t)'
    BY <1>2, <1>3, <2>1 DEF OneHand
  <2>3. fired[t] = 0
    BY <1>1, <1>2, <1>3, <2>1 DEF Posted
  <2> QED
    BY <1>2, <1>3, <2>1, <2>2, <2>3 DEF Posted, table
<1>4. CASE t # u
  <2>1. \A q \in Handler : (t \in Firing(q))' <=> t \in Firing(q)
    BY <1>2, <1>4
  <2>2. OneHand(t)'
    BY <1>1, <1>2, <1>4, <2>1 DEF OneHand
  <2> QED
    BY <1>1, <1>2, <1>4, <2>2 DEF Posted, table
<1> QED
  BY <1>3, <1>4

LEMMA TickShot ==
  ASSUME TypeOK, ShotInv, Tick, NEW t \in Task \ excused'
  PROVE  OneHand(t)' /\ Posted(t)'
<1> USE HandDef, TypeParts
<1>1. /\ UNCHANGED <<pc, cur, todo, status>>
      /\ wait[t] \in Nat \union {Never} /\ Never \notin Nat
      /\ wait'[t] = IF wait[t] \in {0, Never} THEN wait[t] ELSE wait[t] - 1
      /\ fired'[t] = IF t \in ComesDue \ InHand THEN 0 ELSE fired[t]
      /\ excused' = excused \ (ComesDue \ InHand)
  BY TimeAssumption DEF Tick, handlers, TableOK, Ticks
<1>2. CASE t \in ComesDue \ InHand
  <2>1. \A p \in Handler : t \notin Firing(p)
    BY <1>2 DEF InHand
  <2>2. \A p \in Handler : t \notin todo'[p] /\ cur'[p] # t
    BY <1>1, <2>1
  <2>3. OneHand(t)'
    BY <2>2 DEF OneHand
  <2> QED
    BY <1>1, <1>2, <2>2, <2>3 DEF Posted
<1>3. CASE t \notin ComesDue \ InHand
  <2>1. OneHand(t) /\ Posted(t)
    BY <1>1, <1>3 DEF ShotInv
  <2>2. OneHand(t)'
    BY <1>1, <2>1 DEF OneHand
  <2>3. ASSUME wait[t] = 1, fired[t] # 0
        PROVE  \E q \in Handler : cur[q] = t /\ pc[q] = "update"
    <3>1. PICK q \in Handler : t \in Firing(q)
      BY <1>3, <2>3 DEF ComesDue, InHand
    <3>2. cur[q] = t /\ pc[q] # "post"
      BY <2>1, <2>3, <3>1 DEF Posted
    <3>3. pc[q] # "rescue" /\ pc[q] # "chain"
      BY <1>1, <2>1, <2>3, <3>2 DEF Posted
    <3>4. pc[q] \in {"post", "update", "rescue", "chain"}
      BY <3>2 DEF HandlerOK
    <3> QED
      BY <3>2, <3>3, <3>4
  <2>4. wait'[t] = 0 => wait[t] = 0 \/ wait[t] = 1
    BY <1>1
  <2>5. wait[t] = Never => wait'[t] = Never
    BY <1>1
  <2> QED
    BY <1>1, <1>3, <2>1, <2>2, <2>3, <2>4, <2>5 DEF Posted
<1> QED
  BY <1>2, <1>3

LEMMA ToolsShot ==
  ASSUME TypeOK, AbsentInv, ShotInv, Tools, NEW t \in Task \ excused'
  PROVE  OneHand(t)' /\ Posted(t)'
<1> USE HandDef, TypeParts
<1>1. ASSUME NEW u \in Task, Create(u) \/ Stop(u) \/ Resume(u)
      PROVE  OneHand(t)' /\ Posted(t)'
  <2>1. t \notin excused /\ OneHand(t) /\ Posted(t) /\ UNCHANGED <<pc, cur, todo, fired>>
    BY <1>1 DEF Create, Stop, Resume, ShotInv, handlers
  <2>2. CASE t # u
    <3>1. status'[t] = status[t] /\ wait'[t] = wait[t]
      BY <1>1, <2>2 DEF Create, CreateAt, Stop, Resume, SetNextRun, Forget, TableOK
    <3> QED
      BY <2>1, <3>1, StillShot
  <2>3. CASE t = u /\ Create(u)
    <3>1. status[t] = "absent"
      BY <2>3 DEF Create
    <3>2. fired[t] = 0 /\ \A p \in Handler : t \notin Firing(p)
      BY <3>1 DEF AbsentInv
    <3>3. OneHand(t)'
      BY <2>1, <3>2 DEF OneHand
    <3> QED
      BY <2>1, <3>2, <3>3 DEF Posted
  <2>4. CASE t = u /\ Stop(u)
    <3>1. status'[t] = "stopped" /\ wait'[t] = Never
      BY <2>4 DEF Stop, Forget, TableOK
    <3>2. OneHand(t)'
      BY <2>1 DEF OneHand
    <3> QED
      BY <2>1, <3>1, <3>2, TimeAssumption DEF Posted
  <2>5. CASE t = u /\ Resume(u)
    BY <2>5 DEF Resume
  <2> QED
    BY <1>1, <2>2, <2>3, <2>4, <2>5
<1>2. ASSUME NEW p \in Mcp, NEW u \in Task, RunNow(p, u)
      PROVE  OneHand(t)' /\ Posted(t)'
  <2>1. p \in Handler /\ t # u /\ t \notin excused /\ OneHand(t) /\ Posted(t)
    BY <1>2 DEF RunNow, Handler, ShotInv
  <2>2. /\ cur'[p] = u /\ pc'[p] = "post" /\ todo' = todo /\ cur[p] # t
        /\ \A q \in Handler \ {p} : cur'[q] = cur[q] /\ pc'[q] = pc[q]
        /\ UNCHANGED <<table, fired>>
    BY <1>2, <2>1 DEF RunNow, HandlerOK
  <2>3. OneHand(t)'
    BY <2>1, <2>2 DEF OneHand
  <2> QED
    BY <2>1, <2>2, <2>3 DEF Posted, table
<1> QED
  BY <1>1, <1>2 DEF Tools

LEMMA FireShot ==
  ASSUME TypeOK, ShotInv, NEW p \in Handler, Fire(p), NEW t \in Task \ excused'
  PROVE  OneHand(t)' /\ Posted(t)'
<1> USE HandDef, TypeParts
<1>1. t \notin excused /\ OneHand(t) /\ Posted(t)
  BY DEF Fire, Accept, PostThrows, UpdateCron, UpdateOneShot, UpdateFails, Rescue,
         RescueFails, Chain, ChainFails, Requeue, RequeueFails, Fault, ShotInv
<1>2. CASE Accept(p)
  <2>1. /\ pc[p] = "post" /\ pc' = [pc EXCEPT ![p] = "update"] /\ UNCHANGED <<table, cur, todo>>
        /\ CountShot(cur[p])
    BY <1>2 DEF Accept
  <2>2. OneHand(t)'
    BY <1>1, <2>1 DEF OneHand
  <2>3. CASE cur[p] = t
    <3>1. fired[t] = 0 /\ fired'[t] = 1
      BY <1>1, <2>1, <2>3 DEF Posted, CountShot, HistoryOK
    <3>2. \A q \in Handler : t \notin todo[q] /\ (cur[q] = t => q = p)
      BY <1>1, <2>3 DEF OneHand
    <3>3. pc'[p] = "update"
      BY <2>1 DEF HandlerOK
    <3> QED
      BY <2>1, <2>2, <2>3, <3>1, <3>2, <3>3 DEF Posted
  <2>4. CASE cur[p] # t
    <3>1. fired'[t] = fired[t] /\ \A q \in Handler : cur[q] = t => pc'[q] = pc[q]
      BY <2>1, <2>4 DEF CountShot, HistoryOK, HandlerOK
    <3> QED
      BY <1>1, <2>1, <2>2, <3>1 DEF Posted, table
  <2> QED
    BY <2>3, <2>4
<1>3. CASE PostThrows(p)
  <2>1. pc[p] = "post" /\ UNCHANGED table /\ fired'[t] = fired[t]
    BY <1>3 DEF PostThrows, CountShot, Fault, HistoryOK
  <2>2. CASE Drops(p)
    BY <1>1, <2>1, <2>2, DropsShot DEF table
  <2>3. CASE Keeps(p, "rescue")
    <3>1. OneHand(t)'
      BY <1>1, <2>3 DEF Keeps, OneHand
    <3>2. \A q \in Handler : cur[q] = t => pc'[q] = pc[q] \/ (pc'[q] = "rescue" /\ q = p)
      BY <2>3 DEF Keeps, HandlerOK
    <3>3. cur[p] = t => fired[t] = 0
      BY <1>1, <2>1 DEF Posted
    <3> QED
      BY <1>1, <2>1, <2>3, <3>1, <3>2, <3>3 DEF Posted, Keeps, table
  <2> QED
    BY <1>3, <2>2, <2>3, CatchDrops DEF PostThrows
<1>4. CASE UpdateFails(p)
  <2>1. cur[p] # t /\ UNCHANGED <<table, fired>>
    BY <1>4 DEF UpdateFails, Fault
  <2>2. CASE Drops(p)
    BY <1>1, <2>1, <2>2, DropsShot DEF table
  <2>3. CASE Keeps(p, "rescue")
    <3>1. OneHand(t)'
      BY <1>1, <2>3 DEF Keeps, OneHand
    <3>2. \A q \in Handler : cur[q] = t => pc'[q] = pc[q]
      BY <2>1, <2>3 DEF Keeps, HandlerOK
    <3> QED
      BY <1>1, <2>1, <2>3, <3>1, <3>2 DEF Posted, Keeps, table
  <2> QED
    BY <1>4, <2>2, <2>3, CatchDrops DEF UpdateFails
<1>5. CASE UpdateCron(p) \/ Rescue(p)
  <2>1. /\ Drops(p) /\ UNCHANGED <<status, fired>> /\ cur[p] \in Cron
        /\ SetNextRun(cur[p], Period[cur[p]])
    BY <1>5, ReturnDrops DEF UpdateCron, Rescue, HandlerOK
  <2>2. cur[p] \in Task /\ Period[cur[p]] \in Nat \ {0} /\ cur[p] \notin Chained
    BY <2>1, TimeAssumption, TaskAssumption DEF Task
  <2>3. wait'[cur[p]] # 0 /\ \A u \in Task \ {cur[p]} : wait'[u] = wait[u]
    BY <2>1, <2>2, SetNextRunWait
  <2> QED
    BY <1>1, <2>1, <2>2, <2>3, DropsShot
<1>6. CASE UpdateOneShot(p)
  <2>1. /\ pc[p] = "update" /\ cur[p] \in Task /\ pc' = [pc EXCEPT ![p] = "chain"]
        /\ status' = [status EXCEPT ![cur[p]] = "completed"]
        /\ wait' = [wait EXCEPT ![cur[p]] = Never] /\ UNCHANGED <<cur, todo, fired>>
    BY <1>6, CurIsTask DEF UpdateOneShot, Forget
  <2>2. OneHand(t)'
    BY <1>1, <2>1 DEF OneHand
  <2>3. CASE cur[p] = t
    <3>1. status'[t] = "completed" /\ wait'[t] = Never /\ Never # 0
      BY <2>1, <2>3, TimeAssumption DEF TableOK
    <3>2. \A q \in Handler : cur[q] = t => q = p
      BY <1>1, <2>3 DEF OneHand
    <3>3. pc'[p] = "chain"
      BY <2>1 DEF HandlerOK
    <3> QED
      BY <1>1, <2>1, <2>2, <3>1, <3>2, <3>3 DEF Posted
  <2>4. CASE cur[p] # t
    <3>1. status'[t] = status[t] /\ wait'[t] = wait[t]
      BY <2>1, <2>4 DEF TableOK
    <3>2. \A q \in Handler : cur[q] = t => pc'[q] = pc[q]
      BY <2>1, <2>4 DEF HandlerOK
    <3> QED
      BY <1>1, <2>1, <2>2, <3>1, <3>2 DEF Posted
  <2> QED
    BY <2>3, <2>4
<1>7. CASE RescueFails(p) \/ ChainFails(p)
  <2>1. Drops(p) /\ UNCHANGED <<table, fired>> /\ pc[p] # "update"
    BY <1>7, ReturnDrops DEF RescueFails, ChainFails
  <2> QED
    BY <1>1, <2>1, DropsShot DEF table
<1>8. CASE Chain(p)
  <2> DEFINE read == {c \in Chained : Parent[c] = cur[p] /\ status[c] = "active"}
  <2>1. /\ pc[p] = "chain" /\ Return(p, todo[p] \union read, due[p])
        /\ excused' = excused \union (read \intersect (Others(p) \union todo[p]))
        /\ UNCHANGED <<table, fired>>
    BY <1>8 DEF Chain
  <2>2. todo[p] \union read \in SUBSET Chained
    BY DEF HandlerOK
  <2>3. /\ t \in todo'[p] \/ cur'[p] = t <=> t \in todo[p] \union read
        /\ cur'[p] = t => pc'[p] = "post" /\ t \notin todo'[p]
        /\ Aside(p)
    <3> HIDE DEF read
    <3> QED
      BY <2>1, <2>2, ReturnHand DEF Aside
  <2>4. CASE t \notin read
    <3>1. OneHand(t)'
      BY <1>1, <2>3, <2>4 DEF OneHand, Aside
    <3>2. ASSUME NEW q \in Handler, cur'[q] = t
          PROVE  pc'[q] = "post" \/ (cur[q] = t /\ pc'[q] = pc[q])
      BY <2>3, <3>2 DEF Aside
    <3>3. fired[t] # 0 => \A q \in Handler : t \notin todo'[q] /\ ~(cur'[q] = t /\ pc'[q] = "post")
      BY <1>1, <2>3, <2>4 DEF Posted, Aside
    <3>4. \A q \in Handler : cur[q] = t /\ pc[q] = "update" => cur'[q] = t /\ pc'[q] = "update"
      BY <2>1, <2>3 DEF Aside
    <3> QED
      BY <1>1, <2>1, <3>1, <3>2, <3>3, <3>4 DEF Posted, table
  <2>5. CASE t \in read
    <3>1. t \notin todo[p] /\ \A q \in Handler \ {p} : t \notin Firing(q)
      BY <2>1, <2>5 DEF Others
    <3>2. OneHand(t)'
      BY <2>3, <3>1 DEF OneHand, Aside
    <3>3. fired[t] = 0
      <4>1. t \in Chained /\ status[t] = "active"
        BY <2>5
      <4>2. \A q \in Handler : ~(cur[q] = t /\ pc[q] = "update")
        BY <2>1, <3>1
      <4> QED
        BY <1>1, <4>1, <4>2 DEF Posted
    <3>4. \A q \in Handler : cur'[q] = t => q = p
      BY <3>1, <2>3 DEF Aside
    <3> QED
      BY <2>1, <2>3, <3>2, <3>3, <3>4 DEF Posted
  <2> QED
    BY <2>4, <2>5
<1>9. CASE Requeue(p) \/ RequeueFails(p)
  <2>1. /\ cur[p] = Nothing /\ todo[p] = {} /\ UNCHANGED <<cur, todo, status, fired>>
        /\ \A q \in Handler \ {p} : pc'[q] = pc[q]
    BY <1>9 DEF Requeue, RequeueFails, GoOn, HandlerOK, table, Fault
  <2>2. wait'[t] = wait[t] \/ (wait'[t] # 0 /\ t \in Cron)
    <3>1. CASE Requeue(p)
      <4>1. PICK u \in NextOff(p) : SetNextRun(u, PutOff(p, u))
        BY <3>1 DEF Requeue
      <4>2. u \in Cron /\ u \in Task /\ PutOff(p, u) \in Nat \ {0}
        BY PutOffPositive DEF NextOff
      <4> QED
        BY <2>1, <4>1, <4>2, SetNextRunWait
    <3>2. CASE RequeueFails(p)
      BY <3>2 DEF RequeueFails, table
    <3> QED
      BY <1>9, <3>1, <3>2
  <2>3. OneHand(t)'
    BY <1>1, <2>1 DEF OneHand
  <2>4. \A q \in Handler : cur[q] = t => q # p /\ pc'[q] = pc[q]
    BY <2>1
  <2>5. \A q \in Handler : cur[q] = t /\ pc[q] = "chain" => t \notin Cron
    BY DEF HandlerOK
  <2>6. \A q \in Handler :
          cur'[q] = t => /\ pc'[q] = "rescue" => fired'[t] = 0
                         /\ pc'[q] = "chain" => wait'[t] = Never
    BY <1>1, <2>1, <2>2, <2>4, <2>5 DEF Posted
  <2>7. fired[t] # 0 =>
          \A q \in Handler : t \notin todo'[q] /\ ~(cur'[q] = t /\ pc'[q] = "post")
    BY <1>1, <2>1, <2>4 DEF Posted
  <2>8. ASSUME fired[t] # 0, wait'[t] = 0 \/ (t \in Chained /\ status'[t] = "active")
        PROVE  \E q \in Handler : cur'[q] = t /\ pc'[q] = "update"
    <3>1. wait[t] = 0 \/ (t \in Chained /\ status[t] = "active")
      BY <2>1, <2>2, <2>8
    <3>2. PICK q \in Handler : cur[q] = t /\ pc[q] = "update"
      BY <1>1, <2>8, <3>1 DEF Posted
    <3> QED
      BY <2>1, <2>4, <3>2
  <2> QED
    BY <1>1, <2>1, <2>3, <2>6, <2>7, <2>8 DEF Posted
<1> QED
  BY <1>2, <1>3, <1>4, <1>5, <1>6, <1>7, <1>8, <1>9 DEF Fire

LEMMA ShotStep ==
  ASSUME TypeOK, AbsentInv, ShotInv, Next
  PROVE  ShotInv'
<1> USE HandDef, TypeParts
<1> SUFFICES ASSUME NEW t \in Task \ excused'
             PROVE  OneHand(t)' /\ Posted(t)'
  BY DEF ShotInv
<1>1. ASSUME NEW p \in Handler, Poll(p)
      PROVE  OneHand(t)' /\ Posted(t)'
  <2>1. CASE NotNow(p)
    BY <2>1, StillShot DEF NotNow, ShotInv, handlers, table
  <2>2. CASE GoAhead(p)
    BY <2>2, StartShot DEF GoAhead, Wakes, FirstOf, DueNow
  <2> QED
    BY <1>1, <2>1, <2>2 DEF Poll
<1>2. CASE Critical
  <2>1. Api \in Handler /\ pc[Api] = "idle" /\ cur[Api] = Nothing
    BY <1>2 DEF Critical, Wakes, Handler, HandlerOK
  <2>2. ASSUME NEW u \in FirstOf(DueNow \intersect Essential), Start(Api, u, {}, 0)
        PROVE  OneHand(t)' /\ Posted(t)'
    BY <2>1, <2>2, StartShot DEF FirstOf, DueNow
  <2>3. ASSUME pc' = [pc EXCEPT ![Api] = "requeue"], UNCHANGED <<table, cur, todo, fired, excused>>
        PROVE  OneHand(t)' /\ Posted(t)'
    <3>1. OneHand(t) /\ Posted(t)
      BY <2>3 DEF ShotInv
    <3>2. OneHand(t)'
      BY <2>3, <3>1 DEF OneHand
    <3>3. \A q \in Handler : cur[q] = t => pc'[q] = pc[q]
      BY <2>1, <2>3 DEF HandlerOK
    <3> QED
      BY <2>3, <3>1, <3>2, <3>3 DEF Posted, table
  <2> QED
    BY <1>2, <2>2, <2>3 DEF Critical
<1>3. ASSUME NEW p \in Handler, Crash(p)
      PROVE  OneHand(t)' /\ Posted(t)'
  <2>1. /\ t \notin excused /\ OneHand(t) /\ Posted(t) /\ UNCHANGED <<table, fired>>
        /\ cur'[p] = Nothing /\ todo'[p] = {} /\ Aside(p)
    BY <1>3 DEF Crash, Fault, ShotInv, HandlerOK, Aside
  <2>2. OneHand(t)'
    BY <2>1 DEF OneHand, Aside
  <2>3. ~(cur[p] = t /\ pc[p] = "update")
    BY <1>3 DEF Crash, Fault
  <2>4. \A q \in Handler : (cur'[q] = t => q # p) /\ (q # p => cur'[q] = cur[q] /\ pc'[q] = pc[q])
    BY <2>1 DEF Aside
  <2> QED
    BY <2>1, <2>2, <2>3, <2>4 DEF Posted, Aside, table
<1> QED
  BY <1>1, <1>2, <1>3, TickShot, ToolsShot, FireShot DEF Next

-----------------------------------------------------------------------------
(* A task that was never created is in nobody's hand                       *)

LEMMA AbsentStep ==
  ASSUME TypeOK, AbsentInv, Next
  PROVE  AbsentInv'
<1> USE HandDef, TypeParts
<1> SUFFICES ASSUME NEW t \in Task, status'[t] = "absent"
             PROVE  fired'[t] = 0 /\ \A p \in Handler : cur'[p] # t /\ t \notin todo'[p]
  BY DEF AbsentInv
<1>1. ASSUME status[t] = "absent"
      PROVE  fired[t] = 0 /\ \A p \in Handler : cur[p] # t /\ t \notin todo[p]
  BY <1>1 DEF AbsentInv
<1>2. ASSUME status[t] = "absent", UNCHANGED fired, UNCHANGED <<cur, todo>>
      PROVE  fired'[t] = 0 /\ \A p \in Handler : cur'[p] # t /\ t \notin todo'[p]
  BY <1>1, <1>2
<1>3. ASSUME status[t] = "absent", UNCHANGED <<fired, todo>>, NEW p \in Handler,
             NEW u \in Task, status[u] # "absent", cur' = [cur EXCEPT ![p] = u]
      PROVE  fired'[t] = 0 /\ \A q \in Handler : cur'[q] # t /\ t \notin todo'[q]
  BY <1>1, <1>3 DEF HandlerOK
<1>4. ASSUME status[t] = "absent", fired'[t] = fired[t], NEW p \in Handler, Drops(p)
      PROVE  fired'[t] = 0 /\ \A q \in Handler : cur'[q] # t /\ t \notin todo'[q]
  BY <1>1, <1>4 DEF Drops, Aside
<1>5. CASE Tick
  BY <1>1, <1>5 DEF Tick, handlers
<1>6. CASE Tools
  <2>1. ASSUME NEW u \in Task, Create(u) \/ Stop(u) \/ Resume(u)
        PROVE  status[t] = "absent" /\ UNCHANGED <<cur, todo, fired>>
    BY <2>1 DEF Create, Stop, Resume, CanEdit, handlers, TableOK
  <2>2. ASSUME NEW p \in Mcp, NEW u \in Task, RunNow(p, u)
        PROVE  /\ status[t] = "absent" /\ UNCHANGED <<todo, fired>> /\ p \in Handler
               /\ status[u] # "absent" /\ cur' = [cur EXCEPT ![p] = u]
    BY <2>2 DEF RunNow, CanEdit, table, Handler
  <2> QED
    BY <1>2, <1>3, <1>6, <2>1, <2>2 DEF Tools
<1>7. ASSUME NEW p \in Handler, NEW u \in Task, NEW S, NEW d, Start(p, u, S, d), wait[u] = 0
      PROVE  fired'[t] = 0 /\ \A q \in Handler : cur'[q] # t /\ t \notin todo'[q]
  <2>1. status[u] = "active"
    BY <1>7, TimeAssumption DEF TableOK
  <2> QED
    BY <1>3, <1>7, <2>1 DEF Start, table
<1>8. CASE Critical
  BY <1>2, <1>7, <1>8 DEF Critical, FirstOf, DueNow, table, Handler
<1>9. ASSUME NEW p \in Handler, Poll(p)
      PROVE  fired'[t] = 0 /\ \A q \in Handler : cur'[q] # t /\ t \notin todo'[q]
  BY <1>2, <1>7, <1>9 DEF Poll, NotNow, GoAhead, FirstOf, DueNow, table, handlers
<1>10. ASSUME NEW p \in Handler, Crash(p)
       PROVE  fired'[t] = 0 /\ \A q \in Handler : cur'[q] # t /\ t \notin todo'[q]
  BY <1>1, <1>10, TaskAssumption DEF Crash, Fault, table, HandlerOK
<1>11. ASSUME NEW p \in Handler, Fire(p)
       PROVE  fired'[t] = 0 /\ \A q \in Handler : cur'[q] # t /\ t \notin todo'[q]
  <2>1. status[t] = "absent"
    BY <1>11 DEF Fire, Accept, PostThrows, UpdateCron, UpdateOneShot, UpdateFails, Rescue,
         RescueFails, Chain, ChainFails, Requeue, RequeueFails, Fault, TableOK, table
  <2>2. CASE Accept(p)
    BY <1>1, <2>1, <2>2 DEF Accept, CountShot, HistoryOK
  <2>3. CASE PostThrows(p) \/ UpdateFails(p)
    <3>1. fired'[t] = fired[t]
      BY <1>1, <2>1, <2>3 DEF PostThrows, UpdateFails, Fault, CountShot, HistoryOK
    <3>2. Drops(p) \/ UNCHANGED <<cur, todo>>
      BY <2>3, CatchDrops DEF PostThrows, UpdateFails, Keeps
    <3> QED
      BY <1>1, <1>4, <2>1, <3>1, <3>2
  <2>4. CASE UpdateCron(p) \/ Rescue(p) \/ RescueFails(p) \/ ChainFails(p)
    <3>1. Drops(p) /\ UNCHANGED fired
      BY <2>4, ReturnDrops DEF UpdateCron, Rescue, RescueFails, ChainFails
    <3> QED
      BY <1>4, <2>1, <3>1
  <2>5. CASE UpdateOneShot(p)
    BY <1>2, <2>1, <2>5 DEF UpdateOneShot
  <2>6. CASE Requeue(p) \/ RequeueFails(p)
    BY <1>2, <2>1, <2>6 DEF Requeue, RequeueFails
  <2>7. CASE Chain(p)
    <3> DEFINE read == {c \in Chained : Parent[c] = cur[p] /\ status[c] = "active"}
    <3>1. Return(p, todo[p] \union read, due[p]) /\ UNCHANGED fired
      BY <2>7 DEF Chain
    <3>2. todo[p] \union read \in SUBSET Chained /\ t \notin read
      BY <2>1 DEF HandlerOK
    <3>3. /\ t \in todo'[p] \/ cur'[p] = t <=> t \in todo[p] \union read
          /\ Aside(p)
      <4> HIDE DEF read
      <4> QED
        BY <3>1, <3>2, ReturnHand DEF Aside
    <3> QED
      BY <1>1, <2>1, <3>1, <3>2, <3>3 DEF Aside
  <2> QED
    BY <1>11, <2>2, <2>3, <2>4, <2>5, <2>6, <2>7 DEF Fire
<1> QED
  BY <1>5, <1>6, <1>8, <1>9, <1>10, <1>11 DEF Next

-----------------------------------------------------------------------------
(* A chained task is not left behind                                       *)

\* p is on the way to the chained task c.
Leads(p, c) ==
  \/ pc[p] = "chain" /\ cur[p] = Parent[c]
  \/ c \in todo[p]
  \/ pc[p] \in {"post", "update"} /\ cur[p] = c

Waits(c) == status[c] = "active" /\ wait[c] = Never /\ status[Parent[c]] = "completed"

LEMMA ParentIsTask ==
  ASSUME NEW c \in Chained
  PROVE  c \in Task /\ Parent[c] \in Task /\ c \notin Cron /\ Parent[c] \notin Cron
  BY TaskAssumption DEF Task

\* It is enough that the handler that takes the step keeps leading to c.
LEMMA StillLed ==
  ASSUME NoStrandedChain, NEW c \in Chained, Waits(c),
         excused \subseteq excused', NEW p \in Handler, Aside(p),
         Leads(p, c) => Leads(p, c)' \/ c \in excused'
  PROVE  c \in excused' \/ OnTheWay(c)'
<1>1. CASE c \in excused
  BY <1>1
<1>2. CASE c \notin excused
  <2>1. PICK q \in Handler : Leads(q, c)
    BY <1>2 DEF NoStrandedChain, Waits, OnTheWay, Leads
  <2>2. CASE q = p
    BY <2>1, <2>2 DEF OnTheWay, Leads
  <2>3. CASE q # p
    <3>1. Leads(q, c)'
      BY <2>1, <2>3 DEF Leads, Aside
    <3> QED
      BY <3>1 DEF OnTheWay, Leads
  <2> QED
    BY <2>2, <2>3
<1> QED
  BY <1>1, <1>2

\* A step of fireTask that keeps the tasks not yet posted
LEMMA DropsLed ==
  ASSUME NoStrandedChain, NEW c \in Chained, Waits(c),
         excused \subseteq excused', NEW p \in Handler, Drops(p),
         pc[p] = "chain" /\ cur[p] = Parent[c] => c \in excused',
         pc[p] \in {"post", "update"} /\ cur[p] = c => c \in excused'
  PROVE  c \in excused' \/ OnTheWay(c)'
<1>1. Leads(p, c) => Leads(p, c)' \/ c \in excused'
  BY ParentIsTask DEF Leads, Drops
<1> QED
  BY <1>1, StillLed DEF Drops

\* A step that leaves the hands alone
LEMMA HandsLed ==
  ASSUME NoStrandedChain, NEW c \in Chained, Waits(c),
         c \in excused => c \in excused', UNCHANGED <<pc, cur, todo>>
  PROVE  c \in excused' \/ OnTheWay(c)'
  BY DEF NoStrandedChain, Waits, OnTheWay

\* A step of a handler that has nothing in its hands
LEMMA IdleLed ==
  ASSUME TypeOK, NoStrandedChain, NEW c \in Chained, Waits(c),
         excused \subseteq excused', NEW p \in Handler, pc[p] \in {"idle", "requeue"}, Aside(p)
  PROVE  c \in excused' \/ OnTheWay(c)'
<1>1. cur[p] = Nothing /\ todo[p] = {}
  BY TypeParts DEF HandlerOK
<1>2. ~Leads(p, c)
  BY <1>1 DEF Leads
<1> QED
  BY <1>2, StillLed

LEMMA ToolsLed ==
  ASSUME TypeOK, NoStrandedChain, Tools, NEW c \in Chained, Waits(c)'
  PROVE  c \in excused' \/ OnTheWay(c)'
<1> USE ParentIsTask, TypeParts
<1>1. ASSUME NEW u \in Task, Create(u)
      PROVE  c \in excused' \/ OnTheWay(c)'
  <2>1. /\ status' = [status EXCEPT ![u] = "active"] /\ excused \subseteq excused'
        /\ UNCHANGED <<pc, cur, todo>>
    BY <1>1 DEF Create, handlers
  <2>2. u # Parent[c] /\ status[Parent[c]] = "completed"
    BY <2>1 DEF Waits, TableOK
  <2>3. CASE u = c
    BY <1>1, <2>2, <2>3, TaskAssumption DEF Create
  <2>4. CASE u # c
    <3>1. wait'[c] = wait[c] /\ status'[c] = status[c]
      BY <1>1, <2>1, <2>4 DEF Create, CreateAt, SetNextRun, TableOK
    <3> QED
      BY <2>1, <2>2, <3>1, HandsLed DEF Waits
  <2> QED
    BY <2>3, <2>4
<1>2. ASSUME NEW u \in Task, Stop(u) \/ Resume(u)
      PROVE  c \in excused' \/ OnTheWay(c)'
  <2>1. /\ excused \subseteq excused' /\ UNCHANGED <<pc, cur, todo>>
        /\ u = c => c \in excused'
        /\ u # Parent[c]
    BY <1>2 DEF Stop, Resume, handlers, Waits, TableOK
  <2>2. CASE u # c
    <3>1. Waits(c)
      BY <1>2, <2>1, <2>2 DEF Stop, Resume, Waits, Forget, SetNextRun, TableOK
    <3> QED
      BY <2>1, <3>1, HandsLed
  <2> QED
    BY <2>1, <2>2
<1>3. ASSUME NEW p \in Mcp, NEW u \in Task, RunNow(p, u)
      PROVE  c \in excused' \/ OnTheWay(c)'
  <2>1. p \in Handler /\ pc[p] = "idle" /\ Waits(c) /\ excused \subseteq excused' /\ Aside(p)
    BY <1>3 DEF RunNow, Handler, table, Waits, HandlerOK, Aside
  <2> QED
    BY <2>1, IdleLed
<1> QED
  BY <1>1, <1>2, <1>3 DEF Tools

LEMMA FireLed ==
  ASSUME TypeOK, NoStrandedChain, NEW p \in Handler, Fire(p), NEW c \in Chained, Waits(c)'
  PROVE  c \in excused' \/ OnTheWay(c)'
<1> USE ParentIsTask, TypeParts
<1>1. excused \subseteq excused'
  BY DEF Fire, Accept, PostThrows, UpdateCron, UpdateOneShot, UpdateFails, Rescue,
         RescueFails, Chain, ChainFails, Requeue, RequeueFails, Fault
<1>2. CASE Accept(p)
  <2>1. /\ Waits(c) /\ pc[p] = "post" /\ pc' = [pc EXCEPT ![p] = "update"]
        /\ UNCHANGED <<cur, todo>>
    BY <1>2 DEF Accept, table, Waits
  <2>2. Aside(p) /\ (Leads(p, c) => Leads(p, c)')
    BY <2>1 DEF Aside, Leads, HandlerOK
  <2> QED
    BY <1>1, <2>1, <2>2, StillLed
<1>3. CASE PostThrows(p) \/ UpdateFails(p)
  <2>1. /\ Waits(c) /\ pc[p] # "chain"
        /\ cur[p] = c => c \in excused'
    BY <1>3 DEF PostThrows, UpdateFails, Fault, table, Waits
  <2>2. CASE Drops(p)
    BY <1>1, <2>1, <2>2, DropsLed
  <2>3. CASE Keeps(p, "rescue")
    <3>1. Aside(p) /\ (Leads(p, c) => Leads(p, c)' \/ c \in excused')
      BY <2>1, <2>3 DEF Aside, Leads, Keeps, HandlerOK
    <3> QED
      BY <1>1, <2>1, <3>1, StillLed
  <2> QED
    BY <1>3, <2>2, <2>3, CatchDrops DEF PostThrows, UpdateFails
<1>4. CASE UpdateCron(p) \/ Rescue(p) \/ RescueFails(p)
  <2>1. Drops(p) /\ cur[p] \in Cron
    BY <1>4, ReturnDrops DEF UpdateCron, Rescue, RescueFails, HandlerOK
  <2>2. Waits(c)
    <3>1. CASE RescueFails(p)
      BY <3>1 DEF RescueFails, table, Waits
    <3>2. CASE UpdateCron(p) \/ Rescue(p)
      <4>1. /\ SetNextRun(cur[p], Period[cur[p]]) /\ status' = status
            /\ cur[p] \in Task /\ Period[cur[p]] \in Nat \ {0}
        BY <2>1, <3>2, TimeAssumption DEF UpdateCron, Rescue, Task
      <4>2. wait'[c] = wait[c]
        BY <2>1, <4>1, SetNextRunWait
      <4> QED
        BY <4>1, <4>2 DEF Waits
    <3> QED
      BY <1>4, <3>1, <3>2
  <2> QED
    BY <1>1, <2>1, <2>2, DropsLed
<1>5. CASE UpdateOneShot(p)
  <2>1. /\ pc[p] = "update" /\ cur[p] \in Task /\ pc' = [pc EXCEPT ![p] = "chain"]
        /\ status' = [status EXCEPT ![cur[p]] = "completed"]
        /\ wait' = [wait EXCEPT ![cur[p]] = Never] /\ UNCHANGED <<cur, todo>>
    BY <1>5, CurIsTask DEF UpdateOneShot, Forget
  <2>2. pc'[p] = "chain" /\ cur[p] # c
    BY <2>1 DEF HandlerOK, TableOK, Waits
  <2>3. CASE cur[p] = Parent[c]
    BY <2>1, <2>2, <2>3 DEF OnTheWay
  <2>4. CASE cur[p] # Parent[c]
    <3>1. Waits(c)
      BY <2>1, <2>2, <2>4 DEF Waits, TableOK
    <3>2. Aside(p) /\ (Leads(p, c) => Leads(p, c)')
      BY <2>1, <2>2 DEF Aside, Leads, HandlerOK
    <3> QED
      BY <1>1, <3>1, <3>2, StillLed
  <2> QED
    BY <2>3, <2>4
<1>6. CASE ChainFails(p)
  <2>1. /\ Drops(p) /\ Waits(c) /\ pc[p] = "chain"
        /\ cur[p] = Parent[c] => c \in excused'
    BY <1>6, ReturnDrops DEF ChainFails, Fault, Children, table, Waits
  <2> QED
    BY <1>1, <2>1, DropsLed
<1>7. CASE Chain(p)
  <2> DEFINE read == {d \in Chained : Parent[d] = cur[p] /\ status[d] = "active"}
  <2>1. /\ pc[p] = "chain" /\ Return(p, todo[p] \union read, due[p]) /\ Waits(c)
    BY <1>7 DEF Chain, table, Waits
  <2>2. todo[p] \union read \in SUBSET Chained
    BY DEF HandlerOK
  <2>3. /\ c \in todo'[p] \/ cur'[p] = c <=> c \in todo[p] \union read
        /\ cur'[p] = c => pc'[p] = "post"
        /\ Aside(p)
    <3> HIDE DEF read
    <3> QED
      BY <2>1, <2>2, ReturnHand DEF Aside
  <2>4. Leads(p, c) => Leads(p, c)'
    <3>1. Leads(p, c) => c \in todo[p] \union read
      BY <2>1 DEF Leads, Waits
    <3> QED
      BY <2>3, <3>1 DEF Leads
  <2> QED
    BY <1>1, <2>1, <2>3, <2>4, StillLed
<1>8. CASE Requeue(p) \/ RequeueFails(p)
  <2>1. pc[p] = "requeue" /\ Aside(p)
    BY <1>8 DEF Requeue, RequeueFails, GoOn, HandlerOK, Aside
  <2>2. Waits(c)
    <3>1. CASE RequeueFails(p)
      BY <3>1 DEF RequeueFails, table, Waits
    <3>2. CASE Requeue(p)
      <4>1. PICK u \in NextOff(p) : SetNextRun(u, PutOff(p, u)) /\ status' = status
        BY <3>2 DEF Requeue
      <4>2. u \in Cron /\ u \in Task /\ PutOff(p, u) \in Nat \ {0}
        BY <2>1, PutOffPositive DEF NextOff
      <4>3. wait'[c] = wait[c]
        BY <4>1, <4>2, SetNextRunWait
      <4> QED
        BY <4>1, <4>3 DEF Waits
    <3> QED
      BY <1>8, <3>1, <3>2
  <2> QED
    BY <1>1, <2>1, <2>2, IdleLed
<1> QED
  BY <1>2, <1>3, <1>4, <1>5, <1>6, <1>7, <1>8 DEF Fire

LEMMA StrandedStep ==
  ASSUME TypeOK, NoStrandedChain, Next
  PROVE  NoStrandedChain'
<1> USE ParentIsTask, TypeParts
<1> SUFFICES ASSUME NEW c \in Chained, Waits(c)'
             PROVE  c \in excused' \/ OnTheWay(c)'
  BY DEF NoStrandedChain, Waits
<1>1. CASE Tick
  <2>1. /\ UNCHANGED <<pc, cur, todo, status>>
        /\ wait'[c] = IF wait[c] \in {0, Never} THEN wait[c] ELSE wait[c] - 1
        /\ excused' = excused \ (ComesDue \ InHand)
    BY <1>1 DEF Tick, handlers
  <2>2. wait[c] = Never
    BY <2>1, TimeAssumption DEF Waits, TableOK, Ticks
  <2>3. Waits(c)
    BY <2>1, <2>2 DEF Waits
  <2>4. c \in excused => c \in excused'
    <3>1. 1 # Never
      BY TimeAssumption
    <3>2. c \notin ComesDue
      BY <2>2, <3>1 DEF ComesDue
    <3> QED
      BY <2>1, <3>2
  <2> QED
    BY <2>1, <2>3, <2>4, HandsLed
<1>2. ASSUME NEW p \in Handler, NEW u, NEW S, NEW d, pc[p] = "idle", Start(p, u, S, d)
      PROVE  c \in excused' \/ OnTheWay(c)'
  <2>1. Waits(c) /\ excused \subseteq excused' /\ Aside(p)
    BY <1>2 DEF Start, table, Waits, HandlerOK, Aside
  <2> QED
    BY <1>2, <2>1, IdleLed
<1>3. CASE Critical
  <2>1. Api \in Handler /\ pc[Api] = "idle"
    BY <1>3 DEF Critical, Wakes, Handler
  <2>2. ASSUME pc' = [pc EXCEPT ![Api] = "requeue"], UNCHANGED <<table, cur, todo, fired, excused>>
        PROVE  c \in excused' \/ OnTheWay(c)'
    <3>1. Waits(c) /\ Aside(Api)
      BY <2>2 DEF table, Waits, HandlerOK, Aside
    <3> QED
      BY <2>1, <2>2, <3>1, IdleLed
  <2> QED
    BY <1>2, <1>3, <2>1, <2>2 DEF Critical
<1>4. ASSUME NEW p \in Handler, Poll(p)
      PROVE  c \in excused' \/ OnTheWay(c)'
  <2>1. CASE NotNow(p)
    BY <2>1, HandsLed DEF NotNow, handlers, table, Waits
  <2>2. CASE GoAhead(p)
    BY <1>2, <2>2 DEF GoAhead, Wakes
  <2> QED
    BY <1>4, <2>1, <2>2 DEF Poll
<1>5. ASSUME NEW p \in Handler, Crash(p)
      PROVE  c \in excused' \/ OnTheWay(c)'
  <2>1. /\ Waits(c) /\ Aside(p)
        /\ excused' = excused \union todo[p] \union
                        (IF pc[p] = "chain" THEN Children(cur[p]) ELSE {cur[p]} \ {Nothing})
    BY <1>5 DEF Crash, Fault, table, Waits, HandlerOK, Aside
  <2>2. Leads(p, c) => c \in excused'
    BY <2>1, TaskAssumption DEF Leads, Children
  <2> QED
    BY <2>1, <2>2, StillLed
<1> QED
  BY <1>1, <1>3, <1>4, <1>5, ToolsLed, FireLed DEF Next

-----------------------------------------------------------------------------
(* The theorems                                                            *)

LEMMA InvInit == Init => SchedulerInv
<1> SUFFICES ASSUME Init PROVE SchedulerInv
  OBVIOUS
<1> USE HandDef
<1>1. \A t \in Task : status[t] = "absent" /\ fired[t] = 0 /\ wait[t] = Never /\ Never # 0
  BY TimeAssumption DEF Init
<1>2. \A t \in Task, p \in Handler : cur[p] # t /\ t \notin todo[p]
  BY TaskAssumption DEF Init
<1>3. AbsentInv
  BY <1>1, <1>2 DEF AbsentInv
<1>4. ShotInv
  BY <1>1, <1>2 DEF ShotInv, OneHand, Posted
<1>5. NoStrandedChain
  BY <1>1, ParentIsTask DEF NoStrandedChain
<1> QED
  BY <1>3, <1>4, <1>5, TypeInit DEF SchedulerInv

LEMMA InvStep == SchedulerInv /\ [Next]_vars => SchedulerInv'
<1> SUFFICES ASSUME SchedulerInv, [Next]_vars PROVE SchedulerInv'
  OBVIOUS
<1>1. TypeOK'
  BY TypeStep DEF SchedulerInv
<1>2. CASE Next
  BY <1>1, <1>2, AbsentStep, ShotStep, StrandedStep DEF SchedulerInv
<1>3. CASE UNCHANGED vars
  <2>1. UNCHANGED <<status, wait, before, pc, cur, todo, fired, excused>>
    BY <1>3 DEF vars, table, handlers
  <2>2. AbsentInv'
    BY <2>1 DEF SchedulerInv, AbsentInv, Firing
  <2>3. ShotInv'
    BY <2>1 DEF SchedulerInv, ShotInv, OneHand, Posted, Firing
  <2>4. NoStrandedChain'
    BY <2>1 DEF SchedulerInv, NoStrandedChain, OnTheWay
  <2> QED
    BY <1>1, <2>2, <2>3, <2>4 DEF SchedulerInv
<1> QED
  BY <1>2, <1>3

\* In every reachable state of the scheduler the inductive invariant holds:
\* absent tasks are nowhere, and a task without excuse is in one hand at most
\* and, once posted, on its way out of the next poll's sight.
THEOREM SchedulerInvariant == Spec => []SchedulerInv
  BY InvInit, InvStep, PTL DEF Spec

\* However pollers and tools interleave, a task that no fault, edit or second
\* handler touches is posted to the session at most once per due time.
THEOREM OneFirePerSlotSafe == Spec => []OneFirePerSlot
<1>1. SchedulerInv => OneFirePerSlot
  BY DEF SchedulerInv, ShotInv, Posted, OneFirePerSlot
<1> QED
  BY <1>1, SchedulerInvariant, PTL

\* However pollers and tools interleave, a chained task whose parent is
\* completed has a handler on the way to it, or a fault or a late creation
\* explains why it has not.
THEOREM NoStrandedChainSafe == Spec => []NoStrandedChain
<1>1. SchedulerInv => NoStrandedChain
  BY DEF SchedulerInv
<1> QED
  BY <1>1, SchedulerInvariant, PTL

-----------------------------------------------------------------------------
(* Why a due task comes to its turn                                        *)

\* What a step does to a task that is due.
TurnComes(t) ==
  wait[t] = 0 /\ status'[t] = "active" /\ ~Resume(t) =>
    /\ wait'[t] = 0 =>
         Ahead(t)' \subseteq Ahead(t) \union {u \in Delayed : status[u] = "absent"}
    /\ t \notin Cron => wait'[t] = 0

\* A task written to a later time, or another one, is not put in front.
LEMMA WrittenBehind ==
  ASSUME TableOK, NEW t \in Task, NEW v \in Task, NEW d \in Nat, SetNextRun(v, d),
         wait[t] = 0, t = v => d # 0 /\ v \in Cron
  PROVE  TurnComes(t)
<1>1. CASE UNCHANGED <<wait, before>>
  BY <1>1 DEF TurnComes, Ahead
<1>2. CASE wait' = [wait EXCEPT ![v] = d] /\ before' = Placed(v, d)
  <2>1. CASE t = v
    BY <1>2, <2>1 DEF TurnComes, TableOK
  <2>2. CASE t # v
    <3>1. wait'[t] = 0
      BY <1>2, <2>2 DEF TableOK
    <3>2. ASSUME NEW u \in Task, <<u, t>> \in before' PROVE <<u, t>> \in before
      BY <1>2, <2>2, <3>2, PlacedPairs, TimeAssumption
    <3> QED
      BY <3>1, <3>2 DEF TurnComes, Ahead
  <2> QED
    BY <2>1, <2>2
<1> QED
  BY <1>1, <1>2 DEF SetNextRun

\* A delayed task that is created adds only itself to the tasks in front of t.
LEMMA CreatedAhead ==
  ASSUME TableOK, NEW t \in Task, NEW v \in Delayed, v # t, status[v] = "absent",
         NEW d \in 0 .. MaxDelay, CreateAt(v, d)
  PROVE  TurnComes(t)
<1>1. v \in Task
  BY DEF Task
<1>2. PICK S \in SUBSET InTick(d) : before' = PlacedBehind(v, d, S)
  BY DEF CreateAt
<1>3. ASSUME NEW u \in Task, <<u, t>> \in before', u # v PROVE <<u, t>> \in before
  BY <1>2, <1>3 DEF PlacedBehind
<1>4. wait'[t] = wait[t]
  BY <1>1 DEF CreateAt, TableOK
<1> QED
  BY <1>3, <1>4 DEF TurnComes, Ahead

LEMMA TurnStep ==
  ASSUME TypeOK, Next, NEW t \in Task, wait[t] = 0
  PROVE  TurnComes(t)
<1> USE TypeParts
<1>0. 0 # Never
  BY TimeAssumption
<1>1. CASE UNCHANGED table
  BY <1>1 DEF table, TurnComes, Ahead
<1>2. CASE Tick
  BY <1>2 DEF Tick, TurnComes, Ahead, TableOK
<1>3. ASSUME NEW v \in Task, Create(v) PROVE TurnComes(t)
  <2>1. v # t
    BY <1>0, <1>3 DEF Create, TableOK
  <2>2. CASE \E d \in Nat : SetNextRun(v, d)
    BY <2>1, <2>2, WrittenBehind
  <2>3. CASE UNCHANGED <<wait, before>>
    BY <2>3 DEF TurnComes, Ahead
  <2>4. CASE v \in Delayed /\ \E d \in 0 .. MaxDelay : CreateAt(v, d)
    BY <1>3, <2>1, <2>4, CreatedAhead DEF Create
  <2> QED
    BY <1>3, <2>2, <2>3, <2>4, TimeAssumption DEF Create
<1>4. ASSUME NEW v \in Task, Stop(v) PROVE TurnComes(t)
  <2>1. CASE v = t
    BY <1>4, <2>1 DEF Stop, TurnComes, TableOK
  <2>2. CASE v # t
    BY <1>4, <2>2 DEF Stop, Forget, TurnComes, Ahead, TableOK
  <2> QED
    BY <2>1, <2>2
<1>5. ASSUME NEW v \in Task, Resume(v) PROVE TurnComes(t)
  <2>1. CASE v = t
    BY <1>5, <2>1 DEF TurnComes
  <2>2. CASE v # t
    BY <1>5, <2>2, WrittenBehind DEF Resume
  <2> QED
    BY <2>1, <2>2
<1>6. ASSUME NEW p \in Handler, Requeue(p) PROVE TurnComes(t)
  <2>1. PICK v \in NextOff(p) : SetNextRun(v, PutOff(p, v))
    BY <1>6 DEF Requeue
  <2>2. v \in Task /\ v \in Cron /\ PutOff(p, v) \in Nat \ {0}
    BY PutOffPositive DEF NextOff
  <2> QED
    BY <2>1, <2>2, WrittenBehind
<1>7. ASSUME NEW p \in Handler, UpdateCron(p) \/ Rescue(p) PROVE TurnComes(t)
  <2>1. cur[p] \in Cron /\ SetNextRun(cur[p], Period[cur[p]])
    BY <1>7 DEF UpdateCron, Rescue, HandlerOK
  <2>2. cur[p] \in Task /\ Period[cur[p]] \in Nat \ {0}
    BY <2>1, TimeAssumption DEF Task
  <2> QED
    BY <2>1, <2>2, WrittenBehind
<1>8. ASSUME NEW p \in Handler, UpdateOneShot(p) PROVE TurnComes(t)
  <2>1. cur[p] \in Task /\ status' = [status EXCEPT ![cur[p]] = "completed"] /\ Forget(cur[p])
    BY <1>8, CurIsTask DEF UpdateOneShot
  <2>2. CASE cur[p] = t
    BY <2>1, <2>2 DEF TurnComes, TableOK
  <2>3. CASE cur[p] # t
    BY <2>1, <2>3 DEF Forget, TurnComes, Ahead, TableOK
  <2> QED
    BY <2>2, <2>3
<1>9. CASE Tools
  <2>1. ASSUME NEW p \in Mcp, NEW v \in Task, RunNow(p, v) PROVE UNCHANGED table
    BY <2>1 DEF RunNow
  <2> QED
    BY <1>1, <1>3, <1>4, <1>5, <1>9, <2>1 DEF Tools
<1>10. ASSUME NEW p \in Handler, Poll(p) \/ Crash(p) \/ Critical PROVE UNCHANGED table
  BY <1>10 DEF Poll, NotNow, GoAhead, Start, Critical, Crash
<1>11. ASSUME NEW p \in Handler, Fire(p) PROVE TurnComes(t)
  <2>1. CASE Accept(p) \/ PostThrows(p) \/ UpdateFails(p) \/ RescueFails(p)
              \/ Chain(p) \/ ChainFails(p) \/ RequeueFails(p)
    BY <1>1, <2>1 DEF Accept, PostThrows, UpdateFails, RescueFails, Chain, ChainFails, RequeueFails
  <2> QED
    BY <1>11, <1>6, <1>7, <1>8, <2>1 DEF Fire
<1>12. Api \in Handler
  BY DEF Handler
<1> QED
  BY <1>1, <1>2, <1>9, <1>10, <1>11, <1>12 DEF Next

\* Nothing but a delayed task created with a time in the past overtakes a task that is
\* due, and no delayed or chained one is put off: the order of the polls gives each its
\* turn, for any tasks and handlers.
THEOREM NobodyOvertakes == Spec => DueIsNotOvertaken
<1>1. TypeOK /\ [Next]_vars =>
        [\A t \in Task : wait[t] = 0 /\ status'[t] = "active" /\ ~Resume(t) =>
           /\ wait'[t] = 0 =>
                Ahead(t)' \subseteq Ahead(t) \union {u \in Delayed : status[u] = "absent"}
           /\ t \notin Cron => wait'[t] = 0]_vars
  BY TurnStep DEF TurnComes
<1> QED
  BY <1>1, TypeInvariant, PTL DEF Spec, DueIsNotOvertaken

\* A statement that sets next_run_at leaves every task planned that was.
LEMMA WrittenPlanned ==
  ASSUME TableOK, ActiveIsPlanned, NEW v \in Task, NEW d \in Nat, SetNextRun(v, d),
         \A u \in Task \ {v} : status'[u] = status[u],
         status'[v] = "active" \/ status'[v] = status[v]
  PROVE  ActiveIsPlanned'
<1> SUFFICES ASSUME NEW t \in Cron \union Delayed, status'[t] = "active" PROVE wait'[t] # Never
  BY DEF ActiveIsPlanned
<1>1. t \in Task
  BY DEF Task
<1>2. CASE t = v
  BY <1>1, <1>2, TimeAssumption DEF SetNextRun, TableOK
<1>3. CASE t # v
  BY <1>1, <1>3 DEF SetNextRun, TableOK, ActiveIsPlanned
<1> QED
  BY <1>2, <1>3

LEMMA PlannedStep ==
  ASSUME TypeOK, ActiveIsPlanned, Next
  PROVE  ActiveIsPlanned'
<1> USE TypeParts
<1>1. CASE UNCHANGED table
  BY <1>1 DEF table, ActiveIsPlanned
<1>2. CASE Tick
  <2>1. \A t \in Cron \union Delayed : t \in Task /\ wait[t] \in Nat \union {Never}
    BY DEF Task, TableOK, Ticks
  <2>2. \A t \in Cron \union Delayed :
          status'[t] = status[t] /\ (wait[t] # Never => wait'[t] = 0 \/ wait'[t] = wait[t] - 1)
    BY <1>2, <2>1 DEF Tick
  <2>3. \A t \in Cron \union Delayed : wait[t] # Never => wait'[t] # Never
    <3>1. \A t \in Cron \union Delayed : wait[t] # Never => wait[t] \in Nat
      BY <2>1
    <3>2. \A n \in Nat : n - 1 \in Int /\ (n = 0 \/ n - 1 \in Nat)
      OBVIOUS
    <3>3. \A t \in Cron \union Delayed : wait[t] = 0 => wait'[t] = 0
      BY <1>2, <2>1 DEF Tick
    <3> QED
      BY <2>2, <3>1, <3>2, <3>3, TimeAssumption
  <2> QED
    BY <2>2, <2>3 DEF ActiveIsPlanned
<1>3. ASSUME NEW v \in Task, Create(v) PROVE ActiveIsPlanned'
  <2>1. status' = [status EXCEPT ![v] = "active"]
    BY <1>3 DEF Create
  <2>2. CASE \E d \in Nat : SetNextRun(v, d)
    BY <2>1, <2>2, WrittenPlanned DEF TableOK
  <2>3. CASE v \in Chained /\ UNCHANGED <<wait, before>>
    BY <2>1, <2>3, TaskAssumption DEF ActiveIsPlanned, TableOK, Task
  <2>4. CASE \E d \in 0 .. MaxDelay : CreateAt(v, d)
    BY <1>3, <2>1, <2>4, BoundAssumption, TimeAssumption
       DEF CreateAt, ActiveIsPlanned, TableOK, Task
  <2> QED
    BY <1>3, <2>2, <2>3, <2>4, TimeAssumption DEF Create
<1>4. ASSUME NEW v \in Task, Forget(v), status'[v] # "active",
             \A u \in Task \ {v} : status'[u] = status[u]
      PROVE  ActiveIsPlanned'
  BY <1>4 DEF Forget, ActiveIsPlanned, TableOK, Task
<1>5. ASSUME NEW v \in Task, Stop(v) PROVE ActiveIsPlanned'
  BY <1>4, <1>5 DEF Stop, TableOK
<1>6. ASSUME NEW v \in Task, Resume(v) PROVE ActiveIsPlanned'
  BY <1>6, WrittenPlanned DEF Resume, TableOK
<1>7. ASSUME NEW p \in Handler, Requeue(p) PROVE ActiveIsPlanned'
  <2>1. PICK v \in NextOff(p) : SetNextRun(v, PutOff(p, v))
    BY <1>7 DEF Requeue
  <2>2. v \in Task /\ PutOff(p, v) \in Nat
    BY PutOffPositive DEF NextOff
  <2> QED
    BY <1>7, <2>1, <2>2, WrittenPlanned DEF Requeue
<1>8. ASSUME NEW p \in Handler, UpdateCron(p) \/ Rescue(p) PROVE ActiveIsPlanned'
  <2>1. cur[p] \in Cron /\ SetNextRun(cur[p], Period[cur[p]]) /\ UNCHANGED status
    BY <1>8 DEF UpdateCron, Rescue, HandlerOK
  <2>2. cur[p] \in Task /\ Period[cur[p]] \in Nat
    BY <2>1, TimeAssumption DEF Task
  <2> QED
    BY <2>1, <2>2, WrittenPlanned
<1>9. ASSUME NEW p \in Handler, UpdateOneShot(p) PROVE ActiveIsPlanned'
  BY <1>4, <1>9, CurIsTask DEF UpdateOneShot, TableOK
<1>10. CASE Tools
  <2>1. ASSUME NEW p \in Mcp, NEW v \in Task, RunNow(p, v) PROVE UNCHANGED table
    BY <2>1 DEF RunNow
  <2> QED
    BY <1>1, <1>3, <1>5, <1>6, <1>10, <2>1 DEF Tools
<1>11. ASSUME NEW p \in Handler, Poll(p) \/ Crash(p) \/ Critical PROVE UNCHANGED table
  BY <1>11 DEF Poll, NotNow, GoAhead, Start, Critical, Crash
<1>12. ASSUME NEW p \in Handler, Fire(p) PROVE ActiveIsPlanned'
  <2>1. CASE Accept(p) \/ PostThrows(p) \/ UpdateFails(p) \/ RescueFails(p)
              \/ Chain(p) \/ ChainFails(p) \/ RequeueFails(p)
    BY <1>1, <2>1 DEF Accept, PostThrows, UpdateFails, RescueFails, Chain, ChainFails, RequeueFails
  <2> QED
    BY <1>12, <1>7, <1>8, <1>9, <2>1 DEF Fire
<1>13. Api \in Handler
  BY DEF Handler
<1> QED
  BY <1>1, <1>2, <1>10, <1>11, <1>12, <1>13 DEF Next

\* Whatever fails, an active cron or delayed task stays in the sight of the polls.
THEOREM NobodyIsForgotten == Spec => []ActiveIsPlanned
<1>1. Init => ActiveIsPlanned
  BY DEF Init, ActiveIsPlanned, Task
<1>2. TypeOK /\ ActiveIsPlanned /\ [Next]_vars => ActiveIsPlanned'
  <2>1. ASSUME ActiveIsPlanned, UNCHANGED vars PROVE ActiveIsPlanned'
    BY <2>1 DEF vars, table, ActiveIsPlanned
  <2> QED
    BY <2>1, PlannedStep
<1> QED
  BY <1>1, <1>2, TypeInvariant, PTL DEF Spec
=============================================================================
