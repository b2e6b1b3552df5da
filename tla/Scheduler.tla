------------------------------ MODULE Scheduler ------------------------------
(***************************************************************************)
(* The table os_scheduled_tasks and everyone who works on it:              *)
(*   - services/schedulerPollerService.js, the poller inside the API;      *)
(*   - mcp-servers/scheduler/index.js, one process per live session and    *)
(*     per fork, with the tools that write tasks and a poller of its own.  *)
(*                                                                         *)
(* A poller reads the due tasks with a plain SELECT, asks whether the      *)
(* session is busy, posts the first task to it and writes the task back;   *)
(* nothing marks a task as taken in between.                               *)
(*                                                                         *)
(* Time goes in ticks of POLL_INTERVAL_MS.  A task's next_run_at is the    *)
(* number of ticks it is away, and a relation that orders all of them.     *)
(***************************************************************************)
EXTENDS Integers, FiniteSets

CONSTANTS
  Cron, Delayed, Chained,   \* the tasks by type
  Parent,                   \* chain_after
  Period,                   \* ticks between two runs of a cron
  Essential,                \* ESSENTIAL_CRON_NAMES
  Api,                      \* the poller inside the API
  Mcp,                      \* polls and tools of the MCP processes at one time
  Nothing,                  \* no task
  Never,                    \* next_run_at IS NULL
  Hour,                     \* ticks of an hour
  SlowDb,                   \* a statement of the API's poller may last for ticks
  MaxDelay,                 \* bound: ticks a one-shot is created ahead; 0: for now or a time past
  MaxPoll,                  \* bound: polls of MCP processes
  MaxEdit,                  \* bound: uses of cancel, pause, resume and run_now
  MaxFault                  \* bound: failed calls and restarts

\* The 60 seconds of the API's put-off
Minute == 2

Task    == Cron \union Delayed \union Chained
Handler == {Api} \union Mcp
Ticks   == Nat \union {Never}

ASSUME TaskAssumption ==
  /\ Cron \intersect Delayed = {} /\ Cron \intersect Chained = {}
  /\ Delayed \intersect Chained = {} /\ Nothing \notin Task
  /\ Essential \subseteq Cron
  /\ Parent \in [Chained -> Delayed \union Chained]
ASSUME HandlerAssumption == Api \notin Mcp
ASSUME TimeAssumption ==
  /\ Period \in [Cron -> Nat \ {0}] /\ Hour \in Nat \ {0} /\ Never \notin Nat
  /\ SlowDb \in BOOLEAN
ASSUME BoundAssumption ==
  /\ MaxDelay \in Nat /\ MaxPoll \in Nat /\ MaxEdit \in Nat /\ MaxFault \in Nat

VARIABLES
  (* the table *)
  status,     \* absent, active, completed; stopped: paused or cancelled
  wait,       \* ticks until next_run_at, 0 when it is past
  before,     \* the pairs of tasks whose next_run_at are in this order
  (* the handlers *)
  pc,         \* idle, post, update, rescue, chain, requeue
  due,        \* the tasks read by the poll and still to deal with
  sight,      \* their order as the poll read it
  cur,        \* the task fireTask works on
  todo,       \* the chained tasks it has read
  put,        \* ticks by which the rest is put off
  armed,      \* the API's timer has run out
  (* what the properties need *)
  fired,      \* posts the session accepted since the task became due, up to 2
  excused,    \* tasks hit by a fault, an edit or two handlers at once
  polls, edits, faults

table    == <<status, wait, before>>
handlers == <<pc, due, sight, cur, todo, put>>
counts   == <<polls, edits, faults>>
vars     == <<table, handlers, armed, fired, excused, counts>>

Init ==
  /\ status = [t \in Task |-> "absent"]
  /\ wait   = [t \in Task |-> Never]
  /\ before = {}
  /\ pc     = [p \in Handler |-> "idle"]
  /\ due    = [p \in Handler |-> {}]
  /\ sight  = [p \in Handler |-> {}]
  /\ cur    = [p \in Handler |-> Nothing]
  /\ todo   = [p \in Handler |-> {}]
  /\ put    = [p \in Handler |-> 0]
  /\ armed  = TRUE
  /\ fired  = [t \in Task |-> 0]
  /\ excused = {}
  /\ polls = 0 /\ edits = 0 /\ faults = 0

-----------------------------------------------------------------------------
(* Statements on the table.                                                *)

\* WHERE status = 'active' AND next_run_at IS NOT NULL AND next_run_at <= now
DueNow == {t \in Task : wait[t] = 0}

\* The order after next_run_at of t is set to d ticks from now, behind the tasks
\* of S in that tick and in front of the others.
PlacedBehind(t, d, S) ==
  LET others == {u \in Task \ {t} : wait[u] # Never}
  IN  {b \in before : b[1] # t /\ b[2] # t}
        \union {<<u, t>> : u \in {u \in others : wait[u] < d \/ u \in S}}
        \union {<<t, u>> : u \in {u \in others : wait[u] >= d /\ u \notin S}}

InTick(d) == {u \in Task : wait[u] = d}

\* Mutant: in front of the tasks that are due at the same time.
PlacedInFront(t, d) == PlacedBehind(t, d, {})

\* Behind every task that is due no later, because that one was written earlier.
Placed(t, d) == PlacedBehind(t, d, InTick(d))

\* SET next_run_at = now + d.  The next_run_at of a task that is not active is
\* never read, and set anew when the task becomes active: it counts as Never.
SetNextRun(t, d) ==
  IF status'[t] = "active"
  THEN wait' = [wait EXCEPT ![t] = d] /\ before' = Placed(t, d)
  ELSE UNCHANGED <<wait, before>>

Forget(t) ==
  /\ wait' = [wait EXCEPT ![t] = Never]
  /\ before' = {b \in before : b[1] # t /\ b[2] # t}

\* The task of S with the earliest next_run_at
FirstOf(S) == {t \in S : \A u \in S : <<u, t>> \notin before}

Children(t) == {c \in Chained : Parent[c] = t}

\* A call fails or a process ends, which excuses the tasks of S.
Fault(S) ==
  /\ faults < MaxFault /\ faults' = faults + 1
  /\ excused' = excused \union S

-----------------------------------------------------------------------------
(* The tools of the MCP server that write tasks.                           *)

\* A time given to schedule_delayed is anywhere in its tick; any time in the past
\* is in the tick of now, maybe in front of what has long been due.
CreateAt(t, d) ==
  /\ wait' = [wait EXCEPT ![t] = d]
  /\ \E S \in SUBSET InTick(d) :
       /\ \A u \in S, v \in InTick(d) : <<v, u>> \in before => v \in S
       /\ before' = PlacedBehind(t, d, S)

\* schedule_cron, schedule_delayed, schedule_chain
Create(t) ==
  /\ status[t] = "absent"
  /\ status' = [status EXCEPT ![t] = "active"]
  /\ \/ t \in Cron /\ SetNextRun(t, Period[t]) /\ UNCHANGED excused
     \/ t \in Delayed /\ (\E d \in 0 .. MaxDelay : CreateAt(t, d)) /\ UNCHANGED excused
     \/ /\ t \in Chained /\ UNCHANGED <<wait, before>>
        /\ status[Parent[t]] # "absent"
        /\ excused' = IF status[Parent[t]] = "completed"
                      THEN excused \union {t} ELSE excused
  /\ UNCHANGED <<handlers, armed, fired, counts>>

CanEdit(t) == status[t] # "absent" /\ edits < MaxEdit /\ edits' = edits + 1

\* schedule_cancel, schedule_pause: UPDATE ... WHERE id = ..., whatever the status
Stop(t) ==
  /\ CanEdit(t)
  /\ status' = [status EXCEPT ![t] = "stopped"]
  /\ Forget(t)
  /\ UNCHANGED <<handlers, armed, fired, excused, polls, faults>>

\* schedule_resume: active, and due now
Resume(t) ==
  /\ CanEdit(t)
  /\ status' = [status EXCEPT ![t] = "active"]
  /\ SetNextRun(t, 0)
  /\ excused' = excused \union {t}
  /\ UNCHANGED <<handlers, armed, fired, polls, faults>>

\* schedule_run_now: fireTask in the MCP process, whatever the status
RunNow(p, t) ==
  /\ p \in Mcp /\ pc[p] = "idle"
  /\ CanEdit(t)
  /\ pc' = [pc EXCEPT ![p] = "post"]
  /\ cur' = [cur EXCEPT ![p] = t]
  /\ excused' = excused \union {t}
  /\ UNCHANGED <<table, due, sight, todo, put, armed, fired, polls, faults>>

-----------------------------------------------------------------------------
(* pollOnce.  The SELECT and the two questions after it (isSessionBusy,     *)
(* getEnergy) are one step: the questions touch nothing of the table.       *)

\* What handler p is going to post, or has posted and not written back
Firing(p)  == todo[p] \union {cur[p]}
InHand     == UNION {Firing(q) : q \in Handler}
Others(p)  == UNION {Firing(q) : q \in Handler \ {p}}

\* The API polls when its timer has run out, an MCP process every now and then.
Wakes(p) ==
  /\ pc[p] = "idle"
  /\ IF p = Api THEN armed /\ armed' = FALSE /\ UNCHANGED polls
                ELSE polls < MaxPoll /\ polls' = polls + 1 /\ UNCHANGED armed

\* Nothing is due, or the session is busy: the poll is over, the tasks stay due.
NotNow(p) ==
  /\ Wakes(p)
  /\ UNCHANGED <<table, handlers, fired, excused, edits, faults>>

\* fireTask(t); the crons of `rest` are put off afterwards, by d ticks.
Start(p, t, rest, d) ==
  /\ pc' = [pc EXCEPT ![p] = "post"]
  /\ cur' = [cur EXCEPT ![p] = t]
  /\ due' = [due EXCEPT ![p] = rest]
  /\ sight' = [sight EXCEPT ![p] = {b \in before : b[1] \in rest /\ b[2] \in rest}]
  /\ put' = [put EXCEPT ![p] = IF rest = {} THEN 0 ELSE d]
  /\ excused' = excused \union ({t} \intersect Others(p))
  /\ UNCHANGED <<table, todo, fired, edits, faults>>

\* Fire the first; the other crons are put off by a minute (in an MCP
\* process by a whole period).
GoAhead(p) ==
  /\ Wakes(p)
  /\ \E t \in FirstOf(DueNow) : Start(p, t, (DueNow \intersect Cron) \ {t}, Minute)

\* Energy is critical, which only the API's poller asks about: fire the first
\* essential cron and leave the rest alone, or put every cron off by an hour.
Critical ==
  /\ Wakes(Api)
  /\ \/ \E t \in FirstOf(DueNow \intersect Essential) : Start(Api, t, {}, 0)
     \/ /\ DueNow # {} /\ DueNow \intersect Essential = {}
        /\ DueNow \intersect Cron # {}
        /\ pc' = [pc EXCEPT ![Api] = "requeue"]
        /\ due' = [due EXCEPT ![Api] = DueNow \intersect Cron]
        /\ sight' = [sight EXCEPT ![Api] =
                       {b \in before : b[1] \in DueNow \intersect Cron
                                     /\ b[2] \in DueNow \intersect Cron}]
        /\ put' = [put EXCEPT ![Api] = Hour]
        /\ UNCHANGED <<table, cur, todo, fired, excused, edits, faults>>

\* Mutant: the API, too, puts a cron off by a whole period.
PutOffByPeriod(p, t) == Period[t]

PutOff(p, t) == IF p = Api THEN put[p] ELSE Period[t]

\* The crons of S are still to be put off; with none left the poll is over.
GoOn(p, S) ==
  /\ pc' = [pc EXCEPT ![p] = IF S = {} THEN "idle" ELSE "requeue"]
  /\ due' = [due EXCEPT ![p] = S]
  /\ sight' = [sight EXCEPT ![p] = {b \in @ : b[1] \in S /\ b[2] \in S}]
  /\ put' = [put EXCEPT ![p] = IF S = {} THEN 0 ELSE @]

\* The first of the crons in due, as the poll read them
NextOff(p) == {t \in due[p] : \A u \in due[p] : <<u, t>> \notin sight[p]}

\* One UPDATE of next_run_at for each cron that was not fired; a failure is
\* swallowed in the API and ends the poll in an MCP process.
Requeue(p) ==
  /\ pc[p] = "requeue"
  /\ UNCHANGED status
  /\ \E t \in NextOff(p) : SetNextRun(t, PutOff(p, t)) /\ GoOn(p, due[p] \ {t})
  /\ UNCHANGED <<cur, todo, armed, fired, excused, counts>>

RequeueFails(p) ==
  /\ pc[p] = "requeue"
  /\ Fault({})
  /\ \E t \in NextOff(p) : GoOn(p, IF p = Api THEN due[p] \ {t} ELSE {})
  /\ UNCHANGED <<table, cur, todo, armed, fired, polls, edits>>

-----------------------------------------------------------------------------
(* fireTask                                                                *)

\* fireTask(cur) returns: on with one of the chained tasks in C, or, when there
\* is none, with the crons in S.
Return(p, C, S) ==
  \/ \E c \in C :
       /\ pc' = [pc EXCEPT ![p] = "post"]
       /\ cur' = [cur EXCEPT ![p] = c]
       /\ todo' = [todo EXCEPT ![p] = C \ {c}]
       /\ UNCHANGED <<due, sight, put>>
  \/ /\ C = {}
     /\ cur' = [cur EXCEPT ![p] = Nothing]
     /\ GoOn(p, S)
     /\ UNCHANGED todo

\* The catch: a cron gets its next run, a one-shot is left as it is.
Catch(p) ==
  \/ /\ cur[p] \in Cron
     /\ pc' = [pc EXCEPT ![p] = "rescue"]
     /\ UNCHANGED <<due, sight, cur, todo, put>>
  \/ cur[p] \notin Cron /\ Return(p, todo[p], due[p])

CountShot(t) == fired' = [fired EXCEPT ![t] = IF @ = 2 THEN 2 ELSE @ + 1]

\* POST /api/os-session/message answers; res.ok is not looked at.
Accept(p) ==
  /\ pc[p] = "post"
  /\ CountShot(cur[p])
  /\ pc' = [pc EXCEPT ![p] = "update"]
  /\ UNCHANGED <<table, due, sight, cur, todo, put, armed, excused, counts>>

\* It throws: the message did not arrive, or it did and the answer did not.
PostThrows(p) ==
  /\ pc[p] = "post"
  /\ \/ Fault({cur[p]}) /\ CountShot(cur[p])
     \/ Fault({cur[p]} \intersect Chained) /\ UNCHANGED fired
  /\ Catch(p)
  /\ UNCHANGED <<table, armed, polls, edits>>

\* Mutant: the next run of a cron is counted from its last one, not from now.
UpdateCronFromLast(p) ==
  /\ pc[p] = "update" /\ cur[p] \in Cron
  /\ UNCHANGED table
  /\ Return(p, todo[p], due[p])
  /\ UNCHANGED <<armed, fired, excused, counts>>

\* UPDATE ... SET next_run_at = the next run of the cron
UpdateCron(p) ==
  /\ pc[p] = "update" /\ cur[p] \in Cron
  /\ UNCHANGED status
  /\ SetNextRun(cur[p], Period[cur[p]])
  /\ Return(p, todo[p], due[p])
  /\ UNCHANGED <<armed, fired, excused, counts>>

\* Mutant: the UPDATE of a one-shot does not set its status.
UpdateKeepsStatus(p) ==
  /\ pc[p] = "update" /\ cur[p] \notin Cron
  /\ pc' = [pc EXCEPT ![p] = "chain"]
  /\ UNCHANGED <<table, due, sight, cur, todo, put, armed, fired, excused, counts>>

\* UPDATE ... SET status = 'completed', whatever the status
UpdateOneShot(p) ==
  /\ pc[p] = "update" /\ cur[p] \notin Cron
  /\ status' = [status EXCEPT ![cur[p]] = "completed"]
  /\ Forget(cur[p])
  /\ pc' = [pc EXCEPT ![p] = "chain"]
  /\ UNCHANGED <<due, sight, cur, todo, put, armed, fired, excused, counts>>

UpdateFails(p) ==
  /\ pc[p] = "update"
  /\ Fault({cur[p]})
  /\ Catch(p)
  /\ UNCHANGED <<table, armed, fired, polls, edits>>

\* The UPDATE in the catch; it may fail too, which ends the poll of an MCP process.
Rescue(p) ==
  /\ pc[p] = "rescue"
  /\ UNCHANGED status
  /\ SetNextRun(cur[p], Period[cur[p]])
  /\ Return(p, todo[p], due[p])
  /\ UNCHANGED <<armed, fired, excused, counts>>

RescueFails(p) ==
  /\ pc[p] = "rescue"
  /\ Fault({})
  /\ Return(p, todo[p], IF p = Api THEN due[p] ELSE {})
  /\ UNCHANGED <<table, armed, fired, polls, edits>>

\* Mutant: only one of the chained tasks is fired.
ChainOne(p) ==
  /\ pc[p] = "chain"
  /\ LET read == {c \in Chained : Parent[c] = cur[p] /\ status[c] = "active"} IN
     \/ read = {} /\ Return(p, todo[p], due[p])
     \/ \E c \in read : Return(p, todo[p] \union {c}, due[p])
  /\ UNCHANGED <<table, armed, fired, excused, counts>>

\* SELECT ... WHERE chain_after = cur AND status = 'active', then one by one
Chain(p) ==
  /\ pc[p] = "chain"
  /\ LET read == {c \in Chained : Parent[c] = cur[p] /\ status[c] = "active"} IN
     /\ excused' = excused \union (read \intersect (Others(p) \union todo[p]))
     /\ Return(p, todo[p] \union read, due[p])
  /\ UNCHANGED <<table, armed, fired, counts>>

ChainFails(p) ==
  /\ pc[p] = "chain"
  /\ Fault(Children(cur[p]))
  /\ Return(p, todo[p], due[p])
  /\ UNCHANGED <<table, armed, fired, polls, edits>>

\* The process ends: the API restarts, or the session of an MCP process closes.
Crash(p) ==
  /\ pc[p] # "idle"
  /\ Fault(todo[p] \union (IF pc[p] = "chain" THEN Children(cur[p])
                           ELSE {cur[p]} \ {Nothing}))
  /\ pc'    = [pc    EXCEPT ![p] = "idle"]
  /\ due'   = [due   EXCEPT ![p] = {}]
  /\ sight' = [sight EXCEPT ![p] = {}]
  /\ cur'   = [cur   EXCEPT ![p] = Nothing]
  /\ todo'  = [todo  EXCEPT ![p] = {}]
  /\ put'   = [put   EXCEPT ![p] = 0]
  /\ UNCHANGED <<table, armed, fired, polls, edits>>

-----------------------------------------------------------------------------

\* A task whose time comes starts with no fires; what excused it before does
\* not count any more unless a handler still works on it.
ComesDue == {t \in Task : wait[t] = 1}

\* POLL_INTERVAL_MS pass.  The API's timer is set when a poll has ended, so
\* time does not pass it by: a poll that the timer owes comes first.
Tick ==
  /\ ~(armed /\ pc[Api] = "idle")
  /\ SlowDb \/ pc[Api] \in {"idle", "post"}
  /\ armed' = (pc[Api] = "idle")
  /\ wait' = [t \in Task |-> IF wait[t] \in {0, Never} THEN wait[t] ELSE wait[t] - 1]
  /\ fired' = [t \in Task |-> IF t \in ComesDue \ InHand THEN 0 ELSE fired[t]]
  /\ excused' = excused \ (ComesDue \ InHand)
  /\ UNCHANGED <<status, before, handlers, counts>>

Poll(p) == NotNow(p) \/ GoAhead(p)

Fire(p) ==
  \/ Accept(p) \/ PostThrows(p)
  \/ UpdateCron(p) \/ UpdateOneShot(p) \/ UpdateFails(p)
  \/ Rescue(p) \/ RescueFails(p) \/ Chain(p) \/ ChainFails(p)
  \/ Requeue(p) \/ RequeueFails(p)

Tools ==
  \/ \E t \in Task : Create(t) \/ Stop(t) \/ Resume(t)
  \/ \E p \in Mcp, t \in Task : RunNow(p, t)

Next ==
  \/ Tick \/ Tools \/ Critical
  \/ \E p \in Handler : Poll(p) \/ Fire(p) \/ Crash(p)

Spec == Init /\ [][Next]_vars

\* Time passes, the API's poller runs, and the session is not busy nor the
\* energy critical at every poll that has task t in front.
Fairness ==
  /\ WF_vars(Tick)
  /\ WF_vars(NotNow(Api) \/ GoAhead(Api) \/ Critical)
  /\ \A t \in Task : SF_vars(GoAhead(Api) /\ cur'[Api] = t)
  /\ WF_vars(Fire(Api))

FairSpec == Spec /\ Fairness

-----------------------------------------------------------------------------
(* Properties                                                              *)

HandlerOK ==
  /\ pc \in [Handler -> {"idle", "post", "update", "rescue", "chain", "requeue"}]
  /\ due \in [Handler -> SUBSET Cron]
  /\ sight \in [Handler -> SUBSET (Task \X Task)]
  /\ cur \in [Handler -> Task \union {Nothing}]
  /\ todo \in [Handler -> SUBSET Chained]
  /\ put \in [Handler -> Nat]
  /\ \A p \in Handler :
       /\ cur[p] # Nothing <=> pc[p] \in {"post", "update", "rescue", "chain"}
       /\ pc[p] = "rescue" => cur[p] \in Cron
       /\ pc[p] = "chain" => cur[p] \notin Cron
       /\ cur[p] = Nothing => todo[p] = {}
       /\ due[p] # {} => pc[p] # "idle" /\ put[p] # 0

\* The tasks with a next_run_at are the ones in the order, which is total and
\* agrees with the ticks.
OrderOK ==
  /\ before \in SUBSET (Task \X Task)
  /\ \A t, u \in Task :
       /\ <<t, u>> \in before => wait[t] # Never /\ wait[u] # Never /\ wait[t] <= wait[u]
       /\ t # u /\ wait[t] # Never /\ wait[u] # Never
            => (<<t, u>> \in before <=> <<u, t>> \notin before)

\* Every variable has its type; a handler's variables fit the step it is at,
\* and only active tasks have a next_run_at.
TypeOK ==
  /\ status \in [Task -> {"absent", "active", "stopped", "completed"}]
  /\ wait \in [Task -> Ticks]
  /\ OrderOK
  /\ \A t \in Task : wait[t] # Never => status[t] = "active"
  /\ HandlerOK
  /\ armed \in BOOLEAN
  /\ fired \in [Task -> 0 .. 2]
  /\ excused \subseteq Task
  /\ polls \in 0 .. MaxPoll /\ edits \in 0 .. MaxEdit /\ faults \in 0 .. MaxFault

\* A task is posted to the session at most once each time it becomes due,
\* unless two handlers had it in hand at once, a call on it failed, or
\* someone resumed it or ran it by hand: the UPDATE after the post always
\* takes it out of the next poll's sight.
OneFirePerSlot == \A t \in Task : fired[t] = 2 => t \in excused

OnTheWay(c) ==
  \E p \in Handler :
    \/ pc[p] = "chain" /\ cur[p] = Parent[c]
    \/ c \in todo[p]
    \/ pc[p] \in {"post", "update"} /\ cur[p] = c

\* A chained task, which no poll can see, is never left behind: once the task
\* it waits for is completed, some handler is on the way to it, unless a call
\* failed on that way or it was created too late.
NoStrandedChain ==
  \A c \in Chained :
    status[c] = "active" /\ wait[c] = Never /\ status[Parent[c]] = "completed"
      => c \in excused \/ OnTheWay(c)

Fires(t) == \E p \in Handler : cur[p] = t /\ pc[p] = "post" /\ pc'[p] = "update"

\* At most two crons, each of a longer period than the put-off.  Among more, the
\* put-offs may starve one for good: two others always due at the polls it is due at.
FewCrons == Cardinality(Cron) <= 2 /\ \A t \in Cron : Period[t] > Minute

\* Of two crons each keeps firing while it stays active, although a poll fires only
\* one task and puts the crons behind it off: neither the other cron nor the delayed
\* tasks, calls that fail or a session that is busy now and then starve it.
DueCronFires ==
  \A t \in Cron : FewCrons =>
    (<>[](status[t] = "active") => []<><<Fires(t)>>_vars)

\* A delayed task does not stay active for good: put-offs never touch it, so
\* it reaches the head of the order.
DelayedSettles == \A t \in Delayed : status[t] = "active" ~> status[t] # "active"

-----------------------------------------------------------------------------
(* What DueCronFires and DelayedSettles rest on                            *)

Ahead(t) == {u \in Task : <<u, t>> \in before}

\* Nothing overtakes a task that is due but a delayed task created with a time in
\* the past: whatever else is created, put off, fired and resumed, the tasks in
\* front of it in a poll's order never become more, and only a cron is put off
\* while it is active.  (Resuming a task that is due puts it at the end.)
DueIsNotOvertaken ==
  [][\A t \in Task : wait[t] = 0 /\ status'[t] = "active" /\ ~Resume(t) =>
       /\ wait'[t] = 0 =>
            Ahead(t)' \subseteq Ahead(t) \union {u \in Delayed : status[u] = "absent"}
       /\ t \notin Cron => wait'[t] = 0]_vars

\* A cron or delayed task that is active has a next_run_at, so that a poll will find
\* it, whichever of its statements failed.
ActiveIsPlanned == \A t \in Cron \union Delayed : status[t] = "active" => wait[t] # Never

-----------------------------------------------------------------------------
(* The inductive invariant                                                 *)

\* A task that was never created is nowhere.
AbsentInv ==
  \A t \in Task :
    status[t] = "absent" => fired[t] = 0 /\ \A p \in Handler : t \notin Firing(p)

\* A task without excuse is in at most one hand, and only once.
OneHand(t) ==
  /\ \A p, q \in Handler : t \in Firing(p) /\ t \in Firing(q) => p = q
  /\ \A p \in Handler : cur[p] = t => t \notin todo[p]

\* What it looks like between the post and the write that ends its turn
Posted(t) ==
  /\ fired[t] # 2
  /\ \A p \in Handler :
       cur[p] = t => /\ pc[p] = "rescue" => fired[t] = 0
                     /\ pc[p] = "chain" => wait[t] = Never
  /\ fired[t] # 0 =>
       /\ \A p \in Handler : t \notin todo[p] /\ ~(cur[p] = t /\ pc[p] = "post")
       /\ wait[t] = 0 \/ (t \in Chained /\ status[t] = "active")
            => \E p \in Handler : cur[p] = t /\ pc[p] = "update"

ShotInv == \A t \in Task \ excused : OneHand(t) /\ Posted(t)

SchedulerInv == TypeOK /\ AbsentInv /\ ShotInv /\ NoStrandedChain

=============================================================================
