--------------------------- MODULE FactoryRunner ---------------------------
(***************************************************************************)
(* The sessions of the Factory: the process ecodia-factory                 *)
(* (workers/factoryRunner.js), the rows of cc_sessions that it keeps, and  *)
(* the channels by which the API commands it and hears of its results.     *)
(*                                                                         *)
(* A call is one startSession or resumeSession; it spawns at most one      *)
(* process of the command line client, and what the runner keeps of that   *)
(* process (sessionData) has the number of the call.  Every statement on   *)
(* the row is a step of its own.  The client is environment: it speaks,    *)
(* falls silent, ends or is killed as it likes, and need not obey SIGTERM. *)
(***************************************************************************)
EXTENDS Integers

CONSTANTS
  Session,   \* rows of cc_sessions
  MaxCall,   \* bound: calls of startSession and resumeSession
  MaxOrder,  \* bound: messages, resumes and stops that the API sends
  MaxDown,   \* bound: times the runner goes down
  MaxFault   \* bound: failed statements

ASSUME BoundAssumption ==
  Session # {} /\ MaxCall \in Nat /\ MaxOrder \in Nat /\ MaxDown \in Nat /\ MaxFault \in Nat

VARIABLES
  (* the rows *)
  status,    \* absent, initializing, running, completing, complete, error, paused, stopped
  cli,       \* rows with a cc_cli_session_id
  sent,      \* rows whose id is on its way to them: nobody waits for that update, either
  beat,      \* young: no heartbeat yet; fresh; old: old enough for the clean-up
  (* the runner *)
  phase,     \* up, stopping (gracefulShutdown), down
  tracked,   \* activeSessions: the call whose process a session has, or None
  calls,     \* calls so far
  of,        \* the session of a call
  kind,      \* start, resume
  pc,        \* idle, status, context | read, locate, mark, beat | open, failed
  proc,      \* none, live, zero, code, signal, nospawn: how the process ended
  known,     \* calls whose process has told its id (sessionData.ccCliSessionId)
  killed,    \* process.killed: SIGTERM was sent
  stopped,   \* sessionData.stopped
  timer,     \* calls whose heartbeat timer is set
  close,     \* none, drain, record, retry, publish, published, reviewed, quiet, unheard
  pending,   \* updates on their way that no call waits for: <<session, what>>
  (* the API *)
  read,      \* the status that the API reads when it hears of a call's end
  (* what the properties need *)
  meddled,   \* sessions that met an overlap, a stop, a verdict of the watchdog or a fault
  orders, downs, faults

client  == <<cli, sent>>
row     == <<status, client, beat>>
runner  == <<phase, tracked, calls, of, kind, pc, proc, known, killed, stopped, timer, close>>
bounds  == <<orders, downs, faults>>
vars    == <<row, runner, pending, read, meddled, bounds>>

Call == 1 .. MaxCall
None == 0
Active == {"initializing", "running", "completing"}
Rest == {"complete", "error", "paused", "stopped"}

Init ==
  /\ status = [s \in Session |-> "absent"] /\ cli = {} /\ sent = {}
  /\ beat = [s \in Session |-> "young"]
  /\ phase = "up" /\ tracked = [s \in Session |-> None] /\ calls = 0
  /\ of = [c \in Call |-> CHOOSE s \in Session : TRUE] /\ kind = [c \in Call |-> "start"]
  /\ pc = [c \in Call |-> "idle"] /\ proc = [c \in Call |-> "none"]
  /\ known = {} /\ killed = {} /\ stopped = {} /\ timer = {}
  /\ close = [c \in Call |-> "none"]
  /\ pending = {} /\ read = [c \in Call |-> "absent"]
  /\ meddled = {}
  /\ orders = 0 /\ downs = 0 /\ faults = 0

\* A statement on the row of s fails.
Fault(s) ==
  /\ faults < MaxFault
  /\ faults' = faults + 1
  /\ meddled' = meddled \union {s}

NoFault == UNCHANGED <<faults, meddled>>

Ended(c) == proc[c] \notin {"none", "live"}

\* Nothing is under way for the session in either process (the id of its client
\* aside).
AtRest(s) ==
  /\ tracked[s] = None
  /\ \A p \in pending : p[1] # s
  /\ \A c \in 1 .. calls : of[c] = s =>
       /\ pc[c] \in {"open", "failed"}
       /\ proc[c] # "live"
       /\ close[c] \in {"reviewed", "quiet"} \union (IF proc[c] = "none" THEN {"none"} ELSE {})

\* A channel message starts a handler; it is lost on a runner that is down.
Begin(k, s) ==
  /\ calls < MaxCall
  /\ calls' = calls + 1
  /\ of'    = [of EXCEPT ![calls'] = s]
  /\ kind'  = [kind EXCEPT ![calls'] = k]
  /\ pc'    = [pc EXCEPT ![calls'] = IF k = "start" THEN "status" ELSE "read"]

-----------------------------------------------------------------------------
(* startSession.                                                           *)

\* createAndStartSession: INSERT, then publish.  Without a client of Redis the
\* row is closed again.  (A row of the watchdog's is started in the same way.)
Request(s) ==
  /\ status[s] = "absent"
  /\ \/ /\ phase # "down"
        /\ Begin("start", s)
        /\ status' = [status EXCEPT ![s] = "initializing"]
     \/ /\ phase = "down"
        /\ status' = [status EXCEPT ![s] = "initializing"]
        /\ UNCHANGED <<calls, of, kind, pc>>
     \/ /\ status' = [status EXCEPT ![s] = "error"]
        /\ UNCHANGED <<calls, of, kind, pc>>
  /\ UNCHANGED <<client, beat, phase, tracked, proc, known, killed, stopped, timer, close, pending,
                 read, meddled, bounds>>

Started(c) ==
  /\ pc[c] = "status"
  /\ status' = [status EXCEPT ![of[c]] = "running"]
  /\ pc' = [pc EXCEPT ![c] = "context"]
  /\ UNCHANGED <<client, beat, phase, tracked, calls, of, kind, proc, known, killed, stopped, timer,
                 close, pending, read, meddled, bounds>>

\* An error before the process is there: the handler of the channel writes the
\* row without waiting, and publishes.
StartFails(c) ==
  /\ pc[c] \in {"status", "context"}
  /\ Fault(of[c])
  /\ pc' = [pc EXCEPT ![c] = "failed"]
  /\ close' = [close EXCEPT ![c] = "published"]
  /\ pending' = pending \union {<<of[c], "error">>}
  /\ UNCHANGED <<row, phase, tracked, calls, of, kind, proc, known, killed, stopped, timer, read,
                 orders, downs>>

\* The context, the worktree and the account are ready, however long it took.
Spawn(c) ==
  /\ pc[c] = "context"
  /\ proc' = [proc EXCEPT ![c] = "live"]
  /\ tracked' = [tracked EXCEPT ![of[c]] = c]
  /\ timer' = timer \union {c}
  /\ beat' = [beat EXCEPT ![of[c]] = "fresh"]
  /\ pc' = [pc EXCEPT ![c] = "open"]
  /\ UNCHANGED <<status, client, phase, calls, of, kind, known, killed, stopped, close, pending, read,
                 meddled, bounds>>

-----------------------------------------------------------------------------
(* sendMessage and resumeSession.  writeStdinSafe has ended the input of a  *)
(* process right after its prompt, so that sendMessage, too, resumes.       *)

Order == orders < MaxOrder /\ orders' = orders + 1

Resume(s) ==
  /\ Order
  /\ status[s] # "absent" /\ phase # "down"
  /\ Begin("resume", s)
  /\ meddled' = IF AtRest(s) THEN meddled ELSE meddled \union {s}
  /\ UNCHANGED <<row, phase, tracked, proc, known, killed, stopped, timer, close, pending, read,
                 downs, faults>>

\* Without the client's id there is nothing to resume.  Otherwise the process
\* that the session has is killed, but not marked as stopped.
Detach(c) ==
  /\ pc[c] = "read"
  /\ \/ /\ of[c] \notin cli
        /\ pc' = [pc EXCEPT ![c] = "failed"]
        /\ UNCHANGED <<tracked, killed, timer>>
     \/ /\ of[c] \in cli
        /\ pc' = [pc EXCEPT ![c] = "locate"]
        /\ killed' = killed \union ({tracked[of[c]]} \ {None})
        /\ timer' = timer \ {tracked[of[c]]}
        /\ tracked' = [tracked EXCEPT ![of[c]] = None]
  /\ UNCHANGED <<row, phase, calls, of, kind, proc, known, stopped, close, pending, read,
                 meddled, bounds>>

\* Mutant: the resumed process is not entered.
TrackedAtRespawnNot(c) == tracked

TrackedAtRespawn(c) == [tracked EXCEPT ![of[c]] = c]

Respawn(c) ==
  /\ pc[c] = "locate"
  /\ proc' = [proc EXCEPT ![c] = "live"]
  /\ tracked' = TrackedAtRespawn(c)
  /\ known' = known \union {c}
  /\ pc' = [pc EXCEPT ![c] = "mark"]
  /\ UNCHANGED <<row, phase, calls, of, kind, killed, stopped, timer, close, pending, read,
                 meddled, bounds>>

\* The row is marked while its last heartbeat may be an old one ...
Mark(c) ==
  /\ pc[c] = "mark"
  /\ \/ /\ NoFault
        /\ status' = [status EXCEPT ![of[c]] = "running"]
        /\ pc' = [pc EXCEPT ![c] = "beat"]
     \/ /\ Fault(of[c])
        /\ pc' = [pc EXCEPT ![c] = "failed"]
        /\ UNCHANGED status
  /\ UNCHANGED <<client, beat, phase, tracked, calls, of, kind, proc, known, killed, stopped, timer,
                 close, pending, read, orders, downs>>

\* ... and only then come the heartbeat, its timer and the handlers of the
\* process's events.
Beat(c) ==
  /\ pc[c] = "beat"
  /\ beat' = [beat EXCEPT ![of[c]] = "fresh"]
  /\ timer' = timer \union {c}
  /\ pc' = [pc EXCEPT ![c] = "open"]
  /\ UNCHANGED <<status, client, phase, tracked, calls, of, kind, proc, known, killed, stopped, close,
                 pending, read, meddled, bounds>>

-----------------------------------------------------------------------------
(* The process of the client.                                              *)

\* Its first line tells its id.  The line is read once its log is written, when
\* the process may have ended; the runner has the id at once, and the update of
\* the row is sent off.
Speak(c) ==
  /\ proc[c] # "nospawn" /\ pc[c] = "open" /\ c \notin known
  /\ proc[c] = "live" \/ close[c] \in {"none", "drain"}
  /\ known' = known \union {c}
  /\ sent' = sent \union {of[c]}
  /\ UNCHANGED <<status, cli, beat, phase, tracked, calls, of, kind, pc, proc, killed, stopped,
                 timer, close, pending, read, meddled, bounds>>

\* The id reaches the row, or its update fails.
WriteId(s) ==
  /\ s \in sent /\ sent' = sent \ {s}
  /\ \/ NoFault /\ cli' = cli \union {s}
     \/ Fault(s) /\ UNCHANGED cli
  /\ UNCHANGED <<status, beat, runner, pending, read, orders, downs>>

\* It ends with a result, with an error, by a signal, or was never there.
Exit(c) ==
  /\ proc[c] = "live"
  /\ \E how \in {"zero", "code", "signal", "nospawn"} :
       /\ how = "nospawn" => kind[c] = "start" /\ c \notin known
       /\ proc' = [proc EXCEPT ![c] = how]
  /\ UNCHANGED <<row, phase, tracked, calls, of, kind, pc, known, killed, stopped, timer, close,
                 pending, read, meddled, bounds>>

StatusAtClose(s) ==
  IF status[s] \in {"initializing", "running"} THEN [status EXCEPT ![s] = "completing"] ELSE status

\* The entry is deleted by the session's id, whichever process it is for.
TrackedAtEnd(s) == [tracked EXCEPT ![s] = None]

\* Mutant: the heartbeat goes on.
TimerAtEndKept(c) == timer

TimerAtEnd(c) == timer \ {c}

\* The handlers of 'close' and 'error'; they run once.
CloseEvent(c) ==
  /\ Ended(c) /\ pc[c] = "open" /\ close[c] = "none"
  /\ status' = StatusAtClose(of[c])
  /\ \/ /\ proc[c] # "nospawn"
        /\ close' = [close EXCEPT ![c] = "drain"]
        /\ UNCHANGED <<tracked, timer>>
     \/ /\ proc[c] = "nospawn"
        /\ close' = [close EXCEPT ![c] = "record"]
        /\ tracked' = TrackedAtEnd(of[c])
        /\ timer' = TimerAtEnd(c)
  /\ UNCHANGED <<client, beat, phase, calls, of, kind, pc, proc, known, killed, stopped, pending, read,
                 meddled, bounds>>

\* A resumed process that ends before its handlers are there is not heard.
Unheard(c) ==
  /\ Ended(c) /\ pc[c] \in {"mark", "beat", "failed"} /\ close[c] = "none"
  /\ close' = [close EXCEPT ![c] = "unheard"]
  /\ UNCHANGED <<row, phase, tracked, calls, of, kind, pc, proc, known, killed, stopped, timer,
                 pending, read, meddled, bounds>>

\* The output is read, or five seconds have passed.
Drained(c) ==
  /\ close[c] = "drain"
  /\ timer' = TimerAtEnd(c)
  /\ tracked' = TrackedAtEnd(of[c])
  /\ close' = [close EXCEPT ![c] = IF c \in stopped THEN "quiet" ELSE "record"]
  /\ UNCHANGED <<row, phase, calls, of, kind, pc, proc, known, killed, stopped, pending, read,
                 meddled, bounds>>

\* Mutant: a killed session counts as one to be resumed.
VerdictPaused(c) ==
  CASE proc[c] = "zero" -> "complete"
    [] proc[c] = "signal" -> "paused"
    [] OTHER -> "error"

\* Mutant: a session that told its id and ended has succeeded.
VerdictOfOutput(c) ==
  CASE proc[c] = "zero" \/ (proc[c] = "code" /\ c \in known) -> "complete"
    [] proc[c] = "signal" /\ c \in known -> "paused"
    [] OTHER -> "error"

Verdict(c) ==
  CASE proc[c] = "zero" -> "complete"
    [] proc[c] = "signal" /\ c \in known -> "paused"
    [] OTHER -> "error"

\* The result is written, and published unless the process was killed; after a
\* failure it is written once more, if the process was there, was not killed and
\* was not a resumed one.
Record(c) ==
  /\ close[c] \in {"record", "retry"}
  /\ \/ /\ NoFault
        /\ status' = [status EXCEPT ![of[c]] = Verdict(c)]
        /\ close' = [close EXCEPT ![c] = IF proc[c] = "signal" THEN "quiet" ELSE "publish"]
     \/ /\ Fault(of[c])
        /\ close' = [close EXCEPT ![c] =
             CASE close[c] = "retry" \/ (kind[c] = "resume" /\ proc[c] # "signal") -> "publish"
               [] proc[c] \in {"signal", "nospawn"} -> "quiet"
               [] OTHER -> "retry"]
        /\ UNCHANGED status
  /\ UNCHANGED <<client, beat, phase, tracked, calls, of, kind, pc, proc, known, killed, stopped,
                 timer,
                 pending, read, orders, downs>>

\* An API that is restarting does not hear it.
Publish(c) ==
  /\ close[c] = "publish"
  /\ close' = [close EXCEPT ![c] = "published"] \/ close' = [close EXCEPT ![c] = "quiet"]
  /\ UNCHANGED <<row, phase, tracked, calls, of, kind, pc, proc, known, killed, stopped, timer,
                 pending, read, meddled, bounds>>

\* The API reads the row anew; what the message said is only logged.
Review(c) ==
  /\ close[c] = "published"
  /\ close' = [close EXCEPT ![c] = "reviewed"]
  /\ read' = [read EXCEPT ![c] = status[of[c]]]
  /\ UNCHANGED <<row, phase, tracked, calls, of, kind, pc, proc, known, killed, stopped, timer,
                 pending, meddled, bounds>>

-----------------------------------------------------------------------------
(* Stop, watchdog, clean-up, shutdown.                                     *)

\* The route publishes the stop and writes the row itself; the runner writes it, too.
Stop(s) ==
  /\ Order
  /\ status[s] # "absent"
  /\ LET c == IF phase = "down" THEN None ELSE tracked[s]
     IN  /\ stopped' = stopped \union ({c} \ {None})
         /\ killed' = killed \union ({c} \ {None})
         /\ timer' = timer \ {c}
  /\ pending' = pending \union {<<s, "complete">>}
                        \union (IF phase = "down" THEN {} ELSE {<<s, "stopped">>})
  /\ meddled' = meddled \union {s}
  /\ UNCHANGED <<row, phase, tracked, calls, of, kind, pc, proc, known, close, read, downs,
                 faults>>

\* An update that was on its way reaches the row, or fails.
Write(s, what) ==
  /\ <<s, what>> \in pending
  /\ pending' = pending \ {<<s, what>>}
  /\ \/ NoFault /\ status' = [status EXCEPT ![s] = what]
     \/ Fault(s) /\ UNCHANGED status
  /\ UNCHANGED <<client, beat, runner, read, orders, downs>>

\* The process has an exit code, or was sent SIGTERM, which need not have ended
\* it.  (An end by a foreign signal leaves neither.)
WatchDead(s) ==
  /\ phase # "down" /\ tracked[s] # None
  /\ (proc[tracked[s]] \in {"zero", "code"} \/ tracked[s] \in killed)
  /\ tracked' = TrackedAtEnd(s)
  /\ timer' = timer \ {tracked[s]}
  /\ pending' = pending \union {<<s, IF tracked[s] \in known THEN "paused" ELSE "error">>}
  /\ meddled' = meddled \union {s}
  /\ UNCHANGED <<row, phase, calls, of, kind, pc, proc, known, killed, stopped, close, read,
                 bounds>>

\* Silent for five minutes: the process is killed, the row closed, and a new
\* row with its prompt is started.  A resumed session has no lastOutputAt and is
\* never found silent.
WatchStalled(s) ==
  /\ phase # "down" /\ tracked[s] # None /\ tracked[s] \notin killed
  /\ kind[tracked[s]] = "start" /\ proc[tracked[s]] \in {"live", "signal"}
  /\ stopped' = stopped \union {tracked[s]}
  /\ killed' = killed \union {tracked[s]}
  /\ timer' = timer \ {tracked[s]}
  /\ tracked' = TrackedAtEnd(s)
  /\ pending' = pending \union {<<s, "error">>}
  /\ meddled' = meddled \union {s}
  /\ UNCHANGED <<row, phase, calls, of, kind, pc, proc, known, close, read, bounds>>

\* Heartbeats stop when no timer sends them; a row that has had none ages by itself.
Age(s) ==
  /\ \/ beat[s] = "young" /\ status[s] # "absent"
     \/ beat[s] = "fresh" /\ \A c \in timer : of[c] # s
  /\ beat' = [beat EXCEPT ![s] = "old"]
  /\ UNCHANGED <<status, client, runner, pending, read, meddled, bounds>>

\* cleanupOrphanedSessions, at the start and every five minutes.  A close
\* handler does not take the ten minutes that 'completing' is given.
Cleanup(s) ==
  /\ phase = "up" /\ beat[s] = "old"
  /\ \/ /\ status[s] \in {"initializing", "running"}
        /\ status' = [status EXCEPT ![s] = IF s \in cli THEN "paused" ELSE "error"]
     \/ /\ status[s] = "completing"
        /\ \A c \in Call : of[c] = s => close[c] \notin {"drain", "record", "retry"}
        /\ status' = [status EXCEPT ![s] = "error"]
  /\ UNCHANGED <<client, beat, runner, pending, read, meddled, bounds>>

\* gracefulShutdown: every tracked session is to be paused ...
Shutdown ==
  /\ phase = "up" /\ downs < MaxDown
  /\ phase' = "stopping"
  /\ LET ids == {s \in Session : tracked[s] # None}
     IN  /\ stopped' = stopped \union {tracked[s] : s \in ids}
         /\ timer' = timer \ {tracked[s] : s \in ids}
         /\ pending' = pending \union {<<s, "paused">> : s \in ids}
         /\ meddled' = meddled \union ids
  /\ UNCHANGED <<row, tracked, calls, of, kind, pc, proc, known, killed, close, read, bounds>>

\* ... and killed when that is written.  (Only a shutdown leaves a process that is
\* stopped and not killed.)
KillPaused(c) ==
  /\ phase = "stopping" /\ c \in stopped \ killed /\ <<of[c], "paused">> \notin pending
  /\ killed' = killed \union {c}
  /\ tracked' = TrackedAtEnd(of[c])
  /\ UNCHANGED <<row, phase, calls, of, kind, pc, proc, known, stopped, timer, close,
                 pending, read, meddled, bounds>>

\* The runner ends, after its shutdown (which waits for 30 seconds) or at once.
\* Its processes end with it, and what it was about to write is lost; an update
\* of the API's is not.
Die ==
  /\ phase = "stopping" \/ (phase = "up" /\ downs < MaxDown)
  /\ phase' = "down" /\ downs' = downs + 1
  /\ sent' = {}
  /\ tracked' = [s \in Session |-> None]
  /\ known' = {} /\ killed' = {} /\ stopped' = {} /\ timer' = {}
  /\ proc' = [c \in Call |-> IF proc[c] = "live" THEN "signal" ELSE proc[c]]
  /\ pc' = [c \in Call |-> IF c <= calls /\ pc[c] # "open" THEN "failed" ELSE pc[c]]
  /\ close' = [c \in Call |->
       IF c <= calls /\ close[c] \notin {"published", "reviewed"} THEN "quiet" ELSE close[c]]
  /\ pending' = {p \in pending : p[2] = "complete"}
  /\ meddled' = meddled \union {s \in Session : ~AtRest(s)}
  /\ UNCHANGED <<status, cli, beat, calls, of, kind, read, orders, faults>>

Boot ==
  /\ phase = "down" /\ phase' = "up"
  /\ UNCHANGED <<row, tracked, calls, of, kind, pc, proc, known, killed, stopped, timer, close,
                 pending, read, meddled, bounds>>

-----------------------------------------------------------------------------
Update == Session \X Rest

Handler(c) ==
  \/ Started(c) \/ Spawn(c) \/ Detach(c) \/ Respawn(c) \/ Mark(c) \/ Beat(c)
  \/ CloseEvent(c) \/ Unheard(c) \/ Drained(c) \/ Record(c) \/ Publish(c) \/ Review(c)

Next ==
  \/ \E s \in Session : Request(s) \/ Resume(s) \/ Stop(s)
  \/ \E c \in Call : Handler(c) \/ StartFails(c) \/ Speak(c) \/ Exit(c) \/ KillPaused(c)
  \/ \E u \in Update : Write(u[1], u[2])
  \/ \E s \in Session : WriteId(s) \/ WatchDead(s) \/ WatchStalled(s) \/ Age(s) \/ Cleanup(s)
  \/ Shutdown \/ Die \/ Boot

Spec == Init /\ [][Next]_vars

\* Handlers proceed, updates arrive, time passes, the watchdog and the clean-up
\* run, and pm2 starts the runner again.  Nothing is assumed of the client.
FairSpec ==
  /\ Spec
  /\ \A c \in Call : WF_vars(Handler(c))
  /\ \A u \in Update : WF_vars(Write(u[1], u[2]))
  /\ \A s \in Session : WF_vars(WriteId(s)) /\ WF_vars(WatchDead(s))
  /\ \A s \in Session : WF_vars(Age(s)) /\ WF_vars(Cleanup(s))
  /\ WF_vars(phase = "stopping" /\ Die) /\ WF_vars(Boot)

-----------------------------------------------------------------------------
TypeOK ==
  /\ status \in [Session -> {"absent"} \union Active \union Rest]
  /\ cli \subseteq Session /\ sent \subseteq Session
  /\ beat \in [Session -> {"young", "fresh", "old"}]
  /\ phase \in {"up", "stopping", "down"}
  /\ tracked \in [Session -> Call \union {None}] /\ calls \in 0 .. MaxCall
  /\ of \in [Call -> Session] /\ kind \in [Call -> {"start", "resume"}]
  /\ pc \in [Call -> {"idle", "status", "context", "read", "locate", "mark", "beat", "open", "failed"}]
  /\ proc \in [Call -> {"none", "live", "zero", "code", "signal", "nospawn"}]
  /\ known \subseteq Call /\ killed \subseteq Call /\ stopped \subseteq Call /\ timer \subseteq Call
  /\ close \in [Call -> {"none", "drain", "record", "retry", "publish", "published", "reviewed",
                         "quiet", "unheard"}]
  /\ pending \subseteq Update
  /\ read \in [Call -> {"absent"} \union Active \union Rest]
  /\ meddled \subseteq Session
  /\ orders \in Nat /\ downs \in Nat /\ faults \in Nat

\* Unless a session met an overlap, a stop, the watchdog, a shutdown or a fault,
\* its process is the one that activeSessions has for it: only then can it be
\* stopped, watched and paused at a shutdown.
UndisturbedIsTracked ==
  \A c \in Call : proc[c] = "live" /\ of[c] \notin meddled => tracked[of[c]] = c

\* When the API reads the row of an undisturbed session to decide between
\* review and clearing the worktree, it finds the result of the process that
\* ended, however the clean-up, the ageing of heartbeats and earlier resumes
\* came in between.
ResultReachesReview ==
  \A c \in Call :
    close[c] = "reviewed" /\ of[c] \notin meddled => (read[c] = "complete" <=> proc[c] = "zero")

\* "Process interrupted -- session is resumable": a paused row has the id that
\* resumeSession asks for, or will have it, whichever of the close handler, the
\* watchdog and the clean-up wrote it, and whatever overlapped.  (The first two
\* go by the id in memory, and so may write before the id is in the row.  A
\* shutdown pauses without looking; and the write of the id may fail.)
PausedIsResumable ==
  downs = 0 /\ phase = "up" /\ faults = 0 =>
    \A s \in Session : status[s] = "paused" => s \in cli \union sent

\* A row does not say for ever that a session is under way when no process is.
\* Left out is the resumed process that ended before its handlers were there:
\* nobody learns of its end, and its heartbeat may go on.
NoZombieRow ==
  \A s \in Session :
    []<>( \/ status[s] \notin Active
          \/ \E c \in Call : of[c] = s /\ (proc[c] = "live" \/ close[c] = "unheard"))

\* Why that is so: heartbeats, which keep the clean-up away from a row, are sent for
\* a process that lives, for one whose end is about to be handled (the handler
\* waits five seconds for the output), or for one whose end nobody heard.
HeartbeatIsHonest ==
  \A c \in timer :
    \/ proc[c] = "live"
    \/ Ended(c) /\ pc[c] = "open" /\ close[c] \in {"none", "drain"}
    \/ close[c] = "unheard"

=============================================================================
