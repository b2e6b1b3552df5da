-------------------------- MODULE FactoryPipeline --------------------------
(***************************************************************************)
(* What becomes of the work of Factory sessions on one codebase: oversight *)
(* (services/factoryOversightService.js), the handler of their completions *)
(* (server.js) and the deployment (services/deploymentService.js).         *)
(*                                                                         *)
(* The sessions of a codebase share its working directory with the OS      *)
(* session.  An edit is a change of a tracked file ("mod") or a new file   *)
(* ("new"); edits touch different places, so that git meets no conflict.   *)
(* A flow is one run of the pipeline, a review, an approval or a           *)
(* rejection; git is called synchronously, so that a flow's git commands   *)
(* between two awaits are one step.  The branch that deployments push is   *)
(* "main"; of any other branch ("side"), and of what others push to        *)
(* origin, the content is left out.  The clients, the conductor who        *)
(* decides, validation, health and origin are environment.                 *)
(***************************************************************************)
EXTENDS Integers

CONSTANTS
  MaxSession, \* bound: sessions on the codebase
  MaxFlow,    \* bound: flows
  Work,       \* bound: the kinds of edits that a session makes, one of these sets
  MaxMishap   \* bound: calls that fail, restarts of the API, and what clients and
              \* others do to the directory, the branch and origin

ASSUME PipelineBounds ==
  /\ MaxSession \in Nat \ {0} /\ MaxFlow \in Nat /\ MaxMishap \in Nat
  /\ Work \subseteq SUBSET {"mod", "new"}

\* Sessions are numbered in the order in which their clients start.
Session == 1 .. MaxSession
Os == 0
Writer == Session \union {Os}
Edit == Writer \X {"mod", "new"}
Flow == 1 .. MaxFlow

\* A commit is what it adds to the branch and takes off it.
Change == [add : SUBSET Edit, del : SUBSET Edit]
Adds(E) == [add |-> E, del |-> {}]
Inverse(c) == [add |-> c.del, del |-> c.add]

\* A commit that was pushed from elsewhere, or none
Outside == Adds({})

VARIABLES
  (* the rows *)
  cc,       \* cc_sessions.status: none, running, complete, failed
  changed,  \* sessions with files_changed
  stage,    \* pipeline_stage: executing, testing, awaiting_review, deploying, complete, failed
  record,   \* deployments.deploy_status of a flow: none, deploying, health_check, ...
  (* the directory and the branch *)
  wrote,    \* writers whose edits are made
  tree,     \* uncommitted edits
  index,    \* those that are staged, by a commit that failed
  at,       \* the branch that is checked out: main, side
  local,    \* edits in main
  head,     \* the last commit of main
  origin,   \* edits in origin's main
  (* the API *)
  told,     \* sessions whose completion was published and is not yet handled
  flows,    \* flows so far
  of,       \* the session of a flow
  pc,       \* where the flow is
  sha,      \* commitSha: the commit that a flow takes for its own
  (* what the properties need *)
  lot,      \* the edits of the commit a flow has made
  astray,   \* flows that committed, rebased or reverted off main
  leftover, \* sessions whose edits were left in the directory
  crowded,  \* sessions dispatched or decided while another one was not settled
  mishaps,
  down      \* the API was restarted

rows   == <<cc, changed, stage, record>>
work   == <<tree, index>>
main   == <<local, head, origin>>
git    == <<work, at, main>>
api    == <<told, flows, of, pc, sha>>
past   == <<lot, astray, leftover, crowded>>
vars   == <<rows, wrote, git, api, past, mishaps, down>>

Init ==
  /\ cc = [s \in Session |-> "none"] /\ changed = {}
  /\ stage = [s \in Session |-> "executing"]
  /\ record = [f \in Flow |-> "none"]
  /\ wrote = {} /\ tree = {} /\ index = {} /\ at = "main"
  /\ local = {} /\ head = Outside /\ origin = {}
  /\ told = {} /\ flows = 0 /\ of = [f \in Flow |-> 1]
  /\ pc = [f \in Flow |-> "idle"] /\ sha = [f \in Flow |-> Outside]
  /\ lot = [f \in Flow |-> {}] /\ astray = {} /\ leftover = {} /\ crowded = {}
  /\ mishaps = 0 /\ down = FALSE

\* n calls fail, or none does.
Mishaps(n) == mishaps + n <= MaxMishap /\ mishaps' = mishaps + n
Fault == Mishaps(1)
Fine  == UNCHANGED mishaps

\* Flows that have nothing left to do.
Over == {"idle", "done", "unreverted", "gone"}

\* Nothing of s is running, waiting for a decision or under way.
Settled(s) ==
  /\ cc[s] # "running" /\ s \notin told
  /\ cc[s] = "complete" => stage[s] \in {"complete", "failed"}
  /\ \A f \in Flow : of[f] = s => pc[f] \in Over

\* s meets sessions that are not settled.
Crowd(s) ==
  LET others == {t \in Session \ {s} : ~Settled(t)}
  IN  crowded' = IF others = {} THEN crowded ELSE crowded \union others \union {s}

\* A flow begins.
Begin(s, where) ==
  /\ flows < MaxFlow /\ flows' = flows + 1
  /\ of' = [of EXCEPT ![flows'] = s]
  /\ pc' = [pc EXCEPT ![flows'] = where]

Goto(f, where) == pc' = [pc EXCEPT ![f] = where]

\* Sessions of S are done with the directory, whose edits may stay there.
Leave(S) == leftover' = leftover \union {s \in S : \E e \in tree : e[1] = s}

\* A commit becomes the last of main.
Extends(c) == local' = (local \ c.del) \union c.add /\ head' = c

\* HEAD after a pull --rebase on main: what others pushed comes under the commits that
\* origin lacks; if main has none of those, it ends in one of theirs.  (It may have a
\* commit and its revert.)
Tips == IF local # origin THEN {head} ELSE {head, Outside}

-----------------------------------------------------------------------------
(* The clients, and others at work in the directory and on origin.         *)

\* The runner starts the client.  Its preflight checks out main and pulls what others
\* pushed, if that needs no merge; uncommitted edits stay.  It is left out in the
\* directory of the API itself, and what fails in it is passed over.
Start(s) ==
  /\ cc[s] = "none" /\ \A t \in 1 .. s - 1 : cc[t] # "none"
  /\ cc' = [cc EXCEPT ![s] = "running"]
  /\ \/ UNCHANGED <<at, head>>
     \/ at' = "main" /\ head' \in Tips
  /\ Crowd(s)
  /\ UNCHANGED <<changed, stage, record, wrote, work, local, origin, api, lot, astray, leftover,
                 mishaps, down>>

\* A writer makes its edits, of these kinds.
Writes(w, kinds) ==
  /\ w \notin wrote /\ wrote' = wrote \union {w}
  /\ tree' = tree \union ({w} \X kinds)
  /\ UNCHANGED <<rows, index, at, main, api, past, down>>

Write(s) == cc[s] = "running" /\ Fine /\ \E kinds \in Work : Writes(s, kinds)

\* The OS session writes files into the directory.
OsWrites == Mishaps(1) /\ Writes(Os, {"new"})

\* A client checks out another branch.
Switch(s) ==
  /\ Mishaps(1) /\ cc[s] = "running"
  /\ at' = IF at = "main" THEN "side" ELSE "main"
  /\ UNCHANGED <<rows, wrote, work, main, api, past, down>>

\* The runner looks at the whole directory for the files that were changed.  Lock
\* files do not count, which may be all there is, and git may fail.  Without any
\* file nobody looks at the session's edits again.
Finish(s) ==
  /\ cc[s] = "running"
  /\ told' = told \union {s}
  /\ \/ /\ cc' = [cc EXCEPT ![s] = "complete"]
        /\ \/ tree # {} /\ changed' = changed \union {s} /\ UNCHANGED leftover
           \/ Leave({s}) /\ UNCHANGED changed
        /\ UNCHANGED stage
     \/ /\ cc' = [cc EXCEPT ![s] = "failed"]
        /\ stage' = [stage EXCEPT ![s] = "failed"]
        /\ UNCHANGED <<changed, leftover>>
  /\ UNCHANGED <<record, wrote, git, flows, of, pc, sha, lot, astray, crowded, mishaps, down>>

-----------------------------------------------------------------------------
(* Completions and decisions.                                              *)

\* A completed session with changes is the conductor's to judge, unless that
\* session of the OS is in error.
Handle(s) ==
  /\ s \in told /\ told' = told \ {s}
  /\ \/ cc[s] = "failed" /\ Begin(s, "salvage")
     \/ cc[s] = "complete" /\ s \notin changed /\ Begin(s, "nothing")
     \/ cc[s] = "complete" /\ s \in changed /\ Begin(s, "test")
     \/ cc[s] = "complete" /\ s \in changed /\ UNCHANGED <<flows, of, pc>>
  /\ UNCHANGED <<rows, wrote, git, sha, past, mishaps, down>>

\* The conductor reviews, approves or rejects; nothing stops it from doing so
\* twice, or for a failed session.  (The gate of the alignment of task and diff only
\* makes it repeat the approval with force.)
Decide(s) ==
  /\ cc[s] \in {"complete", "failed"}
  /\ \E what \in {"prepare", "deploy", "reject"} : Begin(s, what)
  /\ Crowd(s)
  /\ UNCHANGED <<rows, wrote, git, told, sha, lot, astray, leftover, mishaps, down>>

\* A statement of a flow on its session's row.
Mark(f, where, st) ==
  /\ Goto(f, where)
  /\ stage' = [stage EXCEPT ![of[f]] = st]
  /\ UNCHANGED <<cc, changed, wrote, git, told, flows, of, sha, past, down>>

Nothing(f) == pc[f] = "nothing" /\ Mark(f, "done", "complete") /\ UNCHANGED <<record, mishaps>>
Reject(f) == pc[f] = "reject" /\ Mark(f, "clean", "failed") /\ UNCHANGED <<record, mishaps>>
Test(f) == pc[f] = "test" /\ Mark(f, "review", "testing") /\ UNCHANGED <<record, mishaps>>

\* validateChanges, which may throw before it writes the row.
Validate(f) ==
  /\ pc[f] \in {"review", "prepare"}
  /\ \E st \in {"testing", stage[of[f]]} :
       Mark(f, IF pc[f] = "review" THEN "judge" ELSE "present", st)
  /\ UNCHANGED <<record, mishaps>>

\* The end of prepareReviewContext
Present(f) == pc[f] = "present" /\ Mark(f, "done", "awaiting_review") /\ UNCHANGED <<record, mishaps>>

\* Review and validation are there: deploy, escalate, or refuse a
\* self-modification.
Judge(f) ==
  /\ pc[f] = "judge"
  /\ \/ Mark(f, "deploy", stage[of[f]])
     \/ Mark(f, "done", "awaiting_review")
     \/ Mark(f, "clean", "failed")
  /\ UNCHANGED <<record, mishaps>>

New(E) == {e \in E : e[2] = "new"}

\* Mutant: the clean-up keeps new files.
CleanedKept == New(tree)

\* What cleanWorkingDir leaves of the directory
Cleaned == {}

\* cleanWorkingDir, after n failures: reset, checkout, clean -fd.  The first that
\* fails ends it without a word.
CleanUp(f, n) ==
  \/ Mishaps(n) /\ tree' = Cleaned /\ index' = {} /\ UNCHANGED leftover
  \/ /\ Mishaps(n + 1) /\ Leave({of[f]})
     /\ \/ UNCHANGED work
        \/ index' = {} /\ tree' \in {tree, New(tree)}

Clean(f) ==
  /\ pc[f] = "clean" /\ Goto(f, "done")
  /\ CleanUp(f, 0)
  /\ UNCHANGED <<rows, wrote, at, main, told, flows, of, sha, lot, astray, crowded, down>>

\* Edits that git does not know of
Untracked == New(tree) \ index

\* A failed session's edits are stashed, where nobody takes them from, without the
\* untracked files.  If there is nothing to stash, or git fails, the directory is
\* cleaned.
Salvage(f) ==
  /\ pc[f] = "salvage" /\ Goto(f, "done")
  /\ \/ /\ tree # {} /\ Fine
        /\ tree' = Untracked /\ index' = {}
        /\ IF tree' = {} THEN UNCHANGED leftover ELSE Leave({of[f]})
     \/ tree = {} /\ CleanUp(f, 0)
     \/ CleanUp(f, 1)
  /\ UNCHANGED <<rows, wrote, at, main, told, flows, of, sha, lot, astray, crowded, down>>

-----------------------------------------------------------------------------
(* deploySession.                                                          *)

Deploy(f) == pc[f] = "deploy" /\ Mark(f, "commit", "deploying") /\ UNCHANGED <<record, mishaps>>

\* add -A and commit, on the branch that is checked out; HEAD's name is read after.
Commit(f) ==
  /\ pc[f] = "commit" /\ tree # {}
  /\ lot' = [lot EXCEPT ![f] = tree]
  /\ tree' = {} /\ index' = {}
  /\ IF at = "main" THEN Extends(Adds(tree)) /\ UNCHANGED astray
                    ELSE astray' = astray \union {f} /\ UNCHANGED <<local, head>>
  /\ \/ Fine /\ Goto(f, "record") /\ sha' = [sha EXCEPT ![f] = Adds(tree)]
     \/ Fault /\ Goto(f, "fail") /\ UNCHANGED sha
  /\ UNCHANGED <<rows, wrote, at, origin, told, flows, of, leftover, crowded, down>>

\* status, add or commit fails: the edits stay, maybe staged.
CommitFails(f) ==
  /\ pc[f] = "commit" /\ Fault /\ Goto(f, "fail")
  /\ index' \in {index, tree} /\ Leave({of[f]})
  /\ UNCHANGED <<rows, wrote, tree, at, main, told, flows, of, sha, lot, astray, crowded, down>>

\* A client commits by itself.
ClientCommits(s) ==
  /\ Mishaps(1) /\ cc[s] = "running" /\ tree # {}
  /\ tree' = {} /\ index' = {}
  /\ IF at = "main" THEN Extends(Adds(tree)) ELSE UNCHANGED <<local, head>>
  /\ UNCHANGED <<rows, wrote, at, origin, api, past, down>>

\* Without changes the branch that is checked out is pushed, after a rebase if others
\* have pushed, and the outcome is the same if that fails.
Sync(f) ==
  /\ pc[f] = "commit" /\ tree = {}
  /\ Goto(f, "synced")
  /\ \/ Fine /\ at = "main" /\ origin' = local /\ UNCHANGED head
     \/ Fine /\ at = "side" /\ UNCHANGED <<origin, head>>
     \/ Fault /\ at = "main" /\ head' \in Tips /\ origin' \in {origin, local}
     \/ Fault /\ UNCHANGED <<origin, head>>
  /\ UNCHANGED <<rows, wrote, work, at, local, told, flows, of, sha, past, down>>

\* Mutant: the row keeps its stage, as it did before the branch was synchronised.
SyncedNot(f) == pc[f] = "synced" /\ Mark(f, "done", stage[of[f]]) /\ UNCHANGED <<record, mishaps>>

Synced(f) == pc[f] = "synced" /\ Mark(f, "done", "complete") /\ UNCHANGED <<record, mishaps>>

Recorded(f, what) == record' = [record EXCEPT ![f] = what]

\* The commit is noted in the row and in a new row of deployments.
Insert(f) ==
  /\ pc[f] = "record"
  /\ \/ Fine /\ Goto(f, "push") /\ Recorded(f, "deploying")
     \/ Fault /\ Goto(f, "fail") /\ UNCHANGED record
  /\ UNCHANGED <<cc, changed, stage, wrote, git, told, flows, of, sha, past, down>>

\* Main is pushed, or that fails.
Push(f) ==
  /\ pc[f] \in {"push", "repush"}
  /\ \/ Fine /\ Goto(f, "release") /\ origin' = local
     \/ Fault /\ Goto(f, "fail") /\ UNCHANGED origin
  /\ UNCHANGED <<rows, wrote, work, at, local, head, told, flows, of, sha, past, down>>

\* HEAD after a pull --rebase on another branch: a commit or a revert made there, a
\* commit of main that the branch was begun on, or one of others
SideTips == {sha[g] : g \in Flow} \union {Inverse(sha[g]) : g \in Flow} \union Tips \union {Outside}

\* The push is rejected, for others have pushed: pull --rebase, on the branch that is
\* checked out, and HEAD is taken for the flow's commit.  Edits of files that git
\* knows forbid it.
Rebase(f) ==
  /\ pc[f] = "push" /\ Mishaps(1)
  /\ IF tree # Untracked
     THEN Goto(f, "fail") /\ UNCHANGED <<head, sha, astray>>
     ELSE /\ Goto(f, "repush")
          /\ \/ /\ at = "main" /\ head' \in Tips /\ UNCHANGED astray
                /\ sha' = [sha EXCEPT ![f] = head']
             \/ /\ at = "side" /\ astray' = astray \union {f} /\ UNCHANGED head
                /\ \E tip \in SideTips : sha' = [sha EXCEPT ![f] = tip]
  /\ UNCHANGED <<rows, wrote, work, at, local, origin, told, flows, of, lot, leftover, crowded, down>>

\* pm2 restarts the process where needed; then there may be a URL to check.
Release(f) ==
  /\ pc[f] = "release"
  /\ \/ Fine /\ Goto(f, "deployed") /\ UNCHANGED record
     \/ Fine /\ Goto(f, "check") /\ Recorded(f, "health_check")
     \/ Fault /\ Goto(f, "fail") /\ UNCHANGED record
  /\ UNCHANGED <<cc, changed, stage, wrote, git, told, flows, of, sha, past, down>>

Served(f) ==
  /\ pc[f] \in {"deployed", "healthy"}
  /\ Recorded(f, pc[f]) /\ Mark(f, "done", "complete") /\ Fine

Check(f) ==
  /\ pc[f] = "check"
  /\ Goto(f, "healthy") \/ Goto(f, "revert")
  /\ UNCHANGED <<rows, wrote, git, told, flows, of, sha, past, mishaps, down>>

\* Mutant: the last commit is reverted, whose ever it is.
RevertedHead(f) == head

\* Mutant: a commit that changes nothing is reverted.
RevertedNot(f) == Outside

\* The commit that revertDeployment reverts
Reverted(f) == sha[f]

\* A commit whose changes are not there cannot be reverted.
Undoable(c) == c.add \subseteq local /\ c.del \intersect local = {}

\* reset --hard, if the directory is not clean
Discards == tree' = Untracked /\ index' = {}

\* revertDeployment on main: revert, push (after a rebase if need be), restart.
Revert(f) ==
  /\ pc[f] = "revert" /\ at = "main"
  /\ Discards /\ Undoable(Reverted(f)) /\ Extends(Inverse(Reverted(f)))
  /\ \/ Fine /\ Goto(f, "reverted") /\ origin' = local'
     \/ Fault /\ Goto(f, "unreverted") /\ origin' \in {origin, local'}
  /\ UNCHANGED <<rows, wrote, at, told, flows, of, sha, past, down>>

\* On another branch, what is pushed is main as it is.
RevertAside(f) ==
  /\ pc[f] = "revert" /\ at = "side"
  /\ Discards /\ origin' = local
  /\ Goto(f, "reverted") /\ astray' = astray \union {f}
  /\ UNCHANGED <<rows, wrote, at, local, head, told, flows, of, sha, lot, leftover, crowded, mishaps, down>>

\* It fails, before there is a new commit or on another branch.
RevertFails(f) ==
  /\ pc[f] = "revert" /\ Goto(f, "unreverted")
  /\ \/ Fault /\ UNCHANGED work
     \/ Fault /\ Discards
     \/ Fine /\ Discards /\ (at = "side" \/ ~Undoable(Reverted(f)))
  /\ UNCHANGED <<rows, wrote, at, main, told, flows, of, sha, past, down>>

RevertNoted(f) ==
  /\ pc[f] = "reverted"
  /\ Recorded(f, "reverted") /\ Mark(f, "done", "failed") /\ Fine

\* Any error of the above: the commit stays.
Fail(f) ==
  /\ pc[f] = "fail"
  /\ IF record[f] = "none" THEN UNCHANGED record ELSE Recorded(f, "failed")
  /\ Mark(f, "done", "failed") /\ Fine

\* The API restarts; its flows are gone, and completions published meanwhile.  (If
\* there are none, nothing changes.)
Restart ==
  /\ told # {} \/ \E f \in Flow : pc[f] \notin Over
  /\ Fault /\ down' = TRUE
  /\ told' = {}
  /\ pc' = [f \in Flow |-> IF pc[f] \in Over THEN pc[f] ELSE "gone"]
  /\ Leave(told \union {of[f] : f \in {g \in Flow : pc[g] \notin Over}})
  /\ UNCHANGED <<rows, wrote, git, flows, of, sha, lot, astray, crowded>>

Step(f) ==
  \/ Nothing(f) \/ Reject(f) \/ Test(f) \/ Validate(f) \/ Present(f) \/ Judge(f) \/ Clean(f)
  \/ Salvage(f) \/ Deploy(f) \/ Commit(f) \/ CommitFails(f) \/ Sync(f) \/ Synced(f) \/ Insert(f)
  \/ Push(f) \/ Rebase(f) \/ Release(f) \/ Served(f) \/ Check(f) \/ Revert(f) \/ RevertAside(f)
  \/ RevertFails(f) \/ RevertNoted(f) \/ Fail(f)

Next ==
  \/ \E s \in Session : \/ Start(s) \/ Write(s) \/ Switch(s) \/ ClientCommits(s)
                        \/ Finish(s) \/ Handle(s) \/ Decide(s)
  \/ OsWrites
  \/ \E f \in Flow : Step(f)
  \/ Restart

Spec == Init /\ [][Next]_vars

\* The awaits of a flow return.
FairSpec == Spec /\ \A f \in Flow : WF_vars(Step(f))

-----------------------------------------------------------------------------
Place ==
  Over \union {"nothing", "reject", "test", "review", "prepare", "present", "judge", "clean", "salvage",
               "deploy", "commit", "synced", "record", "push", "repush", "release", "deployed", "healthy",
               "check", "revert", "reverted", "fail"}

TypeOK ==
  /\ cc \in [Session -> {"none", "running", "complete", "failed"}] /\ changed \subseteq Session
  /\ stage \in [Session -> {"executing", "testing", "awaiting_review", "deploying", "complete", "failed"}]
  /\ record \in [Flow -> {"none", "deploying", "health_check", "deployed", "healthy", "reverted", "failed"}]
  /\ wrote \subseteq Writer /\ tree \subseteq Edit /\ index \subseteq tree /\ at \in {"main", "side"}
  /\ local \subseteq Edit /\ head \in Change /\ origin \subseteq Edit
  /\ told \subseteq Session /\ flows \in 0 .. MaxFlow /\ of \in [Flow -> Session]
  /\ pc \in [Flow -> Place] /\ sha \in [Flow -> Change] /\ lot \in [Flow -> SUBSET Edit]
  /\ astray \subseteq Flow /\ leftover \subseteq Session /\ crowded \subseteq Session
  /\ mishaps \in 0 .. MaxMishap /\ down \in BOOLEAN

\* f has taken a commit for its own whose revert takes edits of g's commit off main ...
Takes(f, g) == f # g /\ sha[f].add \intersect lot[g] # {}

\* ... or brings them back to it.
Restores(f, g) == sha[f].del \intersect lot[g] # {}

\* A deployment that counts as served is on origin, whatever other sessions deploy
\* and revert meanwhile in the same directory, unless it was committed off main, or
\* another deployment took its commit for its own when it read HEAD after a rebase.
ServedIsOnOrigin ==
  \A f \in Flow : record[f] \in {"deployed", "healthy"} /\ f \notin astray =>
    lot[f] \subseteq origin \/ \E g \in Flow : Takes(g, f)

\* A deployment that was reverted is not on origin, and no later push brings it back,
\* unless it was committed or reverted off main, or a HEAD read after a rebase was the
\* wrong one: another commit was reverted in its place, or its revert is to be.
RevertedStaysOff ==
  \A f \in Flow : record[f] = "reverted" /\ f \notin astray /\ sha[f].add = lot[f] =>
    lot[f] \intersect origin = {} \/ \E g \in Flow : Restores(g, f)

\* What the rule to serialise dispatches buys: a session that was never beside an
\* unsettled one commits its own work only -- and the OS session's, and that of
\* sessions whose edits were left: a failed one's new files, lock files that do not
\* count as a change, and what a failed git command or a restart left there.
SerialisedDeploysOwnWork ==
  \A f \in Flow : of[f] \notin crowded => \A e \in lot[f] : e[1] \in {of[f], Os} \union leftover

\* The stage of a session does not say for ever that it is being tested or
\* deployed, unless the API went down or a revert failed.
PipelineEnds ==
  \A s \in Session :
    []<>( \/ stage[s] \notin {"testing", "deploying"} \/ down
          \/ \E f \in Flow : of[f] = s /\ pc[f] = "unreverted")

\* Places from which every way out writes the stage of the session, or ends in a
\* failed revert.
Ahead ==
  {"review", "present", "judge", "deploy", "commit", "synced", "record", "push", "repush", "release",
   "check", "deployed", "healthy", "revert", "reverted", "fail"}

\* Why that is so: while the API is up, a session in one of these stages has a
\* flow that will write its stage again, or whose revert failed.
StageHasFlow ==
  \A s \in Session : stage[s] \in {"testing", "deploying"} /\ ~down =>
    \E f \in Flow : of[f] = s /\ pc[f] \in Ahead \union {"unreverted"}

=============================================================================
