----------------------- MODULE FactoryPipelineProofs -----------------------
(***************************************************************************)
(* Proofs about FactoryPipeline: where the commit of a flow is while the   *)
(* flow is deploying it, and afterwards, whatever other flows do in the    *)
(* same directory.  The edits of different commits are different, because  *)
(* a commit takes what is in the directory away from it; and until it is   *)
(* rebased, a flow takes its own commit for its own.  Then whose edits are *)
(* in the directory when a flow commits.  And that a stage which says that *)
(* work goes on is right: some flow will write it again.                   *)
(***************************************************************************)
EXTENDS FactoryPipeline, TLAPS

\* Flows that have not committed, but may.
Early == {"idle", "test", "review", "judge", "deploy", "commit"}

\* Flows that have pushed their commit, and those that have made it.
Pushed == {"release", "check", "deployed", "healthy", "revert"}
Committed == {"record", "push", "repush"} \union Pushed

Live == {"deployed", "healthy"}

\* The commit of f has to be where the deployments expect it.
Claims(f, places) == f \notin astray /\ (pc[f] \in places \/ record[f] \in Live)
Taken(f) == \E g \in Flow : Takes(g, f)

\* The commit of f is to stay away.
Disclaims(f) == f \notin astray /\ sha[f].add = lot[f] /\ (pc[f] = "reverted" \/ record[f] = "reverted")
Restored(f) == \E g \in Flow : Restores(g, f)

Unused == \A f \in Flow : f > flows => pc[f] = "idle"
Unborn == \A f \in Flow : pc[f] \in Early => lot[f] = {} /\ record[f] = "none" /\ sha[f] = Outside
OwnSha == \A f \in Flow : pc[f] \in {"record", "push"} => sha[f] = Adds(lot[f])
UnderWay ==
  \A f \in Flow : pc[f] \in Committed \union {"reverted", "fail"} =>
    record[f] \in {"none", "deploying", "health_check"}
Apart == \A f, g \in Flow : f # g => lot[f] \intersect lot[g] = {}
Loose ==
  /\ \A e \in tree : e[1] \in wrote
  /\ \A f \in Flow : lot[f] \intersect tree = {} /\ \A e \in lot[f] : e[1] \in wrote
Kept == \A f \in Flow : Claims(f, Committed) => lot[f] \subseteq local \/ Taken(f)
Sent == \A f \in Flow : Claims(f, Pushed) => lot[f] \subseteq origin \/ Taken(f)
Off ==
  \A f \in Flow : Disclaims(f) =>
    (lot[f] \intersect local = {} /\ lot[f] \intersect origin = {}) \/ Restored(f)

CommitInv ==
  /\ TypeOK
  /\ Unused
  /\ Unborn
  /\ OwnSha
  /\ UnderWay
  /\ Apart
  /\ Loose
  /\ Kept
  /\ Sent
  /\ Off

LEMMA BeginFacts ==
  ASSUME TypeOK, NEW s \in Session, NEW x \in Place, Begin(s, x)
  PROVE  /\ flows' = flows + 1 /\ flows' \in Flow
         /\ of' \in [Flow -> Session] /\ pc' \in [Flow -> Place]
         /\ pc'[flows'] = x
         /\ \A f \in Flow : f # flows' => pc'[f] = pc[f]
BY PipelineBounds DEF TypeOK, Begin, Flow

LEMMA ChangeFacts ==
  /\ Outside \in Change
  /\ \A E \in SUBSET Edit : Adds(E) \in Change
  /\ \A c \in Change : Inverse(c) \in Change /\ c.add \subseteq Edit /\ c.del \subseteq Edit
BY DEF Outside, Adds, Inverse, Change

LEMMA ExtendsFacts ==
  ASSUME TypeOK, NEW c \in Change, Extends(c)
  PROVE  local' \subseteq Edit /\ head' \in Change
BY ChangeFacts DEF Extends, TypeOK

LEMMA StepTypes ==
  ASSUME TypeOK, NEW f \in Flow, Step(f)
  PROVE  TypeOK'
<1> USE PipelineBounds DEF TypeOK, Goto, Place, Over, Fault, Fine, Mishaps, rows, work, main, git, api, past
<1>1. CASE Nothing(f)
  BY <1>1 DEF Nothing, Mark
<1>2. CASE Reject(f)
  BY <1>2 DEF Reject, Mark
<1>3. CASE Test(f)
  BY <1>3 DEF Test, Mark
<1>4. CASE Validate(f)
  BY <1>4 DEF Validate, Mark
<1>5. CASE Present(f)
  BY <1>5 DEF Present, Mark
<1>6. CASE Judge(f)
  BY <1>6 DEF Judge, Mark
<1>7. CASE Clean(f)
  BY <1>7 DEF Clean, CleanUp, Cleaned, Leave, New
<1>8. CASE Salvage(f)
  BY <1>8 DEF Salvage, CleanUp, Cleaned, Leave, New, Untracked
<1>9. CASE Deploy(f)
  BY <1>9 DEF Deploy, Mark
<1>10. CASE Commit(f)
  <2>1. local' \subseteq Edit /\ head' \in Change
    BY <1>10, ChangeFacts, ExtendsFacts DEF Commit
  <2>2. sha' \in [Flow -> Change]
    BY <1>10, ChangeFacts DEF Commit
  <2>3. /\ pc' \in [Flow -> Place] /\ mishaps' \in 0 .. MaxMishap
        /\ lot' \in [Flow -> SUBSET Edit] /\ astray' \subseteq Flow
    BY <1>10 DEF Commit
  <2> QED
    BY <1>10, <2>1, <2>2, <2>3 DEF Commit
<1>11. CASE CommitFails(f)
  BY <1>11 DEF CommitFails, Leave
<1>12. CASE Sync(f)
  BY <1>12 DEF Sync, Tips, Outside, Adds, Change
<1>13. CASE Synced(f)
  BY <1>13 DEF Synced, Mark
<1>14. CASE Insert(f)
  BY <1>14 DEF Insert, Recorded
<1>15. CASE Push(f)
  BY <1>15 DEF Push
<1>16. CASE Rebase(f)
  <2>1. Tips \subseteq Change /\ SideTips \subseteq Change
    BY ChangeFacts DEF Tips, SideTips, TypeOK
  <2> QED
    BY <1>16, <2>1 DEF Rebase
<1>17. CASE Release(f)
  BY <1>17 DEF Release, Recorded
<1>18. CASE Served(f)
  BY <1>18 DEF Served, Mark, Recorded
<1>19. CASE Check(f)
  BY <1>19 DEF Check
<1>20. CASE Revert(f)
  <2>1. local' \subseteq Edit /\ head' \in Change
    BY <1>20, ChangeFacts, ExtendsFacts DEF Revert, Reverted
  <2>2. origin' \subseteq Edit /\ pc' \in [Flow -> Place] /\ mishaps' \in 0 .. MaxMishap
    BY <1>20, <2>1 DEF Revert
  <2> QED
    BY <1>20, <2>1, <2>2 DEF Revert, Discards, Untracked, New
<1>21. CASE RevertAside(f)
  BY <1>21 DEF RevertAside, Discards, Untracked, New
<1>22. CASE RevertFails(f)
  BY <1>22 DEF RevertFails, Discards, Untracked, New
<1>23. CASE RevertNoted(f)
  BY <1>23 DEF RevertNoted, Mark, Recorded
<1>24. CASE Fail(f)
  BY <1>24 DEF Fail, Mark, Recorded
<1> QED
  BY <1>1, <1>2, <1>3, <1>4, <1>5, <1>6, <1>7, <1>8, <1>9, <1>10, <1>11, <1>12,
     <1>13, <1>14, <1>15, <1>16, <1>17, <1>18, <1>19, <1>20, <1>21, <1>22, <1>23, <1>24 DEF Step

LEMMA NextTypes == TypeOK /\ [Next]_vars => TypeOK'
<1> SUFFICES ASSUME TypeOK, [Next]_vars PROVE TypeOK'
  OBVIOUS
<1> USE PipelineBounds DEF Fault, Fine, Mishaps, rows, work, main, git, api, past
<1>1. CASE UNCHANGED vars
  BY <1>1 DEF TypeOK, vars
<1>2. ASSUME NEW s \in Session, Start(s) PROVE TypeOK'
  BY <1>2 DEF TypeOK, Start, Crowd, Tips, Outside, Adds, Change
<1>3. ASSUME NEW s \in Session, Finish(s) PROVE TypeOK'
  BY <1>3 DEF TypeOK, Finish, Leave
<1>4. ASSUME NEW s \in Session, Handle(s) PROVE TypeOK'
  <2>1. ASSUME NEW x \in {"salvage", "nothing", "test"}, Begin(s, x) PROVE TypeOK'
    BY <1>4, <2>1, BeginFacts DEF TypeOK, Handle, Flow, Place
  <2>2. CASE UNCHANGED <<flows, of, pc>>
    BY <1>4, <2>2 DEF TypeOK, Handle
  <2> QED
    BY <1>4, <2>1, <2>2 DEF Handle
<1>5. ASSUME NEW s \in Session, Decide(s) PROVE TypeOK'
  <2>1. PICK x \in {"prepare", "deploy", "reject"} : Begin(s, x)
    BY <1>5 DEF Decide
  <2> QED
    BY <1>5, <2>1, BeginFacts DEF TypeOK, Decide, Crowd, Flow, Place
<1>6. ASSUME NEW w \in Writer, NEW kinds \in SUBSET {"mod", "new"}, Writes(w, kinds),
             mishaps' \in 0 .. MaxMishap
      PROVE  TypeOK'
  BY <1>6 DEF TypeOK, Writes, Edit
<1>7. ASSUME NEW s \in Session, Write(s) PROVE TypeOK'
  BY <1>6, <1>7 DEF Write, Writer, TypeOK
<1>8. CASE OsWrites
  <2>1. mishaps' \in 0 .. MaxMishap
    BY <1>8 DEF OsWrites, TypeOK
  <2> QED
    BY <1>6, <1>8, <2>1 DEF OsWrites, Writer
<1>9. ASSUME NEW s \in Session, Switch(s) PROVE TypeOK'
  BY <1>9 DEF TypeOK, Switch
<1>10. ASSUME NEW s \in Session, ClientCommits(s) PROVE TypeOK'
  BY <1>10 DEF TypeOK, ClientCommits, Extends, Adds, Change
<1>11. ASSUME NEW f \in Flow, Step(f) PROVE TypeOK'
  BY <1>11, StepTypes
<1>12. CASE Restart
  BY <1>12 DEF TypeOK, Restart, Leave, Place, Over
<1> QED
  BY <1>1, <1>2, <1>3, <1>4, <1>5, <1>7, <1>8, <1>9, <1>10, <1>11, <1>12 DEF Next

LEMMA InitTypes ==
  ASSUME Init
  PROVE  TypeOK
<1>1. 1 \in Session /\ 0 \in 0 .. MaxFlow /\ 0 \in 0 .. MaxMishap
  BY PipelineBounds DEF Session
<1> QED
  BY <1>1, ChangeFacts DEF Init, TypeOK, Place, Over

\* The records and the flows stay in their types.
THEOREM PipelineTypes == Spec => []TypeOK
BY InitTypes, NextTypes, PTL DEF Spec
-----------------------------------------------------------------------------
(* What was taken or restored stays so: a flow that takes a commit for its *)
(* own that it did not make has rebased, and does so once.                 *)
LEMMA ClaimsStand ==
  ASSUME CommitInv, TypeOK',
         \A h \in Flow : lot'[h] = lot[h] \/ lot[h] = {},
         \A h \in Flow : sha'[h] = sha[h] \/ pc[h] \in {"commit", "push"}
  PROVE  \A h \in Flow : (Taken(h) => Taken(h)') /\ (Restored(h) => Restored(h)')
<1>1. \A g \in Flow : pc[g] \in {"commit", "push"} => sha[g].del = {} /\ (sha[g].add = {} \/ sha[g].add = lot[g])
  <2>1. Outside.add = {} /\ Outside.del = {} /\ \A E : Adds(E).add = E /\ Adds(E).del = {}
    BY DEF Outside, Adds
  <2> QED
    BY <2>1 DEF CommitInv, Unborn, OwnSha, Early
<1>2. ASSUME NEW h \in Flow, NEW g \in Flow, Takes(g, h) PROVE Takes(g, h)'
  <2>1. pc[g] \notin {"commit", "push"}
    BY <1>1, <1>2 DEF Takes, CommitInv, Apart
  <2> QED
    BY <1>2, <2>1 DEF Takes
<1>3. ASSUME NEW h \in Flow, NEW g \in Flow, Restores(g, h) PROVE Restores(g, h)'
  <2>1. pc[g] \notin {"commit", "push"}
    BY <1>1, <1>3 DEF Restores
  <2> QED
    BY <1>3, <2>1 DEF Restores
<1> QED
  BY <1>2, <1>3 DEF Taken, Restored

\* The parts of the invariant that speak of the flows and their commits only
Making == Unused /\ Unborn /\ OwnSha /\ UnderWay /\ Apart /\ Loose

LEMMA StepMakes ==
  ASSUME CommitInv, NEW f \in Flow, Step(f)
  PROVE  Making'
<1> USE DEF CommitInv, Making, Goto, Over, Fault, Fine, rows, work, main, git, api, past, TypeOK,
        Early, Pushed, Committed, Unused, Unborn, OwnSha, UnderWay, Apart, Loose
<1>1. CASE Nothing(f)
  BY <1>1 DEF Nothing, Mark
<1>2. CASE Reject(f)
  BY <1>2 DEF Reject, Mark
<1>3. CASE Test(f)
  BY <1>3 DEF Test, Mark
<1>4. CASE Validate(f)
  BY <1>4 DEF Validate, Mark
<1>5. CASE Present(f)
  BY <1>5 DEF Present, Mark
<1>6. CASE Judge(f)
  BY <1>6 DEF Judge, Mark
<1>7. CASE Clean(f)
  BY <1>7 DEF Clean, CleanUp, Cleaned, New
<1>8. CASE Salvage(f)
  BY <1>8 DEF Salvage, CleanUp, Cleaned, New, Untracked
<1>9. CASE Deploy(f)
  BY <1>9 DEF Deploy, Mark
<1>10. CASE Commit(f)
  BY <1>10 DEF Commit
<1>11. CASE CommitFails(f)
  BY <1>11 DEF CommitFails
<1>12. CASE Sync(f)
  BY <1>12 DEF Sync
<1>13. CASE Synced(f)
  BY <1>13 DEF Synced, Mark
<1>14. CASE Insert(f)
  BY <1>14 DEF Insert, Recorded
<1>15. CASE Push(f)
  BY <1>15 DEF Push
<1>16. CASE Rebase(f)
  BY <1>16 DEF Rebase
<1>17. CASE Release(f)
  BY <1>17 DEF Release, Recorded
<1>18. CASE Served(f)
  BY <1>18 DEF Served, Mark, Recorded
<1>19. CASE Check(f)
  BY <1>19 DEF Check
<1>20. CASE Revert(f)
  BY <1>20 DEF Revert, Reverted, Discards, Untracked, New
<1>21. CASE RevertAside(f)
  BY <1>21 DEF RevertAside, Discards, Untracked, New
<1>22. CASE RevertFails(f)
  BY <1>22 DEF RevertFails, Discards, Untracked, New
<1>23. CASE RevertNoted(f)
  BY <1>23 DEF RevertNoted, Mark, Recorded
<1>24. CASE Fail(f)
  BY <1>24 DEF Fail, Mark, Recorded
<1> QED
  BY <1>1, <1>2, <1>3, <1>4, <1>5, <1>6, <1>7, <1>8, <1>9, <1>10, <1>11, <1>12,
     <1>13, <1>14, <1>15, <1>16, <1>17, <1>18, <1>19, <1>20, <1>21, <1>22, <1>23, <1>24 DEF Step

\* The commits of others stay where they are, or another flow takes them.
LEMMA RevertMoves ==
  ASSUME CommitInv, TypeOK', NEW f \in Flow, NEW h \in Flow, Extends(Inverse(sha[f])), UNCHANGED <<sha, lot>>
  PROVE  /\ h # f /\ lot[h] \subseteq local => lot[h] \subseteq local' \/ Taken(h)'
         /\ lot[h] \intersect local = {} \/ lot[h] = sha[f].add =>
              lot[h] \intersect local' = {} \/ Restored(h)'
<1>1. local' = (local \ sha[f].add) \union sha[f].del
  BY DEF Extends, Inverse
<1>2. ASSUME h # f, sha[f].add \intersect lot[h] # {} PROVE Taken(h)'
  BY <1>2 DEF Taken, Takes
<1>3. ASSUME sha[f].del \intersect lot[h] # {} PROVE Restored(h)'
  BY <1>3 DEF Restored, Restores
<1> QED
  BY <1>1, <1>2, <1>3

LEMMA StepStands ==
  ASSUME CommitInv, NEW f \in Flow, Step(f)
  PROVE  Kept' /\ Sent' /\ Off'
<1>0. TypeOK' /\ Making'
  BY StepTypes, StepMakes DEF CommitInv
<1> USE DEF CommitInv, Making, Goto, Over, Fault, Fine, rows, work, main, git, api, past, TypeOK,
        Claims, Disclaims, Pushed, Committed, Live, Kept, Sent, Off
<1>s. (\A h \in Flow : lot'[h] = lot[h] \/ lot[h] = {}) /\ (\A h \in Flow : sha'[h] = sha[h] \/ pc[h] \in {"commit", "push"}) =>
        \A h \in Flow : (Taken(h) => Taken(h)') /\ (Restored(h) => Restored(h)')
  BY <1>0, ClaimsStand
<1>1. CASE Nothing(f)
  BY <1>0, <1>s, <1>1 DEF Nothing, Mark
<1>2. CASE Reject(f)
  BY <1>0, <1>s, <1>2 DEF Reject, Mark
<1>3. CASE Test(f)
  BY <1>0, <1>s, <1>3 DEF Test, Mark
<1>4. CASE Validate(f)
  BY <1>0, <1>s, <1>4 DEF Validate, Mark
<1>5. CASE Present(f)
  BY <1>0, <1>s, <1>5 DEF Present, Mark
<1>6. CASE Judge(f)
  BY <1>0, <1>s, <1>6 DEF Judge, Mark
<1>7. CASE Clean(f)
  BY <1>0, <1>s, <1>7 DEF Clean, CleanUp
<1>8. CASE Salvage(f)
  BY <1>0, <1>s, <1>8 DEF Salvage, CleanUp
<1>9. CASE Deploy(f)
  BY <1>0, <1>s, <1>9 DEF Deploy, Mark
<1>10. CASE Commit(f)
  <2>1. \A h \in Flow : h # f => lot'[h] = lot[h] /\ sha'[h] = sha[h] /\ pc'[h] = pc[h]
    BY <1>10 DEF Commit
  <2>2. \A h \in Flow : (Taken(h) => Taken(h)') /\ (Restored(h) => Restored(h)')
    BY <1>s, <1>10, <2>1 DEF Commit, Unborn, Early
  <2>3. /\ pc'[f] \in {"record", "fail"} /\ record'[f] = "none" /\ lot'[f] = tree
        /\ UNCHANGED <<origin, record>> /\ astray \subseteq astray'
    BY <1>10 DEF Commit, Unborn, Early
  <2>4. (local' = local \union tree) \/ (local' = local /\ f \in astray')
    BY <1>10 DEF Commit, Extends, Adds
  <2>5. Kept'
    BY <2>1, <2>2, <2>3, <2>4
  <2>6. Sent'
    BY <2>1, <2>2, <2>3
  <2>7. Off'
    BY <2>1, <2>2, <2>3, <2>4 DEF Loose
  <2> QED
    BY <2>5, <2>6, <2>7
<1>11. CASE CommitFails(f)
  BY <1>0, <1>s, <1>11 DEF CommitFails
<1>12. CASE Sync(f)
  BY <1>0, <1>s, <1>12 DEF Sync
<1>13. CASE Synced(f)
  BY <1>0, <1>s, <1>13 DEF Synced, Mark
<1>14. CASE Insert(f)
  BY <1>0, <1>s, <1>14 DEF Insert, Recorded
<1>15. CASE Push(f)
  BY <1>0, <1>s, <1>15 DEF Push
<1>16. CASE Rebase(f)
  <2>1. /\ \A h \in Flow : h # f => sha'[h] = sha[h] /\ pc'[h] = pc[h]
        /\ pc[f] = "push" /\ pc'[f] \in {"fail", "repush"}
        /\ UNCHANGED <<local, origin, record, lot>> /\ astray \subseteq astray'
    BY <1>16 DEF Rebase
  <2>2. \A h \in Flow : (Taken(h) => Taken(h)') /\ (Restored(h) => Restored(h)')
    BY <1>s, <2>1
  <2>3. record[f] \notin {"deployed", "healthy", "reverted"}
    BY <2>1 DEF UnderWay
  <2> QED
    BY <2>1, <2>2, <2>3
<1>17. CASE Release(f)
  BY <1>0, <1>s, <1>17 DEF Release, Recorded
<1>18. CASE Served(f)
  BY <1>0, <1>s, <1>18 DEF Served, Mark, Recorded
<1>19. CASE Check(f)
  BY <1>0, <1>s, <1>19 DEF Check
<1>20. CASE Revert(f)
  <2>1. /\ Extends(Inverse(sha[f])) /\ UNCHANGED <<record, lot, sha, astray>>
        /\ pc[f] = "revert" /\ pc'[f] \in {"reverted", "unreverted"}
        /\ \A h \in Flow : h # f => pc'[h] = pc[h]
        /\ origin' \in {origin, local'} /\ (pc'[f] = "reverted" => origin' = local')
    BY <1>20 DEF Revert, Reverted
  <2>2. \A h \in Flow : (Taken(h) => Taken(h)') /\ (Restored(h) => Restored(h)')
    BY <1>s, <2>1
  <2>3. record[f] \notin {"deployed", "healthy", "reverted"}
    BY <2>1 DEF UnderWay
  <2>4. \A h \in Flow :
          /\ h # f /\ lot[h] \subseteq local => lot[h] \subseteq local' \/ Taken(h)'
          /\ lot[h] \intersect local = {} \/ lot[h] = sha[f].add => lot[h] \intersect local' = {} \/ Restored(h)'
    BY <1>0, <2>1, RevertMoves
  <2>5. Kept'
    BY <2>1, <2>2, <2>3, <2>4
  <2>6. Sent'
    BY <2>1, <2>2, <2>3, <2>4
  <2>7. Off'
    BY <2>1, <2>2, <2>3, <2>4
  <2> QED
    BY <2>5, <2>6, <2>7
<1>21. CASE RevertAside(f)
  BY <1>0, <1>s, <1>21 DEF RevertAside
<1>22. CASE RevertFails(f)
  BY <1>0, <1>s, <1>22 DEF RevertFails
<1>23. CASE RevertNoted(f)
  BY <1>0, <1>s, <1>23 DEF RevertNoted, Mark, Recorded
<1>24. CASE Fail(f)
  BY <1>0, <1>s, <1>24 DEF Fail, Mark, Recorded
<1> QED
  BY <1>1, <1>2, <1>3, <1>4, <1>5, <1>6, <1>7, <1>8, <1>9, <1>10, <1>11, <1>12,
     <1>13, <1>14, <1>15, <1>16, <1>17, <1>18, <1>19, <1>20, <1>21, <1>22, <1>23, <1>24 DEF Step

\* A step that touches neither main nor the commits, and begins a flow at most
LEMMA Elsewhere ==
  ASSUME CommitInv, TypeOK', Unused', UNCHANGED <<record, local, origin, lot, sha, astray>>,
         \A e \in tree' : e[1] \in wrote' /\ (e \in tree \/ e[1] \notin wrote), wrote \subseteq wrote',
         \A f \in Flow :
           \/ pc'[f] = pc[f] \/ (pc[f] = "idle" /\ pc'[f] \notin Committed \union {"reverted", "fail"})
           \/ pc'[f] = "gone"
  PROVE  CommitInv'
<1> USE DEF CommitInv, Early, Pushed, Committed, Live
<1>1. Unborn' /\ OwnSha' /\ UnderWay' /\ Apart'
  BY DEF Unborn, OwnSha, UnderWay, Apart
<1>2. Loose'
  BY DEF Loose
<1>3. \A h \in Flow : (Taken(h)' <=> Taken(h)) /\ (Restored(h)' <=> Restored(h))
  BY DEF Taken, Restored, Takes, Restores
<1>4. Kept' /\ Sent' /\ Off'
  BY <1>3 DEF Kept, Sent, Off, Claims, Disclaims
<1> QED
  BY <1>1, <1>2, <1>4

LEMMA CommitInvNext == CommitInv /\ [Next]_vars => CommitInv'
<1> SUFFICES ASSUME CommitInv, [Next]_vars PROVE CommitInv'
  OBVIOUS
<1> USE DEF rows, work, main, git, api, past
<1>0. TypeOK' /\ TypeOK /\ Unused /\ \A e \in tree : e[1] \in wrote
  BY NextTypes DEF CommitInv, Loose
<1>1. CASE UNCHANGED vars
  BY <1>0, <1>1, Elsewhere DEF vars, Unused
<1>2. ASSUME NEW s \in Session, Start(s) PROVE CommitInv'
  BY <1>0, <1>2, Elsewhere DEF Start, Unused
<1>3. ASSUME NEW s \in Session, Finish(s) PROVE CommitInv'
  BY <1>0, <1>3, Elsewhere DEF Finish, Unused
<1>4. ASSUME NEW s \in Session, NEW x \in {"salvage", "nothing", "test", "prepare", "deploy", "reject"},
             Begin(s, x), UNCHANGED <<rows, wrote, git, sha, lot, astray>>
      PROVE  CommitInv'
  <2>1. /\ flows' = flows + 1 /\ flows' \in Flow /\ pc'[flows'] = x
        /\ \A f \in Flow : f # flows' => pc'[f] = pc[f]
    BY <1>0, <1>4, BeginFacts DEF Place
  <2>2. Unused' /\ pc[flows'] = "idle"
    BY <1>0, <2>1 DEF Unused, Flow, TypeOK
  <2> QED
    BY <1>0, <1>4, <2>1, <2>2, Elsewhere DEF Committed, Pushed
<1>5. ASSUME NEW s \in Session, Handle(s) PROVE CommitInv'
  <2>1. CASE UNCHANGED <<flows, of, pc>>
    BY <1>0, <1>5, <2>1, Elsewhere DEF Handle, Unused
  <2> QED
    BY <1>4, <1>5, <2>1 DEF Handle
<1>6. ASSUME NEW s \in Session, Decide(s) PROVE CommitInv'
  BY <1>4, <1>6 DEF Decide
<1>7. ASSUME NEW w \in Writer, NEW kinds, Writes(w, kinds) PROVE CommitInv'
  BY <1>0, <1>7, Elsewhere DEF Writes, Unused
<1>8. ASSUME NEW s \in Session, Write(s) PROVE CommitInv'
  BY <1>7, <1>8 DEF Write, Writer
<1>9. CASE OsWrites
  BY <1>7, <1>9 DEF OsWrites, Writer
<1>10. ASSUME NEW s \in Session, Switch(s) PROVE CommitInv'
  BY <1>0, <1>10, Elsewhere DEF Switch, Unused
<1>11. ASSUME NEW s \in Session, ClientCommits(s) PROVE CommitInv'
  <2> USE <1>0, <1>11 DEF CommitInv, ClientCommits
  <2>1. Unused' /\ Unborn' /\ OwnSha' /\ UnderWay' /\ Apart' /\ Loose'
    BY DEF Unused, Unborn, OwnSha, UnderWay, Apart, Loose
  <2>2. \A h \in Flow : (Taken(h)' <=> Taken(h)) /\ (Restored(h)' <=> Restored(h))
    BY DEF Taken, Restored, Takes, Restores
  <2>3. local' \in {local, local \union tree}
    BY DEF Extends, Adds
  <2>4. Kept' /\ Sent' /\ Off'
    BY <2>2, <2>3 DEF Kept, Sent, Off, Claims, Disclaims, Loose
  <2> QED
    BY <2>1, <2>4
<1>12. ASSUME NEW f \in Flow, Step(f) PROVE CommitInv'
  BY <1>0, <1>12, StepMakes, StepStands DEF Making, CommitInv
<1>13. CASE Restart
  BY <1>0, <1>13, Elsewhere DEF Restart, Over, TypeOK, Unused
<1> QED
  BY <1>1, <1>2, <1>3, <1>5, <1>6, <1>8, <1>9, <1>10, <1>11, <1>12, <1>13 DEF Next

\* Where the commits are, whatever flows and others do: in the branch and on origin
\* once they are pushed, off both once they are reverted, unless another flow took
\* them for its own after a rebase.
THEOREM CommitInvAlways == Spec => []CommitInv
<1>1. Init => CommitInv
  <2> SUFFICES ASSUME Init PROVE CommitInv
    OBVIOUS
  <2>1. TypeOK
    BY InitTypes
  <2>2. Unused /\ Unborn /\ OwnSha /\ UnderWay /\ Apart /\ Loose
    BY DEF Init, Unused, Unborn, OwnSha, UnderWay, Apart, Loose, Pushed, Committed
  <2>3. Kept /\ Sent /\ Off
    BY DEF Init, Kept, Sent, Off, Claims, Disclaims, Live, Pushed, Committed
  <2> QED
    BY <2>1, <2>2, <2>3 DEF CommitInv
<1> QED
  BY <1>1, CommitInvNext, PTL DEF Spec

\* The commit of a deployment that counts as served is on origin, unless it was made
\* off main or another flow took it for its own.
THEOREM ServedStaysOnOrigin == Spec => []ServedIsOnOrigin
<1>1. CommitInv => ServedIsOnOrigin
  BY DEF CommitInv, Sent, Claims, Taken, Live, ServedIsOnOrigin
<1> QED
  BY <1>1, CommitInvAlways, PTL

\* The commit of a deployment that was reverted is not on origin, if it was that
\* commit that the flow took for its own and no revert of a revert restores it.
THEOREM RevertedIsOffOrigin == Spec => []RevertedStaysOff
<1>1. CommitInv => RevertedStaysOff
  BY DEF CommitInv, Off, Disclaims, Restored, RevertedStaysOff
<1> QED
  BY <1>1, CommitInvAlways, PTL

-----------------------------------------------------------------------------
(* Serialised dispatches: the edits that are in the directory belong to    *)
(* sessions that are not settled, or were left there; and sessions that    *)
(* are not settled at one time are crowded.                                *)

\* No edit of s is in the directory, or they were left there.
Swept(s) == s \in leftover \/ \A e \in tree : e[1] # s

Placed ==
  /\ \A f \in Flow : f <= flows => cc[of[f]] \in {"complete", "failed"}
  /\ \A s \in told : cc[s] \in {"complete", "failed"}
  /\ \A e \in tree : e[1] \in Session => cc[e[1]] # "none"
  /\ \A s \in Session : cc[s] \in {"none", "running"} => stage[s] = "executing"

\* Places of flows whose session has no edits in the directory.
Clear == {"nothing", "synced", "reverted", "fail"} \union Committed

SweptByFlow == \A f \in Flow : pc[f] \in Clear => Swept(of[f])

SweptByFinish == \A s \in told : cc[s] = "complete" /\ s \notin changed => Swept(s)

OpenWhileEdited ==
  \A s \in Session : cc[s] = "complete" /\ stage[s] \in {"complete", "failed"} =>
    Swept(s) \/ \E f \in Flow : of[f] = s /\ pc[f] = "clean"

SalvageIsDue ==
  \A s \in Session : cc[s] = "failed" =>
    Swept(s) \/ s \in told \/ \E f \in Flow : of[f] = s /\ pc[f] = "salvage"

CrowdsAreKnown == \A s, t \in Session : s # t /\ ~Settled(s) /\ ~Settled(t) => s \in crowded

Unspent == \A f \in Flow : pc[f] = "idle" => lot[f] = {}

TidyInv ==
  /\ TypeOK /\ Unused /\ Unspent
  /\ Placed /\ SweptByFlow /\ SweptByFinish /\ OpenWhileEdited /\ SalvageIsDue
  /\ CrowdsAreKnown
  /\ SerialisedDeploysOwnWork

(* What a step of a flow does to what the invariant mentions. *)
LEMMA StepEffect ==
  ASSUME TypeOK, NEW f \in Flow, Step(f)
  PROVE  /\ UNCHANGED <<cc, changed, told, flows, of, crowded, down>>
         /\ pc[f] \notin Over /\ pc'[f] # "idle" /\ pc' = [pc EXCEPT ![f] = pc'[f]]
         /\ stage' = [stage EXCEPT ![of[f]] = stage'[of[f]]]
         /\ tree' \subseteq tree /\ leftover \subseteq leftover'
         /\ pc'[f] \in Clear \/ pc[f] \in {"clean", "salvage"} => pc[f] \in Clear \/ Swept(of[f])'
         /\ \/ stage'[of[f]] = stage[of[f]] \/ stage'[of[f]] \notin {"complete", "failed"}
            \/ pc'[f] = "clean" \/ pc[f] \in Clear
         /\ lot' = lot \/ Commit(f)
<1> USE DEF TypeOK, Goto, Over, rows, work, main, git, api, past, Clear, Committed, Pushed, Swept
<1>1. CASE Nothing(f)
  BY <1>1 DEF Nothing, Mark
<1>2. CASE Reject(f)
  BY <1>2 DEF Reject, Mark
<1>3. CASE Test(f)
  BY <1>3 DEF Test, Mark
<1>4. CASE Validate(f)
  <2>1. PICK st \in {"testing", stage[of[f]]} :
          Mark(f, IF pc[f] = "review" THEN "judge" ELSE "present", st)
    BY <1>4 DEF Validate
  <2> QED
    BY <1>4, <2>1 DEF Validate, Mark
<1>5. CASE Present(f)
  BY <1>5 DEF Present, Mark
<1>6. CASE Judge(f)
  BY <1>6 DEF Judge, Mark
<1>7. CASE Clean(f)
  BY <1>7 DEF Clean, CleanUp, Cleaned, New, Leave
<1>8. CASE Salvage(f)
  BY <1>8 DEF Salvage, CleanUp, Cleaned, New, Untracked, Leave
<1>9. CASE Deploy(f)
  BY <1>9 DEF Deploy, Mark
<1>10. CASE Commit(f)
  BY <1>10 DEF Commit
<1>11. CASE CommitFails(f)
  BY <1>11 DEF CommitFails, Leave
<1>12. CASE Sync(f)
  BY <1>12 DEF Sync
<1>13. CASE Synced(f)
  BY <1>13 DEF Synced, Mark
<1>14. CASE Insert(f)
  BY <1>14 DEF Insert
<1>15. CASE Push(f)
  BY <1>15 DEF Push
<1>16. CASE Rebase(f)
  BY <1>16 DEF Rebase
<1>17. CASE Release(f)
  BY <1>17 DEF Release
<1>18. CASE Served(f)
  BY <1>18 DEF Served, Mark
<1>19. CASE Check(f)
  BY <1>19 DEF Check
<1>20. CASE Revert(f)
  BY <1>20 DEF Revert, Discards, Untracked, New
<1>21. CASE RevertAside(f)
  BY <1>21 DEF RevertAside, Discards, Untracked, New
<1>22. CASE RevertFails(f)
  BY <1>22 DEF RevertFails, Discards, Untracked, New
<1>23. CASE RevertNoted(f)
  BY <1>23 DEF RevertNoted, Mark
<1>24. CASE Fail(f)
  BY <1>24 DEF Fail, Mark
<1> QED
  BY <1>1, <1>2, <1>3, <1>4, <1>5, <1>6, <1>7, <1>8, <1>9, <1>10, <1>11, <1>12,
     <1>13, <1>14, <1>15, <1>16, <1>17, <1>18, <1>19, <1>20, <1>21, <1>22, <1>23, <1>24 DEF Step

\* The edits of a settled session were left.
LEMMA SettledIsSwept ==
  ASSUME TidyInv, NEW s \in Session, Settled(s)
  PROVE  Swept(s)
<1> USE DEF TidyInv, TypeOK, Settled
<1>1. CASE cc[s] = "none"
  BY <1>1 DEF Placed, Swept
<1>2. CASE cc[s] = "complete"
  BY <1>2 DEF OpenWhileEdited, Over
<1>3. CASE cc[s] = "failed"
  BY <1>3 DEF SalvageIsDue, Over
<1> QED
  BY <1>1, <1>2, <1>3

LEMMA CommitsOwnWork ==
  ASSUME TidyInv, NEW f \in Flow, Commit(f), of[f] \notin crowded, NEW e \in tree
  PROVE  e[1] \in {of[f], Os} \union leftover
<1> SUFFICES ASSUME e[1] # of[f], e[1] # Os PROVE e[1] \in leftover
  OBVIOUS
<1>1. e[1] \in Session /\ of[f] \in Session
  BY DEF TidyInv, TypeOK, Edit, Writer
<1>2. ~Settled(of[f])
  BY DEF Commit, Settled, Over
<1>3. Settled(e[1])
  BY <1>1, <1>2 DEF TidyInv, CrowdsAreKnown
<1> QED
  BY <1>1, <1>3, SettledIsSwept DEF Swept

LEMMA StepSettles ==
  ASSUME TypeOK, NEW f \in Flow, Step(f), NEW s \in Session, Settled(s)
  PROVE  Settled(s)'
BY StepEffect DEF Settled, TypeOK

LEMMA UsedOrNot == TypeOK => \A f \in Flow : f <= flows \/ f > flows
BY PipelineBounds DEF TypeOK, Flow

LEMMA StepTidies ==
  ASSUME TidyInv, NEW f \in Flow, Step(f)
  PROVE  TidyInv'
<1> USE DEF Over, TidyInv, TypeOK
<1>0. \A s \in Session : Swept(s) => Swept(s)'
  BY StepEffect DEF Swept
<1>1. TypeOK'
  BY StepTypes
<1>2. Unused' /\ Unspent'
  BY StepEffect DEF Unused, Unspent, Commit
<1>3. Placed'
  BY StepEffect, UsedOrNot DEF Placed, Unused
<1>4. SweptByFlow'
  BY <1>0, StepEffect DEF SweptByFlow
<1>5. SweptByFinish'
  BY <1>0, StepEffect DEF SweptByFinish
<1>6. OpenWhileEdited'
  BY <1>0, StepEffect DEF OpenWhileEdited, SweptByFlow
<1>7. SalvageIsDue'
  BY <1>0, StepEffect DEF SalvageIsDue, SweptByFlow
<1>8. CrowdsAreKnown'
  BY StepEffect, StepSettles DEF CrowdsAreKnown
<1>9. SerialisedDeploysOwnWork'
  <2>1. CASE lot' = lot
    BY <2>1, StepEffect DEF SerialisedDeploysOwnWork
  <2>2. CASE Commit(f)
    <3> SUFFICES ASSUME NEW g \in Flow, of[g] \notin crowded, NEW e \in lot'[g]
                 PROVE  e[1] \in {of[g], Os} \union leftover
      BY StepEffect DEF SerialisedDeploysOwnWork
    <3>1. CASE g = f
      BY <2>2, <3>1, CommitsOwnWork DEF Commit
    <3>2. CASE g # f
      BY <2>2, <3>2 DEF SerialisedDeploysOwnWork, Commit
    <3> QED
      BY <3>1, <3>2
  <2> QED
    BY <2>1, <2>2, StepEffect
<1> QED
  BY <1>1, <1>2, <1>3, <1>4, <1>5, <1>6, <1>7, <1>8, <1>9

LEMMA BeginEffect ==
  ASSUME TypeOK, Unused, NEW s \in Session, NEW x \in Place, Begin(s, x)
  PROVE  /\ flows' \in Flow /\ flows' > flows /\ Unused'
         /\ pc[flows'] = "idle" /\ pc'[flows'] = x /\ of'[flows'] = s
         /\ \A g \in Flow : g # flows' => pc'[g] = pc[g] /\ of'[g] = of[g]
<1>1. flows' \in Flow /\ flows' > flows /\ \A g \in Flow : g > flows' => g > flows
  BY BeginFacts, PipelineBounds DEF TypeOK, Flow
<1>2. \A g \in Flow : g # flows' => pc'[g] = pc[g] /\ of'[g] = of[g]
  BY BeginFacts DEF Begin, TypeOK
<1>3. \A g \in Flow : g > flows' => g # flows'
  BY <1>1 DEF Flow
<1> QED
  BY <1>1, <1>2, <1>3, BeginFacts DEF Begin, TypeOK, Unused

LEMMA OthersAsTheyWere ==
  ASSUME TypeOK, Unused, NEW s \in Session, NEW x \in Place, Begin(s, x), UNCHANGED <<cc, stage>>,
         told' \in {told, told \ {s}}, NEW t \in Session, t # s, Settled(t)
  PROVE  Settled(t)'
BY BeginEffect DEF Settled, Over

\* What a new flow does to the invariant, but for the crowds.
LEMMA BeginTidies ==
  ASSUME TidyInv, TypeOK', NEW s \in Session, NEW x \in Place, Begin(s, x),
         cc[s] \in {"complete", "failed"}, UNCHANGED <<rows, wrote, git, lot, leftover>>,
         told' = told \/ (told' = told \ {s} /\ (cc[s] = "failed" => x = "salvage")),
         x \in Clear => x = "nothing" /\ cc[s] = "complete" /\ s \in told \ changed,
         crowded \subseteq crowded', CrowdsAreKnown'
  PROVE  TidyInv'
<1> USE BeginEffect DEF TidyInv, rows, work, main, git
<1>0. \A t : Swept(t)' <=> Swept(t)
  BY DEF Swept
<1>1. Unused' /\ Unspent'
  BY DEF Unspent
<1>2. Placed'
  BY BeginFacts DEF Placed, Flow, TypeOK
<1>3. SweptByFlow'
  BY <1>0 DEF SweptByFlow, SweptByFinish
<1>4. SweptByFinish'
  BY <1>0 DEF SweptByFinish
<1>5. OpenWhileEdited'
  BY <1>0 DEF OpenWhileEdited
<1>6. SalvageIsDue'
  BY <1>0 DEF SalvageIsDue
<1>7. SerialisedDeploysOwnWork'
  <2> SUFFICES ASSUME NEW f \in Flow, of'[f] \notin crowded', NEW e \in lot[f]
               PROVE  e[1] \in {of'[f], Os} \union leftover
    BY DEF SerialisedDeploysOwnWork
  <2>1. CASE f = flows'
    BY <2>1 DEF Unspent
  <2>2. CASE f # flows'
    BY <2>2 DEF SerialisedDeploysOwnWork
  <2> QED
    BY <2>1, <2>2
<1> QED
  BY <1>1, <1>2, <1>3, <1>4, <1>5, <1>6, <1>7

\* What is left to show of a step that begins no flow, and ends none but by a restart
LEMMA NoFlowTidies ==
  ASSUME TidyInv, TypeOK', UNCHANGED <<flows, of, lot>>, leftover \subseteq leftover', crowded \subseteq crowded',
         Placed', SweptByFlow', SweptByFinish', OpenWhileEdited', SalvageIsDue', CrowdsAreKnown',
         \A f \in Flow : pc'[f] = pc[f] \/ (pc[f] # "idle" /\ pc'[f] = "gone")
  PROVE  TidyInv'
<1> USE DEF TidyInv
<1>1. Unused' /\ Unspent'
  BY DEF Unused, Unspent
<1>2. SerialisedDeploysOwnWork'
  BY DEF SerialisedDeploysOwnWork
<1> QED
  BY <1>1, <1>2

LEMMA TidyInvNext == TidyInv /\ [Next]_vars => TidyInv'
<1> SUFFICES ASSUME TidyInv, [Next]_vars PROVE TidyInv'
  OBVIOUS
<1> USE DEF rows, work, main, git, api, past
<1>0. TypeOK' /\ TypeOK /\ Unused
  BY NextTypes DEF TidyInv
<1>1. ASSUME UNCHANGED <<cc, stage, changed, told, flows, of, pc, lot, leftover, crowded>>, tree' \subseteq tree
      PROVE  TidyInv'
  <2>1. \A s : Swept(s) => Swept(s)'
    BY <1>1 DEF Swept
  <2>2. \A s \in Session : Settled(s)' <=> Settled(s)
    BY <1>1 DEF Settled
  <2>3. Placed' /\ SweptByFlow' /\ SweptByFinish' /\ OpenWhileEdited' /\ SalvageIsDue' /\ CrowdsAreKnown'
    BY <1>1, <2>1, <2>2
       DEF TidyInv, Placed, SweptByFlow, SweptByFinish, OpenWhileEdited, SalvageIsDue, CrowdsAreKnown
  <2> QED
    BY <1>0, <1>1, <2>3, NoFlowTidies
<1>2. CASE UNCHANGED vars
  BY <1>1, <1>2 DEF vars
<1>3. ASSUME NEW s \in Session, Switch(s) PROVE TidyInv'
  BY <1>1, <1>3 DEF Switch
<1>4. ASSUME NEW s \in Session, ClientCommits(s) PROVE TidyInv'
  BY <1>1, <1>4 DEF ClientCommits
<1>5. ASSUME NEW s \in Session, Start(s) PROVE TidyInv'
  <2>1. \A t \in Session : t # s => (Settled(t)' <=> Settled(t))
    BY <1>0, <1>5 DEF Start, Settled, TypeOK
  <2>2. CrowdsAreKnown'
    BY <1>5, <2>1 DEF TidyInv, CrowdsAreKnown, Start, Crowd
  <2>3. \A t : Swept(t)' <=> Swept(t)
    BY <1>5 DEF Start, Swept
  <2>4. cc[s] = "none" /\ cc' = [cc EXCEPT ![s] = "running"] /\ crowded \subseteq crowded'
    BY <1>5 DEF Start, Crowd
  <2>5. UNCHANGED <<changed, stage, told, flows, of, pc, lot, leftover, tree>>
    BY <1>5 DEF Start
  <2>6. Placed' /\ SweptByFlow' /\ SweptByFinish' /\ OpenWhileEdited' /\ SalvageIsDue'
    BY <1>0, <2>3, <2>4, <2>5
       DEF TidyInv, TypeOK, Placed, SweptByFlow, SweptByFinish, OpenWhileEdited, SalvageIsDue
  <2> QED
    BY <1>0, <2>2, <2>4, <2>5, <2>6, NoFlowTidies
<1>6. ASSUME NEW s \in Session, Finish(s) PROVE TidyInv'
  <2>1. /\ cc[s] = "running" /\ told' = told \union {s} /\ stage[s] = "executing"
        /\ UNCHANGED <<tree, flows, of, pc, lot, crowded>>
        /\ changed \subseteq changed' /\ changed' \subseteq changed \union {s} /\ leftover \subseteq leftover'
    BY <1>6 DEF Finish, Leave, TidyInv, Placed
  <2>2. \/ /\ cc' = [cc EXCEPT ![s] = "complete"] /\ stage' = stage
           /\ s \in changed' \/ Swept(s)'
        \/ cc' = [cc EXCEPT ![s] = "failed"] /\ stage' = [stage EXCEPT ![s] = "failed"]
    BY <1>6 DEF Finish, Leave, Swept
  <2>3. \A t : Swept(t) => Swept(t)'
    BY <2>1 DEF Swept
  <2>4. \A t \in Session : Settled(t) => Settled(t)'
    BY <1>0, <2>1, <2>2 DEF Settled, TypeOK
  <2>5. Placed' /\ SweptByFlow' /\ SweptByFinish' /\ OpenWhileEdited' /\ SalvageIsDue'
    BY <1>0, <2>1, <2>2, <2>3
       DEF TidyInv, TypeOK, Placed, SweptByFlow, SweptByFinish, OpenWhileEdited, SalvageIsDue
  <2>6. CrowdsAreKnown'
    BY <2>1, <2>4 DEF TidyInv, CrowdsAreKnown
  <2> QED
    BY <1>0, <2>1, <2>5, <2>6, NoFlowTidies
<1>7. ASSUME NEW s \in Session, Handle(s) PROVE TidyInv'
  <2>1. ASSUME NEW x \in {"salvage", "nothing", "test"}, Begin(s, x),
               x = "salvage" <=> cc[s] = "failed", cc[s] # "failed" => cc[s] = "complete",
               x = "nothing" => s \notin changed
        PROVE  TidyInv'
    <3>1. CrowdsAreKnown'
      BY <1>0, <1>7, <2>1, OthersAsTheyWere DEF CrowdsAreKnown, Handle, Settled, Place, TidyInv
    <3> QED
      BY <1>0, <1>7, <2>1, <3>1, BeginTidies DEF Handle, Place, Clear, Committed, Pushed
  <2>2. ASSUME cc[s] = "complete", s \in changed, UNCHANGED <<flows, of, pc>> PROVE TidyInv'
    <3>1. \A t \in Session : Settled(t) => Settled(t)'
      BY <1>7, <2>2 DEF Handle, Settled
    <3>2. CrowdsAreKnown'
      BY <1>7, <3>1 DEF TidyInv, CrowdsAreKnown, Handle
    <3>3. \A t : Swept(t)' <=> Swept(t)
      BY <1>7 DEF Handle, Swept
    <3>4. Placed' /\ SweptByFlow' /\ SweptByFinish' /\ OpenWhileEdited' /\ SalvageIsDue'
      BY <1>0, <1>7, <2>2, <3>3
         DEF Handle, TidyInv, Placed, SweptByFlow, SweptByFinish, OpenWhileEdited, SalvageIsDue
    <3> QED
      BY <1>0, <1>7, <2>2, <3>2, <3>4, NoFlowTidies DEF Handle
  <2> QED
    BY <1>7, <2>1, <2>2 DEF Handle
<1>8. ASSUME NEW s \in Session, Decide(s) PROVE TidyInv'
  <2>1. PICK x \in {"prepare", "deploy", "reject"} : Begin(s, x)
    BY <1>8 DEF Decide
  <2>2. x \in Place /\ x \notin Clear
    BY DEF Place, Clear, Committed, Pushed
  <2>3. CrowdsAreKnown'
    BY <1>0, <1>8, <2>1, <2>2, OthersAsTheyWere DEF CrowdsAreKnown, Decide, Crowd, TidyInv
  <2>4. crowded \subseteq crowded'
    BY <1>8 DEF Decide, Crowd
  <2>5. cc[s] \in {"complete", "failed"} /\ told' = told /\ UNCHANGED <<rows, wrote, git, lot, leftover>>
    BY <1>8 DEF Decide
  <2> QED
    BY <1>0, <1>8, <2>1, <2>2, <2>3, <2>4, <2>5, BeginTidies
<1>9. ASSUME NEW w \in Writer, NEW kinds, Writes(w, kinds), w = Os \/ cc[w] = "running" PROVE TidyInv'
  <2>1. /\ UNCHANGED <<cc, changed, stage, told, flows, of, pc, lot, leftover, crowded>>
        /\ \A e \in tree' : e \in tree \/ e[1] = w
    BY <1>9 DEF Writes
  <2>2. Os \notin Session
    BY DEF Os, Session
  <2>3. \A s \in Session : Settled(s)' <=> Settled(s)
    BY <2>1 DEF Settled
  <2>4. \A s : s # w => (Swept(s) => Swept(s)')
    BY <2>1 DEF Swept
  <2>5. \A s \in Session : cc[s] \in {"complete", "failed"} => s # w
    BY <1>9, <2>2
  <2>6. Placed'
    BY <1>9, <2>1, <2>2 DEF TidyInv, Placed
  <2>7. SweptByFlow'
    <3>1. \A f \in Flow : pc[f] \in Clear => cc[of[f]] \in {"complete", "failed"}
      BY <1>0, UsedOrNot DEF TidyInv, Placed, Unused, Clear, Committed, Pushed
    <3> QED
      BY <1>0, <2>1, <2>4, <2>5, <3>1 DEF TidyInv, SweptByFlow, TypeOK
  <2>8. SweptByFinish' /\ OpenWhileEdited' /\ SalvageIsDue'
    BY <1>0, <2>1, <2>4, <2>5 DEF TidyInv, TypeOK, Placed, SweptByFinish, OpenWhileEdited, SalvageIsDue
  <2>9. CrowdsAreKnown'
    BY <2>1, <2>3 DEF TidyInv, CrowdsAreKnown
  <2> QED
    BY <1>0, <2>1, <2>6, <2>7, <2>8, <2>9, NoFlowTidies
<1>10. ASSUME NEW s \in Session, Write(s) PROVE TidyInv'
  BY <1>9, <1>10 DEF Write, Writer
<1>11. CASE OsWrites
  BY <1>9, <1>11 DEF OsWrites, Writer
<1>12. ASSUME NEW f \in Flow, Step(f) PROVE TidyInv'
  BY <1>12, StepTidies
<1>13. CASE Restart
  <2>1. /\ UNCHANGED <<cc, changed, stage, tree, flows, of, lot, crowded>> /\ told' = {}
        /\ pc' = [f \in Flow |-> IF pc[f] \in Over THEN pc[f] ELSE "gone"]
        /\ leftover \subseteq leftover'
        /\ \A s \in told : Swept(s)'
        /\ \A f \in Flow : pc[f] \notin Over => Swept(of[f])'
    BY <1>13 DEF Restart, Leave, Swept
  <2>2. \A s : Swept(s) => Swept(s)'
    BY <2>1 DEF Swept
  <2>3. \A s \in Session : Settled(s) => Settled(s)'
    BY <2>1 DEF Settled, Over
  <2>4. Placed' /\ SweptByFinish' /\ CrowdsAreKnown'
    BY <2>1, <2>3 DEF TidyInv, Placed, SweptByFinish, CrowdsAreKnown
  <2>5. SweptByFlow'
    BY <2>1, <2>2 DEF TidyInv, SweptByFlow, Clear, Committed, Pushed, Over
  <2>6. OpenWhileEdited' /\ SalvageIsDue'
    BY <2>1, <2>2 DEF TidyInv, OpenWhileEdited, SalvageIsDue, Over
  <2> QED
    BY <1>0, <2>1, <2>4, <2>5, <2>6, NoFlowTidies DEF Over
<1> QED
  BY <1>2, <1>3, <1>4, <1>5, <1>6, <1>7, <1>8, <1>10, <1>11, <1>12, <1>13 DEF Next

\* A session that is never beside an unsettled one commits its own work, or edits of
\* the OS session, or those that a session left when it was settled.
THEOREM SerialisedOwnWork == Spec => []SerialisedDeploysOwnWork
<1>1. Init => TidyInv
  <2> SUFFICES ASSUME Init PROVE TidyInv
    OBVIOUS
  <2>1. TypeOK
    BY InitTypes
  <2>2. \A s \in Session : Settled(s)
    BY DEF Init, Settled, Over
  <2>3. CrowdsAreKnown
    BY <2>2 DEF CrowdsAreKnown
  <2> QED
    BY <2>1, <2>3 DEF Init, TidyInv, Unused, Unspent, Placed, SweptByFlow, SweptByFinish, Clear, Committed,
       Pushed, Swept, OpenWhileEdited, SalvageIsDue, SerialisedDeploysOwnWork, Flow
<1>2. TidyInv => SerialisedDeploysOwnWork
  BY DEF TidyInv
<1> QED
  BY <1>1, <1>2, TidyInvNext, PTL DEF Spec

-----------------------------------------------------------------------------
(* Stages that say that something is under way.                            *)

Busy == {"testing", "deploying"}

(* Once a flow is at a place of Ahead, it leaves Ahead with a stage that   *)
(* is not Busy, or with a failed revert; and only such flows make it so.   *)
LEMMA StepMarks ==
  ASSUME TypeOK, NEW f \in Flow, Step(f)
  PROVE  /\ pc[f] \in Ahead => \/ pc'[f] \in Ahead \union {"unreverted"}
                               \/ stage'[of[f]] \notin Busy
         /\ \/ stage' = stage
            \/ stage'[of[f]] \notin Busy
            \/ pc'[f] \in Ahead
<1> USE DEF TypeOK, Goto, Ahead, Busy, rows
<1>1. CASE Nothing(f)
  BY <1>1 DEF Nothing, Mark
<1>2. CASE Reject(f)
  BY <1>2 DEF Reject, Mark
<1>3. CASE Test(f)
  BY <1>3 DEF Test, Mark
<1>4. CASE Validate(f)
  BY <1>4 DEF Validate, Mark
<1>5. CASE Present(f)
  BY <1>5 DEF Present, Mark
<1>6. CASE Judge(f)
  BY <1>6 DEF Judge, Mark
<1>7. CASE Clean(f)
  BY <1>7 DEF Clean
<1>8. CASE Salvage(f)
  BY <1>8 DEF Salvage
<1>9. CASE Deploy(f)
  BY <1>9 DEF Deploy, Mark
<1>10. CASE Commit(f)
  BY <1>10 DEF Commit
<1>11. CASE CommitFails(f)
  BY <1>11 DEF CommitFails
<1>12. CASE Sync(f)
  BY <1>12 DEF Sync
<1>13. CASE Synced(f)
  BY <1>13 DEF Synced, Mark
<1>14. CASE Insert(f)
  BY <1>14 DEF Insert
<1>15. CASE Push(f)
  BY <1>15 DEF Push
<1>16. CASE Rebase(f)
  BY <1>16 DEF Rebase
<1>17. CASE Release(f)
  BY <1>17 DEF Release
<1>18. CASE Served(f)
  BY <1>18 DEF Served, Mark
<1>19. CASE Check(f)
  BY <1>19 DEF Check
<1>20. CASE Revert(f)
  BY <1>20 DEF Revert
<1>21. CASE RevertAside(f)
  BY <1>21 DEF RevertAside
<1>22. CASE RevertFails(f)
  BY <1>22 DEF RevertFails
<1>23. CASE RevertNoted(f)
  BY <1>23 DEF RevertNoted, Mark
<1>24. CASE Fail(f)
  BY <1>24 DEF Fail, Mark
<1> QED
  BY <1>1, <1>2, <1>3, <1>4, <1>5, <1>6, <1>7, <1>8, <1>9, <1>10, <1>11, <1>12,
     <1>13, <1>14, <1>15, <1>16, <1>17, <1>18, <1>19, <1>20, <1>21, <1>22, <1>23, <1>24 DEF Step

StageInv ==
  /\ TypeOK
  /\ Unused
  /\ StageHasFlow

\* A step that writes no stage that is Busy, and that ends no flow, keeps the witnesses.
LEMMA FlowsStay ==
  ASSUME StageHasFlow,
         \A s \in Session : stage'[s] = stage[s] \/ stage'[s] \notin Busy,
         \A f \in Flow : pc[f] # "idle" => pc'[f] = pc[f] /\ of'[f] = of[f],
         down' = down
  PROVE  StageHasFlow'
BY DEF StageHasFlow, Busy, Ahead

\* The flow that writes a stage stands for it; another flow's witness stays.
LEMMA StepKeepsStage ==
  ASSUME StageInv, NEW f \in Flow, Step(f)
  PROVE  StageInv'
<1> USE DEF StageInv
<1>1. TypeOK'
  BY StepTypes
<1>2. /\ UNCHANGED <<cc, flows, of, down>>
      /\ pc[f] \notin Over /\ pc' = [pc EXCEPT ![f] = pc'[f]]
      /\ stage' = [stage EXCEPT ![of[f]] = stage'[of[f]]]
  BY StepEffect
<1>3. Unused'
  BY <1>1, <1>2 DEF Unused, Over, TypeOK
<1>4. StageHasFlow'
  <2> SUFFICES ASSUME NEW s \in Session, stage'[s] \in Busy, ~down
               PROVE  \E g \in Flow : of[g] = s /\ pc'[g] \in Ahead \union {"unreverted"}
    BY <1>2 DEF StageHasFlow, Busy
  <2>1. CASE stage'[s] = stage[s]
    <3>1. PICK g \in Flow : of[g] = s /\ pc[g] \in Ahead \union {"unreverted"}
      BY <2>1 DEF StageHasFlow, Busy
    <3>2. CASE g # f
      BY <1>2, <3>1, <3>2 DEF TypeOK
    <3>3. CASE g = f
      BY <1>2, <3>1, <3>3, StepMarks DEF Over
    <3> QED
      BY <3>2, <3>3
  <2>2. CASE stage'[s] # stage[s]
    <3>1. of[f] = s
      BY <1>2, <2>2 DEF TypeOK
    <3> QED
      BY <3>1, <2>2, StepMarks
  <2> QED
    BY <2>1, <2>2
<1> QED
  BY <1>1, <1>3, <1>4

LEMMA StageInvNext == StageInv /\ [Next]_vars => StageInv'
<1> SUFFICES ASSUME StageInv, [Next]_vars PROVE StageInv'
  OBVIOUS
<1> USE DEF StageInv, rows, work, main, git, api, past
<1>0. TypeOK'
  BY NextTypes
<1>1. CASE UNCHANGED vars
  BY <1>0, <1>1, FlowsStay DEF vars, Unused
<1>2. ASSUME NEW s \in Session, Start(s) PROVE StageInv'
  BY <1>0, <1>2, FlowsStay DEF Start, Unused
<1>3. ASSUME NEW s \in Session, Finish(s) PROVE StageInv'
  <2>1. \A t \in Session : stage'[t] = stage[t] \/ stage'[t] \notin Busy
    BY <1>3 DEF Finish, TypeOK, Busy
  <2> QED
    BY <1>0, <1>3, <2>1, FlowsStay DEF Finish, Unused
<1>4. ASSUME NEW s \in Session, Handle(s) PROVE StageInv'
  <2>1. ASSUME NEW x \in {"salvage", "nothing", "test"}, Begin(s, x) PROVE StageInv'
    <3>1. x \in Place
      BY DEF Place
    <3>2. Unused' /\ \A f \in Flow : pc[f] # "idle" => pc'[f] = pc[f] /\ of'[f] = of[f]
      BY <2>1, <3>1, BeginEffect
    <3> QED
      BY <1>0, <1>4, <3>2, FlowsStay DEF Handle
  <2>2. CASE UNCHANGED <<flows, of, pc>>
    BY <1>0, <1>4, <2>2, FlowsStay DEF Handle, Unused
  <2> QED
    BY <1>4, <2>1, <2>2 DEF Handle
<1>5. ASSUME NEW s \in Session, Decide(s) PROVE StageInv'
  <2>1. PICK x \in {"prepare", "deploy", "reject"} : Begin(s, x)
    BY <1>5 DEF Decide
  <2>2. x \in Place
    BY DEF Place
  <2>3. Unused' /\ \A f \in Flow : pc[f] # "idle" => pc'[f] = pc[f] /\ of'[f] = of[f]
    BY <2>1, <2>2, BeginEffect
  <2> QED
    BY <1>0, <1>5, <2>3, FlowsStay DEF Decide
<1>6. ASSUME NEW w, NEW kinds, Writes(w, kinds) PROVE StageInv'
  BY <1>0, <1>6, FlowsStay DEF Writes, Unused
<1>7. ASSUME NEW s \in Session, Write(s) PROVE StageInv'
  BY <1>6, <1>7 DEF Write
<1>8. CASE OsWrites
  BY <1>6, <1>8 DEF OsWrites
<1>9. ASSUME NEW s \in Session, Switch(s) PROVE StageInv'
  BY <1>0, <1>9, FlowsStay DEF Switch, Unused
<1>10. ASSUME NEW s \in Session, ClientCommits(s) PROVE StageInv'
  BY <1>0, <1>10, FlowsStay DEF ClientCommits, Unused
<1>11. ASSUME NEW f \in Flow, Step(f) PROVE StageInv'
  BY <1>11, StepKeepsStage
<1>12. CASE Restart
  <2>1. Unused'
    BY <1>12 DEF Restart, Unused, Over, TypeOK
  <2> QED
    BY <1>0, <1>12, <2>1 DEF StageHasFlow, Restart
<1> QED
  BY <1>1, <1>2, <1>3, <1>4, <1>5, <1>7, <1>8, <1>9, <1>10, <1>11, <1>12 DEF Next

\* While the API is up, a session that is being tested or deployed has a flow
\* that will write its stage again, or whose revert failed; so that no order of
\* completions, reviews, approvals and rejections leaves the stage behind.
THEOREM NoStageLeftBehind == Spec => []StageHasFlow
<1>1. Init => StageInv
  <2> SUFFICES ASSUME Init PROVE StageInv
    OBVIOUS
  <2>1. TypeOK
    BY InitTypes
  <2> QED
    BY <2>1 DEF Init, StageInv, Unused, StageHasFlow, Session
<1>2. StageInv => StageHasFlow
  BY DEF StageInv
<1> QED
  BY <1>1, <1>2, StageInvNext, PTL DEF Spec

=============================================================================
