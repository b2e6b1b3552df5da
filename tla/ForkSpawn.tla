------------------------------ MODULE ForkSpawn ------------------------------
(***************************************************************************)
(* Admission of forks: spawnFork of services/forkService.js up to the      *)
(* registration in the Map _forks.                                         *)
(*                                                                         *)
(* Any number of calls run at the same time (the HTTP route, the MCP tool  *)
(* spawn_fork).  A call counts the live forks, checks the hard cap, awaits *)
(* the energy level and compares the count it took BEFORE the await with   *)
(* the cap of that level.  One element of Fork is one call and the fork it *)
(* creates; what a live fork does is the subject of module ForkRun.        *)
(***************************************************************************)
EXTENDS Integers, FiniteSets

CONSTANTS
  Fork,         \* the calls of spawnFork
  HardCap,      \* HARD_FORK_CAP
  EnergyCaps,   \* the values of ENERGY_FORK_CAPS
  MaxCrash      \* bound: restarts of the process

ASSUME ForkAssumption == IsFiniteSet(Fork)
ASSUME CapAssumption == HardCap \in Nat /\ EnergyCaps \subseteq Nat /\ MaxCrash \in Nat

VARIABLES
  call,         \* new, counted (in `await _energyCap()`), admitted, refused
  seen,         \* the local `active`
  registry,     \* the fork in _forks: absent, live (spawning, running, reporting), over
  level,        \* the energy cap the last admission was compared with
  overlap,      \* the most calls that one found between their count and their
                \* registration when it took its own count
  crashes       \* restarts so far

vars == <<call, seen, registry, level, overlap, crashes>>

Init ==
  /\ call     = [f \in Fork |-> "new"]
  /\ seen     = [f \in Fork |-> 0]
  /\ registry = [f \in Fork |-> "absent"]
  /\ level    = 0
  /\ overlap  = 0
  /\ crashes  = 0

Active == {f \in Fork : registry[f] = "live"}

\* _activeCount()
ActiveCount == Cardinality(Active)

\* The calls that have taken their count and not yet acted on it.
Counting == {f \in Fork : call[f] = "counted"}

\* Mutant: off by one.
AtHardCap == ActiveCount <= HardCap

BelowHardCap == ActiveCount < HardCap

Enter(f) ==
  /\ call[f] = "new"
  /\ BelowHardCap
  /\ call' = [call EXCEPT ![f] = "counted"]
  /\ seen' = [seen EXCEPT ![f] = ActiveCount]
  /\ overlap' = IF Cardinality(Counting) > overlap THEN Cardinality(Counting) ELSE overlap
  /\ UNCHANGED <<registry, level, crashes>>

\* fork_cap_reached
RefuseHard(f) ==
  /\ call[f] = "new"
  /\ ~BelowHardCap
  /\ call' = [call EXCEPT ![f] = "refused"]
  /\ UNCHANGED <<seen, registry, level, overlap, crashes>>

\* The energy level is known (or the query failed: then it counts as healthy).
\* Mutant: off by one.
AtEnergyCap(f, cap) == seen[f] <= cap

BelowEnergyCap(f, cap) == seen[f] < cap

Admit(f) ==
  /\ call[f] = "counted"
  /\ \E cap \in EnergyCaps :
       /\ BelowEnergyCap(f, cap)
       /\ level' = cap
  /\ call' = [call EXCEPT ![f] = "admitted"]
  /\ registry' = [registry EXCEPT ![f] = "live"]
  /\ UNCHANGED <<seen, overlap, crashes>>

\* fork_energy_cap_reached
RefuseEnergy(f) ==
  /\ call[f] = "counted"
  /\ \E cap \in EnergyCaps : ~BelowEnergyCap(f, cap)
  /\ call' = [call EXCEPT ![f] = "refused"]
  /\ UNCHANGED <<seen, registry, level, overlap, crashes>>

\* The run loop sets a terminal status ...
End(f) ==
  /\ registry[f] = "live"
  /\ registry' = [registry EXCEPT ![f] = "over"]
  /\ UNCHANGED <<call, seen, level, overlap, crashes>>

\* Mutant: the entry is marked instead of deleted.
Mark(f) ==
  /\ registry[f] = "over"
  /\ registry' = [registry EXCEPT ![f] = "evicted"]
  /\ UNCHANGED <<call, seen, level, overlap, crashes>>

\* ... and drops the entry five minutes later.
Evict(f) ==
  /\ registry[f] = "over"
  /\ registry' = [registry EXCEPT ![f] = "absent"]
  /\ UNCHANGED <<call, seen, level, overlap, crashes>>

\* A restart empties the Map and ends the calls that were under way.
Crash ==
  /\ crashes < MaxCrash
  /\ crashes' = crashes + 1
  /\ registry' = [f \in Fork |-> "absent"]
  /\ call' = [f \in Fork |-> IF call[f] = "counted" THEN "refused" ELSE call[f]]
  /\ UNCHANGED <<seen, level, overlap>>

ForkStep(f) ==
  \/ Enter(f) \/ RefuseHard(f) \/ Admit(f) \/ RefuseEnergy(f) \/ End(f) \/ Evict(f)

Next == (\E f \in Fork : ForkStep(f)) \/ Crash

Spec == Init /\ [][Next]_vars

-----------------------------------------------------------------------------
(* Properties                                                              *)

TypeOK ==
  /\ call \in [Fork -> {"new", "counted", "admitted", "refused"}]
  /\ seen \in [Fork -> Nat]
  /\ registry \in [Fork -> {"absent", "live", "over"}]
  /\ level \in Nat
  /\ overlap \in Nat
  /\ crashes \in Nat

\* "Absolute concurrency ceiling": the live forks exceed the hard cap by no more
\* than the number of calls that one call found in the await between count and
\* registration.  Calls that do not overlap keep the cap itself: their count is
\* old, but forks can only have ended since it was taken.
ExcessIsOverlap == ActiveCount <= HardCap + overlap

\* While no two calls overlap there, an admission never takes the number of live forks
\* above the energy cap it was checked against, whatever ended, was evicted or
\* was lost in a restart meanwhile.
AdmissionWithinEnergyCap ==
  [][overlap' = 0 /\ Active' # Active /\ Active \subseteq Active' => ActiveCount' <= level']_vars

\* What the proofs need: the calls that have counted fit above the live forks,
\* because each found the hard cap not reached when it came in.
PendingFit == Counting # {} => ActiveCount + Cardinality(Counting) <= HardCap + overlap

\* While calls do not overlap, the one call that has counted saw at least the
\* forks that live now.
CountIsSafe ==
  overlap = 0 =>
    /\ \A f, g \in Counting : f = g
    /\ \A f \in Counting : ActiveCount <= seen[f]

\* A call that has not registered its fork has none.
UnregisteredIsNotLive == \A f \in Fork : call[f] \in {"new", "counted"} => registry[f] = "absent"

CapInv ==
  /\ TypeOK
  /\ PendingFit
  /\ CountIsSafe
  /\ UnregisteredIsNotLive
  /\ ExcessIsOverlap
=============================================================================
