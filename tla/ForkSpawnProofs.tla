--------------------------- MODULE ForkSpawnProofs ---------------------------
(***************************************************************************)
(* Proofs about ForkSpawn.  The inductive invariant is CapInv of that      *)
(* module: the bound on the live forks rests on how many calls were between *)
(* their count and their registration, and on what the call there has seen. *)
(***************************************************************************)
EXTENDS ForkSpawn, FiniteSetTheorems, TLAPS

\* The live forks are finitely many: _activeCount() counts them.
LEMMA ActiveFinite == IsFiniteSet(Active) /\ ActiveCount \in Nat
<1>1. Active \in SUBSET Fork
  BY DEF Active
<1> QED
  BY <1>1, ForkAssumption, FS_Subset, FS_CardinalityType DEF ActiveCount

\* Forks that end or disappear make the count of _activeCount() no larger.
LEMMA FewerActive ==
  ASSUME Active' \subseteq Active
  PROVE  ActiveCount' \in Nat /\ ActiveCount' <= ActiveCount
<1>1. Active' \in SUBSET Active
  OBVIOUS
<1> QED
  BY <1>1, ActiveFinite, FS_Subset, FS_CardinalityType DEF ActiveCount

\* A registration adds one to the count of _activeCount().
LEMMA OneMoreActive ==
  ASSUME NEW f \in Fork, Active' = Active \union {f}, f \notin Active
  PROVE  ActiveCount' \in Nat /\ ActiveCount' = ActiveCount + 1
<1>1. Cardinality(Active \union {f}) = Cardinality(Active) + 1
  BY ActiveFinite, FS_AddElement
<1> QED
  BY <1>1, ActiveFinite DEF ActiveCount

\* So are the calls in the await between count and registration.
LEMMA CountingFinite == IsFiniteSet(Counting) /\ Cardinality(Counting) \in Nat
<1>1. Counting \in SUBSET Fork
  BY DEF Counting
<1> QED
  BY <1>1, ForkAssumption, FS_Subset, FS_CardinalityType

\* One more call takes its count.
LEMMA OneMoreCounting ==
  ASSUME NEW f \in Fork, Counting' = Counting \union {f}, f \notin Counting
  PROVE  Cardinality(Counting') = Cardinality(Counting) + 1
BY CountingFinite, FS_AddElement

\* A call leaves the await.
LEMMA OneFewerCounting ==
  ASSUME NEW f \in Counting, Counting' = Counting \ {f}
  PROVE  Cardinality(Counting') = Cardinality(Counting) - 1
BY CountingFinite, FS_RemoveElement

\* Calls that leave the await in any number.
LEMMA FewerCounting ==
  ASSUME Counting' \subseteq Counting
  PROVE  Cardinality(Counting') \in Nat /\ Cardinality(Counting') <= Cardinality(Counting)
<1>1. Counting' \in SUBSET Counting
  OBVIOUS
<1> QED
  BY <1>1, CountingFinite, FS_Subset, FS_CardinalityType

-----------------------------------------------------------------------------

\* Before the first call of spawnFork nothing is registered and nothing counts.
LEMMA CapInvInit == Init => CapInv
<1> SUFFICES ASSUME Init PROVE CapInv
  OBVIOUS
<1>1. TypeOK
  BY DEF Init, TypeOK
<1>2. Active = {} /\ Counting = {}
  BY DEF Init, Active, Counting
<1>3. ActiveCount = 0
  BY <1>2, FS_EmptySet DEF ActiveCount
<1>4. UnregisteredIsNotLive
  BY DEF Init, UnregisteredIsNotLive
<1> QED
  BY <1>1, <1>2, <1>3, <1>4, CapAssumption
     DEF CapInv, PendingFit, CountIsSafe, ExcessIsOverlap, TypeOK

\* Every statement of spawnFork, and of the forks' ends, keeps the types.
LEMMA TypeNext == TypeOK /\ [Next]_vars => TypeOK'
<1> SUFFICES ASSUME TypeOK, [Next]_vars PROVE TypeOK'
  OBVIOUS
<1> USE DEF TypeOK
<1>1. ASSUME NEW f \in Fork, Enter(f) PROVE TypeOK'
  BY <1>1, ActiveFinite, CountingFinite DEF Enter
<1>2. ASSUME NEW f \in Fork, RefuseHard(f) \/ RefuseEnergy(f) PROVE TypeOK'
  BY <1>2 DEF RefuseHard, RefuseEnergy
<1>3. ASSUME NEW f \in Fork, Admit(f) PROVE TypeOK'
  BY <1>3, CapAssumption DEF Admit
<1>4. ASSUME NEW f \in Fork, End(f) \/ Evict(f) PROVE TypeOK'
  BY <1>4 DEF End, Evict
<1>5. CASE Crash
  BY <1>5 DEF Crash
<1>6. CASE UNCHANGED vars
  BY <1>6 DEF vars
<1> QED
  BY <1>1, <1>2, <1>3, <1>4, <1>5, <1>6 DEF Next, ForkStep

\* A step in which no fork becomes live, no call begins to count and none
\* changes what it has seen keeps the bound.
LEMMA NothingAdded ==
  ASSUME CapInv, TypeOK', Active' \subseteq Active, Counting' \subseteq Counting,
         seen' = seen, overlap' = overlap
  PROVE  PendingFit' /\ CountIsSafe' /\ ExcessIsOverlap'
<1>1. /\ ActiveCount' \in Nat /\ ActiveCount' <= ActiveCount /\ ActiveCount \in Nat
      /\ HardCap \in Nat /\ overlap \in Nat
  BY FewerActive, ActiveFinite, CapAssumption DEF CapInv, TypeOK
<1>2. ExcessIsOverlap'
  BY <1>1 DEF CapInv, ExcessIsOverlap
<1>3. PendingFit'
  BY <1>1, FewerCounting, CountingFinite DEF CapInv, PendingFit
<1>4. ASSUME overlap' = 0, NEW f \in Counting' PROVE ActiveCount' <= seen'[f]
  <2>1. f \in Counting /\ f \in Fork
    BY <1>4 DEF Counting
  <2>2. seen[f] \in Nat
    BY <2>1 DEF CapInv, TypeOK
  <2>3. ActiveCount <= seen[f]
    BY <1>4, <2>1 DEF CapInv, CountIsSafe
  <2> QED
    BY <1>1, <2>2, <2>3
<1>5. overlap' = 0 => \A f, g \in Counting' : f = g
  BY DEF CapInv, CountIsSafe
<1> QED
  BY <1>2, <1>3, <1>4, <1>5 DEF CountIsSafe

\* Each call in the await found room below the hard cap when it came in; those
\* that it found there may register first, and those that come in later find
\* room of their own.
LEMMA CapInvNext == CapInv /\ [Next]_vars => CapInv'
<1> SUFFICES ASSUME CapInv, [Next]_vars PROVE CapInv'
  OBVIOUS
<1>0. TypeOK /\ TypeOK' /\ HardCap \in Nat /\ overlap \in Nat
  BY TypeNext, CapAssumption DEF CapInv, TypeOK
<1>1. ASSUME NEW f \in Fork, Enter(f) PROVE CapInv'
  <2>1. Active' = Active /\ ActiveCount' = ActiveCount /\ ActiveCount \in Nat
    BY <1>1, ActiveFinite DEF Enter, Active, ActiveCount
  <2>2. UnregisteredIsNotLive'
    BY <1>0, <1>1 DEF Enter, CapInv, UnregisteredIsNotLive, TypeOK
  <2>3. /\ ActiveCount < HardCap
        /\ overlap' = IF Cardinality(Counting) > overlap THEN Cardinality(Counting) ELSE overlap
        /\ seen' = [seen EXCEPT ![f] = ActiveCount]
    BY <1>1 DEF Enter, BelowHardCap
  <2>4. Counting' = Counting \union {f} /\ f \notin Counting
    BY <1>0, <1>1 DEF Enter, Counting, TypeOK
  <2>5. /\ Cardinality(Counting) \in Nat /\ Cardinality(Counting') = Cardinality(Counting) + 1
        /\ overlap' \in Nat /\ Cardinality(Counting) <= overlap'
    <3>1. Cardinality(Counting') = Cardinality(Counting) + 1
      BY <2>4, OneMoreCounting
    <3>2. Cardinality(Counting) \in Nat
      BY CountingFinite
    <3> QED
      BY <1>0, <2>3, <3>1, <3>2
  <2>6. ExcessIsOverlap' /\ PendingFit'
    BY <1>0, <2>1, <2>3, <2>5 DEF ExcessIsOverlap, PendingFit
  <2>7. ASSUME overlap' = 0 PROVE Counting' = {f} /\ seen'[f] = ActiveCount
    <3>1. Cardinality(Counting) = 0
      BY <2>5, <2>7
    <3>2. Counting = {}
      BY <3>1, CountingFinite, FS_EmptySet
    <3> QED
      BY <1>0, <2>3, <2>4, <3>2 DEF TypeOK
  <2>8. CountIsSafe'
    BY <2>1, <2>7 DEF CountIsSafe
  <2> QED
    BY <1>0, <2>2, <2>6, <2>8 DEF CapInv
<1>2. ASSUME NEW f \in Fork, Admit(f) PROVE CapInv'
  <2>1. f \in Counting /\ f \notin Active
    BY <1>2 DEF Admit, Counting, Active, CapInv, UnregisteredIsNotLive
  <2>2. Active' = Active \union {f}
    BY <1>0, <1>2 DEF Admit, Active, TypeOK
  <2>3. ActiveCount' \in Nat /\ ActiveCount \in Nat /\ ActiveCount' = ActiveCount + 1
    BY <2>1, <2>2, OneMoreActive, ActiveFinite
  <2>4. Counting' = Counting \ {f} /\ overlap' = overlap /\ seen' = seen
    BY <1>0, <1>2 DEF Admit, Counting, TypeOK
  <2>5. UnregisteredIsNotLive'
    BY <1>0, <1>2 DEF Admit, CapInv, UnregisteredIsNotLive, TypeOK
  <2>6. /\ Cardinality(Counting) \in Nat /\ Cardinality(Counting') \in Nat
        /\ Cardinality(Counting') = Cardinality(Counting) - 1
    BY <2>1, <2>4, OneFewerCounting, CountingFinite, FewerCounting
  <2>7. ActiveCount + Cardinality(Counting) <= HardCap + overlap
    BY <2>1 DEF CapInv, PendingFit
  <2>8. PendingFit' /\ ExcessIsOverlap'
    BY <1>0, <2>3, <2>4, <2>6, <2>7 DEF PendingFit, ExcessIsOverlap
  <2>9. CountIsSafe'
    BY <2>1, <2>4 DEF CapInv, CountIsSafe
  <2> QED
    BY <1>0, <2>5, <2>8, <2>9 DEF CapInv
<1>3. ASSUME NEW f \in Fork, RefuseHard(f) \/ RefuseEnergy(f) \/ End(f) \/ Evict(f)
      PROVE  CapInv'
  <2>1. Active' \subseteq Active
    BY <1>0, <1>3 DEF RefuseHard, RefuseEnergy, End, Evict, Active, TypeOK
  <2>2. Counting' \subseteq Counting
    BY <1>0, <1>3 DEF RefuseHard, RefuseEnergy, End, Evict, Counting, TypeOK
  <2>3. seen' = seen /\ overlap' = overlap
    BY <1>3 DEF RefuseHard, RefuseEnergy, End, Evict
  <2>4. UnregisteredIsNotLive'
    BY <1>0, <1>3 DEF RefuseHard, RefuseEnergy, End, Evict, CapInv, UnregisteredIsNotLive, TypeOK
  <2> QED
    BY <1>0, <2>1, <2>2, <2>3, <2>4, NothingAdded DEF CapInv
<1>4. CASE Crash
  <2>1. Active' \subseteq Active /\ Counting' \subseteq Counting
    BY <1>0, <1>4 DEF Crash, Active, Counting, TypeOK
  <2>2. seen' = seen /\ overlap' = overlap
    BY <1>4 DEF Crash
  <2>3. UnregisteredIsNotLive'
    BY <1>0, <1>4 DEF Crash, UnregisteredIsNotLive, TypeOK
  <2> QED
    BY <1>0, <2>1, <2>2, <2>3, NothingAdded DEF CapInv
<1>5. CASE UNCHANGED vars
  BY <1>5 DEF vars, CapInv, TypeOK, PendingFit, CountIsSafe, UnregisteredIsNotLive,
              ExcessIsOverlap, Active, ActiveCount, Counting
<1> QED
  BY <1>1, <1>2, <1>3, <1>4, <1>5 DEF Next, ForkStep

-----------------------------------------------------------------------------

\* CapInv holds throughout: types, the count of a pending call, the cap.
THEOREM CapInvariant == Spec => []CapInv
<1> QED
  BY CapInvInit, CapInvNext, PTL DEF Spec

\* HARD_FORK_CAP bounds the live forks up to the overlap of calls, for every cap,
\* energy table and number of calls and restarts.
THEOREM HardCapSafe == Spec => []ExcessIsOverlap
<1>1. CapInv => ExcessIsOverlap
  BY DEF CapInv
<1> QED
  BY <1>1, CapInvariant, PTL

\* In particular calls that do not overlap never exceed it.
THEOREM SequentialSpawnsRespectCap == Spec => [](overlap = 0 => ActiveCount <= HardCap)
<1>1. CapInv => (overlap = 0 => ActiveCount <= HardCap)
  BY CapAssumption DEF CapInv, ExcessIsOverlap
<1> QED
  BY <1>1, CapInvariant, PTL

\* While calls do not overlap, no admission takes the live forks above the energy
\* cap it was compared with, although the count it compares is an old one.
THEOREM EnergyCapSafe == Spec => AdmissionWithinEnergyCap
<1> DEFINE Grows == overlap' = 0 /\ Active' # Active /\ Active \subseteq Active'
<1>1. ASSUME CapInv, [Next]_vars, Grows PROVE ActiveCount' <= level'
  <2>0. TypeOK
    BY <1>1 DEF CapInv
  <2>1. PICK f \in Fork : Admit(f)
    <3>1. ASSUME NEW f \in Fork,
                 Enter(f) \/ RefuseHard(f) \/ RefuseEnergy(f) \/ End(f) \/ Evict(f)
          PROVE  Active' \subseteq Active
      BY <2>0, <3>1 DEF Enter, RefuseHard, RefuseEnergy, End, Evict, Active, TypeOK
    <3>2. ASSUME Crash \/ UNCHANGED vars PROVE Active' \subseteq Active
      BY <3>2 DEF Crash, vars, Active
    <3> QED
      BY <1>1, <3>1, <3>2 DEF Next, ForkStep
  <2>2. PICK cap \in EnergyCaps : seen[f] < cap /\ level' = cap
    BY <2>1 DEF Admit, BelowEnergyCap
  <2>3. f \in Counting /\ f \notin Active
    BY <1>1, <2>1 DEF Admit, Counting, Active, CapInv, UnregisteredIsNotLive
  <2>4. Active' = Active \union {f}
    BY <2>0, <2>1 DEF Admit, Active, TypeOK
  <2>5. ActiveCount \in Nat /\ ActiveCount' = ActiveCount + 1
    BY <2>3, <2>4, OneMoreActive, ActiveFinite
  <2>6. ActiveCount <= seen[f] /\ seen[f] \in Nat
    <3>1. overlap = 0
      BY <1>1, <2>1 DEF Admit
    <3> QED
      BY <1>1, <2>0, <2>3, <3>1 DEF CapInv, CountIsSafe, Counting, TypeOK
  <2> QED
    BY <2>2, <2>5, <2>6, CapAssumption
<1>2. CapInv /\ [Next]_vars => [Grows => ActiveCount' <= level']_vars
  BY <1>1
<1> QED
  BY <1>2, CapInvariant, PTL DEF Spec, AdmissionWithinEnergyCap

\* Every variable keeps its type, for every value of the constants.
THEOREM SpawnTypes == Spec => []TypeOK
<1>1. CapInv => TypeOK
  BY DEF CapInv
<1> QED
  BY <1>1, CapInvariant, PTL
=============================================================================
