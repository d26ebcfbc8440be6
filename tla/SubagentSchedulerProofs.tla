----------------------- MODULE SubagentSchedulerProofs -----------------------
(***************************************************************************)
(* For every set of calls, claims and caps: the slots and regions really   *)
(* held respect the limits, and the scheduler implements AdmissionControl. *)
(*                                                                         *)
(* The invariant behind both relates the scheduler's counters to the calls *)
(* that hold a slot by inequalities: a grant to a cancelled waiter makes   *)
(* the counters too high for good, and nothing makes them too low.         *)
(***************************************************************************)
EXTENDS SubagentScheduler, FiniteSetTheorems, SequenceTheorems, TLAPS

Counted ==
  /\ Cardinality(Holders) <= running
  /\ running <= MaxConcurrent
  /\ Cardinality(WritingHolders) <= writers
  /\ writers <= MaxWriters

ClaimsRecorded == \A s \in Holders : claim[s] # {} => claim[s] \in claims

RegionsDisjoint ==
  \A s, t \in Holders : s # t => ~ClaimsOverlap(claim[s], claim[t])

IInv == TypeOK /\ Counted /\ ClaimsRecorded /\ RegionsDisjoint
------------------------------------------------------------------------------
\* Removing one waiter from the queue leaves a sequence of calls.
LEMMA RemoveAtType ==
  ASSUME NEW S, NEW seq \in Seq(S), NEW i \in 1 .. Len(seq)
  PROVE  RemoveAt(seq, i) \in Seq(S)
<1>1. SubSeq(seq, 1, i - 1) \in Seq(S)
  BY SubSeqProperties, ElementOfSeq, LenProperties
<1>2. SubSeq(seq, i + 1, Len(seq)) \in Seq(S)
  BY SubSeqProperties, ElementOfSeq, LenProperties
<1>3. QED
  BY <1>1, <1>2, ConcatProperties DEF RemoveAt

\* The overlap of two claims does not depend on their order.
LEMMA OverlapSymmetric ==
  ASSUME NEW a, NEW b
  PROVE  ClaimsOverlap(a, b) <=> ClaimsOverlap(b, a)
BY DEF ClaimsOverlap

\* The calls that hold a slot are finitely many, so they can be counted.
LEMMA HoldersFinite ==
  /\ IsFiniteSet(Holders) /\ Cardinality(Holders) \in Nat
  /\ IsFiniteSet(WritingHolders) /\ Cardinality(WritingHolders) \in Nat
<1>1. Holders \in SUBSET Spawn /\ WritingHolders \in SUBSET Spawn
  BY DEF Holders, WritingHolders
<1>2. QED
  BY <1>1, SchedulerAssumption, FS_Subset, FS_CardinalityType

\* The type invariant survives every step; the one delicate part is that the
\* counters stay natural numbers when a slot is given back.
LEMMA FreeSlotType ==
  ASSUME IInv, NEW s \in Spawn, s \in Holders, FreeSlot(claim[s])
  PROVE  running' \in Nat /\ writers' \in Nat /\ claims' \subseteq SUBSET Path /\ cursor' \in Nat
<1>1. Cardinality(Holders) # 0
  BY HoldersFinite, FS_EmptySet
<1>2. claim[s] # {} => Cardinality(WritingHolders) # 0
  BY HoldersFinite, FS_EmptySet DEF WritingHolders
<1>3. QED
  BY <1>1, <1>2, HoldersFinite DEF IInv, TypeOK, Counted, FreeSlot

\* Taking a slot: the counters grow with the holders, and Admissible has
\* compared the new claim with every claim held.
LEMMA AddHolder ==
  ASSUME IInv, NEW s \in Spawn, NEW c \in SUBSET Path, Admissible(c), Grant(c),
         s \notin Holders, Holders' = Holders \cup {s},
         claim'[s] = c, \A t \in Holders : claim'[t] = claim[t]
  PROVE  Counted' /\ ClaimsRecorded' /\ RegionsDisjoint'
<1>1. WritingHolders' = IF c # {} THEN WritingHolders \cup {s} ELSE WritingHolders
  BY DEF WritingHolders
<1>2. s \notin WritingHolders
  BY DEF WritingHolders
<1>3. /\ Cardinality(Holders') = Cardinality(Holders) + 1
      /\ Cardinality(WritingHolders \cup {s}) = Cardinality(WritingHolders) + 1
  BY <1>2, HoldersFinite, FS_AddElement
<1>4. Counted'
  BY <1>1, <1>3, HoldersFinite, SchedulerAssumption
     DEF IInv, TypeOK, Counted, Grant, Admissible
<1>5. ClaimsRecorded'
  BY DEF IInv, ClaimsRecorded, Grant
<1>6. \A t \in Holders : ~ClaimsOverlap(c, claim[t])
  BY DEF IInv, ClaimsRecorded, Admissible, ClaimsOverlap
<1>7. RegionsDisjoint'
  <2>1. SUFFICES ASSUME NEW t \in Holders', NEW u \in Holders', t # u
                 PROVE  ~ClaimsOverlap(claim'[t], claim'[u])
    BY DEF RegionsDisjoint, ClaimsOverlap
  <2>2. CASE t = s
    BY <2>2, <2>1, <1>6
  <2>3. CASE u = s
    BY <2>3, <2>1, <1>6, OverlapSymmetric
  <2>4. CASE t # s /\ u # s
    BY <2>4, <2>1 DEF IInv, RegionsDisjoint
  <2>5. QED
    BY <2>2, <2>3, <2>4
<1>8. QED
  BY <1>4, <1>5, <1>7

\* Giving a slot back: no other holder's claim is the one removed, because
\* two equal claims that are not empty overlap.
LEMMA RemoveHolder ==
  ASSUME IInv, NEW s \in Spawn, s \in Holders, FreeSlot(claim[s]),
         Holders' = Holders \ {s}, claim' = claim
  PROVE  Counted' /\ ClaimsRecorded' /\ RegionsDisjoint'
<1>1. WritingHolders' = WritingHolders \ {s}
  BY DEF WritingHolders
<1>2. s \in WritingHolders <=> claim[s] # {}
  BY DEF WritingHolders
<1>3. Counted'
  <2>1. /\ Cardinality(Holders \ {s}) = Cardinality(Holders) - 1
        /\ Cardinality(WritingHolders \ {s}) =
             IF claim[s] # {} THEN Cardinality(WritingHolders) - 1
                              ELSE Cardinality(WritingHolders)
    BY <1>2, HoldersFinite, FS_RemoveElement
  <2>2. running' <= MaxConcurrent /\ writers' <= MaxWriters
    BY SchedulerAssumption DEF IInv, TypeOK, Counted, FreeSlot
  <2>3. QED
    BY <1>1, <2>1, <2>2, HoldersFinite DEF IInv, TypeOK, Counted, FreeSlot
<1>4. ASSUME NEW t \in Holders, t # s, claim[t] # {} PROVE claim[t] # claim[s]
  BY <1>4 DEF IInv, RegionsDisjoint, ClaimsOverlap
<1>5. ClaimsRecorded'
  BY <1>4 DEF IInv, ClaimsRecorded, FreeSlot
<1>6. RegionsDisjoint'
  BY DEF IInv, RegionsDisjoint, ClaimsOverlap
<1>7. QED
  BY <1>3, <1>5, <1>6

\* A step that changes neither the holders nor their claims, and may grant a
\* slot to nobody (the pump that meets a cancelled waiter).
LEMMA SameHolders ==
  ASSUME IInv, Holders' = Holders, \A t \in Holders : claim'[t] = claim[t],
         \/ UNCHANGED <<running, writers, claims>>
         \/ \E c \in SUBSET Path : Admissible(c) /\ Grant(c)
  PROVE  Counted' /\ ClaimsRecorded' /\ RegionsDisjoint'
<1>1. WritingHolders' = WritingHolders
  BY DEF WritingHolders
<1>2. Counted'
  BY <1>1, HoldersFinite, SchedulerAssumption
     DEF IInv, TypeOK, Counted, Grant, Admissible
<1>3. ClaimsRecorded'
  BY DEF IInv, ClaimsRecorded, Grant
<1>4. RegionsDisjoint'
  BY DEF IInv, RegionsDisjoint, ClaimsOverlap
<1>5. QED
  BY <1>2, <1>3, <1>4
------------------------------------------------------------------------------
LEMMA InitIInv == Init => IInv
<1>1. Init => Holders = {} /\ WritingHolders = {}
  BY DEF Init, Holders, Holds, WritingHolders
<1>2. Init => TypeOK
  BY EmptySeq DEF Init, TypeOK
<1>3. Init => Counted
  <2>1. Cardinality({}) = 0
    BY FS_EmptySet
  <2>2. MaxConcurrent \in Nat /\ MaxWriters \in Nat
    BY SchedulerAssumption
  <2>3. ASSUME Init PROVE running = 0 /\ writers = 0
    BY <2>3 DEF Init
  <2>4. QED
    BY <1>1, <2>1, <2>2, <2>3 DEF Counted
<1>4. Init => ClaimsRecorded /\ RegionsDisjoint
  BY <1>1 DEF ClaimsRecorded, RegionsDisjoint
<1>5. QED
  BY <1>2, <1>3, <1>4 DEF IInv

LEMMA StepIInv == IInv /\ [Next]_vars => IInv'
<1> SUFFICES ASSUME IInv, [Next]_vars PROVE IInv'
  OBVIOUS
<1> USE DEF Holders, Holds
<1>1. ASSUME NEW s \in Spawn, Acquire(s) PROVE IInv'
  <2>1. PICK declared \in SUBSET (Path \cup {Outside}) :
          LET c == ClaimFor(s, declared) IN
          /\ claim' = [claim EXCEPT ![s] = c]
          /\ AcquireNow(s, c) \/ AcquireRefused(s, c) \/ AcquireQueued(s, c)
    BY <1>1 DEF Acquire
  <2> DEFINE c == ClaimFor(s, declared)
  <2>2. c \in SUBSET Path
    BY SchedulerAssumption DEF ClaimFor
  <2>3. claim'[s] = c /\ \A t \in Spawn : t # s => claim'[t] = claim[t]
    BY <2>1 DEF IInv, TypeOK
  <2>4. s \notin Holders /\ pc[s] = "idle"
    BY <1>1 DEF Acquire
  <2> HIDE DEF c
  <2>5. CASE AcquireNow(s, c)
    <3>1. Holders' = Holders \cup {s}
      BY <1>1, <2>5, <2>4 DEF AcquireNow, IInv, TypeOK
    <3>2. TypeOK'
      BY <1>1, <2>1, <2>2, <2>5 DEF c, Acquire, AcquireNow, Grant, IInv, TypeOK
    <3>3. QED
      BY <3>1, <3>2, <2>2, <2>3, <2>4, <2>5, AddHolder DEF AcquireNow, IInv
  <2>6. CASE AcquireRefused(s, c) \/ AcquireQueued(s, c)
    <3>1. Holders' = Holders
      BY <1>1, <2>6, <2>4 DEF AcquireRefused, AcquireQueued, IInv, TypeOK
    <3>2. TypeOK'
      <4>1. claim' \in [Spawn -> SUBSET Path]
        BY <2>1, <2>2 DEF c, IInv, TypeOK
      <4>2. UNCHANGED <<running, writers, claims, cancelled, cursor>>
        BY <1>1, <2>6 DEF Acquire, AcquireRefused, AcquireQueued
      <4>3. CASE AcquireRefused(s, c)
        BY <4>1, <4>2, <4>3 DEF AcquireRefused, IInv, TypeOK
      <4>4. CASE AcquireQueued(s, c)
        <5>1. waiters' \in Seq(Spawn)
          BY <4>4 DEF AcquireQueued, IInv, TypeOK
        <5>2. QED
          BY <4>1, <4>2, <4>4, <5>1 DEF AcquireQueued, IInv, TypeOK
      <4>5. QED
        BY <2>6, <4>3, <4>4
    <3>3. QED
      BY <3>1, <3>2, <2>3, <2>4, <2>6, SameHolders
         DEF AcquireRefused, AcquireQueued, IInv
  <2>7. QED
    BY <2>1, <2>5, <2>6 DEF c
<1>2. ASSUME NEW s \in Spawn, WakeGranted(s) PROVE IInv'
  <2>1. Holders' = Holders
    BY <1>2 DEF WakeGranted, IInv, TypeOK
  <2>2. TypeOK'
    BY <1>2 DEF WakeGranted, IInv, TypeOK
  <2>3. QED
    BY <1>2, <2>1, <2>2, SameHolders DEF WakeGranted, IInv
<1>3. ASSUME NEW s \in Spawn, WakeGrantedCancelled(s) \/ Release(s) PROVE IInv'
  <2>1. s \in Holders /\ Holders' = Holders \ {s}
    BY <1>3 DEF WakeGrantedCancelled, Release, IInv, TypeOK
  <2>2. FreeSlot(claim[s]) /\ claim' = claim
    BY <1>3 DEF WakeGrantedCancelled, Release
  <2>3. TypeOK'
    BY <1>3, <2>1, <2>2, FreeSlotType DEF WakeGrantedCancelled, Release, IInv, TypeOK
  <2>4. QED
    BY <2>1, <2>2, <2>3, RemoveHolder DEF IInv
<1>4. ASSUME NEW s \in Spawn, WakeCancelled(s) PROVE IInv'
  <2>1. Holders' = Holders
    BY <1>4 DEF WakeCancelled, IInv, TypeOK
  <2>2. waiters' \in Seq(Spawn)
    BY <1>4, RemoveAtType DEF WakeCancelled, LeaveQueue, IInv, TypeOK
  <2>3. TypeOK'
    BY <1>4, <2>2 DEF WakeCancelled, IInv, TypeOK
  <2>4. QED
    BY <1>4, <2>1, <2>3, SameHolders DEF WakeCancelled, IInv
<1>5. CASE CancelTurn
  <2>1. Holders' = Holders
    BY <1>5 DEF CancelTurn, IInv, TypeOK
  <2>2. TypeOK'
    BY <1>5 DEF CancelTurn, IInv, TypeOK
  <2>3. QED
    BY <1>5, <2>1, <2>2, SameHolders DEF CancelTurn, IInv
<1>6. CASE PumpGrant
  <2> DEFINE s == Candidate
  <2>1. s \in Spawn /\ claim[s] \in SUBSET Path /\ fut[s] = "pending"
    BY <1>6, ElementOfSeq DEF PumpGrant, Pumping, Candidate, IInv, TypeOK
  <2>2. TypeOK'
    BY <1>6, <2>1, RemoveAtType DEF PumpGrant, Pumping, Grant, IInv, TypeOK
  <2>3. CASE pc[s] = "waiting"
    <3>1. s \notin Holders /\ Holders' = Holders \cup {s}
      BY <1>6, <2>1, <2>3 DEF PumpGrant, IInv, TypeOK
    <3>2. QED
      BY <1>6, <2>1, <2>2, <3>1, AddHolder DEF PumpGrant, IInv
  <2>4. CASE pc[s] # "waiting"
    <3>1. Holders' = Holders
      BY <1>6, <2>1, <2>4 DEF PumpGrant, IInv, TypeOK
    <3>2. QED
      BY <1>6, <2>1, <2>2, <3>1, SameHolders DEF PumpGrant, IInv
  <2>5. QED
    BY <2>3, <2>4
<1>7. CASE PumpRaise
  <2>1. Candidate \in Spawn /\ claim[Candidate] \in SUBSET Path
    BY <1>7, ElementOfSeq DEF PumpRaise, Pumping, Candidate, IInv, TypeOK
  <2>2. Holders' = Holders
    BY <1>7 DEF PumpRaise
  <2>3. TypeOK'
    BY <1>7, <2>1, RemoveAtType DEF PumpRaise, Pumping, Grant, IInv, TypeOK
  <2>4. QED
    BY <1>7, <2>1, <2>2, <2>3, SameHolders DEF PumpRaise, IInv
<1>8. CASE PumpSkip \/ PumpEnd \/ Quiet \/ UNCHANGED vars
  <2>1. Holders' = Holders /\ claim' = claim /\ UNCHANGED <<running, writers, claims>>
    BY <1>8 DEF PumpSkip, PumpEnd, Quiet, vars
  <2>2. TypeOK'
    BY <1>8 DEF PumpSkip, PumpEnd, Quiet, vars, IInv, TypeOK
  <2>3. QED
    BY <2>1, <2>2, SameHolders DEF IInv
<1>9. QED
  BY <1>1, <1>2, <1>3, <1>4, <1>5, <1>6, <1>7, <1>8 DEF Next, Pump, Resume

\* Whatever the number of calls, their nesting, their claims and the caps, the
\* counters keep their types and stay above the slots really held: no
\* interleaving of release, pump and cancellation lets a call in unseen.
THEOREM SchedulerInvariant == Spec => []IInv
<1>1. QED
  BY InitIInv, StepIInv, PTL DEF Spec

\* acquire and release keep the state of the scheduler well typed; in
\* particular the counters never go below zero.
THEOREM SchedulerTypes == Spec => []TypeOK
<1>1. IInv => TypeOK
  BY DEF IInv
<1>2. QED
  BY <1>1, SchedulerInvariant, PTL

\* The calls that hold a slot respect both caps and never share a region.
THEOREM SchedulerSafety == Spec => []SlotsAndRegions
<1>1. IInv => SlotsAndRegions
  <2> SUFFICES ASSUME IInv PROVE SlotsAndRegions
    OBVIOUS
  <2>1. Cardinality(Holders) <= MaxConcurrent /\ Cardinality(WritingHolders) <= MaxWriters
    BY HoldersFinite, SchedulerAssumption DEF IInv, TypeOK, Counted
  <2>2. \A s, t \in Holders : s # t => ~Admission!Overlap(claim[s], claim[t])
    BY DEF IInv, RegionsDisjoint, ClaimsOverlap, Admission!Overlap
  <2>3. QED
    BY <2>1, <2>2 DEF SlotsAndRegions
<1>2. QED
  BY <1>1, SchedulerInvariant, PTL
------------------------------------------------------------------------------
(***************************************************************************)
(* The scheduler implements the abstract gate.                             *)
(***************************************************************************)
HeldBy(H, f) == {[spawn |-> s, claim |-> f[s]] : s \in H}

\* There are at most as many held pairs as calls they belong to.
LEMMA HeldCardinality ==
  ASSUME NEW H, NEW f, IsFiniteSet(H)
  PROVE  IsFiniteSet(HeldBy(H, f)) /\ Cardinality(HeldBy(H, f)) <= Cardinality(H)
<1> DEFINE g == [s \in H |-> [spawn |-> s, claim |-> f[s]]]
<1>1. g \in Surjection(H, HeldBy(H, f))
  BY DEF HeldBy, Surjection
<1>2. QED
  BY <1>1, FS_Surjection

\* The instance brings its own copy of Cardinality, with the same definition.
LEMMA SameCardinality == ASSUME NEW S PROVE Admission!Cardinality(S) = Cardinality(S)
BY DEF Admission!Cardinality, Cardinality

\* Whatever makes one call a holder is a Take of the abstract gate.
LEMMA TakeStep ==
  ASSUME IInv', NEW s \in Spawn, NEW c \in SUBSET Path,
         s \notin Holders, Holders' = Holders \cup {s},
         claim'[s] = c, \A t \in Holders : claim'[t] = claim[t]
  PROVE  Admission!Take(s, c)
<1>1. Held' = HeldBy(Holders', claim') /\ Held = HeldBy(Holders, claim)
  BY DEF Held, HeldBy
<1>2. /\ Held' = Held \cup {[spawn |-> s, claim |-> c]}
      /\ \A h \in Held : h.spawn # s
  BY DEF Held
<1>3. IsFiniteSet(Holders') /\ IsFiniteSet(WritingHolders')
  <2>1. Holders' \in SUBSET Spawn /\ WritingHolders' \in SUBSET Spawn
    BY DEF Holders, WritingHolders
  <2>2. QED
    BY <2>1, SchedulerAssumption, FS_Subset
<1>4. /\ Cardinality(HeldBy(Holders', claim')) <= Cardinality(Holders')
      /\ Cardinality(HeldBy(WritingHolders', claim')) <= Cardinality(WritingHolders')
      /\ IsFiniteSet(HeldBy(Holders', claim')) /\ IsFiniteSet(HeldBy(WritingHolders', claim'))
  BY <1>3, HeldCardinality
<1>5. /\ Cardinality(HeldBy(Holders', claim')) <= MaxConcurrent
      /\ Cardinality(HeldBy(WritingHolders', claim')) <= MaxWriters
  <2>1. /\ Cardinality(HeldBy(Holders', claim')) \in Nat
        /\ Cardinality(HeldBy(WritingHolders', claim')) \in Nat
        /\ Cardinality(Holders') \in Nat /\ Cardinality(WritingHolders') \in Nat
    BY <1>3, <1>4, FS_CardinalityType
  <2>2. /\ Cardinality(Holders') <= MaxConcurrent
        /\ Cardinality(WritingHolders') <= MaxWriters
    <3>1. MaxConcurrent \in Nat /\ MaxWriters \in Nat
      BY SchedulerAssumption
    <3>2. QED
      BY <2>1, <3>1 DEF IInv, TypeOK, Counted
  <2>3. MaxConcurrent \in Nat /\ MaxWriters \in Nat
    BY SchedulerAssumption
  <2>4. QED
    BY <2>1, <2>2, <2>3, <1>4
<1>6. {h \in HeldBy(Holders', claim') : h.claim # {}} = HeldBy(WritingHolders', claim')
  BY DEF HeldBy, WritingHolders
<1>7. \A h \in Held : ~Admission!Overlap(h.claim, c)
  <2>1. \A t \in Holders : ~ClaimsOverlap(claim[t], c)
    BY DEF IInv, RegionsDisjoint, ClaimsOverlap
  <2>2. SUFFICES ASSUME NEW h \in Held PROVE ~Admission!Overlap(h.claim, c)
    OBVIOUS
  <2>3. PICK t \in Holders : h.claim = claim[t]
    BY DEF Held
  <2>4. QED
    BY <2>1, <2>3 DEF ClaimsOverlap, Admission!Overlap
<1>8. Cardinality(Held') <= MaxConcurrent
  BY <1>1, <1>5
<1>9. Cardinality({h \in Held' : h.claim # {}}) <= MaxWriters
  BY <1>1, <1>5, <1>6
<1>10. QED
  BY <1>2, <1>7, <1>8, <1>9, SameCardinality, Zenon DEF Admission!Take

\* Giving the slot back is a Give of the abstract gate.
LEMMA GiveStep ==
  ASSUME NEW s \in Spawn, s \in Holders, Holders' = Holders \ {s}, claim' = claim
  PROVE  Admission!Give(s)
<1>1. [spawn |-> s, claim |-> claim[s]] \in Held
  BY DEF Held
<1>2. Held' = {h \in Held : h.spawn # s}
  BY DEF Held
<1>3. QED
  BY <1>1, <1>2 DEF Admission!Give

\* Every other step leaves the holders and their claims alone.
LEMMA HeldUnchanged ==
  ASSUME Holders' = Holders, \A t \in Holders : claim'[t] = claim[t]
  PROVE  Held' = Held
BY DEF Held

LEMMA StepImplements == IInv /\ IInv' /\ [Next]_vars => [Admission!Next]_Held
<1> SUFFICES ASSUME IInv, IInv', [Next]_vars PROVE Admission!Next \/ Held' = Held
  OBVIOUS
<1> USE DEF Holders, Holds
<1>1. ASSUME NEW s \in Spawn, Acquire(s) PROVE Admission!Next \/ Held' = Held
  <2>1. PICK declared \in SUBSET (Path \cup {Outside}) :
          LET c == ClaimFor(s, declared) IN
          /\ claim' = [claim EXCEPT ![s] = c]
          /\ AcquireNow(s, c) \/ AcquireRefused(s, c) \/ AcquireQueued(s, c)
    BY <1>1 DEF Acquire
  <2> DEFINE c == ClaimFor(s, declared)
  <2>2. c \in SUBSET Path
    BY SchedulerAssumption DEF ClaimFor
  <2>3. claim'[s] = c /\ \A t \in Spawn : t # s => claim'[t] = claim[t]
    BY <2>1 DEF IInv, TypeOK
  <2>4. s \notin Holders /\ pc[s] = "idle"
    BY <1>1 DEF Acquire
  <2> HIDE DEF c
  <2>5. CASE AcquireNow(s, c)
    <3>1. Holders' = Holders \cup {s}
      BY <1>1, <2>5, <2>4 DEF AcquireNow, IInv, TypeOK
    <3>2. Admission!Take(s, c)
      BY <3>1, <2>2, <2>3, <2>4, TakeStep
    <3>3. QED
      BY <3>2, <2>2 DEF Admission!Next
  <2>6. CASE AcquireRefused(s, c) \/ AcquireQueued(s, c)
    <3>1. Holders' = Holders
      BY <1>1, <2>6, <2>4 DEF AcquireRefused, AcquireQueued, IInv, TypeOK
    <3>2. QED
      BY <3>1, <2>3, <2>4, HeldUnchanged
  <2>7. QED
    BY <2>1, <2>5, <2>6 DEF c
<1>2. ASSUME NEW s \in Spawn, WakeGrantedCancelled(s) \/ Release(s)
      PROVE  Admission!Next \/ Held' = Held
  <2>1. s \in Holders /\ Holders' = Holders \ {s} /\ claim' = claim
    BY <1>2 DEF WakeGrantedCancelled, Release, IInv, TypeOK
  <2>2. Admission!Give(s)
    BY <2>1, GiveStep
  <2>3. QED
    BY <2>2 DEF Admission!Next
<1>3. CASE PumpGrant
  <2> DEFINE s == Candidate
  <2>1. s \in Spawn /\ claim[s] \in SUBSET Path /\ fut[s] = "pending"
    BY <1>3, ElementOfSeq DEF PumpGrant, Pumping, Candidate, IInv, TypeOK
  <2>2. CASE pc[s] = "waiting"
    <3>1. s \notin Holders /\ Holders' = Holders \cup {s} /\ claim' = claim
      BY <1>3, <2>1, <2>2 DEF PumpGrant, IInv, TypeOK
    <3>2. Admission!Take(s, claim[s])
      BY <3>1, <2>1, TakeStep
    <3>3. QED
      BY <3>2, <2>1 DEF Admission!Next
  <2>3. CASE pc[s] # "waiting"
    <3>1. Holders' = Holders /\ claim' = claim
      BY <1>3, <2>1, <2>3 DEF PumpGrant, IInv, TypeOK
    <3>2. QED
      BY <3>1, HeldUnchanged
  <2>4. QED
    BY <2>2, <2>3
<1>4. ASSUME \/ \E s \in Spawn : WakeGranted(s) \/ WakeCancelled(s)
             \/ CancelTurn \/ PumpRaise \/ PumpSkip \/ PumpEnd \/ Quiet
             \/ UNCHANGED vars
      PROVE  Held' = Held
  <2>1. claim' = claim
    BY <1>4 DEF WakeGranted, WakeCancelled, CancelTurn, PumpRaise, PumpSkip,
                PumpEnd, Quiet, vars
  <2>2. Holders' = Holders
    BY <1>4 DEF WakeGranted, WakeCancelled, CancelTurn, PumpRaise, PumpSkip,
                PumpEnd, Quiet, vars, IInv, TypeOK
  <2>3. QED
    BY <2>1, <2>2, HeldUnchanged
<1>5. QED
  BY <1>1, <1>2, <1>3, <1>4 DEF Next, Pump, Resume

\* Every behaviour of the scheduler, seen through the slots its callers hold,
\* is a behaviour of the abstract gate.
THEOREM SchedulerImplementsAdmission == Spec => ImplementsAdmission
<1>1. Init => Admission!Init
  BY DEF Init, Admission!Init, Held, Holders, Holds
<1>2. QED
  BY <1>1, StepImplements, SchedulerInvariant, PTL
     DEF Spec, ImplementsAdmission, Admission!Spec
==============================================================================
