---------------------------- MODULE LeaseProofs ----------------------------
(***************************************************************************)
(* Proofs about the leased semaphore, for any number of jobs, galleries and *)
(* workers and any capacity: first what each of its scripts does, then the  *)
(* caps it keeps in the hands of workers that stall or die.                 *)
(***************************************************************************)
EXTENDS LeaseHolders, FiniteSetTheorems, TLAPS

-----------------------------------------------------------------------------
(* The scripts.                                                             *)

(* The bounds are what they are taken for.                                  *)
LEMMA LeaseBounds ==
    /\ Capacity \in Nat /\ GalleryCap \in Nat /\ LeaseTTL \in Nat
    /\ LeaseTTL \in 0..LeaseTTL /\ 0 \in 0..LeaseTTL
    /\ CounterTTL \in Nat /\ CounterTTL > 0
    /\ CounterTTL \in 0..CounterTTL /\ 0 \in 0..CounterTTL
BY LeaseAssumption DEF CounterTTL

(* A tick that is over takes one off what is left.                          *)
LEMMA ElapseFacts ==
    ASSUME NEW n \in Nat
    PROVE  /\ Elapse(n) \in Nat /\ Elapse(n) <= n
           /\ n > 0 => Elapse(n) = n - 1
BY DEF Elapse

(* Every script, and every tick, leaves the keys well typed.                *)
LEMMA AcquireTyped ==
    ASSUME LeaseTypeOK, NEW r \in Run, NEW j \in Job, NEW g \in Gallery, Acquire(r, j, g)
    PROVE  LeaseTypeOK'
<1>1. slots' \in SUBSET Job
  BY DEF Acquire, Pruned, LeaseTypeOK
<1>2. lease' \in [Job -> Run \cup {Free}] /\ ttl' \in [Job -> 0..LeaseTTL]
  BY LeaseBounds DEF Acquire, LeaseTypeOK
<1>3. active' \in [Gallery -> Nat] /\ activeTtl' \in [Gallery -> 0..CounterTTL]
  BY LeaseBounds DEF Acquire, LeaseTypeOK
<1> QED
  BY <1>1, <1>2, <1>3 DEF LeaseTypeOK

LEMMA RefuseTyped ==
    ASSUME LeaseTypeOK, NEW g \in Gallery, Refuse(g)
    PROVE  LeaseTypeOK'
BY DEF Refuse, Pruned, LeaseTypeOK

LEMMA HeartbeatTyped ==
    ASSUME LeaseTypeOK, NEW r \in Run, NEW j \in Job, Heartbeat(r, j)
    PROVE  LeaseTypeOK'
BY LeaseBounds DEF Heartbeat, LeaseTypeOK

LEMMA ReleaseTyped ==
    ASSUME LeaseTypeOK, NEW r \in Run, NEW j \in Job, NEW g \in Gallery, Release(r, j, g)
    PROVE  LeaseTypeOK'
<1>1. CASE UNCHANGED leaseVars
  BY <1>1 DEF leaseVars, LeaseTypeOK
<1>2. CASE MayRelease(r, j)
  <2>1. active' = [active EXCEPT ![g] = Elapse(@)] /\ Elapse(active[g]) \in Nat
    BY <1>2, ElapseFacts DEF Release, LeaseTypeOK
  <2>2. active' \in [Gallery -> Nat]
    BY <2>1 DEF LeaseTypeOK
  <2>3. activeTtl' \in [Gallery -> 0..CounterTTL]
    <3>1. activeTtl' = [activeTtl EXCEPT ![g] = IF active'[g] = 0 THEN 0 ELSE @]
      BY <1>2 DEF Release
    <3> QED
      BY <3>1, LeaseBounds DEF LeaseTypeOK
  <2>4. /\ lease' \in [Job -> Run \cup {Free}] /\ ttl' \in [Job -> 0..LeaseTTL]
        /\ slots' \in SUBSET Job
    BY <1>2, LeaseBounds DEF Release, LeaseTypeOK
  <2> QED
    BY <2>2, <2>3, <2>4 DEF LeaseTypeOK
<1> QED
  BY <1>1, <1>2 DEF Release

LEMMA TickTyped ==
    ASSUME LeaseTypeOK, Tick
    PROVE  LeaseTypeOK'
<1>1. \A n \in Nat : \A k \in 0..n : Elapse(k) \in 0..n
  BY DEF Elapse
<1>2. ttl' \in [Job -> 0..LeaseTTL] /\ activeTtl' \in [Gallery -> 0..CounterTTL]
  BY <1>1, LeaseBounds DEF Tick, LeaseTypeOK
<1>3. lease' \in [Job -> Run \cup {Free}] /\ active' \in [Gallery -> Nat]
  BY DEF Tick, LeaseTypeOK
<1> QED
  BY <1>2, <1>3 DEF Tick, LeaseTypeOK

(* A lease is not let go of by being given, refused or extended, and by a   *)
(* release only if it is its holder's.                                      *)
LEMMA WhoKeeps ==
    ASSUME LeaseTypeOK, NEW r \in Run, NEW k \in Job, NEW g \in Gallery, NEW j \in Job,
           Acquire(r, k, g) \/ Refuse(g) \/ Heartbeat(r, k), Live(j)
    PROVE  Live(j)'
BY LeaseAssumption DEF Acquire, Refuse, Heartbeat, LeaseTypeOK, Live

LEMMA WhoFrees ==
    ASSUME LeaseTypeOK, NEW r \in Run, NEW k \in Job, NEW g \in Gallery, NEW j \in Job,
           Release(r, k, g), Live(j), lease'[j] = Free
    PROVE  k = j /\ lease[j] = r
<1>1. lease' # lease
  BY DEF Live
<1>2. MayRelease(r, k) /\ lease' = [lease EXCEPT ![k] = Free]
  BY <1>1 DEF Release, leaseVars
<1> QED
  BY <1>2 DEF MayRelease, LeaseTypeOK, Live
-----------------------------------------------------------------------------
(* The fleet's cap and the gallery's.                                       *)

LiveJobs == {j \in Job : Live(j)}

(* A live lease has its slot, and there are no more than the fleet may have.*)
SlotsCoverLeases == LiveJobs \subseteq slots

(* The counter of a gallery covers its live leases until it expires.        *)
CountersCover ==
    \A g \in Gallery :
        /\ active[g] <= GalleryCap
        /\ g \notin lapsed => Cardinality(LiveIn(g)) <= active[g]

HolderInv == HolderTypeOK /\ SlotsCoverLeases /\ GlobalCap /\ CountersCover

(* Sets of live leases are finite.                                          *)
LEMMA LiveFinite ==
    /\ IsFiniteSet(LiveJobs) /\ Cardinality(LiveJobs) \in Nat
    /\ \A g : IsFiniteSet(LiveIn(g)) /\ Cardinality(LiveIn(g)) \in Nat
<1>1. LiveJobs \subseteq Job /\ \A g : LiveIn(g) \subseteq Job
  BY DEF LiveJobs, LiveIn
<1>2. IsFiniteSet(LiveJobs) /\ \A g : IsFiniteSet(LiveIn(g))
  BY <1>1, LeaseAssumption, FS_Subset
<1> QED
  BY <1>2, FS_CardinalityType

(* Fewer live leases are within the caps that more were.                    *)
LEMMA FewerIsNoMore ==
    ASSUME NEW S, NEW T, IsFiniteSet(T), S \subseteq T
    PROVE  Cardinality(S) \in Nat /\ Cardinality(T) \in Nat /\ Cardinality(S) <= Cardinality(T)
<1>1. IsFiniteSet(S)
  BY FS_Subset
<1>2. Cardinality(S) <= Cardinality(T)
  BY FS_Subset
<1> QED
  BY <1>1, <1>2, FS_CardinalityType

(* A worker is granted a lease.                                             *)
LEMMA ObtainKeepsCaps ==
    ASSUME HolderInv, NEW r \in Run, NEW j \in Job, Obtain(r, j)
    PROVE  HolderInv'
<1> USE DEF HolderInv
<1> DEFINE g == GalleryOfJob[j]
<1>1. g \in Gallery /\ Acquire(r, j, g)
  BY GalleryOfJobAssumption DEF Obtain
<1>2. HolderTypeOK'
  <2>1. LeaseTypeOK'
    BY <1>1, AcquireTyped DEF HolderTypeOK
  <2> QED
    BY <2>1 DEF Obtain, HolderTypeOK
<1>3. LiveJobs' = LiveJobs \cup {j} /\ LiveIn(g)' = LiveIn(g) \cup {j}
      /\ \A h \in Gallery : h # g => LiveIn(h)' = LiveIn(h)
  BY <1>1, LeaseAssumption DEF Acquire, LiveJobs, LiveIn, Live, HolderTypeOK, LeaseTypeOK
<1>4. Pruned = LiveJobs
  BY DEF Pruned, LiveJobs, SlotsCoverLeases, HolderTypeOK, LeaseTypeOK
<1>5. SlotsCoverLeases'
  BY <1>1, <1>3, <1>4 DEF Acquire, SlotsCoverLeases
<1> HIDE DEF g
<1>6. \A S, x : IsFiniteSet(S) =>
         /\ IsFiniteSet(S \cup {x})
         /\ Cardinality(S \cup {x}) = Cardinality(S) \/ Cardinality(S \cup {x}) = Cardinality(S) + 1
  BY FS_AddElement
<1>7. GlobalCap'
  <2>1. Cardinality(LiveJobs) < Capacity
    BY <1>1, <1>4 DEF Acquire, CanAcquire
  <2>2. \/ Cardinality(LiveJobs') = Cardinality(LiveJobs)
        \/ Cardinality(LiveJobs') = Cardinality(LiveJobs) + 1
    BY <1>3, <1>6, LiveFinite
  <2>3. Cardinality(LiveJobs') <= Capacity
    BY <2>1, <2>2, LiveFinite, LeaseBounds
  <2> QED
    BY <2>3 DEF GlobalCap, LiveJobs
<1>8. CountersCover'
  <2> SUFFICES ASSUME NEW h \in Gallery
               PROVE  /\ active'[h] <= GalleryCap
                      /\ h \notin lapsed => Cardinality(LiveIn(h)') <= active'[h]
    BY DEF CountersCover, Obtain
  <2>1. CASE h = g
    <3>1. active'[g] = active[g] + 1 /\ active[g] < GalleryCap /\ active[g] \in Nat
      BY <1>1 DEF Acquire, CanAcquire, HolderTypeOK, LeaseTypeOK
    <3>2. Cardinality(LiveIn(g)') <= Cardinality(LiveIn(g)) + 1
          /\ Cardinality(LiveIn(g)) \in Nat /\ Cardinality(LiveIn(g)') \in Nat
      <4>1. /\ IsFiniteSet(LiveIn(g)')
            /\ Cardinality(LiveIn(g)') = Cardinality(LiveIn(g))
               \/ Cardinality(LiveIn(g)') = Cardinality(LiveIn(g)) + 1
        BY <1>3, <1>6, LiveFinite
      <4> QED
        BY <4>1, LiveFinite
    <3> QED
      BY <2>1, <3>1, <3>2, LeaseBounds DEF CountersCover
  <2>2. CASE h # g
    BY <1>1, <1>3, <2>2 DEF Acquire, CountersCover, HolderTypeOK, LeaseTypeOK
  <2> QED
    BY <2>1, <2>2
<1> QED
  BY <1>2, <1>5, <1>7, <1>8

(* Leases that end, or stay: the caps need only that counters keep up.      *)
LEMMA EndingKeepsCaps ==
    ASSUME HolderInv, HolderTypeOK', SlotsCoverLeases', LiveJobs' \subseteq LiveJobs, CountersCover'
    PROVE  HolderInv'
<1> USE DEF HolderInv
<1>1. Cardinality(LiveJobs') <= Cardinality(LiveJobs) /\ Cardinality(LiveJobs') \in Nat
  BY LiveFinite, FewerIsNoMore
<1>2. GlobalCap'
  BY <1>1, LiveFinite, LeaseBounds DEF GlobalCap, LiveJobs
<1> QED
  BY <1>2

(* A worker lets go of what it believes to hold.                            *)
LEMMA GiveUpKeepsCaps ==
    ASSUME HolderInv, NEW r \in Run, GiveUp(r)
    PROVE  HolderInv'
<1> USE DEF HolderInv
<1> PICK j \in Job : j = believes[r]
  BY DEF GiveUp, HolderTypeOK
<1> DEFINE g == GalleryOfJob[j]
<1>1. g \in Gallery /\ (Release(r, j, g) \/ UNCHANGED leaseVars) /\ lapsed' = lapsed
  BY GalleryOfJobAssumption DEF GiveUp
<1>2. HolderTypeOK'
  <2>1. LeaseTypeOK'
    BY <1>1, ReleaseTyped DEF HolderTypeOK, leaseVars, LeaseTypeOK
  <2> QED
    BY <2>1 DEF GiveUp, HolderTypeOK
<1>3. CASE UNCHANGED leaseVars
  <2>1. LiveJobs' = LiveJobs /\ \A h \in Gallery : LiveIn(h)' = LiveIn(h)
    BY <1>3 DEF leaseVars, LiveJobs, LiveIn, Live
  <2>2. SlotsCoverLeases' /\ CountersCover'
    BY <1>1, <1>3, <2>1 DEF leaseVars, SlotsCoverLeases, CountersCover
  <2> QED
    BY <1>2, <2>1, <2>2, EndingKeepsCaps
<1>4. CASE ~UNCHANGED leaseVars
  <2>1. /\ lease[j] = r /\ Live(j)
        /\ lease' = [lease EXCEPT ![j] = Free] /\ slots' = slots \ {j}
        /\ active' = [active EXCEPT ![g] = Elapse(@)]
    BY <1>1, <1>4, LeaseAssumption DEF Release, MayRelease, Live
  <2>2. LiveJobs' = LiveJobs \ {j} /\ LiveIn(g)' = LiveIn(g) \ {j} /\ j \in LiveIn(g)
        /\ \A h \in Gallery : h # g => LiveIn(h)' = LiveIn(h)
    BY <2>1 DEF LiveJobs, LiveIn, Live, HolderTypeOK, LeaseTypeOK
  <2>3. SlotsCoverLeases'
    BY <2>1, <2>2 DEF SlotsCoverLeases
  <2> HIDE DEF g
  <2>4. CountersCover'
    <3> SUFFICES ASSUME NEW h \in Gallery
                 PROVE  /\ active'[h] <= GalleryCap
                        /\ h \notin lapsed => Cardinality(LiveIn(h)') <= active'[h]
      BY <1>1 DEF CountersCover
    <3>1. CASE h = g
      <4>1. /\ Cardinality(LiveIn(g)') = Cardinality(LiveIn(g)) - 1
            /\ Cardinality(LiveIn(g)') \in Nat /\ Cardinality(LiveIn(g)) \in Nat
        <5>1. IsFiniteSet(LiveIn(g)')
              /\ Cardinality(LiveIn(g)') = Cardinality(LiveIn(g)) - 1
          <6>1. IsFiniteSet(LiveIn(g))
            BY LiveFinite
          <6>2. \A S, x : IsFiniteSet(S) /\ x \in S =>
                   /\ IsFiniteSet(S \ {x})
                   /\ Cardinality(S \ {x}) = Cardinality(S) - 1
            BY FS_RemoveElement
          <6> QED
            BY <2>2, <6>1, <6>2
        <5>2. Cardinality(LiveIn(g)') \in Nat
          BY <5>1, FS_CardinalityType
        <5>3. Cardinality(LiveIn(g)) \in Nat
          BY LiveFinite
        <5> QED
          BY <5>1, <5>2, <5>3
      <4>2. active[g] \in Nat /\ active'[g] = Elapse(active[g])
        BY <1>1, <2>1 DEF HolderTypeOK, LeaseTypeOK
      <4>3. Elapse(active[g]) <= active[g] /\ Elapse(active[g]) >= active[g] - 1
        BY <4>2, ElapseFacts
      <4>4. Elapse(active[g]) \in Nat
        BY <4>2, ElapseFacts
      <4> QED
        BY <3>1, <4>1, <4>2, <4>3, <4>4, LeaseBounds DEF CountersCover
    <3>2. CASE h # g
      BY <2>1, <2>2, <3>2 DEF CountersCover, HolderTypeOK, LeaseTypeOK
    <3> QED
      BY <3>1, <3>2
  <2> QED
    BY <1>2, <2>2, <2>3, <2>4, EndingKeepsCaps
<1> QED
  BY <1>3, <1>4

(* Refusals prune, heartbeats list the slot again.                          *)
LEMMA TouchingKeepsCaps ==
    ASSUME HolderInv, NEW r \in Run,
           Extend(r) \/ \E j \in Job : Denied(r, j)
    PROVE  HolderInv'
<1> USE DEF HolderInv
<1>1. UNCHANGED <<lease, active, believes, lapsed>>
  BY DEF Extend, Denied, Heartbeat, Refuse
<1>2. HolderTypeOK'
  <2>1. LeaseTypeOK'
    <3>1. CASE Extend(r)
      BY <3>1, HeartbeatTyped DEF Extend, HolderTypeOK
    <3>2. ASSUME NEW j \in Job, Denied(r, j)
          PROVE  LeaseTypeOK'
      BY <3>2, RefuseTyped, GalleryOfJobAssumption DEF Denied, HolderTypeOK
    <3> QED
      BY <3>1, <3>2
  <2> QED
    BY <1>1, <2>1 DEF HolderTypeOK
<1>3. LiveJobs' = LiveJobs /\ \A h \in Gallery : LiveIn(h)' = LiveIn(h)
  BY <1>1 DEF LiveJobs, LiveIn, Live
<1>4. SlotsCoverLeases'
  <2>1. slots \subseteq slots' \/ slots' = Pruned
    BY DEF Extend, Denied, Heartbeat, Refuse
  <2>2. LiveJobs \subseteq Pruned
    BY DEF Pruned, LiveJobs, SlotsCoverLeases
  <2> QED
    BY <1>3, <2>1, <2>2 DEF SlotsCoverLeases
<1>5. CountersCover'
  BY <1>1, <1>3 DEF CountersCover
<1> QED
  BY <1>2, <1>3, <1>4, <1>5, EndingKeepsCaps

(* Time passes: a counter that goes under a live lease is put down.         *)
LEMMA PassKeepsCaps ==
    ASSUME HolderInv, Pass
    PROVE  HolderInv'
<1> USE DEF HolderInv
<1>1. Tick /\ believes' = believes
  BY DEF Pass
<1>2. HolderTypeOK'
  <2>1. LeaseTypeOK'
    BY <1>1, TickTyped DEF HolderTypeOK
  <2>2. lapsed' \in SUBSET Gallery
    BY DEF Pass, HolderTypeOK
  <2> QED
    BY <1>1, <2>1, <2>2 DEF HolderTypeOK
<1>3. /\ \A j \in Job : lease'[j] # Free => Live(j)
      /\ \A j \in Job : Live(j)' <=> lease'[j] # Free
      /\ slots' = slots
  BY <1>1 DEF Tick, Live
<1>4. LiveJobs' \subseteq LiveJobs /\ \A g \in Gallery : LiveIn(g)' \subseteq LiveIn(g)
  BY <1>3 DEF LiveJobs, LiveIn
<1>5. SlotsCoverLeases'
  BY <1>3, <1>4 DEF SlotsCoverLeases
<1>6. CountersCover'
  <2> SUFFICES ASSUME NEW g \in Gallery
               PROVE  /\ active'[g] <= GalleryCap
                      /\ g \notin lapsed' => Cardinality(LiveIn(g)') <= active'[g]
    BY DEF CountersCover
  <2>1. active'[g] = IF activeTtl'[g] = 0 THEN 0 ELSE active[g]
    BY <1>1 DEF Tick
  <2>2. active[g] \in Nat /\ active[g] <= GalleryCap
    BY DEF HolderTypeOK, LeaseTypeOK, CountersCover
  <2>3. active'[g] <= GalleryCap
    BY <2>1, <2>2, LeaseBounds
  <2>4. ASSUME g \notin lapsed'
        PROVE  Cardinality(LiveIn(g)') <= active'[g]
    <3>1. g \notin lapsed
      BY <2>4 DEF Pass
    <3>2. CASE activeTtl'[g] = 0
      <4>1. LiveIn(g)' = {}
        BY <1>3, <1>4, <2>4, <3>2 DEF Pass, LiveIn
      <4> QED
        BY <2>1, <3>2, <4>1, FS_EmptySet
    <3>3. CASE activeTtl'[g] # 0
      <4>1. Cardinality(LiveIn(g)') <= Cardinality(LiveIn(g))
            /\ Cardinality(LiveIn(g)') \in Nat /\ Cardinality(LiveIn(g)) \in Nat
        BY <1>4, LiveFinite, FewerIsNoMore
      <4> QED
        BY <2>1, <2>2, <3>1, <3>3, <4>1 DEF CountersCover
    <3> QED
      BY <3>2, <3>3
  <2> QED
    BY <2>3, <2>4
<1> QED
  BY <1>2, <1>4, <1>5, <1>6, EndingKeepsCaps

(* Every reachable state of the leases is in order.                         *)
THEOREM HolderInvariant == HolderSpec => []HolderInv
<1>1. HolderInit => HolderInv
  <2> SUFFICES ASSUME HolderInit
               PROVE  HolderInv
    OBVIOUS
  <2> USE DEF HolderInit, LeaseInit
  <2>1. HolderTypeOK
    BY LeaseBounds DEF HolderTypeOK, LeaseTypeOK
  <2>2. LiveJobs = {} /\ \A g \in Gallery : LiveIn(g) = {}
    BY DEF LiveJobs, LiveIn, Live
  <2>3. Cardinality({}) = 0
    BY FS_EmptySet
  <2>4. SlotsCoverLeases
    BY <2>2 DEF SlotsCoverLeases
  <2>5. GlobalCap
    BY <2>2, <2>3, LeaseBounds DEF GlobalCap, LiveJobs
  <2>6. CountersCover
    BY <2>2, <2>3, LeaseBounds DEF CountersCover
  <2> QED
    BY <2>1, <2>4, <2>5, <2>6 DEF HolderInv
<1>2. HolderInv /\ [HolderNext]_holderVars => HolderInv'
  <2> SUFFICES ASSUME HolderInv, [HolderNext]_holderVars
               PROVE  HolderInv'
    OBVIOUS
  <2>1. CASE UNCHANGED holderVars
    <3>1. UNCHANGED <<lease, ttl, slots, active, activeTtl, believes, lapsed>>
      BY <2>1 DEF holderVars, leaseVars
    <3>2. LiveJobs' = LiveJobs /\ \A g \in Gallery : LiveIn(g)' = LiveIn(g)
      BY <3>1 DEF LiveJobs, LiveIn, Live
    <3>3. HolderTypeOK'
      BY <3>1 DEF HolderInv, HolderTypeOK, LeaseTypeOK
    <3>4. SlotsCoverLeases' /\ CountersCover'
      BY <3>1, <3>2 DEF HolderInv, SlotsCoverLeases, CountersCover
    <3> QED
      BY <3>2, <3>3, <3>4, EndingKeepsCaps
  <2>2. CASE HolderNext
    BY <2>2, ObtainKeepsCaps, GiveUpKeepsCaps, TouchingKeepsCaps, PassKeepsCaps DEF HolderNext
  <2> QED
    BY <2>1, <2>2
<1> QED
  BY <1>1, <1>2, PTL DEF HolderSpec

(* No more archives are built in the fleet than it has leases for, whatever *)
(* stalled, dead and late workers do.                                       *)
THEOREM FleetIsRationed == HolderSpec => []GlobalCap
<1>1. HolderInv => GlobalCap
  BY DEF HolderInv
<1> QED
  BY <1>1, HolderInvariant, PTL

(* No more leases are live in a gallery than its cap allows, as long as its *)
(* counter has not expired under one.                                       *)
THEOREM GalleriesAreRationed == HolderSpec => []GalleryCapHolds
<1>1. HolderInv => GalleryCapHolds
  <2> SUFFICES ASSUME HolderInv, NEW g \in Gallery \ lapsed
               PROVE  Cardinality(LiveIn(g)) <= GalleryCap
    BY DEF GalleryCapHolds
  <2>1. active[g] \in Nat
    BY DEF HolderInv, HolderTypeOK, LeaseTypeOK
  <2> QED
    BY <2>1, LiveFinite, LeaseBounds DEF HolderInv, CountersCover
<1> QED
  BY <1>1, HolderInvariant, PTL
=============================================================================
