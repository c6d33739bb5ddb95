------------------------------ MODULE ZipLease ------------------------------
(***************************************************************************)
(* The leased semaphore that rations archive builds                         *)
(* (app/gallery/zip_lease.py): three Redis scripts over a lease key per     *)
(* job, a sorted set of slots for the whole fleet and a counter per         *)
(* gallery.  Each script is atomic; what happens between two scripts is     *)
(* time, counted in ticks.  A slot's score and its lease key are always     *)
(* written together, with the same expiry, so one ttl stands for both.      *)
(***************************************************************************)
EXTENDS Integers, FiniteSets

CONSTANTS
    Job,            \* archive job ids
    Gallery,        \* gallery ids
    Run,            \* executions of the build task: each draws its own holder
    Capacity,       \* ARCHIVE_ZIP_GLOBAL_LEASES
    GalleryCap,     \* ARCHIVE_ZIP_PER_GALLERY_LEASES
    LeaseTTL        \* ARCHIVE_ZIP_LEASE_TTL_SECONDS, in ticks

Free == "free"      \* no secret a run draws

ASSUME LeaseAssumption ==
    /\ IsFiniteSet(Job) /\ IsFiniteSet(Run)
    /\ Free \notin Run
    /\ Capacity \in Nat \ {0}
    /\ GalleryCap \in Nat \ {0}
    /\ LeaseTTL \in Nat \ {0}

VARIABLES
    lease,      \* value of the job's lease key, Free when it does not exist
    ttl,        \* ticks the lease key and the slot's score have left
    slots,      \* members of the sorted set, expired ones included
    active,     \* the gallery's counter
    activeTtl   \* ticks the counter has left; at 0 the key does not exist

leaseVars == <<lease, ttl, slots, active, activeTtl>>

CounterTTL == 4 * LeaseTTL

LeaseTypeOK ==
    /\ lease \in [Job -> Run \cup {Free}]
    /\ ttl \in [Job -> 0..LeaseTTL]
    /\ slots \in SUBSET Job
    /\ active \in [Gallery -> Nat]
    /\ activeTtl \in [Gallery -> 0..CounterTTL]

LeaseInit ==
    /\ lease = [j \in Job |-> Free]
    /\ ttl = [j \in Job |-> 0]
    /\ slots = {}
    /\ active = [g \in Gallery |-> 0]
    /\ activeTtl = [g \in Gallery |-> 0]

Live(j) == lease[j] # Free
-----------------------------------------------------------------------------
(* Members whose score has passed or whose lease key is gone are dropped.   *)
Pruned == {j \in slots : Live(j)}

(* Mutant: the slots are counted, the limit is allowed once more.           *)
CanAcquireOffByOne(g) ==
    /\ active[g] < GalleryCap
    /\ Cardinality(Pruned) <= Capacity

(* The gallery's own cap is asked first, then the fleet's.                  *)
CanAcquire(g) ==
    /\ active[g] < GalleryCap
    /\ Cardinality(Pruned) < Capacity

(* Mutant: the gallery's counter gets the lifetime of one lease.            *)
AcquireShortCounter(r, j, g) ==
    /\ CanAcquire(g)
    /\ lease' = [lease EXCEPT ![j] = r]
    /\ ttl' = [ttl EXCEPT ![j] = LeaseTTL]
    /\ slots' = Pruned \cup {j}
    /\ active' = [active EXCEPT ![g] = @ + 1]
    /\ activeTtl' = [activeTtl EXCEPT ![g] = LeaseTTL]

(* Granted: the lease key is overwritten, whoever held it before.           *)
Acquire(r, j, g) ==
    /\ CanAcquire(g)
    /\ lease' = [lease EXCEPT ![j] = r]
    /\ ttl' = [ttl EXCEPT ![j] = LeaseTTL]
    /\ slots' = Pruned \cup {j}
    /\ active' = [active EXCEPT ![g] = @ + 1]
    /\ activeTtl' = [activeTtl EXCEPT ![g] = CounterTTL]

(* Refused by a cap; the pruning has happened all the same.                 *)
Refuse(g) ==
    /\ ~CanAcquire(g)
    /\ slots' = Pruned
    /\ UNCHANGED <<lease, ttl, active, activeTtl>>

(* Only the holder extends a lease; the gallery's counter is not extended.  *)
Heartbeat(r, j) ==
    /\ IF lease[j] = r
       THEN ttl' = [ttl EXCEPT ![j] = LeaseTTL] /\ slots' = slots \cup {j}
       ELSE UNCHANGED <<ttl, slots>>
    /\ UNCHANGED <<lease, active, activeTtl>>

Elapse(n) == IF n > 0 THEN n - 1 ELSE 0

(* Mutant: any run deletes the job's lease.                                 *)
MayReleaseAny(r, j) == Live(j)

(* Mutant: a lease that has expired passes for this run's own.              *)
MayReleaseMissing(r, j) == lease[j] \in {r, Free}

(* The lease key still holds this run's secret.                             *)
MayRelease(r, j) == lease[j] = r

(* Mutant: DECR without asking whether the counter is above zero.           *)
ReleaseBelowZero(r, j, g) ==
    IF MayRelease(r, j)
    THEN /\ lease' = [lease EXCEPT ![j] = Free]
         /\ ttl' = [ttl EXCEPT ![j] = 0]
         /\ slots' = slots \ {j}
         /\ active' = [active EXCEPT ![g] = @ - 1]
         /\ UNCHANGED activeTtl
    ELSE UNCHANGED leaseVars

(* A counter that has expired is left at zero by the script; one that comes *)
(* down to zero counts as expired, for no script can tell the difference.   *)
Release(r, j, g) ==
    IF MayRelease(r, j)
    THEN /\ lease' = [lease EXCEPT ![j] = Free]
         /\ ttl' = [ttl EXCEPT ![j] = 0]
         /\ slots' = slots \ {j}
         /\ active' = [active EXCEPT ![g] = Elapse(@)]
         /\ activeTtl' = [activeTtl EXCEPT ![g] = IF active'[g] = 0 THEN 0 ELSE @]
    ELSE UNCHANGED leaseVars

(* A tick of Redis' clock: keys whose time is up vanish; slots stay listed. *)
Tick ==
    /\ ttl' = [j \in Job |-> Elapse(ttl[j])]
    /\ lease' = [j \in Job |-> IF ttl'[j] = 0 THEN Free ELSE lease[j]]
    /\ activeTtl' = [g \in Gallery |-> Elapse(activeTtl[g])]
    /\ active' = [g \in Gallery |-> IF activeTtl'[g] = 0 THEN 0 ELSE active[g]]
    /\ UNCHANGED slots

(* No more archives are being built in the whole fleet than it has leases   *)
(* for: what the sorted set is kept for (zip_lease.py:37, :51).             *)
GlobalCap == Cardinality({j \in Job : Live(j)}) <= Capacity
=============================================================================
