---------------------------- MODULE LeaseHolders ----------------------------
(***************************************************************************)
(* The lease of ZipLease in the hands of workers that may stall, die or     *)
(* lose Redis: what acquire_zip_lease, heartbeat_zip_lease and              *)
(* release_zip_lease return to them, and what a worker then believes.       *)
(***************************************************************************)
EXTENDS ZipLease

CONSTANT GalleryOfJob   \* the gallery of each job

ASSUME GalleryOfJobAssumption == GalleryOfJob \in [Job -> Gallery]

VARIABLES
    believes,   \* the job whose lease the worker thinks it holds, or NoJob
    lapsed      \* history: galleries whose counter expired under a live lease

holderVars == <<leaseVars, believes, lapsed>>

NoJob == -1

HolderTypeOK ==
    /\ LeaseTypeOK
    /\ believes \in [Run -> Job \cup {NoJob}]
    /\ lapsed \in SUBSET Gallery

HolderInit ==
    /\ LeaseInit
    /\ believes = [r \in Run |-> NoJob]
    /\ lapsed = {}

Obtain(r, j) ==
    /\ believes[r] = NoJob
    /\ Acquire(r, j, GalleryOfJob[j])
    /\ believes' = [believes EXCEPT ![r] = j]
    /\ UNCHANGED lapsed

(* A cap refuses, and prunes.                                               *)
Denied(r, j) ==
    /\ believes[r] = NoJob
    /\ Refuse(GalleryOfJob[j])
    /\ UNCHANGED <<believes, lapsed>>

Extend(r) ==
    /\ believes[r] # NoJob
    /\ Heartbeat(r, believes[r])
    /\ UNCHANGED <<believes, lapsed>>

(* A release that Redis does not answer is logged and forgotten.            *)
GiveUp(r) ==
    /\ believes[r] # NoJob
    /\ Release(r, believes[r], GalleryOfJob[believes[r]]) \/ UNCHANGED leaseVars
    /\ believes' = [believes EXCEPT ![r] = NoJob]
    /\ UNCHANGED lapsed

LiveIn(g) == {j \in Job : Live(j) /\ GalleryOfJob[j] = g}

Pass ==
    /\ Tick
    /\ lapsed' = lapsed \cup {g \in Gallery :
                     activeTtl'[g] = 0 /\ \E j \in LiveIn(g) : lease'[j] # Free}
    /\ UNCHANGED believes

HolderNext ==
    \/ \E r \in Run : \/ \E j \in Job : Obtain(r, j) \/ Denied(r, j)
                      \/ Extend(r) \/ GiveUp(r)
    \/ Pass

HolderSpec == HolderInit /\ [][HolderNext]_holderVars
-----------------------------------------------------------------------------
(* While a gallery's counter has not expired under a live lease, no more    *)
(* leases are live in it than its cap allows, although stalled, dead and    *)
(* late workers all touch the same counter (zip_lease.py:46-49, :76-79).    *)
GalleryCapHolds ==
    \A g \in Gallery \ lapsed : Cardinality(LiveIn(g)) <= GalleryCap
=============================================================================
