----------------------- MODULE PhotoLifecycleProofs -----------------------
(***************************************************************************)
(* Theorems about PhotoLifecycle, for any number of photos, sizes, limits   *)
(* and concurrent actors: the state stays well typed, and as long as hard   *)
(* deletes do not overlap, the storage ledger is exact; no step brings a    *)
(* settled upload back, takes the original of a delivered photo away or     *)
(* hands out headroom that is not there, and each one is a step of          *)
(* StorageAccount.                                                          *)
(***************************************************************************)
EXTENDS PhotoLifecycle, QuotaLedgerProofs

(* The photos are finitely many.                                            *)
LEMMA PhotoFinite == IsFiniteSet(Photo) /\ \A S \in SUBSET Photo : IsFiniteSet(S)
<1>1. IsFiniteSet(Photo)
  BY PhotoAssumption, FS_Union DEF Photo
<1> QED
  BY <1>1, FS_Subset

(* The two ledger moves keep the ledger's types.                            *)
LEMMA ChargeType ==
    ASSUME TypeOK, NEW S \in SUBSET Photo, NEW sz, \A p \in S : sz[p] \in Nat,
           Charge(S, sz)
    PROVE  used' \in Nat /\ limit' \in Nat /\ billed' \in SUBSET Photo
<1>1. Total(S, sz) \in Nat
  BY PhotoFinite, TotalType
<1> QED
  BY <1>1 DEF TypeOK, Charge

LEMMA RefundType ==
    ASSUME TypeOK, NEW S, NEW n \in Int, Refund(S, n)
    PROVE  used' \in Nat /\ limit' \in Nat /\ billed' \in SUBSET Photo
BY AfterReleaseType DEF TypeOK, Refund

LEMMA MarkFailedType ==
    ASSUME TypeOK, NEW p \in Photo, MarkFailed(p)
    PROVE  /\ status' \in [Photo -> Status]
           /\ used' \in Nat /\ limit' \in Nat
           /\ billed' \in SUBSET Photo /\ purging' \in SUBSET Photo
<1>1. size[p] \in Int
  BY DEF TypeOK
<1>2. CASE status[p] \in Refundable
  <2>1. Put(p, "FAILED") /\ Refund({p}, size[p]) /\ purging' = purging \cup Keyed({p})
    BY <1>2 DEF MarkFailed
  <2>2. used' \in Nat /\ limit' \in Nat /\ billed' \in SUBSET Photo
    BY <1>1, <2>1, RefundType
  <2> QED
    BY <2>1, <2>2 DEF TypeOK, Put, Status, Keyed
<1>3. CASE status[p] \notin Refundable
  BY <1>3 DEF MarkFailed, TypeOK, ledger
<1> QED
  BY <1>2, <1>3

(* Heavy lane.                                                              *)
LEMMA TypeHeavy == TypeOK /\ HeavyStep => TypeOK'
<1> SUFFICES ASSUME TypeOK, HeavyStep PROVE TypeOK'
  OBVIOUS
<1> USE DEF rows, ledger, store, tasks, beats
<1>1. CASE HeavyCommit
  <2>0. PICK S \in (SUBSET HeavyPhoto) \ {{}} : \E sz \in [S -> Sizes] :
          /\ Charge(S, sz)
          /\ PutAll(S, "PENDING")
          /\ size' = [p \in Photo |-> IF p \in S THEN sz[p] ELSE size[p]]
          /\ declared' = [p \in HeavyPhoto |-> IF p \in S THEN sz[p] ELSE declared[p]]
          /\ UNCHANGED <<processed, age, store, hook, tasks, beats, gallery>>
    BY <1>1 DEF HeavyCommit
  <2>1. PICK sz \in [S -> Sizes] :
          /\ Charge(S, sz)
          /\ PutAll(S, "PENDING")
          /\ size' = [p \in Photo |-> IF p \in S THEN sz[p] ELSE size[p]]
          /\ declared' = [p \in HeavyPhoto |-> IF p \in S THEN sz[p] ELSE declared[p]]
          /\ UNCHANGED <<processed, age, store, hook, tasks, beats, gallery>>
    BY <2>0
  <2>2. S \in SUBSET Photo /\ \A p \in S : sz[p] \in Nat
    BY <2>1, SizeAssumption DEF Photo
  <2>3. used' \in Nat /\ limit' \in Nat /\ billed' \in SUBSET Photo
    BY <2>1, <2>2, ChargeType
  <2>4. status' \in [Photo -> Status] /\ size' \in [Photo -> Nat]
        /\ declared' \in [HeavyPhoto -> Nat]
    BY <2>1, <2>2 DEF TypeOK, PutAll, Status
  <2> QED
    BY <2>1, <2>3, <2>4 DEF TypeOK
<1>2. ASSUME NEW p \in HeavyPhoto, ClientPut(p) PROVE TypeOK'
  BY <1>2 DEF ClientPut, TypeOK, Photo
<1>3. ASSUME NEW p \in HeavyPhoto, TicketAges(p) PROVE TypeOK'
  BY <1>3 DEF TicketAges, TypeOK
<1> QED
  BY <1>1, <1>2, <1>3 DEF HeavyStep

(* Webhook requests.                                                        *)
LEMMA TypeHook == \A h \in Handler : TypeOK /\ HookStep(h) => TypeOK'
<1> SUFFICES ASSUME NEW h \in Handler, TypeOK, HookStep(h) PROVE TypeOK'
  OBVIOUS
<1> USE DEF rows, ledger, store, tasks, beats
<1>1. ASSUME NEW p \in HeavyPhoto, HookRead(h, p) PROVE TypeOK'
  BY <1>1 DEF HookRead, TypeOK, Request, Idle, Photo
<1>2. CASE HookHead(h)
  <2>1. /\ hook[h] \in [pc : {"head"}, photo : HeavyPhoto, declared : Nat]
        /\ hook[h].photo \in HeavyPhoto /\ hook[h].declared \in Nat
    BY <1>2 DEF HookHead, TypeOK, Request, Idle
  <2> QED
    BY <1>2, <2>1 DEF HookHead, TypeOK, Request, Photo
<1>3. CASE HookDrop(h)
  BY <1>3 DEF HookDrop, TypeOK
<1>4. CASE HookNoEffect(h)
  BY <1>4 DEF HookNoEffect, TypeOK
<1>5. CASE HookQuarantine(h)
  BY <1>5 DEF HookQuarantine, TypeOK, Put, Status
<1>6. CASE HookAccept(h)
  <2>1. /\ hook[h].photo \in Photo /\ hook[h].declared \in Nat
        /\ hook[h].head \in Nat \cup {Missing} /\ hook[h].head # Missing
    BY <1>6 DEF HookAccept, Anomaly, TypeOK, Request, Idle, Photo
  <2>2. used' \in Nat /\ limit' \in Nat /\ billed' \in SUBSET Photo
        /\ size' \in [Photo -> Nat]
    <3>1. CASE hook[h].head < hook[h].declared
      <4>1. Refund({}, hook[h].declared - hook[h].head)
            /\ size' = [size EXCEPT ![hook[h].photo] = hook[h].head]
        BY <1>6, <3>1 DEF HookAccept
      <4>2. hook[h].declared - hook[h].head \in Int
        BY <2>1
      <4> QED
        BY <2>1, <4>1, <4>2, RefundType DEF TypeOK
    <3>2. CASE ~(hook[h].head < hook[h].declared)
      BY <1>6, <3>2 DEF HookAccept, TypeOK
    <3> QED
      BY <3>1, <3>2
  <2>3. status' \in [Photo -> Status] /\ processed' \in SUBSET Photo
        /\ deriv' \in SUBSET Photo
    BY <1>6, <2>1 DEF HookAccept, TypeOK, Put, Status
  <2> QED
    BY <1>6, <2>2, <2>3 DEF HookAccept, TypeOK
<1> QED
  BY <1>1, <1>2, <1>3, <1>4, <1>5, <1>6 DEF HookStep

(* Fast lane.                                                               *)
LEMMA TypeFast == \A p \in FastPhoto : TypeOK /\ FastStep(p) => TypeOK'
<1> SUFFICES ASSUME NEW p \in FastPhoto, TypeOK, FastStep(p) PROVE TypeOK'
  OBVIOUS
<1> USE DEF rows, ledger, store, tasks, beats
<1>p. p \in Photo /\ size[p] \in Int
  BY DEF Photo, TypeOK
<1>1. CASE FastCreate(p)
  <2>1. PICK n \in Sizes : Charge({p}, [q \in {p} |-> n]) /\ size' = [size EXCEPT ![p] = n]
    BY <1>1 DEF FastCreate
  <2>2. n \in Nat
    BY SizeAssumption
  <2>3. used' \in Nat /\ limit' \in Nat /\ billed' \in SUBSET Photo
    BY <1>p, <2>1, <2>2, ChargeType
  <2> QED
    BY <1>1, <1>p, <2>1, <2>2, <2>3 DEF FastCreate, TypeOK, Put, Status, MonState
<1>2. CASE FastDispatch(p)
  BY <1>2 DEF FastDispatch, TypeOK, MonState
<1>3. CASE VaultPut(p)
  BY <1>3, <1>p DEF VaultPut, TypeOK
<1>4. CASE MonRead(p)
  BY <1>4 DEF MonRead, TypeOK, MonState
<1>5. CASE MonHead(p)
  BY <1>5 DEF MonHead, TypeOK, MonState
<1>6. CASE MonRetry(p)
  BY <1>6 DEF MonRetry, TypeOK, MonState
<1>7. CASE MonGiveUp(p)
  <2>1. /\ status' \in [Photo -> Status] /\ used' \in Nat /\ limit' \in Nat
        /\ billed' \in SUBSET Photo /\ purging' \in SUBSET Photo
    <3>1. CASE MarkFailed(p)
      BY <1>p, <3>1, MarkFailedType
    <3>2. CASE UNCHANGED <<status, ledger, purging>>
      BY <3>2 DEF TypeOK
    <3> QED
      BY <1>7, <3>1, <3>2 DEF MonGiveUp
  <2> QED
    BY <1>7, <2>1 DEF MonGiveUp, TypeOK, MonState
<1>8. CASE MonHeal(p)
  BY <1>8, <1>p DEF MonHeal, TypeOK, MonState, Put, Status
<1>9. CASE MonAbandon(p)
  <2>1. /\ status' \in [Photo -> Status] /\ used' \in Nat /\ limit' \in Nat
        /\ billed' \in SUBSET Photo
    <3>1. CASE Put(p, "GONE") /\ Refund({p}, size[p])
      <4>1. used' \in Nat /\ limit' \in Nat /\ billed' \in SUBSET Photo
        BY <1>p, <3>1, RefundType
      <4> QED
        BY <3>1, <4>1 DEF Put, TypeOK, Status
    <3>2. CASE UNCHANGED <<status, ledger>>
      BY <3>2 DEF TypeOK
    <3> QED
      BY <1>9, <3>1, <3>2 DEF MonAbandon
  <2> QED
    BY <1>9, <2>1 DEF MonAbandon, TypeOK, MonState
<1> QED
  BY <1>1, <1>2, <1>3, <1>4, <1>5, <1>6, <1>7, <1>8, <1>9 DEF FastStep

(* Poison pills, owner deletes and purges.                                  *)
LEMMA TypePhotoTask == \A p \in Photo : TypeOK /\ PhotoTask(p) => TypeOK'
<1> SUFFICES ASSUME NEW p \in Photo, TypeOK, PhotoTask(p) PROVE TypeOK'
  OBVIOUS
<1> USE DEF rows, ledger, store, tasks, beats
<1>p. size[p] \in Int
  BY DEF TypeOK
<1>1. CASE DerivPoison(p)
  <2>1. /\ status' \in [Photo -> Status] /\ used' \in Nat /\ limit' \in Nat
        /\ billed' \in SUBSET Photo /\ purging' \in SUBSET Photo
    BY <1>1, MarkFailedType DEF DerivPoison
  <2> QED
    BY <1>1, <2>1 DEF DerivPoison, TypeOK
<1>2. CASE DerivEnds(p)
  BY <1>2 DEF DerivEnds, TypeOK
<1>3. CASE OwnerDestroy(p)
  <2>1. used' \in Nat /\ limit' \in Nat /\ billed' \in SUBSET Photo
    <3>1. CASE Refund({p}, size[p])
      BY <1>p, <3>1, RefundType
    <3>2. CASE UNCHANGED ledger
      BY <3>2 DEF TypeOK
    <3> QED
      BY <1>3, <3>1, <3>2 DEF OwnerDestroy
  <2> QED
    BY <1>3, <2>1 DEF OwnerDestroy, TypeOK, Put, Status, Keyed
<1>4. CASE Purge(p)
  BY <1>4 DEF Purge, TypeOK
<1>5. CASE PurgeLost(p)
  BY <1>5 DEF PurgeLost, TypeOK
<1> QED
  BY <1>1, <1>2, <1>3, <1>4, <1>5 DEF PhotoTask

(* Abandoned-upload reaper.                                                 *)
LEMMA TypeReap == \A r \in Reaper : TypeOK /\ ReapStep(r) => TypeOK'
<1> SUFFICES ASSUME NEW r \in Reaper, TypeOK, ReapStep(r) PROVE TypeOK'
  OBVIOUS
<1> USE DEF rows, ledger, store, tasks, beats
<1>1. CASE ReapScan(r)
  BY <1>1 DEF ReapScan, TypeOK, ReapState
<1>2. CASE ReapAbort(r)
  BY <1>2 DEF ReapAbort, TypeOK, ReapState
<1>3. ASSUME NEW p \in HeavyPhoto, ReapHead(r, p) PROVE TypeOK'
  BY <1>3 DEF ReapHead, TypeOK, ReapState
<1>4. ASSUME NEW p \in HeavyPhoto, ReapPhantom(r, p) PROVE TypeOK'
  BY <1>4 DEF ReapPhantom, TypeOK, ReapState, Put, Status, Photo
<1>5. ASSUME NEW p \in HeavyPhoto, ReapAbandoned(r, p) PROVE TypeOK'
  <2>1. p \in Photo /\ size[p] \in Int
    BY DEF TypeOK, Photo
  <2>2. used' \in Nat /\ limit' \in Nat /\ billed' \in SUBSET Photo
    BY <1>5, <2>1, RefundType DEF ReapAbandoned
  <2> QED
    BY <1>5, <2>1, <2>2 DEF ReapAbandoned, TypeOK, ReapState, Put, Status
<1>6. ASSUME NEW p \in HeavyPhoto, ReapSkip(r, p) PROVE TypeOK'
  BY <1>6 DEF ReapSkip, TypeOK, ReapState
<1> QED
  BY <1>1, <1>2, <1>3, <1>4, <1>5, <1>6 DEF ReapStep

(* Hard delete.                                                             *)
LEMMA TypeHardDelete == \A d \in HardDeleter : TypeOK /\ HardDeleteStep(d) => TypeOK'
<1> SUFFICES ASSUME NEW d \in HardDeleter, TypeOK, HardDeleteStep(d) PROVE TypeOK'
  OBVIOUS
<1> USE DEF rows, ledger, store, tasks, beats
<1>1. CASE HardDeleteRead(d)
  <2> DEFINE S == {p \in Photo : status[p] = "EXPIRED"}
  <2>1. S \in SUBSET Photo /\ Total(S, size) \in Nat
    BY PhotoFinite, TotalType DEF TypeOK
  <2>2. snap' = [snap EXCEPT ![d] = [ids |-> S, refund |-> Total(S, size)]]
    BY <1>1 DEF HardDeleteRead
  <2> QED
    BY <1>1, <2>1, <2>2 DEF HardDeleteRead, TypeOK
<1>2. CASE HardDeleteCommit(d)
  <2>1. snap[d] \in [ids : SUBSET Photo, refund : Nat]
    BY DEF TypeOK
  <2>2. snap[d].ids \in SUBSET Photo /\ snap[d].refund \in Int
    BY <2>1
  <2>3. used' \in Nat /\ limit' \in Nat /\ billed' \in SUBSET Photo
    BY <1>2, <2>2, RefundType DEF HardDeleteCommit
  <2> QED
    BY <1>2, <2>2, <2>3 DEF HardDeleteCommit, TypeOK, PutAll, Status, Keyed, NoSnap
<1>3. CASE HardDeleteFails(d)
  BY <1>3 DEF HardDeleteFails, TypeOK, NoSnap
<1> QED
  BY <1>1, <1>2, <1>3 DEF HardDeleteStep

(* Cascades, plan changes and the gallery's clock.                          *)
LEMMA TypeGallery ==
    TypeOK /\ (CascadeDelete \/ SetLimit \/ GalleryAges \/ ExpireDue) => TypeOK'
<1> SUFFICES ASSUME TypeOK, CascadeDelete \/ SetLimit \/ GalleryAges \/ ExpireDue
             PROVE  TypeOK'
  OBVIOUS
<1> USE DEF rows, ledger, store, tasks, beats
<1>1. CASE CascadeDelete
  BY <1>1 DEF CascadeDelete, TypeOK, PutAll, Status
<1>2. CASE SetLimit
  BY <1>2, SizeAssumption DEF SetLimit, TypeOK
<1>3. CASE GalleryAges
  BY <1>3 DEF GalleryAges, TypeOK
<1>4. CASE ExpireDue
  BY <1>4 DEF ExpireDue, TypeOK, PutAll, Status
<1> QED
  BY <1>1, <1>2, <1>3, <1>4

LEMMA InitTypeOK == Init => TypeOK
<1> SUFFICES ASSUME Init PROVE TypeOK
  OBVIOUS
<1>1. status \in [Photo -> Status] /\ size \in [Photo -> Nat]
  BY DEF Init, Status
<1>2. used \in Nat /\ limit \in Nat /\ billed \in SUBSET Photo
  BY SizeAssumption DEF Init
<1>3. processed \in SUBSET Photo /\ notified \in SUBSET HeavyPhoto
        /\ deriv \in SUBSET Photo /\ purging \in SUBSET Photo
  BY DEF Init
<1>4. object \in [Photo -> Nat \cup {Missing}] /\ declared \in [HeavyPhoto -> Nat]
        /\ age \in [HeavyPhoto -> {"ticket", "lapsed", "stale"}]
  BY DEF Init
<1>5. hook \in [Handler -> {Idle} \cup Request]
  BY DEF Init
<1>6. mon \in [FastPhoto -> MonState] /\ reap \in [Reaper -> [HeavyPhoto -> ReapState]]
  BY DEF Init, MonState, ReapState
<1>7. snap \in [HardDeleter -> [ids : SUBSET Photo, refund : Nat]]
        /\ gallery \in {"live", "due", "over", "deleted"}
  BY DEF Init, NoSnap
<1> QED
  BY <1>1, <1>2, <1>3, <1>4, <1>5, <1>6, <1>7 DEF TypeOK

LEMMA NextTypeOK == TypeOK /\ [Next]_vars => TypeOK'
<1> SUFFICES ASSUME TypeOK, [Next]_vars PROVE TypeOK'
  OBVIOUS
<1>1. CASE Next
  BY <1>1, TypeHeavy, TypeHook, TypeFast, TypePhotoTask, TypeReap, TypeHardDelete,
     TypeGallery DEF Next
<1>2. CASE UNCHANGED vars
  BY <1>2 DEF vars, rows, ledger, store, tasks, beats, TypeOK
<1> QED
  BY <1>1, <1>2

(* Every variable keeps its type: in particular the ledger never holds a    *)
(* negative number and never charges or snapshots an unknown photo.         *)
THEOREM TypeCorrect == Spec => []TypeOK
BY InitTypeOK, NextTypeOK, PTL DEF Spec
-----------------------------------------------------------------------------
(* The ledger is exact.  Four kinds of steps matter: those that leave the   *)
(* ledger alone, those that charge new rows, those that settle the bill of  *)
(* one charged row, and the three that act on something read earlier: the   *)
(* webhook's undersize refund and the two halves of the hard delete.        *)

(* A charge of rows not yet billed adds exactly their bytes.                *)
LEMMA ChargeExact ==
    ASSUME TypeOK, TypeOK', LedgerExact, NEW S \in SUBSET Photo, S \cap billed = {},
           NEW sz, \A p \in S : sz[p] \in Nat, Charge(S, sz),
           \A p \in Photo : size'[p] = IF p \in S THEN sz[p] ELSE size[p]
    PROVE  used' = Total(billed', size')
<1>1. IsFiniteSet(S) /\ IsFiniteSet(billed) /\ billed \in SUBSET Photo
  BY PhotoFinite DEF TypeOK
<1>2. Total(S, sz) = Total(S, size')
  <2>1. \A p \in S : sz[p] = size'[p]
    OBVIOUS
  <2> QED
    BY <2>1, TotalAgree
<1>3. Total(billed, size) = Total(billed, size')
  <2>1. \A p \in billed : size[p] = size'[p]
    BY <1>1
  <2> QED
    BY <2>1, TotalAgree
<1>4. Total(billed \cup S, size') = Total(billed, size') + Total(S, size')
  <2>1. \A p \in billed \cup S : size'[p] \in Nat
    BY <1>1 DEF TypeOK
  <2> QED
    BY <1>1, <2>1, TotalUnion
<1> QED
  BY <1>2, <1>3, <1>4 DEF Charge, LedgerExact

(* Settling the bills of T with the bytes of T subtracts exactly them.      *)
LEMMA RefundExact ==
    ASSUME TypeOK, LedgerExact, NEW T \in SUBSET billed, NEW n, n = Total(T, size),
           Refund(T, n), size' = size
    PROVE  used' = Total(billed', size')
<1>1. IsFiniteSet(billed) /\ billed \in SUBSET Photo /\ \A p \in billed : size[p] \in Nat
  BY PhotoFinite DEF TypeOK
<1>2. /\ Total(billed \ T, size) = Total(billed, size) - Total(T, size)
      /\ Total(T, size) \in Nat
      /\ Total(T, size) <= Total(billed, size)
  BY <1>1, TotalMinus
<1>3. AfterRelease(used, n) = used - n
  BY <1>2, AfterReleaseExact DEF TypeOK, LedgerExact
<1> QED
  BY <1>2, <1>3 DEF Refund, LedgerExact

(* The undersize refund leaves the bill of p at what was stored.            *)
LEMMA ShrinkExact ==
    ASSUME TypeOK, TypeOK', LedgerExact, NEW p \in billed, NEW n \in Nat, n < size[p],
           size' = [size EXCEPT ![p] = n], Refund({}, size[p] - n)
    PROVE  used' = Total(billed', size')
<1>1. /\ IsFiniteSet(billed) /\ billed \in SUBSET Photo /\ p \in Photo
      /\ \A q \in billed : size[q] \in Nat /\ size'[q] \in Nat
      /\ size[p] \in Nat /\ size'[p] = n
  BY PhotoFinite DEF TypeOK
<1>2. /\ Total(billed \ {p}, size) = Total(billed, size) - Total({p}, size)
      /\ Total({p}, size) <= Total(billed, size)
  BY <1>1, TotalMinus
<1>3. Total(billed \ {p}, size') = Total(billed, size') - Total({p}, size')
  <2>1. {p} \subseteq billed /\ IsFiniteSet(billed) /\ \A q \in billed : size'[q] \in Nat
    BY <1>1
  <2> QED
    BY ONLY <2>1, TotalMinus
<1>4. Total(billed \ {p}, size) = Total(billed \ {p}, size')
  <2>1. \A q \in billed \ {p} : size[q] = size'[q]
    BY <1>1 DEF TypeOK
  <2> QED
    BY <2>1, TotalAgree
<1>5. Total({p}, size) = size[p] /\ Total({p}, size') = n
  BY <1>1, TotalSingle
<1>6. Total(billed, size) \in Nat /\ Total(billed, size') \in Nat
  BY <1>1, TotalType
<1>7. AfterRelease(used, size[p] - n) = used - (size[p] - n)
  <2>1. used \in Nat /\ size[p] - n \in Nat /\ size[p] - n <= used
    BY <1>1, <1>2, <1>5, <1>6 DEF LedgerExact
  <2> QED
    BY <2>1, AfterReleaseExact
<1>8. billed' = billed /\ used' = used - (size[p] - n)
  BY <1>7 DEF Refund
<1> QED
  BY <1>1, <1>2, <1>3, <1>4, <1>5, <1>6, <1>8 DEF LedgerExact

(* How a row may move while the ledger is left alone: nowhere, into a state *)
(* that counts for nothing, or along the delivery path of a charged row.    *)
Quiet(p) ==
    \/ status'[p] = status[p]
    \/ status[p] # "NONE" /\ status'[p] \in {"QUARANTINED", "GONE"}
    \/ status[p] \in Refundable /\ status'[p] \in {"READY", "EXPIRED"}

LEMMA QuietStep ==
    ASSUME LedgerInv, TypeOK', UNCHANGED <<size, used, billed>>,
           \A p \in Photo : Quiet(p),
           \A h \in Handler : hook'[h] \in {hook[h], Idle},
           \A d \in HardDeleter : snap'[d] \in {snap[d], NoSnap}
    PROVE  LedgerInv'
<1>1. LedgerExact'
  BY DEF LedgerInv, LedgerExact, Live, Quiet, TypeOK, Refundable
<1>2. HooksCurrent'
  <2> SUFFICES ASSUME NEW h \in Handler, hook'[h] # Idle
               PROVE  /\ status'[hook'[h].photo] # "NONE"
                      /\ status'[hook'[h].photo] = "PENDING" =>
                           hook'[h].declared = size'[hook'[h].photo]
    BY DEF HooksCurrent
  <2>1. hook'[h] = hook[h] /\ hook[h].photo \in Photo
    BY DEF LedgerInv, TypeOK, Request, Photo
  <2>2. /\ status[hook[h].photo] # "NONE"
        /\ status[hook[h].photo] = "PENDING" => hook[h].declared = size[hook[h].photo]
    BY <2>1 DEF LedgerInv, HooksCurrent
  <2>3. Quiet(hook[h].photo)
    BY <2>1
  <2> QED
    BY <2>1, <2>2, <2>3 DEF Quiet
<1>3. SnapsCurrent'
  <2> SUFFICES ASSUME NEW d \in HardDeleter
               PROVE  /\ snap'[d].ids \subseteq billed'
                      /\ \A p \in snap'[d].ids : status'[p] \in {"EXPIRED", "QUARANTINED", "GONE"}
                      /\ snap'[d].refund = Total(snap'[d].ids, size')
    BY DEF SnapsCurrent
  <2>1. CASE snap'[d] = NoSnap
    <3>1. snap'[d].ids = {} /\ snap'[d].refund = 0
      BY <2>1 DEF NoSnap
    <3> QED
      BY <3>1, TotalEmpty
  <2>2. CASE snap'[d] = snap[d]
    <3>1. /\ snap[d].ids \subseteq billed /\ billed \subseteq Photo
          /\ \A p \in snap[d].ids : status[p] \in {"EXPIRED", "QUARANTINED", "GONE"}
          /\ snap[d].refund = Total(snap[d].ids, size)
      BY DEF LedgerInv, SnapsCurrent, TypeOK
    <3>2. \A p \in snap[d].ids : Quiet(p)
      BY <3>1
    <3> QED
      BY <2>2, <3>1, <3>2 DEF Quiet, Refundable
  <2> QED
    BY <2>1, <2>2
<1> QED
  BY <1>1, <1>2, <1>3 DEF LedgerInv

(* New rows: they were in nobody's hands.                                   *)
LEMMA ChargeStep ==
    ASSUME LedgerInv, TypeOK', NEW S \in SUBSET Photo, \A p \in S : status[p] = "NONE",
           NEW sz, \A p \in S : sz[p] \in Nat, Charge(S, sz),
           \A p \in Photo : size'[p] = IF p \in S THEN sz[p] ELSE size[p],
           \A p \in Photo : status'[p] = IF p \in S THEN "PENDING" ELSE status[p],
           UNCHANGED <<hook, snap>>
    PROVE  LedgerInv'
<1>1. S \cap billed = {}
  BY DEF LedgerInv, LedgerExact
<1>2. used' = Total(billed', size') /\ billed' = billed \cup S
  BY <1>1, ChargeExact DEF LedgerInv, Charge
<1>3. LedgerExact'
  BY <1>2 DEF LedgerInv, LedgerExact, Live, TypeOK
<1>4. HooksCurrent'
  <2> SUFFICES ASSUME NEW h \in Handler, hook[h] # Idle
               PROVE  /\ status'[hook[h].photo] # "NONE"
                      /\ status'[hook[h].photo] = "PENDING" =>
                           hook[h].declared = size'[hook[h].photo]
    BY DEF HooksCurrent
  <2>1. hook[h].photo \in Photo
    BY DEF LedgerInv, TypeOK, Request, Photo
  <2> QED
    BY <2>1 DEF LedgerInv, HooksCurrent
<1>5. SnapsCurrent'
  <2> SUFFICES ASSUME NEW d \in HardDeleter
               PROVE  /\ snap[d].ids \subseteq billed'
                      /\ \A p \in snap[d].ids : status'[p] \in {"EXPIRED", "QUARANTINED", "GONE"}
                      /\ snap[d].refund = Total(snap[d].ids, size')
    BY DEF SnapsCurrent
  <2>1. /\ snap[d].ids \subseteq billed /\ billed \subseteq Photo
        /\ \A p \in snap[d].ids : status[p] \in {"EXPIRED", "QUARANTINED", "GONE"}
        /\ snap[d].refund = Total(snap[d].ids, size)
    BY DEF LedgerInv, SnapsCurrent, TypeOK
  <2>2. \A p \in snap[d].ids : p \notin S /\ size[p] = size'[p]
    BY <2>1
  <2>3. Total(snap[d].ids, size) = Total(snap[d].ids, size')
    BY <2>2, TotalAgree
  <2> QED
    BY <1>2, <2>1, <2>2, <2>3
<1> QED
  BY <1>3, <1>4, <1>5 DEF LedgerInv

(* One charged row is failed or deleted, its bill settled.                  *)
LEMMA SettleStep ==
    ASSUME LedgerInv, TypeOK', NEW p \in Photo, status[p] \in Refundable,
           NEW s \in {"FAILED", "GONE"}, Put(p, s), Refund({p}, size[p]),
           UNCHANGED <<size, hook, snap>>
    PROVE  LedgerInv'
<1>1. p \in billed /\ size[p] \in Nat
  BY DEF LedgerInv, LedgerExact, Live, Refundable, TypeOK
<1>2. used' = Total(billed', size') /\ billed' = billed \ {p}
  <2>1. size[p] = Total({p}, size)
    BY <1>1, TotalSingle
  <2> QED
    BY <1>1, <2>1, RefundExact DEF LedgerInv, Refund
<1>3. \A q \in Photo : status'[q] = IF q = p THEN s ELSE status[q]
  BY DEF LedgerInv, TypeOK, Put
<1>4. LedgerExact'
  BY <1>2, <1>3 DEF LedgerInv, LedgerExact, Live, TypeOK
<1>5. HooksCurrent'
  <2> SUFFICES ASSUME NEW h \in Handler, hook[h] # Idle
               PROVE  /\ status'[hook[h].photo] # "NONE"
                      /\ status'[hook[h].photo] = "PENDING" =>
                           hook[h].declared = size[hook[h].photo]
    BY DEF HooksCurrent
  <2>1. hook[h].photo \in Photo
    BY DEF LedgerInv, TypeOK, Request, Photo
  <2> QED
    BY <1>3, <2>1 DEF LedgerInv, HooksCurrent
<1>6. SnapsCurrent'
  <2> SUFFICES ASSUME NEW d \in HardDeleter
               PROVE  /\ snap[d].ids \subseteq billed'
                      /\ \A q \in snap[d].ids : status'[q] \in {"EXPIRED", "QUARANTINED", "GONE"}
                      /\ snap[d].refund = Total(snap[d].ids, size)
    BY DEF SnapsCurrent
  <2>1. /\ snap[d].ids \subseteq billed /\ billed \subseteq Photo
        /\ \A q \in snap[d].ids : status[q] \in {"EXPIRED", "QUARANTINED", "GONE"}
        /\ snap[d].refund = Total(snap[d].ids, size)
    BY DEF LedgerInv, SnapsCurrent, TypeOK
  <2>2. p \notin snap[d].ids
    BY <2>1 DEF Refundable
  <2> QED
    BY <1>2, <1>3, <2>1, <2>2
<1> QED
  BY <1>4, <1>5, <1>6 DEF LedgerInv

LEMMA MarkFailedStep ==
    ASSUME LedgerInv, TypeOK', NEW p \in Photo, MarkFailed(p),
           UNCHANGED <<size, hook, snap>>
    PROVE  LedgerInv'
<1>1. CASE status[p] \in Refundable
  <2>1. Put(p, "FAILED") /\ Refund({p}, size[p])
    BY <1>1 DEF MarkFailed
  <2> QED
    BY <1>1, <2>1, SettleStep
<1>2. CASE status[p] \notin Refundable
  <2>1. UNCHANGED <<status, used, billed>>
    BY <1>2 DEF MarkFailed, ledger
  <2> QED
    BY <2>1, QuietStep DEF Quiet
<1> QED
  BY <1>1, <1>2

LEMMA LedgerHeavy == LedgerInv /\ HeavyStep => LedgerInv'
<1> SUFFICES ASSUME LedgerInv, HeavyStep PROVE LedgerInv'
  OBVIOUS
<1>t. TypeOK /\ TypeOK'
  BY TypeHeavy DEF LedgerInv
<1>1. CASE HeavyCommit
  <2>1. PICK S \in (SUBSET HeavyPhoto) \ {{}} : \E sz \in [S -> Sizes] :
          /\ \A p \in S : status[p] = "NONE"
          /\ Charge(S, sz)
          /\ PutAll(S, "PENDING")
          /\ size' = [p \in Photo |-> IF p \in S THEN sz[p] ELSE size[p]]
          /\ UNCHANGED <<hook, beats>>
    BY <1>1 DEF HeavyCommit
  <2>2. PICK sz \in [S -> Sizes] :
          /\ Charge(S, sz)
          /\ PutAll(S, "PENDING")
          /\ size' = [p \in Photo |-> IF p \in S THEN sz[p] ELSE size[p]]
          /\ UNCHANGED <<hook, beats>>
    BY <2>1
  <2>3. S \in SUBSET Photo /\ \A p \in S : sz[p] \in Nat
    BY <2>2, SizeAssumption DEF Photo
  <2>4. /\ \A p \in Photo : size'[p] = IF p \in S THEN sz[p] ELSE size[p]
        /\ \A p \in Photo : status'[p] = IF p \in S THEN "PENDING" ELSE status[p]
        /\ UNCHANGED <<hook, snap>>
    BY <2>2 DEF PutAll, beats
  <2> QED
    BY <1>t, <2>1, <2>2, <2>3, <2>4, ChargeStep
<1>2. ASSUME NEW p \in HeavyPhoto, ClientPut(p) PROVE LedgerInv'
  <2>1. UNCHANGED <<status, size, used, billed, hook, snap>>
    BY <1>2 DEF ClientPut, rows, ledger, beats
  <2> QED
    BY <1>t, <2>1, QuietStep DEF Quiet
<1>3. ASSUME NEW p \in HeavyPhoto, TicketAges(p) PROVE LedgerInv'
  <2>1. UNCHANGED <<status, size, used, billed, hook, snap>>
    BY <1>3 DEF TicketAges, ledger, beats
  <2> QED
    BY <1>t, <2>1, QuietStep DEF Quiet
<1> QED
  BY <1>1, <1>2, <1>3 DEF HeavyStep

(* A webhook that changes only its own request to r: sound if r believes    *)
(* what its predecessor did or what the row says now.                       *)
LEMMA HookReadsStep ==
    ASSUME LedgerInv, TypeOK', NEW h \in Handler, NEW r,
           hook' = [hook EXCEPT ![h] = r],
           status[r.photo] # "NONE",
           status[r.photo] = "PENDING" => r.declared = size[r.photo],
           UNCHANGED <<status, size, used, billed, snap>>
    PROVE  LedgerInv'
<1>1. LedgerExact' /\ SnapsCurrent'
  BY DEF LedgerInv, LedgerExact, SnapsCurrent, Live
<1>2. \A g \in Handler : hook'[g] = IF g = h THEN r ELSE hook[g]
  BY DEF LedgerInv, TypeOK
<1>3. HooksCurrent'
  BY <1>2 DEF LedgerInv, HooksCurrent
<1> QED
  BY <1>1, <1>3 DEF LedgerInv

LEMMA LedgerHook == \A h \in Handler : LedgerInv /\ HookStep(h) => LedgerInv'
<1> SUFFICES ASSUME NEW h \in Handler, LedgerInv, HookStep(h) PROVE LedgerInv'
  OBVIOUS
<1>t. TypeOK /\ TypeOK'
  BY TypeHook DEF LedgerInv
<1>1. ASSUME NEW p \in HeavyPhoto, HookRead(h, p) PROVE LedgerInv'
  <2> DEFINE r == [pc |-> "head", photo |-> p, declared |-> size[p]]
  <2>1. /\ hook' = [hook EXCEPT ![h] = r] /\ status[r.photo] # "NONE"
        /\ r.declared = size[r.photo]
        /\ UNCHANGED <<status, size, used, billed, snap>>
    BY <1>1 DEF HookRead, Exists, rows, ledger, beats
  <2> QED
    BY <1>t, <2>1, HookReadsStep
<1>2. CASE HookHead(h)
  <2> DEFINE r == [pc |-> "commit", photo |-> hook[h].photo, declared |-> hook[h].declared,
                   head |-> object[hook[h].photo]]
  <2>1. hook[h] # Idle
    BY <1>2 DEF HookHead, Idle
  <2>2. /\ hook' = [hook EXCEPT ![h] = r] /\ status[r.photo] # "NONE"
        /\ status[r.photo] = "PENDING" => r.declared = size[r.photo]
        /\ UNCHANGED <<status, size, used, billed, snap>>
    BY <1>2, <2>1 DEF HookHead, LedgerInv, HooksCurrent, rows, ledger, beats
  <2> QED
    BY <1>t, <2>2, HookReadsStep
<1>3. CASE HookDrop(h) \/ HookNoEffect(h)
  <2>1. /\ UNCHANGED <<status, size, used, billed, snap>>
        /\ \A g \in Handler : hook'[g] \in {hook[g], Idle}
    BY <1>3, <1>t DEF HookDrop, HookNoEffect, TypeOK, rows, ledger, beats
  <2> QED
    BY <1>t, <2>1, QuietStep DEF Quiet
<1>4. CASE HookQuarantine(h)
  <2>1. hook[h] # Idle /\ hook[h].photo \in Photo
    BY <1>4, <1>t DEF HookQuarantine, TypeOK, Request, Idle, Photo
  <2>2. /\ UNCHANGED <<size, used, billed, snap>>
        /\ \A g \in Handler : hook'[g] \in {hook[g], Idle}
    BY <1>4, <1>t DEF HookQuarantine, TypeOK, ledger, beats
  <2>3. \A p \in Photo : Quiet(p)
    BY <1>4, <1>t, <2>1 DEF HookQuarantine, Put, TypeOK, Quiet, LedgerInv, HooksCurrent
  <2> QED
    BY <1>t, <2>2, <2>3, QuietStep
<1>5. CASE HookAccept(h)
  <2> DEFINE p == hook[h].photo
             r == hook[h]
  <2>1. /\ r # Idle /\ p \in Photo /\ status[p] = "PENDING"
        /\ r.declared = size[p] /\ r.declared \in Nat
        /\ r.head \in Nat /\ r.head <= r.declared
    <3>1. r # Idle /\ p \in Photo /\ r.declared \in Nat /\ r.head \in Nat
      BY <1>5, <1>t DEF HookAccept, Anomaly, TypeOK, Request, Idle, Photo
    <3>2. status[p] = "PENDING" /\ ~(r.head > r.declared)
      BY <1>5 DEF HookAccept, Anomaly
    <3> QED
      BY <3>1, <3>2 DEF LedgerInv, HooksCurrent
  <2>2. /\ UNCHANGED snap
        /\ \A g \in Handler : hook'[g] \in {hook[g], Idle}
        /\ \A q \in Photo : status'[q] = IF q = p THEN "READY" ELSE status[q]
    BY <1>5, <1>t DEF HookAccept, Put, TypeOK, beats
  <2>3. \A q \in Photo : Quiet(q)
    BY <2>1, <2>2 DEF Quiet, Refundable
  <2>4. CASE r.head < r.declared
    <3>1. size' = [size EXCEPT ![p] = r.head] /\ Refund({}, size[p] - r.head)
      BY <1>5, <2>1, <2>4 DEF HookAccept
    <3>2. p \in billed /\ LedgerExact
      BY <2>1 DEF LedgerInv, LedgerExact, Live
    <3>3. used' = Total(billed', size') /\ billed' = billed
      BY <1>t, <2>1, <2>4, <3>1, <3>2, ShrinkExact DEF Refund
    <3>4. LedgerExact'
      BY <2>1, <2>2, <3>3, <1>t DEF LedgerInv, LedgerExact, Live, TypeOK
    <3>5. HooksCurrent'
      <4> SUFFICES ASSUME NEW g \in Handler, hook'[g] # Idle
                   PROVE  /\ status'[hook'[g].photo] # "NONE"
                          /\ status'[hook'[g].photo] = "PENDING" =>
                               hook'[g].declared = size'[hook'[g].photo]
        BY DEF HooksCurrent
      <4>1. hook'[g] = hook[g] /\ hook[g].photo \in Photo
        BY <1>t, <2>2 DEF TypeOK, Request, Photo
      <4>2. hook[g].photo # p => size'[hook[g].photo] = size[hook[g].photo]
        BY <1>t, <3>1, <4>1 DEF TypeOK
      <4> QED
        BY <2>2, <4>1, <4>2 DEF LedgerInv, HooksCurrent
    <3>6. SnapsCurrent'
      <4> SUFFICES ASSUME NEW d \in HardDeleter
                   PROVE  /\ snap[d].ids \subseteq billed'
                          /\ \A q \in snap[d].ids : status'[q] \in {"EXPIRED", "QUARANTINED", "GONE"}
                          /\ snap[d].refund = Total(snap[d].ids, size')
        BY <2>2 DEF SnapsCurrent
      <4>1. /\ snap[d].ids \subseteq billed /\ billed \subseteq Photo
            /\ \A q \in snap[d].ids : status[q] \in {"EXPIRED", "QUARANTINED", "GONE"}
            /\ snap[d].refund = Total(snap[d].ids, size)
        BY DEF LedgerInv, SnapsCurrent, TypeOK
      <4>2. \A q \in snap[d].ids : q # p /\ q \in Photo
        BY <2>1, <4>1
      <4>3. \A q \in snap[d].ids : size[q] = size'[q]
        BY <1>t, <3>1, <4>2 DEF TypeOK
      <4>4. Total(snap[d].ids, size) = Total(snap[d].ids, size')
        BY <4>3, TotalAgree
      <4> QED
        BY <2>2, <3>3, <4>1, <4>2, <4>4
    <3> QED
      BY <1>t, <3>4, <3>5, <3>6 DEF LedgerInv
  <2>5. CASE ~(r.head < r.declared)
    <3>1. UNCHANGED <<size, used, billed>>
      BY <1>5, <2>5 DEF HookAccept, ledger
    <3>2. \A d \in HardDeleter : snap'[d] \in {snap[d], NoSnap}
      BY <2>2
    <3> QED
      BY <1>t, <2>2, <2>3, <3>1, <3>2, QuietStep
  <2> QED
    BY <2>4, <2>5
<1> QED
  BY <1>1, <1>2, <1>3, <1>4, <1>5 DEF HookStep

LEMMA LedgerFast == \A p \in FastPhoto : LedgerInv /\ FastStep(p) => LedgerInv'
<1> SUFFICES ASSUME NEW p \in FastPhoto, LedgerInv, FastStep(p) PROVE LedgerInv'
  OBVIOUS
<1>t. TypeOK /\ TypeOK' /\ p \in Photo
  BY TypeFast DEF LedgerInv, Photo
<1>1. CASE FastCreate(p)
  <2>1. PICK n \in Sizes : Charge({p}, [q \in {p} |-> n]) /\ size' = [size EXCEPT ![p] = n]
    BY <1>1 DEF FastCreate
  <2> DEFINE sz == [q \in {p} |-> n]
  <2>2. {p} \in SUBSET Photo /\ (\A q \in {p} : sz[q] \in Nat /\ status[q] = "NONE")
    BY <1>1, <1>t, SizeAssumption DEF FastCreate
  <2>3. /\ \A q \in Photo : size'[q] = IF q \in {p} THEN sz[q] ELSE size[q]
        /\ \A q \in Photo : status'[q] = IF q \in {p} THEN "PENDING" ELSE status[q]
        /\ UNCHANGED <<hook, snap>>
    BY <1>1, <1>t, <2>1 DEF FastCreate, Put, TypeOK, beats
  <2>4. Charge({p}, sz)
    BY <2>1
  <2> HIDE DEF sz
  <2> QED
    BY <1>t, <2>2, <2>3, <2>4, ChargeStep
<1>2. CASE FastDispatch(p) \/ VaultPut(p) \/ MonRead(p) \/ MonHead(p) \/ MonRetry(p)
  <2>1. UNCHANGED <<status, size, used, billed, hook, snap>>
    BY <1>2 DEF FastDispatch, VaultPut, MonRead, MonHead, MonRetry, rows, ledger, beats
  <2> QED
    BY <1>t, <2>1, QuietStep DEF Quiet
<1>3. CASE MonGiveUp(p)
  <2>1. UNCHANGED <<size, hook, snap>>
    BY <1>3 DEF MonGiveUp, beats
  <2>2. CASE MarkFailed(p)
    BY <1>t, <2>1, <2>2, MarkFailedStep
  <2>3. CASE UNCHANGED <<status, ledger, purging>>
    <3>1. UNCHANGED <<status, size, used, billed, hook, snap>>
      BY <2>1, <2>3 DEF ledger
    <3> QED
      BY <1>t, <3>1, QuietStep DEF Quiet
  <2> QED
    BY <1>3, <2>2, <2>3 DEF MonGiveUp
<1>4. CASE MonHeal(p)
  <2>1. UNCHANGED <<size, used, billed, hook, snap>>
    BY <1>4 DEF MonHeal, ledger, beats
  <2>2. \A q \in Photo : Quiet(q)
    BY <1>4, <1>t DEF MonHeal, Put, TypeOK, Quiet, Refundable
  <2> QED
    BY <1>t, <2>1, <2>2, QuietStep
<1>5. CASE MonAbandon(p)
  <2>1. UNCHANGED <<size, hook, snap>>
    BY <1>5 DEF MonAbandon, beats
  <2>2. CASE status[p] = "PENDING" /\ Put(p, "GONE") /\ Refund({p}, size[p])
    BY <1>t, <2>1, <2>2, SettleStep DEF Refundable
  <2>3. CASE UNCHANGED <<status, ledger>>
    <3>1. UNCHANGED <<status, size, used, billed, hook, snap>>
      BY <2>1, <2>3 DEF ledger
    <3> QED
      BY <1>t, <3>1, QuietStep DEF Quiet
  <2> QED
    BY <1>5, <2>2, <2>3 DEF MonAbandon
<1> QED
  BY <1>1, <1>2, <1>3, <1>4, <1>5 DEF FastStep

LEMMA LedgerPhotoTask == \A p \in Photo : LedgerInv /\ PhotoTask(p) => LedgerInv'
<1> SUFFICES ASSUME NEW p \in Photo, LedgerInv, PhotoTask(p) PROVE LedgerInv'
  OBVIOUS
<1>t. TypeOK /\ TypeOK'
  BY TypePhotoTask DEF LedgerInv
<1>1. CASE DerivPoison(p)
  <2>1. MarkFailed(p) /\ UNCHANGED <<size, hook, snap>>
    BY <1>1 DEF DerivPoison, beats
  <2> QED
    BY <1>t, <2>1, MarkFailedStep
<1>2. CASE DerivEnds(p) \/ Purge(p) \/ PurgeLost(p)
  <2>1. UNCHANGED <<status, size, used, billed, hook, snap>>
    BY <1>2 DEF DerivEnds, Purge, PurgeLost, rows, ledger, beats
  <2> QED
    BY <1>t, <2>1, QuietStep DEF Quiet
<1>3. CASE OwnerDestroy(p)
  <2>1. Put(p, "GONE") /\ UNCHANGED <<size, hook, snap>> /\ status[p] # "NONE"
    BY <1>3 DEF OwnerDestroy, Exists, beats
  <2>2. CASE status[p] \in Refundable
    <3>1. Refund({p}, size[p])
      BY <1>3, <2>2 DEF OwnerDestroy
    <3> QED
      BY <1>t, <2>1, <2>2, <3>1, SettleStep
  <2>3. CASE status[p] \notin Refundable
    <3>1. UNCHANGED <<used, billed>>
      BY <1>3, <2>3 DEF OwnerDestroy, ledger
    <3>2. \A q \in Photo : Quiet(q)
      BY <1>t, <2>1 DEF Put, TypeOK, Quiet
    <3> QED
      BY <1>t, <2>1, <3>1, <3>2, QuietStep
  <2> QED
    BY <2>2, <2>3
<1> QED
  BY <1>1, <1>2, <1>3 DEF PhotoTask

LEMMA LedgerReap == \A r \in Reaper : LedgerInv /\ ReapStep(r) => LedgerInv'
<1> SUFFICES ASSUME NEW r \in Reaper, LedgerInv, ReapStep(r) PROVE LedgerInv'
  OBVIOUS
<1>t. TypeOK /\ TypeOK'
  BY TypeReap DEF LedgerInv
<1>1. CASE ReapScan(r) \/ ReapAbort(r)
           \/ \E p \in HeavyPhoto : ReapHead(r, p) \/ ReapSkip(r, p)
  <2>1. UNCHANGED <<status, size, used, billed, hook, snap>>
    BY <1>1 DEF ReapScan, ReapAbort, ReapHead, ReapSkip, rows, ledger
  <2> QED
    BY <1>t, <2>1, QuietStep DEF Quiet
<1>2. ASSUME NEW p \in HeavyPhoto, ReapPhantom(r, p) PROVE LedgerInv'
  <2>1. UNCHANGED <<size, used, billed, hook, snap>>
    BY <1>2 DEF ReapPhantom, ledger
  <2>2. \A q \in Photo : Quiet(q)
    BY <1>2, <1>t DEF ReapPhantom, Put, TypeOK, Quiet
  <2> QED
    BY <1>t, <2>1, <2>2, QuietStep
<1>3. ASSUME NEW p \in HeavyPhoto, ReapAbandoned(r, p) PROVE LedgerInv'
  <2>1. /\ p \in Photo /\ status[p] \in Refundable
        /\ Put(p, "FAILED") /\ Refund({p}, size[p]) /\ UNCHANGED <<size, hook, snap>>
    BY <1>3 DEF ReapAbandoned, Refundable, Photo
  <2> QED
    BY <1>t, <2>1, SettleStep
<1> QED
  BY <1>1, <1>2, <1>3 DEF ReapStep

(* Hard-delete runs that follow one another: beat in one container, or a    *)
(* deployment that never has two.                                           *)
SingleHardDelete == \A a, b \in HardDeleter : a = b

LEMMA LedgerHardDelete ==
    SingleHardDelete =>
        \A d \in HardDeleter : LedgerInv /\ HardDeleteStep(d) => LedgerInv'
<1> SUFFICES ASSUME SingleHardDelete, NEW d \in HardDeleter, LedgerInv, HardDeleteStep(d)
             PROVE  LedgerInv'
  OBVIOUS
<1>t. TypeOK /\ TypeOK'
  BY TypeHardDelete DEF LedgerInv
<1>1. CASE HardDeleteRead(d)
  <2> DEFINE S == {p \in Photo : status[p] = "EXPIRED"}
  <2>1. /\ UNCHANGED <<status, size, used, billed, hook>>
        /\ snap' = [snap EXCEPT ![d] = [ids |-> S, refund |-> Total(S, size)]]
    BY <1>1 DEF HardDeleteRead, rows, ledger
  <2>2. S \subseteq billed
    BY DEF LedgerInv, LedgerExact, Live
  <2>3. LedgerExact' /\ HooksCurrent'
    BY <2>1 DEF LedgerInv, LedgerExact, HooksCurrent, Live
  <2>4. SnapsCurrent'
    <3> SUFFICES ASSUME NEW e \in HardDeleter
                 PROVE  /\ snap'[e].ids \subseteq billed
                        /\ \A p \in snap'[e].ids : status[p] \in {"EXPIRED", "QUARANTINED", "GONE"}
                        /\ snap'[e].refund = Total(snap'[e].ids, size)
      BY <2>1 DEF SnapsCurrent
    <3>1. e = d
      BY DEF SingleHardDelete
    <3>2. snap'[e].ids = S /\ snap'[e].refund = Total(S, size)
      BY <1>t, <2>1, <3>1 DEF TypeOK
    <3> QED
      BY <2>2, <3>2
  <2> QED
    BY <1>t, <2>3, <2>4 DEF LedgerInv
<1>2. CASE HardDeleteCommit(d)
  <2> DEFINE T == snap[d].ids
  <2>1. T \subseteq billed /\ snap[d].refund = Total(T, size) /\ T \subseteq Photo
        /\ \A p \in T : status[p] # "NONE"
    BY <1>t DEF LedgerInv, SnapsCurrent, TypeOK
  <2>2. /\ PutAll(T, "GONE") /\ Refund(T, snap[d].refund)
        /\ UNCHANGED <<size, hook>>
        /\ snap' = [snap EXCEPT ![d] = NoSnap]
    BY <1>2 DEF HardDeleteCommit
  <2>3. used' = Total(billed', size') /\ billed' = billed \ T
    BY <1>t, <2>1, <2>2, RefundExact DEF LedgerInv, Refund
  <2>4. \A q \in Photo : status'[q] = IF q \in T THEN "GONE" ELSE status[q]
    BY <2>2 DEF PutAll
  <2>5. LedgerExact'
    BY <1>t, <2>3, <2>4 DEF LedgerInv, LedgerExact, Live, TypeOK
  <2>6. HooksCurrent'
    <3> SUFFICES ASSUME NEW h \in Handler, hook[h] # Idle
                 PROVE  /\ status'[hook[h].photo] # "NONE"
                        /\ status'[hook[h].photo] = "PENDING" =>
                             hook[h].declared = size[hook[h].photo]
      BY <2>2 DEF HooksCurrent
    <3>1. hook[h].photo \in Photo
      BY <1>t DEF TypeOK, Request, Photo
    <3> QED
      BY <2>4, <3>1 DEF LedgerInv, HooksCurrent
  <2>7. SnapsCurrent'
    <3> SUFFICES ASSUME NEW e \in HardDeleter
                 PROVE  /\ snap'[e].ids \subseteq billed'
                        /\ \A p \in snap'[e].ids : status'[p] \in {"EXPIRED", "QUARANTINED", "GONE"}
                        /\ snap'[e].refund = Total(snap'[e].ids, size')
      BY DEF SnapsCurrent
    <3>1. e = d
      BY DEF SingleHardDelete
    <3>2. snap'[e].ids = {} /\ snap'[e].refund = 0
      BY <1>t, <2>2, <3>1 DEF TypeOK, NoSnap
    <3> QED
      BY <3>2, TotalEmpty
  <2> QED
    BY <1>t, <2>5, <2>6, <2>7 DEF LedgerInv
<1>3. CASE HardDeleteFails(d)
  <2>1. /\ UNCHANGED <<status, size, used, billed, hook>>
        /\ \A e \in HardDeleter : snap'[e] \in {snap[e], NoSnap}
    BY <1>3, <1>t DEF HardDeleteFails, TypeOK, rows, ledger
  <2> QED
    BY <1>t, <2>1, QuietStep DEF Quiet
<1> QED
  BY <1>1, <1>2, <1>3 DEF HardDeleteStep

LEMMA LedgerGallery ==
    LedgerInv /\ (CascadeDelete \/ SetLimit \/ GalleryAges \/ ExpireDue) => LedgerInv'
<1> SUFFICES ASSUME LedgerInv, CascadeDelete \/ SetLimit \/ GalleryAges \/ ExpireDue
             PROVE  LedgerInv'
  OBVIOUS
<1>t. TypeOK /\ TypeOK'
  BY TypeGallery DEF LedgerInv
<1>1. UNCHANGED <<size, used, billed, hook, snap>>
  BY DEF CascadeDelete, SetLimit, GalleryAges, ExpireDue, rows, ledger, beats
<1>2. \A p \in Photo : Quiet(p)
  BY DEF CascadeDelete, SetLimit, GalleryAges, ExpireDue, rows, PutAll, Exists, Quiet,
         Refundable
<1> QED
  BY <1>t, <1>1, <1>2, QuietStep

(* The invariant that makes LedgerExact inductive.                          *)
THEOREM LedgerInvariant ==
    ASSUME SingleHardDelete
    PROVE  Spec => []LedgerInv
<1>1. Init => LedgerInv
  <2> SUFFICES ASSUME Init PROVE LedgerInv
    OBVIOUS
  <2>1. TypeOK
    BY InitTypeOK
  <2>2. LedgerExact
    BY TotalEmpty DEF Init, LedgerExact, Live
  <2>3. HooksCurrent
    BY DEF Init, HooksCurrent
  <2>4. SnapsCurrent
    BY TotalEmpty DEF Init, SnapsCurrent, NoSnap
  <2> QED
    BY <2>1, <2>2, <2>3, <2>4 DEF LedgerInv
<1>2. LedgerInv /\ [Next]_vars => LedgerInv'
  <2> SUFFICES ASSUME LedgerInv, [Next]_vars PROVE LedgerInv'
    OBVIOUS
  <2>1. CASE Next
    BY <2>1, LedgerHeavy, LedgerHook, LedgerFast, LedgerPhotoTask, LedgerReap,
       LedgerHardDelete, LedgerGallery DEF Next
  <2>2. CASE UNCHANGED vars
    <3>1. UNCHANGED <<status, size, used, billed, hook, snap>> /\ TypeOK'
      BY <2>2 DEF vars, rows, ledger, store, tasks, beats, LedgerInv, TypeOK
    <3> QED
      BY <3>1, QuietStep DEF Quiet
  <2> QED
    BY <2>1, <2>2
<1> QED
  BY <1>1, <1>2, PTL DEF Spec

(* Quota is charged and refunded exactly once per upload, for any number of *)
(* photos, webhook deliveries and reapers, if hard deletes do not overlap.  *)
(* The run overlapping_hard_delete shows that the assumption is needed.     *)
THEOREM LedgerIsExact ==
    ASSUME SingleHardDelete
    PROVE  Spec => []LedgerExact
<1>1. LedgerInv => LedgerExact
  BY DEF LedgerInv
<1> QED
  BY <1>1, LedgerInvariant, PTL

(* Hence what live rows occupy is always covered by the counter the quota   *)
(* gate compares with the limit.                                            *)
THEOREM LiveCovered ==
    ASSUME SingleHardDelete
    PROVE  Spec => []LiveBytesCovered
<1>1. LedgerInv => LiveBytesCovered
  <2> SUFFICES ASSUME LedgerInv PROVE Total(Live, size) <= used
    BY DEF LiveBytesCovered
  <2>1. IsFiniteSet(billed) /\ Live \subseteq billed /\ \A p \in billed : size[p] \in Nat
    BY PhotoFinite DEF LedgerInv, LedgerExact, TypeOK
  <2>2. Total(Live, size) <= Total(billed, size)
    BY <2>1, TotalMinus
  <2> QED
    BY <2>2 DEF LedgerInv, LedgerExact
<1> QED
  BY <1>1, LedgerInvariant, PTL
-----------------------------------------------------------------------------
(* What the steps may do.                                                   *)

(* Bills belong to rows that exist and were not failed; hard deletes may    *)
(* overlap.                                                                 *)
BillsOpen == \A p \in billed : status[p] \notin {"NONE", "FAILED"}

(* Every action moves a photo's status along one of these, ...              *)
Moves(p) ==
    \/ status'[p] = status[p]
    \/ status[p] = "NONE" /\ status'[p] = "PENDING"
    \/ status[p] = "PENDING" /\ status'[p] = "READY"
    \/ status[p] = "READY" /\ status'[p] = "EXPIRED"
    \/ status[p] \in Refundable /\ status'[p] = "FAILED" /\ p \notin billed'
    \/ status[p] \notin {"NONE", "GONE"} /\ status'[p] = "QUARANTINED"
    \/ status[p] # "NONE" /\ status'[p] = "GONE"

(* ... and bills a row only while it is being created.                      *)
Follows(p) ==
    /\ Moves(p)
    /\ p \in billed' => p \in billed \/ (status[p] = "NONE" /\ status'[p] = "PENDING")

LEMMA MarkFailedFollows ==
    ASSUME TypeOK, NEW p \in Photo, MarkFailed(p), NEW q \in Photo
    PROVE  Follows(q)
BY DEF MarkFailed, TypeOK, Put, Refund, Refundable, Follows, Moves, ledger

LEMMA HeavyFollows ==
    ASSUME TypeOK, HeavyStep, NEW q \in Photo
    PROVE  Follows(q)
<1>1. CASE HeavyCommit
  BY <1>1 DEF HeavyCommit, Charge, PutAll, Follows, Moves
<1>2. ASSUME NEW p \in HeavyPhoto, ClientPut(p) \/ TicketAges(p) PROVE Follows(q)
  BY <1>2 DEF ClientPut, TicketAges, rows, ledger, Follows, Moves
<1> QED
  BY <1>1, <1>2 DEF HeavyStep

(* Webhooks in flight and hard deletes hold rows that were created.         *)
HooksExist == \A h \in Handler : hook[h] # Idle => status[hook[h].photo] # "NONE"
SnapsExist == \A d \in HardDeleter : \A p \in snap[d].ids : status[p] # "NONE"

LEMMA HookFollows ==
    ASSUME TypeOK, HooksExist, NEW h \in Handler, HookStep(h), NEW q \in Photo
    PROVE  Follows(q)
<1>1. CASE HookDrop(h) \/ HookNoEffect(h) \/ HookHead(h) \/ \E p \in HeavyPhoto : HookRead(h, p)
  BY <1>1 DEF HookDrop, HookNoEffect, HookHead, HookRead, rows, ledger, Follows, Moves
<1>2. CASE HookQuarantine(h)
  <2>1. hook[h] # Idle /\ hook[h].photo \in Photo
    BY <1>2 DEF HookQuarantine, TypeOK, Request, Idle, Photo
  <2>2. status[hook[h].photo] \notin {"NONE", "GONE"}
    BY <1>2, <2>1 DEF HookQuarantine, HooksExist
  <2> QED
    BY <1>2, <2>2 DEF HookQuarantine, Put, TypeOK, ledger, Follows, Moves
<1>3. CASE HookAccept(h)
  <2>1. billed' = billed
    BY <1>3 DEF HookAccept, Refund, ledger
  <2> QED
    BY <1>3, <2>1 DEF HookAccept, Put, TypeOK, Follows, Moves
<1> QED
  BY <1>1, <1>2, <1>3 DEF HookStep

LEMMA FastFollows ==
    ASSUME TypeOK, NEW p \in FastPhoto, FastStep(p), NEW q \in Photo
    PROVE  Follows(q)
<1>0. p \in Photo
  BY DEF Photo
<1>1. CASE FastCreate(p)
  BY <1>0, <1>1 DEF FastCreate, Charge, Put, TypeOK, Follows, Moves
<1>2. CASE FastDispatch(p) \/ VaultPut(p) \/ MonRead(p) \/ MonHead(p) \/ MonRetry(p)
  BY <1>2 DEF FastDispatch, VaultPut, MonRead, MonHead, MonRetry, rows, ledger, Follows, Moves
<1>3. CASE MonGiveUp(p)
  <2>1. CASE MarkFailed(p)
    BY <1>0, <2>1, MarkFailedFollows
  <2>2. CASE UNCHANGED <<status, ledger, purging>>
    BY <2>2 DEF ledger, Follows, Moves
  <2> QED
    BY <1>3, <2>1, <2>2 DEF MonGiveUp
<1>4. CASE MonHeal(p)
  BY <1>4 DEF MonHeal, Put, TypeOK, ledger, Follows, Moves
<1>5. CASE MonAbandon(p)
  BY <1>5 DEF MonAbandon, Put, Refund, TypeOK, ledger, Follows, Moves
<1> QED
  BY <1>1, <1>2, <1>3, <1>4, <1>5 DEF FastStep

LEMMA PhotoTaskFollows ==
    ASSUME TypeOK, NEW p \in Photo, PhotoTask(p), NEW q \in Photo
    PROVE  Follows(q)
<1>1. CASE DerivPoison(p)
  BY <1>1, MarkFailedFollows DEF DerivPoison
<1>2. CASE DerivEnds(p) \/ Purge(p) \/ PurgeLost(p)
  BY <1>2 DEF DerivEnds, Purge, PurgeLost, rows, ledger, Follows, Moves
<1>3. CASE OwnerDestroy(p)
  BY <1>3 DEF OwnerDestroy, Exists, Put, Refund, TypeOK, ledger, Follows, Moves
<1> QED
  BY <1>1, <1>2, <1>3 DEF PhotoTask

LEMMA ReapFollows ==
    ASSUME TypeOK, NEW r \in Reaper, ReapStep(r), NEW q \in Photo
    PROVE  Follows(q)
<1>1. CASE ReapScan(r) \/ ReapAbort(r)
           \/ \E p \in HeavyPhoto : ReapHead(r, p) \/ ReapSkip(r, p)
  BY <1>1 DEF ReapScan, ReapAbort, ReapHead, ReapSkip, rows, ledger, Follows, Moves
<1>2. ASSUME NEW p \in HeavyPhoto, ReapPhantom(r, p) PROVE Follows(q)
  BY <1>2 DEF ReapPhantom, Put, TypeOK, ledger, Follows, Moves
<1>3. ASSUME NEW p \in HeavyPhoto, ReapAbandoned(r, p) PROVE Follows(q)
  BY <1>3 DEF ReapAbandoned, Put, Refund, TypeOK, Refundable, Follows, Moves
<1> QED
  BY <1>1, <1>2, <1>3 DEF ReapStep

LEMMA HardDeleteFollows ==
    ASSUME TypeOK, SnapsExist, NEW d \in HardDeleter, HardDeleteStep(d), NEW q \in Photo
    PROVE  Follows(q)
<1>1. CASE HardDeleteRead(d) \/ HardDeleteFails(d)
  BY <1>1 DEF HardDeleteRead, HardDeleteFails, rows, ledger, Follows, Moves
<1>2. CASE HardDeleteCommit(d)
  BY <1>2 DEF HardDeleteCommit, PutAll, Refund, SnapsExist, Follows, Moves
<1> QED
  BY <1>1, <1>2 DEF HardDeleteStep

LEMMA GalleryFollows ==
    ASSUME CascadeDelete \/ SetLimit \/ GalleryAges \/ ExpireDue, NEW q \in Photo
    PROVE  Follows(q)
<1>1. CASE CascadeDelete
  BY <1>1 DEF CascadeDelete, PutAll, Exists, ledger, Follows, Moves
<1>2. CASE SetLimit \/ GalleryAges
  BY <1>2 DEF SetLimit, GalleryAges, rows, ledger, Follows, Moves
<1>3. CASE ExpireDue
  BY <1>3 DEF ExpireDue, PutAll, ledger, Follows, Moves
<1> QED
  BY <1>1, <1>2, <1>3

(* One line for the whole system.                                           *)
LEMMA NextFollows ==
    ASSUME TypeOK, HooksExist, SnapsExist, [Next]_vars, NEW q \in Photo
    PROVE  Follows(q)
<1>1. CASE Next
  BY <1>1, HeavyFollows, HookFollows, FastFollows, PhotoTaskFollows, ReapFollows,
     HardDeleteFollows, GalleryFollows DEF Next
<1>2. CASE UNCHANGED vars
  BY <1>2 DEF vars, rows, ledger, Follows, Moves
<1> QED
  BY <1>1, <1>2

(* What webhooks and hard deletes take up exists when they do.              *)
LEMMA HooksTaken ==
    ASSUME TypeOK, [Next]_vars, NEW h \in Handler, hook'[h] # Idle
    PROVE  /\ hook'[h].photo \in Photo
           /\ \/ status[hook'[h].photo] # "NONE"
              \/ hook[h] # Idle /\ hook'[h].photo = hook[h].photo
<1>0. hook[h] # Idle => hook[h].photo \in Photo
  BY DEF TypeOK, Request, Photo
<1>1. CASE UNCHANGED hook
  BY <1>0, <1>1
<1>2. ASSUME NEW g \in Handler, HookStep(g)
      PROVE  /\ hook'[h].photo \in Photo
             /\ \/ status[hook'[h].photo] # "NONE"
                \/ hook[h] # Idle /\ hook'[h].photo = hook[h].photo
  <2>1. ASSUME NEW p \in HeavyPhoto, HookRead(g, p)
        PROVE  /\ hook'[h].photo \in Photo
               /\ \/ status[hook'[h].photo] # "NONE"
                  \/ hook[h] # Idle /\ hook'[h].photo = hook[h].photo
    <3>1. CASE h = g
      BY <2>1, <3>1 DEF HookRead, Exists, TypeOK, Photo
    <3>2. CASE h # g
      BY <1>0, <2>1, <3>2 DEF HookRead, TypeOK
    <3> QED
      BY <3>1, <3>2
  <2>2. CASE HookHead(g)
    <3>1. CASE h = g
      <4>1. hook[h] # Idle
        BY <2>2, <3>1 DEF HookHead, Idle
      <4>2. hook'[h].photo = hook[h].photo
        BY <2>2, <3>1 DEF HookHead, TypeOK
      <4> QED
        BY <1>0, <4>1, <4>2
    <3>2. CASE h # g
      BY <1>0, <2>2, <3>2 DEF HookHead, TypeOK
    <3> QED
      BY <3>1, <3>2
  <2>3. CASE HookDrop(g) \/ HookNoEffect(g) \/ HookQuarantine(g) \/ HookAccept(g)
    <3>1. hook' = [hook EXCEPT ![g] = Idle]
      BY <2>3 DEF HookDrop, HookNoEffect, HookQuarantine, HookAccept
    <3>2. hook'[h] = hook[h]
      BY <3>1 DEF TypeOK
    <3> QED
      BY <1>0, <3>2
  <2> QED
    BY <1>2, <2>1, <2>2, <2>3 DEF HookStep
<1>3. CASE HeavyStep
  BY <1>1, <1>3 DEF HeavyStep, HeavyCommit, ClientPut, TicketAges
<1>4. ASSUME NEW p \in FastPhoto, FastStep(p) PROVE UNCHANGED hook
  BY <1>4 DEF FastStep, FastCreate, FastDispatch, VaultPut, MonRead, MonHead, MonRetry,
              MonGiveUp, MonHeal, MonAbandon
<1>5. ASSUME NEW p \in Photo, PhotoTask(p) PROVE UNCHANGED hook
  BY <1>5 DEF PhotoTask, DerivPoison, DerivEnds, OwnerDestroy, Purge, PurgeLost
<1>6. ASSUME NEW r \in Reaper, ReapStep(r) PROVE UNCHANGED hook
  BY <1>6 DEF ReapStep, ReapScan, ReapHead, ReapAbort, ReapPhantom, ReapAbandoned, ReapSkip
<1>7. ASSUME NEW d \in HardDeleter, HardDeleteStep(d) PROVE UNCHANGED hook
  BY <1>7 DEF HardDeleteStep, HardDeleteRead, HardDeleteCommit, HardDeleteFails
<1>8. CASE CascadeDelete \/ SetLimit \/ GalleryAges \/ ExpireDue \/ UNCHANGED vars
  BY <1>1, <1>8 DEF CascadeDelete, SetLimit, GalleryAges, ExpireDue, vars
<1> QED
  BY <1>1, <1>2, <1>3, <1>4, <1>5, <1>6, <1>7, <1>8 DEF Next

LEMMA SnapsTaken ==
    ASSUME TypeOK, [Next]_vars, NEW d \in HardDeleter, NEW p \in snap'[d].ids
    PROVE  p \in Photo /\ (status[p] # "NONE" \/ p \in snap[d].ids)
<1>0. snap[d].ids \subseteq Photo
  BY DEF TypeOK
<1>1. CASE UNCHANGED snap
  BY <1>0, <1>1
<1>2. ASSUME NEW e \in HardDeleter, HardDeleteStep(e)
      PROVE  p \in Photo /\ (status[p] # "NONE" \/ p \in snap[d].ids)
  <2>1. CASE e # d
    <3>1. snap'[d] = snap[d]
      BY <1>2, <2>1 DEF HardDeleteStep, HardDeleteRead, HardDeleteCommit, HardDeleteFails, TypeOK
    <3> QED
      BY <1>0, <3>1
  <2>2. CASE e = d /\ HardDeleteRead(e)
    <3>1. snap'[d].ids = {q \in Photo : status[q] = "EXPIRED"}
      BY <2>2 DEF HardDeleteRead, TypeOK
    <3> QED
      BY <3>1
  <2>3. CASE e = d /\ (HardDeleteCommit(e) \/ HardDeleteFails(e))
    <3>1. snap'[d].ids = {}
      BY <2>3 DEF HardDeleteCommit, HardDeleteFails, TypeOK, NoSnap
    <3> QED
      BY <3>1
  <2> QED
    BY <1>2, <2>1, <2>2, <2>3 DEF HardDeleteStep
<1>3. CASE HeavyStep
  BY <1>1, <1>3 DEF HeavyStep, HeavyCommit, ClientPut, TicketAges, beats
<1>4. ASSUME NEW g \in Handler, HookStep(g) PROVE UNCHANGED snap
  BY <1>4 DEF HookStep, HookRead, HookHead, HookDrop, HookNoEffect, HookQuarantine,
              HookAccept, beats
<1>5. ASSUME NEW q \in FastPhoto, FastStep(q) PROVE UNCHANGED snap
  BY <1>5 DEF FastStep, FastCreate, FastDispatch, VaultPut, MonRead, MonHead, MonRetry,
              MonGiveUp, MonHeal, MonAbandon, beats
<1>6. ASSUME NEW q \in Photo, PhotoTask(q) PROVE UNCHANGED snap
  BY <1>6 DEF PhotoTask, DerivPoison, DerivEnds, OwnerDestroy, Purge, PurgeLost, beats
<1>7. ASSUME NEW r \in Reaper, ReapStep(r) PROVE UNCHANGED snap
  BY <1>7 DEF ReapStep, ReapScan, ReapHead, ReapAbort, ReapPhantom, ReapAbandoned, ReapSkip
<1>8. CASE CascadeDelete \/ SetLimit \/ GalleryAges \/ ExpireDue \/ UNCHANGED vars
  BY <1>1, <1>8 DEF CascadeDelete, SetLimit, GalleryAges, ExpireDue, vars, beats
<1> QED
  BY <1>1, <1>2, <1>3, <1>4, <1>5, <1>6, <1>7, <1>8 DEF Next

(* The invariant behind NoResurrection; hard deletes may overlap.           *)
RowsInv == TypeOK /\ BillsOpen /\ HooksExist /\ SnapsExist

LEMMA RowsInvariant == Spec => []RowsInv
<1>1. Init => RowsInv
  BY InitTypeOK DEF Init, RowsInv, BillsOpen, HooksExist, SnapsExist, NoSnap
<1>2. RowsInv /\ [Next]_vars => RowsInv'
  <2> SUFFICES ASSUME RowsInv, [Next]_vars PROVE RowsInv'
    OBVIOUS
  <2>t. TypeOK /\ TypeOK' /\ HooksExist /\ SnapsExist /\ BillsOpen
    BY NextTypeOK DEF RowsInv
  <2>1. \A q \in Photo : Follows(q)
    BY <2>t, NextFollows
  <2>2. BillsOpen'
    <3> SUFFICES ASSUME NEW q \in billed' PROVE status'[q] \notin {"NONE", "FAILED"}
      BY DEF BillsOpen
    <3>1. q \in Photo /\ Follows(q)
      BY <2>t, <2>1 DEF TypeOK
    <3> QED
      BY <2>t, <3>1 DEF BillsOpen, Follows, Moves
  <2>3. \A q \in Photo : status[q] # "NONE" => status'[q] # "NONE"
    BY <2>1 DEF Follows, Moves
  <2>4. HooksExist'
    <3> SUFFICES ASSUME NEW h \in Handler, hook'[h] # Idle
                 PROVE  status'[hook'[h].photo] # "NONE"
      BY DEF HooksExist
    <3>1. hook'[h].photo \in Photo /\ status[hook'[h].photo] # "NONE"
      BY <2>t, HooksTaken DEF HooksExist
    <3> QED
      BY <2>3, <3>1
  <2>5. SnapsExist'
    <3> SUFFICES ASSUME NEW d \in HardDeleter, NEW p \in snap'[d].ids
                 PROVE  status'[p] # "NONE"
      BY DEF SnapsExist
    <3>1. p \in Photo /\ status[p] # "NONE"
      BY <2>t, SnapsTaken DEF SnapsExist
    <3> QED
      BY <2>3, <3>1
  <2> QED
    BY <2>t, <2>2, <2>4, <2>5 DEF RowsInv
<1> QED
  BY <1>1, <1>2, PTL DEF Spec

(* No late webhook, redelivered task or second sweep brings a settled       *)
(* upload back, whatever overlaps.                                          *)
THEOREM SettledStaysSettled == Spec => NoResurrection
<1> DEFINE NR == \A p \in Photo :
                  /\ status[p] = "GONE" => status'[p] = "GONE"
                  /\ status[p] \in {"FAILED", "QUARANTINED", "EXPIRED"} =>
                         status'[p] \notin {"NONE", "PENDING", "READY"}
                  /\ status[p] = "FAILED" => p \notin billed'
<1>1. RowsInv /\ [Next]_vars => NR
  <2> SUFFICES ASSUME RowsInv, [Next]_vars, NEW p \in Photo
               PROVE  /\ status[p] = "GONE" => status'[p] = "GONE"
                      /\ status[p] \in {"FAILED", "QUARANTINED", "EXPIRED"} =>
                             status'[p] \notin {"NONE", "PENDING", "READY"}
                      /\ status[p] = "FAILED" => p \notin billed'
    OBVIOUS
  <2>1. Follows(p)
    BY NextFollows DEF RowsInv
  <2>2. p \in billed => status[p] \notin {"NONE", "FAILED"}
    BY DEF RowsInv, BillsOpen
  <2> QED
    BY <2>1, <2>2 DEF Follows, Moves, Refundable
<1>2. RowsInv /\ [Next]_vars => [NR]_vars
  BY <1>1
<1> QED
  BY <1>2, RowsInvariant, PTL DEF Spec, NoResurrection
-----------------------------------------------------------------------------
(* Originals.  Only a purge removes an object, ...                          *)
LEMMA ObjectKept ==
    ASSUME TypeOK, [Next]_vars, NEW q \in Photo, q \notin purging, object[q] # Missing
    PROVE  object'[q] # Missing
<1>1. CASE UNCHANGED object
  BY <1>1
<1>2. CASE HeavyStep
  <2>1. ASSUME NEW p \in HeavyPhoto, ClientPut(p) PROVE object'[q] # Missing
    <3>1. PICK n \in 1..declared[p] : object' = [object EXCEPT ![p] = n]
      BY <2>1 DEF ClientPut
    <3>2. n # Missing
      BY DEF TypeOK, Missing
    <3> QED
      BY <3>1, <3>2 DEF TypeOK
  <2> QED
    BY <1>1, <1>2, <2>1 DEF HeavyStep, HeavyCommit, TicketAges, store
<1>3. ASSUME NEW p \in FastPhoto, FastStep(p) PROVE object'[q] # Missing
  <2>1. CASE VaultPut(p)
    <3>1. object' = [object EXCEPT ![p] = size[p]] /\ size[p] # Missing
      BY <2>1 DEF VaultPut, TypeOK, Missing, Photo
    <3> QED
      BY <3>1 DEF TypeOK
  <2> QED
    BY <1>1, <1>3, <2>1 DEF FastStep, FastCreate, FastDispatch, MonRead, MonHead, MonRetry,
                            MonGiveUp, MonHeal, MonAbandon, store
<1>4. ASSUME NEW p \in Photo, PhotoTask(p) PROVE object'[q] # Missing
  <2>1. CASE Purge(p)
    BY <2>1 DEF Purge, TypeOK
  <2> QED
    BY <1>1, <1>4, <2>1 DEF PhotoTask, DerivPoison, DerivEnds, OwnerDestroy, PurgeLost, store
<1>5. ASSUME NEW h \in Handler, HookStep(h) PROVE UNCHANGED object
  BY <1>5 DEF HookStep, HookRead, HookHead, HookDrop, HookNoEffect, HookQuarantine,
              HookAccept, store
<1>6. ASSUME NEW r \in Reaper, ReapStep(r) PROVE UNCHANGED object
  BY <1>6 DEF ReapStep, ReapScan, ReapHead, ReapAbort, ReapPhantom, ReapAbandoned, ReapSkip,
              store
<1>7. ASSUME NEW d \in HardDeleter, HardDeleteStep(d) PROVE UNCHANGED object
  BY <1>7 DEF HardDeleteStep, HardDeleteRead, HardDeleteCommit, HardDeleteFails, store
<1>8. CASE CascadeDelete \/ SetLimit \/ GalleryAges \/ ExpireDue \/ UNCHANGED vars
  BY <1>1, <1>8 DEF CascadeDelete, SetLimit, GalleryAges, ExpireDue, vars, store
<1> QED
  BY <1>1, <1>2, <1>3, <1>4, <1>5, <1>6, <1>7, <1>8 DEF Next

(* ... purges are queued for rows that were failed or deleted, ...          *)
LEMMA PurgeQueued ==
    ASSUME TypeOK, [Next]_vars, NEW q \in Photo, q \in purging'
    PROVE  q \in purging \/ status'[q] \in {"FAILED", "GONE"}
<1>1. CASE UNCHANGED purging
  BY <1>1
<1>2. CASE HeavyStep
  BY <1>1, <1>2 DEF HeavyStep, HeavyCommit, ClientPut, TicketAges, tasks
<1>3. ASSUME NEW p \in Photo, MarkFailed(p)
      PROVE  q \in purging \/ status'[q] \in {"FAILED", "GONE"}
  BY <1>3 DEF MarkFailed, Keyed, Put, TypeOK
<1>4. ASSUME NEW p \in FastPhoto, FastStep(p)
      PROVE  q \in purging \/ status'[q] \in {"FAILED", "GONE"}
  <2>1. CASE MonGiveUp(p)
    BY <1>1, <1>3, <2>1 DEF MonGiveUp, Photo
  <2> QED
    BY <1>1, <1>4, <2>1 DEF FastStep, FastCreate, FastDispatch, VaultPut, MonRead, MonHead,
                            MonRetry, MonHeal, MonAbandon, tasks
<1>5. ASSUME NEW p \in Photo, PhotoTask(p)
      PROVE  q \in purging \/ status'[q] \in {"FAILED", "GONE"}
  <2>1. CASE DerivPoison(p)
    BY <1>3, <2>1 DEF DerivPoison
  <2>2. CASE OwnerDestroy(p)
    BY <2>2 DEF OwnerDestroy, Keyed, Put, TypeOK
  <2>3. CASE DerivEnds(p) \/ Purge(p) \/ PurgeLost(p)
    BY <2>3 DEF DerivEnds, Purge, PurgeLost
  <2> QED
    BY <1>5, <2>1, <2>2, <2>3 DEF PhotoTask
<1>6. ASSUME NEW h \in Handler, HookStep(h) PROVE UNCHANGED purging
  BY <1>6 DEF HookStep, HookRead, HookHead, HookDrop, HookNoEffect, HookQuarantine,
              HookAccept, tasks
<1>7. ASSUME NEW r \in Reaper, ReapStep(r) PROVE UNCHANGED purging
  BY <1>7 DEF ReapStep, ReapScan, ReapHead, ReapAbort, ReapPhantom, ReapAbandoned, ReapSkip,
              tasks
<1>8. ASSUME NEW d \in HardDeleter, HardDeleteStep(d)
      PROVE  q \in purging \/ status'[q] \in {"FAILED", "GONE"}
  BY <1>1, <1>8 DEF HardDeleteStep, HardDeleteRead, HardDeleteCommit, HardDeleteFails, Keyed,
                    PutAll, tasks
<1>9. CASE CascadeDelete \/ SetLimit \/ GalleryAges \/ ExpireDue \/ UNCHANGED vars
  BY <1>1, <1>9 DEF CascadeDelete, SetLimit, GalleryAges, ExpireDue, vars, tasks
<1> QED
  BY <1>1, <1>2, <1>4, <1>5, <1>6, <1>7, <1>8, <1>9 DEF Next

(* ... which never come back, and what webhook and monitor saw in R2 is     *)
(* still there as long as the row may be delivered.                         *)
PurgesSettled == \A p \in purging : status[p] \in {"FAILED", "QUARANTINED", "GONE"}

ProbesCurrent ==
    /\ \A h \in Handler :
         hook[h].pc = "commit" /\ hook[h].head # Missing /\ status[hook[h].photo] = "PENDING" =>
             object[hook[h].photo] # Missing
    /\ \A p \in FastPhoto : mon[p] = "found" /\ status[p] \in {"NONE", "PENDING"} =>
             object[p] # Missing

OriginalsInv == RowsInv /\ PurgesSettled /\ ProbesCurrent /\ ReadyHasOriginal

(* A row that was not failed or deleted keeps it.                           *)
LEMMA PendingKeepsObject ==
    ASSUME OriginalsInv, [Next]_vars, NEW q \in Photo, object[q] # Missing,
           status[q] \in {"NONE", "PENDING", "READY", "EXPIRED"}
    PROVE  object'[q] # Missing
BY ObjectKept DEF OriginalsInv, RowsInv, PurgesSettled

(* READY is entered by a webhook or a monitor that saw the object.          *)
LEMMA ReadySeen ==
    ASSUME OriginalsInv, [Next]_vars, NEW q \in Photo, status[q] = "PENDING",
           status'[q] = "READY"
    PROVE  object[q] # Missing
<1>t. TypeOK
  BY DEF OriginalsInv, RowsInv
<1>1. ASSUME NEW h \in Handler, HookStep(h) PROVE object[q] # Missing
  <2>1. CASE HookAccept(h)
    <3>1. hook[h].photo = q
      BY <1>t, <2>1 DEF HookAccept, Put, TypeOK
    <3> QED
      BY <2>1, <3>1 DEF HookAccept, Anomaly, OriginalsInv, ProbesCurrent
  <2>2. CASE HookQuarantine(h)
    BY <1>t, <2>2 DEF HookQuarantine, Put, TypeOK
  <2>3. CASE HookDrop(h) \/ HookNoEffect(h) \/ HookHead(h) \/ \E p \in HeavyPhoto : HookRead(h, p)
    BY <2>3 DEF HookDrop, HookNoEffect, HookHead, HookRead, rows
  <2> QED
    BY <1>1, <2>1, <2>2, <2>3 DEF HookStep
<1>m. ASSUME NEW p \in Photo, MarkFailed(p) PROVE FALSE
  BY <1>t, <1>m DEF MarkFailed, Put, TypeOK
<1>2. ASSUME NEW p \in FastPhoto, FastStep(p) PROVE object[q] # Missing
  <2>1. CASE MonHeal(p)
    <3>1. p = q
      BY <1>t, <2>1 DEF MonHeal, Put, TypeOK
    <3> QED
      BY <2>1, <3>1 DEF MonHeal, OriginalsInv, ProbesCurrent
  <2>2. CASE FastCreate(p) \/ MonAbandon(p)
    BY <1>t, <2>2 DEF FastCreate, MonAbandon, Put, TypeOK
  <2>3. CASE MonGiveUp(p)
    BY <1>m, <2>3 DEF MonGiveUp, Photo
  <2>4. CASE FastDispatch(p) \/ VaultPut(p) \/ MonRead(p) \/ MonHead(p) \/ MonRetry(p)
    BY <2>4 DEF FastDispatch, VaultPut, MonRead, MonHead, MonRetry, rows
  <2> QED
    BY <1>2, <2>1, <2>2, <2>3, <2>4 DEF FastStep
<1>3. CASE HeavyStep
  BY <1>3 DEF HeavyStep, HeavyCommit, ClientPut, TicketAges, PutAll, rows
<1>4. ASSUME NEW p \in Photo, PhotoTask(p) PROVE FALSE
  <2>1. CASE DerivPoison(p)
    BY <1>m, <2>1 DEF DerivPoison
  <2>2. CASE OwnerDestroy(p)
    BY <1>t, <2>2 DEF OwnerDestroy, Put, TypeOK
  <2>3. CASE DerivEnds(p) \/ Purge(p) \/ PurgeLost(p)
    BY <2>3 DEF DerivEnds, Purge, PurgeLost, rows
  <2> QED
    BY <1>4, <2>1, <2>2, <2>3 DEF PhotoTask
<1>5. ASSUME NEW r \in Reaper, ReapStep(r) PROVE FALSE
  BY <1>t, <1>5 DEF ReapStep, ReapScan, ReapHead, ReapAbort, ReapPhantom, ReapAbandoned,
                    ReapSkip, Put, TypeOK, rows
<1>6. ASSUME NEW d \in HardDeleter, HardDeleteStep(d) PROVE FALSE
  BY <1>6 DEF HardDeleteStep, HardDeleteRead, HardDeleteCommit, HardDeleteFails, PutAll, rows
<1>7. CASE CascadeDelete \/ SetLimit \/ GalleryAges \/ ExpireDue \/ UNCHANGED vars
  BY <1>7 DEF CascadeDelete, SetLimit, GalleryAges, ExpireDue, PutAll, vars, rows
<1> QED
  BY <1>1, <1>2, <1>3, <1>4, <1>5, <1>6, <1>7 DEF Next

(* Where the results of a probe come from.                                  *)
LEMMA HookProbed ==
    ASSUME TypeOK, [Next]_vars, NEW h \in Handler, hook'[h].pc = "commit",
           hook'[h].head # Missing
    PROVE  \/ hook'[h] = hook[h]
           \/ object[hook'[h].photo] # Missing
<1>1. CASE UNCHANGED hook
  BY <1>1
<1>2. ASSUME NEW g \in Handler, HookStep(g)
      PROVE  hook'[h] = hook[h] \/ object[hook'[h].photo] # Missing
  <2>1. CASE g # h
    <3>1. hook'[h] = hook[h]
      BY <1>2, <2>1 DEF HookStep, HookRead, HookHead, HookDrop, HookNoEffect, HookQuarantine,
                        HookAccept, TypeOK
    <3> QED
      BY <3>1
  <2>2. CASE g = h /\ HookHead(g)
    BY <2>2 DEF HookHead, TypeOK
  <2>3. CASE g = h /\ \E p \in HeavyPhoto : HookRead(g, p)
    BY <2>3 DEF HookRead, TypeOK
  <2>4. CASE g = h /\ (HookDrop(g) \/ HookNoEffect(g) \/ HookQuarantine(g) \/ HookAccept(g))
    BY <2>4 DEF HookDrop, HookNoEffect, HookQuarantine, HookAccept, TypeOK, Idle
  <2> QED
    BY <1>2, <2>1, <2>2, <2>3, <2>4 DEF HookStep
<1>3. CASE HeavyStep
  BY <1>1, <1>3 DEF HeavyStep, HeavyCommit, ClientPut, TicketAges
<1>4. ASSUME NEW p \in FastPhoto, FastStep(p) PROVE UNCHANGED hook
  BY <1>4 DEF FastStep, FastCreate, FastDispatch, VaultPut, MonRead, MonHead, MonRetry,
              MonGiveUp, MonHeal, MonAbandon
<1>5. ASSUME NEW p \in Photo, PhotoTask(p) PROVE UNCHANGED hook
  BY <1>5 DEF PhotoTask, DerivPoison, DerivEnds, OwnerDestroy, Purge, PurgeLost
<1>6. ASSUME NEW r \in Reaper, ReapStep(r) PROVE UNCHANGED hook
  BY <1>6 DEF ReapStep, ReapScan, ReapHead, ReapAbort, ReapPhantom, ReapAbandoned, ReapSkip
<1>7. ASSUME NEW d \in HardDeleter, HardDeleteStep(d) PROVE UNCHANGED hook
  BY <1>7 DEF HardDeleteStep, HardDeleteRead, HardDeleteCommit, HardDeleteFails
<1>8. CASE CascadeDelete \/ SetLimit \/ GalleryAges \/ ExpireDue \/ UNCHANGED vars
  BY <1>1, <1>8 DEF CascadeDelete, SetLimit, GalleryAges, ExpireDue, vars
<1> QED
  BY <1>1, <1>2, <1>3, <1>4, <1>5, <1>6, <1>7, <1>8 DEF Next

LEMMA MonProbed ==
    ASSUME TypeOK, [Next]_vars, NEW q \in FastPhoto, mon'[q] = "found"
    PROVE  mon[q] = "found" \/ object[q] # Missing
<1>1. CASE UNCHANGED mon
  BY <1>1
<1>2. ASSUME NEW p \in FastPhoto, FastStep(p) PROVE mon[q] = "found" \/ object[q] # Missing
  <2>1. CASE p # q
    <3>1. mon'[q] = mon[q]
      BY <1>2, <2>1 DEF FastStep, FastCreate, FastDispatch, VaultPut, MonRead, MonHead,
                        MonRetry, MonGiveUp, MonHeal, MonAbandon, TypeOK, tasks
    <3> QED
      BY <3>1
  <2>2. CASE p = q
    BY <1>2, <2>2 DEF FastStep, FastCreate, FastDispatch, VaultPut, MonRead, MonHead,
                      MonRetry, MonGiveUp, MonHeal, MonAbandon, TypeOK, tasks
  <2> QED
    BY <2>1, <2>2
<1>3. CASE HeavyStep
  BY <1>1, <1>3 DEF HeavyStep, HeavyCommit, ClientPut, TicketAges, tasks
<1>4. ASSUME NEW h \in Handler, HookStep(h) PROVE UNCHANGED mon
  BY <1>4 DEF HookStep, HookRead, HookHead, HookDrop, HookNoEffect, HookQuarantine,
              HookAccept, tasks
<1>5. ASSUME NEW p \in Photo, PhotoTask(p) PROVE UNCHANGED mon
  BY <1>5 DEF PhotoTask, DerivPoison, DerivEnds, OwnerDestroy, Purge, PurgeLost
<1>6. ASSUME NEW r \in Reaper, ReapStep(r) PROVE UNCHANGED mon
  BY <1>6 DEF ReapStep, ReapScan, ReapHead, ReapAbort, ReapPhantom, ReapAbandoned, ReapSkip,
              tasks
<1>7. ASSUME NEW d \in HardDeleter, HardDeleteStep(d) PROVE UNCHANGED mon
  BY <1>7 DEF HardDeleteStep, HardDeleteRead, HardDeleteCommit, HardDeleteFails, tasks
<1>8. CASE CascadeDelete \/ SetLimit \/ GalleryAges \/ ExpireDue \/ UNCHANGED vars
  BY <1>1, <1>8 DEF CascadeDelete, SetLimit, GalleryAges, ExpireDue, vars, tasks
<1> QED
  BY <1>1, <1>2, <1>3, <1>4, <1>5, <1>6, <1>7, <1>8 DEF Next

LEMMA OriginalsStep == OriginalsInv /\ RowsInv' /\ [Next]_vars => OriginalsInv'
<1> SUFFICES ASSUME OriginalsInv, RowsInv', [Next]_vars PROVE OriginalsInv'
  OBVIOUS
<1>t. TypeOK /\ TypeOK' /\ RowsInv
  BY DEF OriginalsInv, RowsInv
<1>f. \A q \in Photo : Moves(q)
  BY <1>t, NextFollows DEF RowsInv, Follows
<1>1. PurgesSettled'
  <2> SUFFICES ASSUME NEW q \in purging'
               PROVE  status'[q] \in {"FAILED", "QUARANTINED", "GONE"}
    BY DEF PurgesSettled
  <2>1. q \in Photo
    BY <1>t DEF TypeOK
  <2>2. CASE q \in purging
    <3>1. status[q] \in {"FAILED", "QUARANTINED", "GONE"}
      BY <2>2 DEF OriginalsInv, PurgesSettled
    <3> QED
      BY <1>f, <2>1, <3>1 DEF Moves, Refundable
  <2>3. CASE status'[q] \in {"FAILED", "GONE"}
    BY <2>3
  <2> QED
    BY <1>t, <2>1, <2>2, <2>3, PurgeQueued
<1>2. ProbesCurrent'
  <2>1. ASSUME NEW h \in Handler, hook'[h].pc = "commit", hook'[h].head # Missing,
               status'[hook'[h].photo] = "PENDING"
        PROVE  object'[hook'[h].photo] # Missing
    <3> DEFINE p == hook'[h].photo
    <3>1. hook'[h] # Idle
      BY <2>1 DEF Idle
    <3>2. p \in Photo /\ status[p] # "NONE"
      BY <1>t, <3>1, HooksTaken DEF RowsInv, HooksExist
    <3>3. status[p] = "PENDING"
      BY <1>f, <2>1, <3>2 DEF Moves
    <3>4. object[p] # Missing
      BY <1>t, <2>1, <3>3, HookProbed DEF OriginalsInv, ProbesCurrent
    <3> QED
      BY <3>2, <3>3, <3>4, PendingKeepsObject
  <2>2. ASSUME NEW q \in FastPhoto, mon'[q] = "found", status'[q] \in {"NONE", "PENDING"}
        PROVE  object'[q] # Missing
    <3>1. q \in Photo
      BY DEF Photo
    <3>2. mon[q] = "found" \/ object[q] # Missing
      BY <1>t, <2>2, MonProbed
    <3>3. status[q] = "PENDING" \/ status[q] = "NONE"
      BY <1>f, <2>2, <3>1 DEF Moves
    <3> QED
      BY <3>1, <3>2, <3>3, PendingKeepsObject DEF OriginalsInv, ProbesCurrent
  <2> QED
    BY <2>1, <2>2 DEF ProbesCurrent
<1>3. ReadyHasOriginal'
  <2> SUFFICES ASSUME NEW q \in Photo, status'[q] \in {"READY", "EXPIRED"}
               PROVE  object'[q] # Missing /\ q \notin purging'
    BY DEF ReadyHasOriginal
  <2>1. q \notin purging'
    BY <1>1 DEF PurgesSettled
  <2>2. CASE status[q] \in {"READY", "EXPIRED"}
    BY <2>1, <2>2, PendingKeepsObject DEF OriginalsInv, ReadyHasOriginal
  <2>3. CASE status[q] = "PENDING" /\ status'[q] = "READY"
    BY <2>1, <2>3, ReadySeen, PendingKeepsObject
  <2> QED
    BY <1>f, <2>2, <2>3 DEF Moves
<1> QED
  BY <1>1, <1>2, <1>3 DEF OriginalsInv

(* A photo offered for download has its original, whatever webhooks,        *)
(* monitors and purges overlap.                                             *)
THEOREM OriginalsKept == Spec => []ReadyHasOriginal
<1>1. Init => PurgesSettled /\ ProbesCurrent /\ ReadyHasOriginal
  BY DEF Init, PurgesSettled, ProbesCurrent, ReadyHasOriginal, Idle
<1>2. OriginalsInv => ReadyHasOriginal
  BY DEF OriginalsInv
<1>3. RowsInv /\ PurgesSettled /\ ProbesCurrent /\ ReadyHasOriginal => OriginalsInv
  BY DEF OriginalsInv
<1> QED
  BY <1>1, <1>2, <1>3, OriginalsStep, RowsInvariant, PTL DEF Spec
-----------------------------------------------------------------------------
(* What a step does to the account: it bills new rows within the limit, or  *)
(* no bill and no row grows, or only the limit moves.                       *)
Grants ==
    /\ used' <= limit
    /\ UNCHANGED limit
    /\ \A p \in billed : p \in billed' /\ size'[p] = size[p]

Shrinks ==
    /\ UNCHANGED limit
    /\ billed' \subseteq billed
    /\ \A p \in Photo : size'[p] <= size[p]
    /\ \A p \in Photo : p \in Live' => p \in Live

LimitMoves ==
    /\ limit' \in Limits
    /\ UNCHANGED <<status, size, used, billed>>

LEMMA ChargeGrants ==
    ASSUME LedgerInv, NEW S \in SUBSET Photo, NEW q \in S, \A p \in S : status[p] = "NONE",
           NEW sz, \A p \in S : sz[p] \in Nat \ {0}, Charge(S, sz),
           \A p \in Photo : size'[p] = IF p \in S THEN sz[p] ELSE size[p]
    PROVE  Grants
<1>1. Total(S, sz) # 0
  <2>1. IsFiniteSet(S) /\ {q} \subseteq S /\ \A p \in S : sz[p] \in Nat
    BY PhotoFinite
  <2>2. Total({q}, sz) = sz[q] /\ Total({q}, sz) <= Total(S, sz)
    BY <2>1, TotalSingle, TotalMinus
  <2>3. Total(S, sz) \in Nat
    BY <2>1, TotalType
  <2> QED
    BY <2>2, <2>3
<1>2. used' <= limit /\ UNCHANGED limit /\ billed' = billed \cup S
  BY <1>1 DEF Charge, CanReserve
<1>3. \A p \in billed : p \in Photo /\ p \notin S
  BY DEF LedgerInv, LedgerExact, TypeOK
<1> QED
  BY <1>2, <1>3 DEF Grants

(* A step that bills nothing new makes no row live.                         *)
LEMMA SettleShrinks ==
    ASSUME LedgerInv, LedgerInv', \A p \in Photo : Follows(p),
           UNCHANGED limit, billed' \subseteq billed, \A p \in Photo : size'[p] <= size[p]
    PROVE  Shrinks
<1> SUFFICES ASSUME NEW p \in Photo, p \in Live' PROVE p \in Live
  BY DEF Shrinks
<1>1. p \in billed' /\ status'[p] \in {"PENDING", "READY", "EXPIRED"}
  BY DEF LedgerInv, LedgerExact, Live
<1>2. status[p] # "NONE"
  BY <1>1 DEF LedgerInv, LedgerExact
<1>3. Moves(p)
  BY DEF Follows
<1> QED
  BY <1>1, <1>2, <1>3 DEF Moves, Live, Refundable

LEMMA SettleSteps ==
    ASSUME LedgerInv, LedgerInv', RowsInv, [Next]_vars,
           UNCHANGED <<size, limit>>, billed' \subseteq billed
    PROVE  Shrinks
<1>1. \A p \in Photo : size[p] <= size[p]
  BY DEF RowsInv, TypeOK
<1>2. \A p \in Photo : Follows(p)
  BY NextFollows DEF RowsInv
<1> QED
  BY <1>1, <1>2, SettleShrinks

(* The undersize refund.                                                    *)
LEMMA AcceptShrinks ==
    ASSUME LedgerInv, LedgerInv', RowsInv, [Next]_vars, NEW h \in Handler, HookAccept(h)
    PROVE  Shrinks
<1> DEFINE p == hook[h].photo
<1>1. /\ hook[h] # Idle /\ p \in Photo
      /\ hook[h].declared \in Nat /\ hook[h].head \in Nat
  BY DEF HookAccept, Anomaly, RowsInv, TypeOK, Request, Idle, Photo
<1>2. hook[h].declared = size[p]
  BY <1>1 DEF HookAccept, LedgerInv, HooksCurrent
<1>3. billed' \subseteq billed /\ UNCHANGED limit
  BY DEF HookAccept, Refund, ledger
<1>4. CASE size' = size
  BY <1>3, <1>4, SettleSteps
<1>5. CASE hook[h].head < hook[h].declared /\ size' = [size EXCEPT ![p] = hook[h].head]
  <2>1. \A q \in Photo : size[q] \in Nat
    BY DEF RowsInv, TypeOK
  <2>2. \A q \in Photo : size'[q] = IF q = p THEN hook[h].head ELSE size[q]
    BY <1>5 DEF RowsInv, TypeOK
  <2>3. \A q \in Photo : size'[q] <= size[q]
    BY <1>1, <1>2, <1>5, <2>1, <2>2
  <2>4. \A q \in Photo : Follows(q)
    BY NextFollows DEF RowsInv
  <2> QED
    BY <1>3, <2>3, <2>4, SettleShrinks
<1> QED
  BY <1>4, <1>5 DEF HookAccept

LEMMA StepKinds ==
    ASSUME LedgerInv, LedgerInv', RowsInv, [Next]_vars
    PROVE  Grants \/ Shrinks \/ LimitMoves
<1>t. TypeOK
  BY DEF RowsInv
<1>s. UNCHANGED <<size, limit>> /\ billed' \subseteq billed => Shrinks
  BY SettleSteps
<1>1. CASE HeavyCommit
  <2>1. PICK S \in (SUBSET HeavyPhoto) \ {{}} : \E sz \in [S -> Sizes] :
          /\ \A p \in S : status[p] = "NONE"
          /\ Charge(S, sz)
          /\ size' = [p \in Photo |-> IF p \in S THEN sz[p] ELSE size[p]]
    BY <1>1 DEF HeavyCommit
  <2>2. PICK sz \in [S -> Sizes] :
          /\ Charge(S, sz)
          /\ size' = [p \in Photo |-> IF p \in S THEN sz[p] ELSE size[p]]
    BY <2>1
  <2>3. PICK q \in S : TRUE
    BY <2>1
  <2>4. S \in SUBSET Photo /\ \A p \in S : sz[p] \in Nat \ {0}
    BY <2>2, SizeAssumption DEF Photo
  <2>5. \A p \in Photo : size'[p] = IF p \in S THEN sz[p] ELSE size[p]
    BY <2>2
  <2> QED
    BY <2>1, <2>2, <2>3, <2>4, <2>5, ChargeGrants
<1>2. ASSUME NEW p \in FastPhoto, FastCreate(p) PROVE Grants
  <2>1. PICK n \in Sizes : Charge({p}, [q \in {p} |-> n]) /\ size' = [size EXCEPT ![p] = n]
    BY <1>2 DEF FastCreate
  <2> DEFINE sz == [q \in {p} |-> n]
  <2>2. {p} \in SUBSET Photo /\ \A q \in {p} : sz[q] \in Nat \ {0} /\ status[q] = "NONE"
    BY <1>2, SizeAssumption DEF FastCreate, Photo
  <2>3. \A q \in Photo : size'[q] = IF q \in {p} THEN sz[q] ELSE size[q]
    BY <1>t, <2>1 DEF TypeOK
  <2>4. Charge({p}, sz) /\ p \in {p}
    BY <2>1
  <2> HIDE DEF sz
  <2> QED
    BY <2>2, <2>3, <2>4, ChargeGrants
<1>3. ASSUME NEW p \in HeavyPhoto, ClientPut(p) \/ TicketAges(p) PROVE Shrinks
  BY <1>3, <1>s DEF ClientPut, TicketAges, rows, ledger
<1>4. ASSUME NEW h \in Handler, HookStep(h) PROVE Shrinks
  <2>1. CASE HookAccept(h)
    BY <2>1, AcceptShrinks
  <2>2. CASE HookDrop(h) \/ HookNoEffect(h) \/ HookHead(h) \/ HookQuarantine(h)
             \/ \E p \in HeavyPhoto : HookRead(h, p)
    BY <2>2, <1>s DEF HookDrop, HookNoEffect, HookHead, HookQuarantine, HookRead, rows, ledger
  <2> QED
    BY <1>4, <2>1, <2>2 DEF HookStep
<1>5. ASSUME NEW p \in FastPhoto, FastStep(p) PROVE Grants \/ Shrinks
  <2>1. CASE FastDispatch(p) \/ VaultPut(p) \/ MonRead(p) \/ MonHead(p) \/ MonRetry(p)
             \/ MonHeal(p)
    BY <2>1, <1>s DEF FastDispatch, VaultPut, MonRead, MonHead, MonRetry, MonHeal, rows, ledger
  <2>2. CASE MonGiveUp(p) \/ MonAbandon(p)
    BY <2>2, <1>s DEF MonGiveUp, MonAbandon, MarkFailed, Refund, rows, ledger
  <2> QED
    BY <1>2, <1>5, <2>1, <2>2 DEF FastStep
<1>6. ASSUME NEW p \in Photo, PhotoTask(p) PROVE Shrinks
  BY <1>6, <1>s DEF PhotoTask, DerivPoison, DerivEnds, OwnerDestroy, Purge, PurgeLost,
                    MarkFailed, Refund, rows, ledger
<1>7. ASSUME NEW r \in Reaper, ReapStep(r) PROVE Shrinks
  BY <1>7, <1>s DEF ReapStep, ReapScan, ReapHead, ReapAbort, ReapPhantom, ReapAbandoned,
                    ReapSkip, Refund, rows, ledger
<1>8. ASSUME NEW d \in HardDeleter, HardDeleteStep(d) PROVE Shrinks
  BY <1>8, <1>s DEF HardDeleteStep, HardDeleteRead, HardDeleteCommit, HardDeleteFails,
                    Refund, rows, ledger
<1>9. CASE CascadeDelete \/ GalleryAges \/ ExpireDue \/ UNCHANGED vars
  BY <1>9, <1>s DEF CascadeDelete, GalleryAges, ExpireDue, vars, rows, ledger
<1>10. CASE SetLimit
  BY <1>10 DEF SetLimit, LimitMoves, rows
<1> QED
  BY <1>1, <1>3, <1>4, <1>5, <1>6, <1>7, <1>8, <1>9, <1>10 DEF Next, HeavyStep

(* The bytes of live rows grow only within the limit in force.              *)
THEOREM HeadroomHandedOutOnce ==
    ASSUME SingleHardDelete
    PROVE  Spec => NoOversell
<1> DEFINE NO == Total(Live, size)' > Total(Live, size) => Total(Live, size)' <= limit
<1>1. LedgerInv /\ LedgerInv' /\ RowsInv /\ RowsInv' /\ [Next]_vars => NO
  <2> SUFFICES ASSUME LedgerInv, LedgerInv', RowsInv, RowsInv', [Next]_vars PROVE NO
    OBVIOUS
  <2>t. /\ IsFiniteSet(Live) /\ Live \subseteq Photo
        /\ IsFiniteSet(Live') /\ Live' \subseteq Photo
    BY PhotoFinite DEF Live
  <2>s. \A p \in Photo : size[p] \in Nat /\ size'[p] \in Nat
    BY DEF RowsInv, TypeOK
  <2>n. Total(Live, size) \in Nat /\ Total(Live', size') \in Nat
    BY <2>t, <2>s, TotalType
  <2>1. CASE Grants
    <3>1. IsFiniteSet(billed') /\ Live' \subseteq billed' /\ billed' \subseteq Photo
      BY PhotoFinite DEF LedgerInv, LedgerExact, TypeOK
    <3>2. Total(Live', size') <= Total(billed', size')
      <4>1. \A p \in billed' : size'[p] \in Nat
        BY <2>s, <3>1
      <4> QED
        BY ONLY <3>1, <4>1, TotalMinus
    <3>3. Total(billed', size') = used' /\ used' \in Nat /\ used' <= limit /\ limit \in Nat
      BY <2>1 DEF LedgerInv, LedgerExact, TypeOK, Grants
    <3> QED
      BY <2>n, <3>2, <3>3
  <2>2. CASE Shrinks
    <3>1. Live' \subseteq Live /\ \A p \in Live' : size'[p] \in Nat /\ size'[p] <= size[p]
      BY <2>t, <2>s, <2>2 DEF Shrinks
    <3>2. \A p \in Live : size[p] \in Nat
      BY <2>t, <2>s
    <3>3. Total(Live', size') <= Total(Live, size)
      BY ONLY <2>t, <3>1, <3>2, TotalShrinks
    <3> QED
      BY <2>n, <3>3
  <2>3. CASE LimitMoves
    <3>1. Total(Live', size') = Total(Live, size)
      BY <2>3 DEF LimitMoves, Live
    <3> QED
      BY <2>n, <3>1
  <2> QED
    BY <2>1, <2>2, <2>3, StepKinds
<1>2. LedgerInv /\ LedgerInv' /\ RowsInv /\ RowsInv' /\ [Next]_vars => [NO]_vars
  BY <1>1
<1> QED
  BY <1>2, LedgerInvariant, RowsInvariant, PTL DEF Spec, NoOversell
-----------------------------------------------------------------------------
(* The refinement.                                                          *)
LEMMA AccountInit == Init => Account!Init
BY DEF Init, Account!Init, Held

LEMMA AccountStep ==
    ASSUME LedgerInv, LedgerInv', RowsInv, [Next]_vars
    PROVE  [Account!Next]_(Account!vars)
<1>1. /\ Held \in [Photo -> Nat] /\ Held' \in [Photo -> Nat]
      /\ \A p \in Photo : Held[p] = IF p \in billed THEN size[p] ELSE 0
      /\ \A p \in Photo : Held'[p] = IF p \in billed' THEN size'[p] ELSE 0
      /\ \A p \in Photo : size[p] \in Nat /\ size'[p] \in Nat
  BY DEF Held, LedgerInv, TypeOK
<1>2. Account!Balanced
  <2>1. billed' \subseteq Photo /\ used' = Total(billed', size')
    BY DEF LedgerInv, LedgerExact, TypeOK
  <2>2. Total(Photo, Held') = Total(billed', size')
    BY ONLY <1>1, <2>1, TotalHeld
  <2>3. Account!Total(Photo, Held') = Total(Photo, Held')
    BY DEF Account!Total, Account!BytesOf, Total, BytesOf, Cardinality, Account!Cardinality
  <2> QED
    BY <2>1, <2>2, <2>3 DEF Account!Balanced
<1>4. CASE Grants
  <2>1. \A p \in Photo : Held'[p] = Held[p] \/ Held[p] = 0
    BY <1>1, <1>4 DEF Grants
  <2> QED
    BY <1>1, <1>2, <1>4, <2>1 DEF Account!Hold, Account!Next, Grants
<1>5. CASE Shrinks
  <2>1. \A p \in Photo : Held'[p] <= Held[p]
    BY <1>1, <1>5 DEF Shrinks
  <2> QED
    BY <1>1, <1>2, <1>5, <2>1 DEF Account!GiveBack, Account!Next, Shrinks
<1>6. CASE LimitMoves
  BY <1>6 DEF LimitMoves, Account!SetLimit, Account!Next, Held
<1> QED
  BY <1>4, <1>5, <1>6, StepKinds

(* Whatever webhooks, tasks, sweeps and the photographer do, the workspace  *)
(* behaves like the account of StorageAccount, if hard deletes do not       *)
(* overlap.                                                                 *)
THEOREM LedgerImplementsAccount ==
    ASSUME SingleHardDelete
    PROVE  Spec => ImplementsAccount
<1>1. LedgerInv /\ LedgerInv' /\ RowsInv /\ [Next]_vars => [Account!Next]_(Account!vars)
  BY AccountStep
<1> QED
  BY <1>1, AccountInit, LedgerInvariant, RowsInvariant, PTL DEF Spec, ImplementsAccount, Account!Spec
=============================================================================
