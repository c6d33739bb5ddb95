---------------------------- MODULE PictureProofs ----------------------------
(***************************************************************************)
(* Proofs about what is made of a photo and kept of it: the objects in R2   *)
(* of photos that are deleted while a derivative is being made, the parts   *)
(* of an object that is streamed, the schedule and the result of grouping   *)
(* near photos, and the corner of the watermark - for any number of photos, *)
(* any size of image and any pixels.                                        *)
(***************************************************************************)
EXTENDS PhotoObjects, UploadSink, BurstSchedule, BurstGroups, QuietCorner,
        QuotaLedgerProofs, SequenceTheorems, WellFoundedInduction, TLAPS

(* Objects of photos.                                                       *)

(* A purge that is queued.                                                  *)
Task == [keys : SUBSET Objects, tries : 0..MaxPurges]

(* There is a derivative in R2 or a copy of it in the CDN.                  *)
HasWeb(p) == Web(p) \in bucket \/ p \in cdn

(* While a row is there, its derivative is noted in it, or the run that     *)
(* wrote it is about to note it, or it was known to be raced.               *)
DerivativesKnown ==
    \A p \in Photo : state[p] # "gone" /\ HasWeb(p) =>
        \/ p \in webKey
        \/ Web(p) \in raced
        \/ \E d \in Deriver : deriver[d].pc = "note" /\ deriver[d].photo = p

(* Who derives while the keys are collected is known to race.               *)
RacesKnown ==
    \A d \in Deriver : deriver[d].pc # "rest" /\ Collected(deriver[d].photo) =>
        Web(deriver[d].photo) \in raced

(* Keys cover what there is of a photo.                                     *)
Cover(keys, p) ==
    /\ Original(p) \in keys
    /\ HasWeb(p) => Web(p) \in keys \/ Web(p) \in raced

(* A reader's keys cover its photos, until another has settled them.        *)
Read(keys, p) == (Settled(p) /\ p \notin orphaned) \/ Cover(keys, p)

SweepCovers == sweep.pc = "read" => \A p \in sweep.photos : Read(sweep.keys, p)
AccountCovers == account.pc = "read" => \A p \in account.photos : Read(account.keys, p)

(* Only photos a cascade has deleted are orphaned.                          *)
OrphansGone == \A p \in orphaned : state[p] = "gone"

(* What is left of a photo has an excuse.                                   *)
Accounted(p) ==
    /\ Original(p) \in bucket => Excused(Original(p))
    /\ Web(p) \in bucket => Excused(Web(p))
    /\ p \in cdn => p \in unflushed \/ Excused(Web(p))

SettledExcused == \A p \in Photo \ orphaned : Settled(p) => Accounted(p)

ObjectsInv ==
    /\ ObjectsTypeOK /\ purges \in SUBSET Task
    /\ DerivativesKnown /\ RacesKnown /\ SweepCovers /\ AccountCovers
    /\ OrphansGone /\ SettledExcused

(* What the invariant is for.                                               *)
LEMMA ExcusedIsNothingLeft == ObjectsInv => NothingLeft
BY DEF ObjectsInv, NothingLeft, SettledExcused, Accounted

(* Originals and derivatives have different keys, and so have photos.       *)
LEMMA KeysDiffer ==
    /\ \A p, q \in Photo : Original(p) # Web(q)
    /\ \A p, q \in Photo : Web(p) = Web(q) <=> p = q
    /\ \A p \in Photo : Original(p) \in Objects /\ Web(p) \in Objects /\ Keys(p) \subseteq Objects
BY DEF Original, Web, Objects, Keys

(* Nothing has been deleted yet.                                            *)
LEMMA ObjectsStart == ObjectsInit => ObjectsInv
<1> SUFFICES ASSUME ObjectsInit
             PROVE  ObjectsInv
  OBVIOUS
<1> USE ObjectsAssumption
<1>1. /\ \A p \in Photo : state[p] = "ready"
      /\ cdn = {} /\ purges = {} /\ raced = {} /\ webKey = {} /\ orphaned = {}
      /\ sweep = NothingRead /\ account = NothingRead
      /\ \A d \in Deriver : deriver[d] = AtRest
  BY DEF ObjectsInit
<1>2. \A p \in Photo : Web(p) \notin bucket
  BY KeysDiffer DEF ObjectsInit
<1>3. bucket \in SUBSET Objects
  BY KeysDiffer DEF ObjectsInit
<1>4. ObjectsTypeOK
  BY <1>1, <1>3 DEF ObjectsInit, ObjectsTypeOK
<1>5. SweepCovers /\ AccountCovers
  BY <1>1 DEF SweepCovers, AccountCovers, NothingRead
<1>6. RacesKnown
  BY <1>1 DEF RacesKnown, AtRest
<1>7. DerivativesKnown /\ SettledExcused
  BY <1>1, <1>2 DEF DerivativesKnown, SettledExcused, HasWeb, Settled
<1> QED
  BY <1>1, <1>4, <1>5, <1>6, <1>7 DEF ObjectsInv, OrphansGone
-----------------------------------------------------------------------------
(* Types.                                                                   *)

(* Racing names derivatives.                                                *)
LEMMA RacingTyped ==
    ASSUME NEW P \in SUBSET Photo, NEW D \in SUBSET Deriver
    PROVE  Racing(P, D) \in SUBSET Objects
BY KeysDiffer DEF Racing

(* A purge is queued, or its keys are given up.                             *)
LEMMA EnqueueTyped ==
    ASSUME NEW keys \in SUBSET Objects, Enqueue(keys),
           purges \in SUBSET Task, unpurged \in SUBSET Objects
    PROVE  purges' \in SUBSET Task /\ unpurged' \in SUBSET Objects
<1>1. [keys |-> keys, tries |-> 0] \in Task
  BY ObjectsAssumption DEF Task
<1> QED
  BY <1>1 DEF Enqueue

(* So it is when a row gives its keys away.                                 *)
LEMMA GiveTyped ==
    ASSUME NEW p \in Photo, NEW D \in SUBSET Deriver, Give(p, D), ObjectsTypeOK,
           purges \in SUBSET Task
    PROVE  purges' \in SUBSET Task /\ unpurged' \in SUBSET Objects /\ raced' \in SUBSET Objects
<1>1. Enqueue(Keys(p)) /\ raced' = (raced \ Keys(p)) \cup Racing({p}, D)
  BY DEF Give
<1>2. Racing({p}, D) \in SUBSET Objects
  BY RacingTyped
<1> QED
  BY <1>1, <1>2, EnqueueTyped, KeysDiffer DEF ObjectsTypeOK

(* A step of a run that derives keeps the types.                            *)
LEMMA DeriverTyped ==
    ASSUME ObjectsTypeOK, NEW d \in Deriver, deriver[d].pc \in {"render", "note"}
    PROVE  deriver[d] \in [pc : {"render", "note"}, photo : Photo]
BY DEF ObjectsTypeOK, AtRest

(* Every step keeps the types.                                              *)
LEMMA ObjectsTyped ==
    ASSUME ObjectsTypeOK, purges \in SUBSET Task, [ObjectsNext]_objectVars
    PROVE  ObjectsTypeOK' /\ purges' \in SUBSET Task
<1> USE ObjectsAssumption
<1> DEFINE Typed == ObjectsTypeOK' /\ purges' \in SUBSET Task
           Tries(Q) == \A t \in Q : t.keys \subseteq Objects /\ t.tries \in 0..MaxPurges
<1>0. \A Q \in SUBSET Task : Tries(Q)
  BY DEF Task
<1>1. ASSUME NEW d \in Deriver, NEW p \in Photo, DeriveRead(d, p)
      PROVE  Typed
  <2>1. derivation' \in [Photo -> 0..MaxDerivations]
    BY <1>1 DEF DeriveRead, ObjectsTypeOK
  <2>2. deriver' = deriver \/ deriver' = [deriver EXCEPT ![d] = [pc |-> "render", photo |-> p]]
    BY <1>1 DEF DeriveRead
  <2>3. deriver' \in [Deriver -> {AtRest} \cup [pc : {"render", "note"}, photo : Photo]]
    BY <2>2 DEF ObjectsTypeOK
  <2>4. raced' \in SUBSET Objects
    BY <1>1, KeysDiffer DEF DeriveRead, ObjectsTypeOK
  <2> QED
    BY <1>1, <2>1, <2>3, <2>4 DEF DeriveRead, ObjectsTypeOK
<1>2. ASSUME NEW d \in Deriver, DeriveUpload(d)
      PROVE  Typed
  <2>1. deriver[d] \in [pc : {"render", "note"}, photo : Photo]
    BY <1>2, DeriverTyped DEF DeriveUpload
  <2>2. deriver' = [deriver EXCEPT ![d] = [deriver[d] EXCEPT !.pc = "note"]]
    BY <1>2 DEF DeriveUpload
  <2>3. [deriver[d] EXCEPT !.pc = "note"] \in [pc : {"render", "note"}, photo : Photo]
    BY <2>1
  <2>4. deriver' \in [Deriver -> {AtRest} \cup [pc : {"render", "note"}, photo : Photo]]
    BY <2>2, <2>3 DEF ObjectsTypeOK
  <2>5. bucket' \in SUBSET Objects
    BY <1>2, <2>1, KeysDiffer DEF DeriveUpload, ObjectsTypeOK
  <2> QED
    BY <1>2, <2>4, <2>5 DEF DeriveUpload, excuseVars, ObjectsTypeOK
<1>3. ASSUME NEW d \in Deriver, DeriveNote(d)
      PROVE  Typed
  <2>1. deriver[d] \in [pc : {"render", "note"}, photo : Photo]
    BY <1>3, DeriverTyped DEF DeriveNote
  <2>2. webKey' \in SUBSET Photo
    BY <1>3, <2>1 DEF DeriveNote, ObjectsTypeOK
  <2>3. raced' \in SUBSET Objects
    BY <1>3 DEF DeriveNote, ObjectsTypeOK
  <2>4. deriver' \in [Deriver -> {AtRest} \cup [pc : {"render", "note"}, photo : Photo]]
    BY <1>3 DEF DeriveNote, ObjectsTypeOK
  <2> QED
    BY <1>3, <2>2, <2>3, <2>4 DEF DeriveNote, ObjectsTypeOK
<1>4. ASSUME NEW d \in Deriver, DerivePoison(d)
      PROVE  Typed
  <2>1. deriver[d] \in [pc : {"render", "note"}, photo : Photo]
    BY <1>4, DeriverTyped DEF DerivePoison
  <2> DEFINE p == deriver[d].photo
  <2>2. p \in Photo
    BY <2>1
  <2>3. deriver' \in [Deriver -> {AtRest} \cup [pc : {"render", "note"}, photo : Photo]]
    BY <1>4 DEF DerivePoison, ObjectsTypeOK
  <2> HIDE DEF p
  <2>4. CASE state[p] = "ready"
    <3>1. state' = [state EXCEPT ![p] = "failed"] /\ Give(p, Deriver \ {d})
      BY <1>4, <2>4 DEF DerivePoison, p
    <3>2. purges' \in SUBSET Task /\ unpurged' \in SUBSET Objects /\ raced' \in SUBSET Objects
      BY <2>2, <3>1, GiveTyped
    <3>4. state' \in [Photo -> {"ready", "failed", "expired", "gone"}]
      BY <3>1 DEF ObjectsTypeOK
    <3> QED
      BY <1>0, <1>4, <2>3, <3>2, <3>4 DEF DerivePoison, ObjectsTypeOK
  <2>5. CASE state[p] # "ready"
    BY <1>4, <2>3, <2>5 DEF DerivePoison, ObjectsTypeOK, p
  <2> QED
    BY <2>4, <2>5
<1>5. ASSUME NEW d \in Deriver, DeriveFails(d)
      PROVE  Typed
  <2>1. deriver[d] \in [pc : {"render", "note"}, photo : Photo]
    BY <1>5 DEF DeriveFails, ObjectsTypeOK
  <2>2. raced' \in SUBSET Objects
    BY <1>5, <2>1, KeysDiffer DEF DeriveFails, ObjectsTypeOK
  <2>3. deriver' \in [Deriver -> {AtRest} \cup [pc : {"render", "note"}, photo : Photo]]
    BY <1>5 DEF DeriveFails, ObjectsTypeOK
  <2> QED
    BY <1>5, <2>2, <2>3 DEF DeriveFails, ObjectsTypeOK
<1>6. ASSUME NEW p \in Photo, OwnerDeletes(p)
      PROVE  Typed
  <2>1. purges' \in SUBSET Task /\ unpurged' \in SUBSET Objects /\ raced' \in SUBSET Objects
    BY <1>6, GiveTyped DEF OwnerDeletes
  <2>3. state' \in [Photo -> {"ready", "failed", "expired", "gone"}]
    BY <1>6 DEF OwnerDeletes, Forget, ObjectsTypeOK
  <2> QED
    BY <1>0, <1>6, <2>1, <2>3 DEF OwnerDeletes, ObjectsTypeOK
<1>7. ASSUME NEW p \in Photo, GalleryExpires(p)
      PROVE  Typed
  BY <1>7 DEF GalleryExpires, excuseVars, ObjectsTypeOK
<1>8. ASSUME NEW p \in Photo, CdnFetches(p)
      PROVE  Typed
  BY <1>8 DEF CdnFetches, excuseVars, ObjectsTypeOK
<1>9. ASSUME NEW p \in Photo, TicketUsedAgain(p)
      PROVE  Typed
  BY <1>9, KeysDiffer DEF TicketUsedAgain, ObjectsTypeOK
<1>10. CASE SweepRead
  <2> DEFINE P == {p \in Photo : state[p] = "expired"}
             keys == UNION {Keys(p) : p \in P}
  <2>1. keys \in SUBSET Objects /\ P \in SUBSET Photo
    BY KeysDiffer
  <2>2. sweep' = [pc |-> "read", photos |-> P, keys |-> keys] /\ raced' = raced \cup Racing(P, Deriver)
    BY <1>10 DEF SweepRead
  <2> HIDE DEF P, keys
  <2>3. sweep' \in [pc : {"read"}, photos : SUBSET Photo, keys : SUBSET Objects]
    BY <2>1, <2>2
  <2>4. raced' \in SUBSET Objects
    BY <2>1, <2>2, RacingTyped DEF ObjectsTypeOK
  <2> QED
    BY <1>10, <2>3, <2>4 DEF SweepRead, ObjectsTypeOK
<1>11. CASE SweepCommit
  <2>1. sweep \in [pc : {"read"}, photos : SUBSET Photo, keys : SUBSET Objects]
    BY <1>11 DEF SweepCommit, ObjectsTypeOK, NothingRead
  <2>2. sweep.keys \in SUBSET Objects
    BY <2>1
  <2>3. purges' \in SUBSET Task /\ unpurged' \in SUBSET Objects
    BY <1>11, <2>2, EnqueueTyped DEF SweepCommit, ObjectsTypeOK
  <2>4. state' \in [Photo -> {"ready", "failed", "expired", "gone"}]
    BY <1>11 DEF SweepCommit, Forget, ObjectsTypeOK
  <2> QED
    BY <1>0, <1>11, <2>3, <2>4 DEF SweepCommit, ObjectsTypeOK
<1>12. CASE AccountRead
  <2> DEFINE P == {p \in Photo : state[p] # "gone"}
             keys == UNION {Keys(p) : p \in P}
  <2>1. keys \in SUBSET Objects /\ P \in SUBSET Photo
    BY KeysDiffer
  <2>2. account' = [pc |-> "read", photos |-> P, keys |-> keys] /\ raced' = raced \cup Racing(P, Deriver)
    BY <1>12 DEF AccountRead
  <2> HIDE DEF P, keys
  <2>3. account' \in [pc : {"read"}, photos : SUBSET Photo, keys : SUBSET Objects]
    BY <2>1, <2>2
  <2>4. raced' \in SUBSET Objects
    BY <2>1, <2>2, RacingTyped DEF ObjectsTypeOK
  <2> QED
    BY <1>12, <2>3, <2>4 DEF AccountRead, ObjectsTypeOK
<1>13. CASE AccountCommit
  <2>1. account \in [pc : {"read"}, photos : SUBSET Photo, keys : SUBSET Objects]
    BY <1>13 DEF AccountCommit, ObjectsTypeOK, NothingRead
  <2>2. account.keys \in SUBSET Objects
    BY <2>1
  <2>3. purges' \in SUBSET Task /\ unpurged' \in SUBSET Objects
    BY <1>13, <2>2, EnqueueTyped DEF AccountCommit, ObjectsTypeOK
  <2>4. state' \in [Photo -> {"ready", "failed", "expired", "gone"}]
    BY <1>13 DEF AccountCommit, Forget, ObjectsTypeOK
  <2> QED
    BY <1>0, <1>13, <2>3, <2>4 DEF AccountCommit, ObjectsTypeOK
<1>14. CASE RolledBack
  BY <1>14 DEF RolledBack, excuseVars, ObjectsTypeOK
<1>15. ASSUME NEW t \in purges, PurgeDone(t)
       PROVE  Typed
  <2>1. PICK kept \in SUBSET (t.keys \cap bucket), missed \in SUBSET {p \in cdn : Web(p) \in t.keys} :
          Deletes(t, kept, missed) /\ PurgeOver(t, kept, missed)
    BY <1>15 DEF PurgeDone
  <2>2. bucket' \in SUBSET Objects /\ cdn' \in SUBSET Photo
    BY <2>1 DEF Deletes, ObjectsTypeOK
  <2>3. /\ purges' \in SUBSET Task /\ unpurged' \in SUBSET Objects /\ unflushed' \in SUBSET Photo
    BY <2>1 DEF PurgeOver, ObjectsTypeOK
  <2> QED
    BY <1>0, <1>15, <2>2, <2>3 DEF PurgeDone, ObjectsTypeOK
<1>16. ASSUME NEW t \in purges, PurgeRefused(t)
       PROVE  Typed
  <2>1. t \in Task /\ t.keys \in SUBSET Objects /\ t.tries \in 0..MaxPurges
    BY DEF Task
  <2> DEFINE again == [t EXCEPT !.tries = t.tries + 1]
  <2>2. PICK kept \in SUBSET (t.keys \cap bucket), missed \in SUBSET {p \in cdn : Web(p) \in t.keys} :
          /\ Deletes(t, kept, missed)
          /\ IF t.tries + 1 < MaxPurges
             THEN purges' = (purges \ {t}) \cup {again} /\ unpurged' = unpurged /\ unflushed' = unflushed
             ELSE PurgeOver(t, kept, missed)
    BY <1>16 DEF PurgeRefused
  <2>3. bucket' \in SUBSET Objects /\ cdn' \in SUBSET Photo
    BY <2>2 DEF Deletes, ObjectsTypeOK
  <2>4. /\ purges' \in SUBSET Task /\ unpurged' \in SUBSET Objects /\ unflushed' \in SUBSET Photo
    <3>1. CASE t.tries + 1 < MaxPurges
      <4>1. again \in Task
        BY <2>1, <3>1 DEF Task
      <4> HIDE DEF again
      <4> QED
        BY <2>2, <3>1, <4>1 DEF ObjectsTypeOK
    <3>2. CASE ~(t.tries + 1 < MaxPurges)
      BY <2>2, <3>2 DEF PurgeOver, ObjectsTypeOK
    <3> QED
      BY <3>1, <3>2
  <2> QED
    BY <1>0, <1>16, <2>3, <2>4 DEF PurgeRefused, ObjectsTypeOK
<1>18. ASSUME NEW P \in SUBSET Photo, CascadeDelete(P)
       PROVE  Typed
  <2>1. raced' \in SUBSET Objects
    BY <1>18, RacingTyped DEF CascadeDelete, ObjectsTypeOK
  <2>2. state' \in [Photo -> {"ready", "failed", "expired", "gone"}]
    BY <1>18 DEF CascadeDelete, Forget, ObjectsTypeOK
  <2>3. orphaned' \in SUBSET Photo
    BY <1>18 DEF CascadeDelete, ObjectsTypeOK
  <2> QED
    BY <1>18, <2>1, <2>2, <2>3 DEF CascadeDelete, ObjectsTypeOK
<1>17. CASE UNCHANGED objectVars
  BY <1>17 DEF objectVars, excuseVars, ObjectsTypeOK
<1> QED
  BY <1>1, <1>2, <1>3, <1>4, <1>5, <1>6, <1>7, <1>8, <1>9, <1>10, <1>11, <1>12, <1>13, <1>14,
     <1>15, <1>16, <1>17, <1>18 DEF ObjectsNext
-----------------------------------------------------------------------------
(* What is asked for.                                                       *)

(* Keys that are queued, or lost before they were, are excused from now on, *)
(* and nothing else loses its excuse but to them.                           *)
LEMMA EnqueueExcuses ==
    ASSUME NEW keys, Enqueue(keys), NEW o, o \in raced => o \in raced' \/ o \in keys
    PROVE  /\ Excused(o) => Excused(o)'
           /\ o \in keys => Excused(o)'
<1>1. CASE purges' = purges \cup {[keys |-> keys, tries |-> 0]} /\ unpurged' = unpurged \ keys
  <2> DEFINE t == [keys |-> keys, tries |-> 0]
  <2>1. t \in purges' /\ t.keys = keys
    BY <1>1
  <2> HIDE DEF t
  <2> QED
    BY <1>1, <2>1 DEF Excused
<1>2. CASE unpurged' = unpurged \cup keys /\ purges' = purges
  BY <1>2 DEF Excused
<1> QED
  BY <1>1, <1>2 DEF Enqueue

(* A run of D is at work on the derivative.                                 *)
Deriving(p, D) == \E d \in D : deriver[d].pc # "rest" /\ deriver[d].photo = p

(* What racing a run adds.                                                  *)
LEMMA RacingNames ==
    ASSUME NEW P \in SUBSET Photo, NEW p \in Photo, NEW D \in SUBSET Deriver
    PROVE  Web(p) \in Racing(P, D) <=> p \in P /\ Deriving(p, D)
BY KeysDiffer DEF Racing, Deriving

(* At the moment a row's keys are read, they cover its objects, those of a  *)
(* run that is at work excepted.                                            *)
LEMMA KeysCover ==
    ASSUME DerivativesKnown, NEW p \in Photo, state[p] # "gone"
    PROVE  /\ Original(p) \in Keys(p)
           /\ HasWeb(p) => Web(p) \in Keys(p) \/ Web(p) \in raced \/ Deriving(p, Deriver)
BY DEF DerivativesKnown, Keys, Deriving

(* What was read covers its photos as long as nobody else settles them, and *)
(* nothing is written behind the reader's back that is not known.           *)
LEMMA ReadersKeep ==
    ASSUME ObjectsInv, sweep' \in {sweep, NothingRead}, account' \in {account, NothingRead},
           \A p \in Photo : Settled(p) /\ p \notin orphaned => Settled(p)' /\ p \notin orphaned',
           \A p \in Photo : Collected(p) /\ HasWeb(p)' =>
               \/ Settled(p)' /\ p \notin orphaned'
               \/ Web(p) \in raced'
               \/ HasWeb(p) /\ Web(p) \notin raced
    PROVE  SweepCovers' /\ AccountCovers'
<1>1. \A p \in Photo : Collected(p) => \A keys : Read(keys, p) => Read(keys, p)'
  BY DEF Read, Cover
<1>2. /\ sweep.pc = "read" => sweep.photos \in SUBSET Photo
      /\ account.pc = "read" => account.photos \in SUBSET Photo
      /\ NothingRead.pc # "read"
  BY DEF ObjectsInv, ObjectsTypeOK, NothingRead
<1>3. /\ sweep.pc = "read" => \A p \in sweep.photos : Collected(p)
      /\ account.pc = "read" => \A p \in account.photos : Collected(p)
  BY DEF Collected
<1>4. SweepCovers'
  <2>1. CASE sweep' = NothingRead
    BY <1>2, <2>1 DEF SweepCovers
  <2>2. CASE sweep' = sweep
    <3>1. PICK keys, P : keys = sweep.keys /\ P = sweep.photos
      OBVIOUS
    <3>2. sweep.pc = "read" => \A p \in P : p \in Photo /\ Collected(p) /\ Read(keys, p)
      BY <1>2, <1>3, <3>1 DEF ObjectsInv, SweepCovers
    <3>3. sweep.pc = "read" => \A p \in P : Read(keys, p)'
      BY <1>1, <3>2
    <3> QED
      BY <2>2, <3>1, <3>3 DEF SweepCovers, Read, Cover
  <2> QED
    BY <2>1, <2>2
<1>5. AccountCovers'
  <2>1. CASE account' = NothingRead
    BY <1>2, <2>1 DEF AccountCovers
  <2>2. CASE account' = account
    <3>1. PICK keys, P : keys = account.keys /\ P = account.photos
      OBVIOUS
    <3>2. account.pc = "read" => \A p \in P : p \in Photo /\ Collected(p) /\ Read(keys, p)
      BY <1>2, <1>3, <3>1 DEF ObjectsInv, AccountCovers
    <3>3. account.pc = "read" => \A p \in P : Read(keys, p)'
      BY <1>1, <3>2
    <3> QED
      BY <2>2, <3>1, <3>3 DEF AccountCovers, Read, Cover
  <2> QED
    BY <2>1, <2>2
<1> QED
  BY <1>4, <1>5

(* What the steps have to keep.                                             *)
ObjectsKept == /\ DerivativesKnown /\ RacesKnown /\ SweepCovers /\ AccountCovers
        /\ OrphansGone /\ SettledExcused

(* The derivative task.                                                     *)
LEMMA DerivingKeeps ==
    ASSUME ObjectsInv, NEW d \in Deriver,
           (\E p \in Photo : DeriveRead(d, p)) \/ DeriveUpload(d) \/ DeriveNote(d) \/ DeriveFails(d)
    PROVE  ObjectsKept'
<1> DEFINE p == deriver[d].photo
<1>0. /\ deriver[d].pc # "rest" => p \in Photo
      /\ \A e \in Deriver : deriver[e].pc # "rest" => deriver[e].photo \in Photo
  BY DEF ObjectsInv, ObjectsTypeOK, AtRest
<1>1. ASSUME NEW q \in Photo, DeriveRead(d, q)
      PROVE  ObjectsKept'
  <2>1. /\ state' = state /\ webKey' = webKey /\ bucket' = bucket /\ cdn' = cdn
        /\ sweep' = sweep /\ account' = account /\ purges' = purges /\ unpurged' = unpurged
        /\ unflushed' = unflushed /\ orphaned' = orphaned
        /\ deriver[d] = AtRest
    BY <1>1 DEF DeriveRead
  <2>2. \/ deriver' = deriver /\ raced' = raced
        \/ /\ deriver' = [deriver EXCEPT ![d] = [pc |-> "render", photo |-> q]]
           /\ raced' = IF Collected(q) THEN raced \cup {Web(q)} ELSE raced
    BY <1>1 DEF DeriveRead
  <2>3. /\ \A e \in Deriver : deriver[e].pc = "note" => deriver'[e] = deriver[e]
        /\ \A e \in Deriver : \/ deriver'[e] = deriver[e]
                              \/ deriver'[e].photo = q /\ (Collected(q) => Web(q) \in raced')
        /\ raced \subseteq raced'
    <3>1. d \in Deriver /\ deriver[d].pc = "rest"
      BY <2>1 DEF AtRest
    <3> QED
      BY <2>2, <3>1 DEF ObjectsInv, ObjectsTypeOK
  <2>4. \A r \in Photo : (Collected(r)' <=> Collected(r)) /\ (Settled(r)' <=> Settled(r))
    BY <2>1 DEF Collected, Settled
  <2>5. \A r \in Photo : HasWeb(r)' <=> HasWeb(r)
    BY <2>1 DEF HasWeb
  <2>6. \A o : Excused(o) => Excused(o)'
    BY <2>1, <2>3 DEF Excused
  <2>7. DerivativesKnown'
    BY <2>1, <2>3, <2>5 DEF ObjectsInv, DerivativesKnown
  <2>8. RacesKnown'
    BY <1>0, <2>3, <2>4 DEF ObjectsInv, RacesKnown
  <2>9. SweepCovers' /\ AccountCovers'
    BY <2>1, <2>3, <2>4, <2>5, ReadersKeep
  <2>10. OrphansGone' /\ SettledExcused'
    BY <2>1, <2>4, <2>6 DEF ObjectsInv, OrphansGone, SettledExcused, Accounted
  <2> QED
    BY <2>7, <2>8, <2>9, <2>10 DEF ObjectsKept
<1>2. CASE DeriveUpload(d)
  <2>1. /\ state' = state /\ webKey' = webKey /\ bucket' = bucket \cup {Web(p)} /\ cdn' = cdn
        /\ sweep' = sweep /\ account' = account /\ purges' = purges /\ unpurged' = unpurged
        /\ unflushed' = unflushed /\ orphaned' = orphaned
        /\ raced' = raced /\ deriver[d].pc = "render"
    BY <1>2 DEF DeriveUpload, excuseVars
  <2>2. p \in Photo
    BY <1>0, <2>1
  <2>3. deriver' = [deriver EXCEPT ![d] = [deriver[d] EXCEPT !.pc = "note"]]
    BY <1>2 DEF DeriveUpload
  <2>4. /\ deriver'[d].pc = "note" /\ deriver'[d].photo = p
        /\ \A e \in Deriver : e # d => deriver'[e] = deriver[e]
    <3>1. deriver[d] \in [pc : {"render", "note"}, photo : Photo]
      BY <2>1, DeriverTyped DEF ObjectsInv
    <3> QED
      BY <2>3, <3>1 DEF ObjectsInv, ObjectsTypeOK
  <2> HIDE DEF p
  <2>5. \A r \in Photo : (Collected(r)' <=> Collected(r)) /\ (Settled(r)' <=> Settled(r))
    BY <2>1 DEF Collected, Settled
  <2>6. \A r \in Photo : HasWeb(r)' <=> HasWeb(r) \/ r = p
    BY <2>1, <2>2, KeysDiffer DEF HasWeb
  <2>7. Collected(p) => Web(p) \in raced
    BY <2>1 DEF ObjectsInv, RacesKnown, p
  <2>8. DerivativesKnown'
    BY <2>1, <2>4, <2>6 DEF ObjectsInv, DerivativesKnown
  <2>9. RacesKnown'
    BY <1>0, <2>1, <2>2, <2>4, <2>5, <2>7 DEF ObjectsInv, RacesKnown
  <2>10. SweepCovers' /\ AccountCovers'
    BY <2>1, <2>5, <2>6, <2>7, ReadersKeep
  <2>11. SettledExcused'
    <3>1. \A o : Excused(o) => Excused(o)'
      BY <2>1 DEF Excused
    <3>2. \A r \in Photo : Original(r) \in bucket' => Original(r) \in bucket
      BY <2>1, <2>2, KeysDiffer
    <3>3. \A r \in Photo : Web(r) \in bucket' => Web(r) \in bucket \/ r = p
      BY <2>1, <2>2, KeysDiffer
    <3>4. \A r \in Photo : r = p /\ Settled(r) => Excused(Web(r))'
      BY <2>1, <2>7 DEF Excused, Collected
    <3> QED
      BY <2>1, <2>5, <3>1, <3>2, <3>3, <3>4 DEF ObjectsInv, SettledExcused, Accounted
  <2>12. OrphansGone'
    BY <2>1 DEF ObjectsInv, OrphansGone
  <2> QED
    BY <2>8, <2>9, <2>10, <2>11, <2>12 DEF ObjectsKept
<1>3. CASE DeriveNote(d)
  <2>1. /\ state' = state /\ bucket' = bucket /\ cdn' = cdn
        /\ sweep' = sweep /\ account' = account /\ purges' = purges /\ unpurged' = unpurged
        /\ unflushed' = unflushed /\ orphaned' = orphaned
        /\ deriver' = [deriver EXCEPT ![d] = AtRest]
        /\ webKey' = (IF state[p] = "gone" THEN webKey ELSE webKey \cup {p})
        /\ raced' = (IF Collected(p) THEN raced ELSE raced \ {Web(p)})
        /\ deriver[d].pc = "note"
    BY <1>3 DEF DeriveNote
  <2>2. p \in Photo
    BY <1>0, <2>1
  <2>3. /\ \A e \in Deriver : e # d => deriver'[e] = deriver[e]
        /\ deriver'[d].pc = "rest"
    BY <2>1 DEF ObjectsInv, ObjectsTypeOK, AtRest
  <2>13. deriver[d].photo = p
    OBVIOUS
  <2> HIDE DEF p
  <2>4. \A r \in Photo : (Collected(r)' <=> Collected(r)) /\ (Settled(r)' <=> Settled(r))
    BY <2>1 DEF Collected, Settled
  <2>5. \A r \in Photo : HasWeb(r)' <=> HasWeb(r)
    BY <2>1 DEF HasWeb
  <2>6. \A r \in Photo : Collected(r) /\ Web(r) \in raced => Web(r) \in raced'
    BY <2>1, <2>2, KeysDiffer
  <2>7. \A r \in Photo : r # p /\ Web(r) \in raced => Web(r) \in raced'
    BY <2>1, <2>2, KeysDiffer
  <2>8. \A r \in Photo : Original(r) \in raced => Original(r) \in raced'
    BY <2>1, <2>2, KeysDiffer
  <2>9. DerivativesKnown'
    <3> SUFFICES ASSUME NEW r \in Photo, state[r] # "gone", HasWeb(r)
                 PROVE  \/ r \in webKey' \/ Web(r) \in raced'
                        \/ \E e \in Deriver : deriver'[e].pc = "note" /\ deriver'[e].photo = r
      BY <2>1, <2>5 DEF DerivativesKnown
    <3>1. CASE r = p
      BY <2>1, <3>1
    <3>2. CASE r # p
      BY <2>1, <2>3, <2>7, <2>13, <3>2 DEF ObjectsInv, DerivativesKnown
    <3> QED
      BY <3>1, <3>2
  <2>10. RacesKnown'
    BY <1>0, <2>3, <2>4, <2>6 DEF ObjectsInv, RacesKnown
  <2>11. SweepCovers' /\ AccountCovers'
    BY <2>1, <2>4, <2>5, <2>6, ReadersKeep
  <2>12. SettledExcused'
    <3>1. \A r \in Photo : Settled(r) => Collected(r)
      BY DEF Collected
    <3>2. \A r \in Photo : Excused(Original(r)) => Excused(Original(r))'
      BY <2>1, <2>8 DEF Excused
    <3>3. \A r \in Photo : Collected(r) /\ Excused(Web(r)) => Excused(Web(r))'
      BY <2>1, <2>6 DEF Excused
    <3> QED
      BY <2>1, <2>4, <3>1, <3>2, <3>3 DEF ObjectsInv, SettledExcused, Accounted
  <2>14. OrphansGone'
    BY <2>1 DEF ObjectsInv, OrphansGone
  <2> QED
    BY <2>9, <2>10, <2>11, <2>12, <2>14 DEF ObjectsKept
<1>4. CASE DeriveFails(d)
  <2>1. /\ state' = state /\ webKey' = webKey /\ bucket' = bucket /\ cdn' = cdn
        /\ sweep' = sweep /\ account' = account /\ purges' = purges /\ unpurged' = unpurged
        /\ unflushed' = unflushed /\ orphaned' = orphaned
        /\ deriver' = [deriver EXCEPT ![d] = AtRest]
        /\ raced' = (IF deriver[d].pc = "note" THEN raced \cup {Web(p)} ELSE raced)
    BY <1>4 DEF DeriveFails
  <2>2. /\ \A e \in Deriver : e # d => deriver'[e] = deriver[e]
        /\ deriver'[d].pc = "rest"
    BY <2>1 DEF ObjectsInv, ObjectsTypeOK, AtRest
  <2>3. /\ raced \subseteq raced'
        /\ deriver[d].pc = "note" => Web(deriver[d].photo) \in raced'
    BY <2>1
  <2> HIDE DEF p
  <2>4. \A r \in Photo : (Collected(r)' <=> Collected(r)) /\ (Settled(r)' <=> Settled(r))
    BY <2>1 DEF Collected, Settled
  <2>5. \A r \in Photo : HasWeb(r)' <=> HasWeb(r)
    BY <2>1 DEF HasWeb
  <2>6. \A o : Excused(o) => Excused(o)'
    BY <2>1, <2>3 DEF Excused
  <2>7. DerivativesKnown'
    BY <2>1, <2>2, <2>3, <2>5 DEF ObjectsInv, DerivativesKnown
  <2>8. RacesKnown'
    BY <1>0, <2>2, <2>3, <2>4 DEF ObjectsInv, RacesKnown
  <2>9. SweepCovers' /\ AccountCovers'
    BY <2>1, <2>3, <2>4, <2>5, ReadersKeep
  <2>10. OrphansGone' /\ SettledExcused'
    BY <2>1, <2>4, <2>6 DEF ObjectsInv, OrphansGone, SettledExcused, Accounted
  <2> QED
    BY <2>7, <2>8, <2>9, <2>10 DEF ObjectsKept
<1> QED
  BY <1>1, <1>2, <1>3, <1>4

(* Rows are settled, and each collects its keys.                            *)
LEMMA SettlingKeeps ==
    ASSUME ObjectsInv,
           \/ \E d \in Deriver : DerivePoison(d)
           \/ \E p \in Photo : OwnerDeletes(p) \/ GalleryExpires(p)
    PROVE  ObjectsKept'
<1>0. \A e \in Deriver : deriver[e].pc # "rest" => deriver[e].photo \in Photo
  BY DEF ObjectsInv, ObjectsTypeOK, AtRest
(* One row is settled under its lock, and its keys queued.                  *)
<1>1. ASSUME NEW p \in Photo, state[p] # "gone", NEW D \in SUBSET Deriver,
             NEW st \in {"failed", "gone"}, state' = [state EXCEPT ![p] = st],
             Give(p, D),
             /\ webKey' = webKey /\ bucket' = bucket /\ cdn' = cdn
             /\ sweep' = sweep /\ account' = account
             /\ unflushed' = unflushed /\ orphaned' = orphaned,
             \A e \in Deriver : \/ deriver'[e] = deriver[e]
                                \/ deriver'[e].pc = "rest" /\ deriver[e].pc = "render",
             \A e \in Deriver \ D : deriver'[e].pc = "rest" /\ deriver[e].pc = "render"
      PROVE  ObjectsKept'
  <2>1. \A r \in Photo : state'[r] = IF r = p THEN st ELSE state[r]
    BY <1>1 DEF ObjectsInv, ObjectsTypeOK
  <2>2. Enqueue(Keys(p)) /\ raced' = (raced \ Keys(p)) \cup Racing({p}, D)
    BY <1>1 DEF Give
  <2>3. \A r \in Photo : r # p => Web(r) \notin Keys(p) /\ Original(r) \notin Keys(p)
    BY KeysDiffer DEF Keys, Original, Web
  <2>4. /\ Deriving(p, D) => Web(p) \in raced'
        /\ \A o : o \in raced => o \in raced' \/ o \in Keys(p)
    BY <2>2, RacingNames
  <2>5. \A r \in Photo : HasWeb(r)' <=> HasWeb(r)
    BY <1>1 DEF HasWeb
  <2>6. /\ \A o : Excused(o) => Excused(o)'
        /\ \A o : o \in Keys(p) => Excused(o)'
    BY <2>2, <2>4, EnqueueExcuses
  <2>7. p \notin orphaned /\ p \notin orphaned'
    BY <1>1 DEF ObjectsInv, OrphansGone
  <2>8. /\ Settled(p)'
        /\ \A r \in Photo : r # p => (Settled(r)' <=> Settled(r))
    BY <1>1, <2>1 DEF Settled
  <2>9. \A r \in Photo : Collected(r)' => Collected(r) \/ r = p
    BY <1>1, <2>8 DEF Collected
  <2>10. \A r \in Photo : r # p /\ Web(r) \in raced => Web(r) \in raced'
    BY <2>3, <2>4
  <2>11. DerivativesKnown'
    <3> SUFFICES ASSUME NEW r \in Photo, state'[r] # "gone", HasWeb(r)
                 PROVE  \/ r \in webKey' \/ Web(r) \in raced'
                        \/ \E e \in Deriver : deriver'[e].pc = "note" /\ deriver'[e].photo = r
      BY <2>5 DEF DerivativesKnown
    <3>1. state[r] # "gone"
      BY <1>1, <2>1
    <3>2. CASE \E e \in Deriver : deriver[e].pc = "note" /\ deriver[e].photo = r
      BY <1>1, <3>2
    <3>3. CASE r \in webKey
      BY <1>1, <3>3
    <3>4. CASE Web(r) \in raced /\ r \notin webKey
      <4>1. Web(r) \notin Keys(p)
        BY <3>4, <2>3, KeysDiffer DEF Keys
      <4> QED
        BY <2>4, <3>4, <4>1
    <3> QED
      BY <3>1, <3>2, <3>3, <3>4 DEF ObjectsInv, DerivativesKnown
  <2>12. RacesKnown'
    <3>1. \A e \in Deriver : deriver'[e].pc # "rest" => deriver'[e] = deriver[e] /\ e \in D
      BY <1>1
    <3>2. \A e \in D : deriver[e].pc # "rest" /\ deriver[e].photo = p => Web(p) \in raced'
      BY <2>4 DEF Deriving
    <3> QED
      BY <1>0, <2>9, <2>10, <3>1, <3>2 DEF ObjectsInv, RacesKnown
  <2>13. SweepCovers' /\ AccountCovers'
    <3>1. \A r \in Photo : Settled(r) /\ r \notin orphaned => Settled(r)' /\ r \notin orphaned'
      BY <1>1, <2>8
    <3> QED
      BY <1>1, <2>5, <2>7, <2>8, <2>10, <3>1, ReadersKeep
  <2>14. SettledExcused'
    <3>1. Original(p) \in Keys(p)
      BY <1>1, KeysCover DEF ObjectsInv
    <3>2. HasWeb(p) => Web(p) \in Keys(p) \/ Web(p) \in raced'
      <4>1. (\E e \in Deriver : deriver[e].pc = "note" /\ deriver[e].photo = p) => Deriving(p, D)
        BY <1>1 DEF Deriving
      <4>2. p \in webKey => Web(p) \in Keys(p)
        BY DEF Keys
      <4> QED
        BY <1>1, <2>4, <4>1, <4>2 DEF ObjectsInv, DerivativesKnown
    <3>3. \A o : o \in raced' => Excused(o)'
      BY DEF Excused
    <3>4. Excused(Original(p))' /\ (HasWeb(p) => Excused(Web(p))')
      BY <2>6, <3>1, <3>2, <3>3
    <3>5. Accounted(p)'
      BY <1>1, <3>4 DEF Accounted, HasWeb
    <3>6. \A r \in Photo : Accounted(r) => Accounted(r)'
      BY <1>1, <2>6 DEF Accounted
    <3> QED
      BY <1>1, <2>8, <3>5, <3>6 DEF ObjectsInv, SettledExcused
  <2>15. OrphansGone'
    BY <1>1, <2>1, <2>7 DEF ObjectsInv, OrphansGone, ObjectsTypeOK
  <2> QED
    BY <2>11, <2>12, <2>13, <2>14, <2>15 DEF ObjectsKept
<1>2. ASSUME NEW d \in Deriver, DerivePoison(d)
      PROVE  ObjectsKept'
  <2>1. deriver[d].pc = "render" /\ deriver' = [deriver EXCEPT ![d] = AtRest]
        /\ webKey' = webKey /\ bucket' = bucket /\ cdn' = cdn
        /\ sweep' = sweep /\ account' = account
        /\ unflushed' = unflushed /\ orphaned' = orphaned
    BY <1>2 DEF DerivePoison
  <2>2. PICK p \in Photo : p = deriver[d].photo
    BY <1>0, <2>1
  <2>3. /\ \A e \in Deriver : e # d => deriver'[e] = deriver[e]
        /\ deriver'[d].pc = "rest"
    BY <2>1 DEF ObjectsInv, ObjectsTypeOK, AtRest
  <2>4. /\ \A e \in Deriver : \/ deriver'[e] = deriver[e]
                              \/ deriver'[e].pc = "rest" /\ deriver[e].pc = "render"
        /\ \A e \in Deriver \ (Deriver \ {d}) : deriver'[e].pc = "rest" /\ deriver[e].pc = "render"
    BY <2>1, <2>3
  <2>5. CASE state[p] = "ready"
    <3>1. state' = [state EXCEPT ![p] = "failed"] /\ Give(p, Deriver \ {d})
      BY <1>2, <2>2, <2>5 DEF DerivePoison
    <3> QED
      BY <1>1, <2>1, <2>4, <2>5, <3>1
  <2>6. CASE state[p] # "ready"
    <3>1. state' = state /\ purges' = purges /\ unpurged' = unpurged /\ raced' = raced
      BY <1>2, <2>2, <2>6 DEF DerivePoison
    <3>2. \A r \in Photo : (Collected(r)' <=> Collected(r)) /\ (Settled(r)' <=> Settled(r))
      BY <2>1, <3>1 DEF Collected, Settled
    <3>3. \A r \in Photo : HasWeb(r)' <=> HasWeb(r)
      BY <2>1 DEF HasWeb
    <3>4. \A o : Excused(o)' <=> Excused(o)
      BY <3>1 DEF Excused
    <3>5. DerivativesKnown'
      <4>1. \A e \in Deriver : deriver[e].pc = "note" => deriver'[e] = deriver[e]
        BY <2>4
      <4> QED
        BY <2>1, <3>1, <3>3, <4>1 DEF ObjectsInv, DerivativesKnown
    <3>6. RacesKnown'
      BY <1>0, <2>4, <3>1, <3>2 DEF ObjectsInv, RacesKnown
    <3>7. SweepCovers' /\ AccountCovers'
      BY <2>1, <3>1, <3>2, <3>3, ReadersKeep
    <3>8. OrphansGone' /\ SettledExcused'
      BY <2>1, <3>1, <3>2, <3>4 DEF ObjectsInv, OrphansGone, SettledExcused, Accounted
    <3> QED
      BY <3>5, <3>6, <3>7, <3>8 DEF ObjectsKept
  <2> QED
    BY <2>5, <2>6
<1>3. ASSUME NEW p \in Photo, OwnerDeletes(p)
      PROVE  ObjectsKept'
  <2>1. state' = [state EXCEPT ![p] = "gone"]
    BY <1>3 DEF OwnerDeletes, Forget, ObjectsInv, ObjectsTypeOK
  <2>2. /\ state[p] # "gone" /\ Give(p, Deriver)
        /\ webKey' = webKey /\ bucket' = bucket /\ cdn' = cdn
        /\ sweep' = sweep /\ account' = account /\ deriver' = deriver
        /\ unflushed' = unflushed /\ orphaned' = orphaned
    BY <1>3 DEF OwnerDeletes
  <2> QED
    BY <1>1, <2>1, <2>2
<1>4. ASSUME NEW p \in Photo, GalleryExpires(p)
      PROVE  ObjectsKept'
  <2>1. /\ state[p] = "ready" /\ state' = [state EXCEPT ![p] = "expired"]
        /\ webKey' = webKey /\ bucket' = bucket /\ cdn' = cdn /\ deriver' = deriver
        /\ sweep' = sweep /\ account' = account /\ purges' = purges /\ unpurged' = unpurged
        /\ raced' = raced /\ unflushed' = unflushed /\ orphaned' = orphaned
    BY <1>4 DEF GalleryExpires, excuseVars
  <2>2. \A r \in Photo : /\ Settled(r)' <=> Settled(r)
                         /\ state'[r] = "gone" <=> state[r] = "gone"
    BY <2>1 DEF ObjectsInv, ObjectsTypeOK, Settled
  <2>3. \A r \in Photo : Collected(r)' <=> Collected(r)
    BY <2>1, <2>2 DEF Collected
  <2>4. \A r \in Photo : HasWeb(r)' <=> HasWeb(r)
    BY <2>1 DEF HasWeb
  <2>5. \A o : Excused(o)' <=> Excused(o)
    BY <2>1 DEF Excused
  <2>6. DerivativesKnown'
    BY <2>1, <2>2, <2>4 DEF ObjectsInv, DerivativesKnown
  <2>7. RacesKnown'
    BY <1>0, <2>1, <2>3 DEF ObjectsInv, RacesKnown
  <2>8. SweepCovers' /\ AccountCovers'
    BY <2>1, <2>2, <2>4, ReadersKeep
  <2>9. OrphansGone' /\ SettledExcused'
    BY <2>1, <2>2, <2>5 DEF ObjectsInv, ObjectsTypeOK, OrphansGone, SettledExcused, Accounted
  <2> QED
    BY <2>6, <2>7, <2>8, <2>9 DEF ObjectsKept
<1> QED
  BY <1>2, <1>3, <1>4

(* A cascade takes rows and says nothing to anybody: what was known or read *)
(* before still is.                                                         *)
LEMMA CascadeKeeps ==
    ASSUME ObjectsInv, NEW P \in SUBSET Photo, CascadeDelete(P)
    PROVE  ObjectsKept'
<1>0. \A e \in Deriver : deriver[e].pc # "rest" => deriver[e].photo \in Photo
  BY DEF ObjectsInv, ObjectsTypeOK, AtRest
<1>1. /\ raced' = raced \cup Racing(P, Deriver)
      /\ orphaned' = orphaned \cup {p \in P : ~Settled(p)}
      /\ webKey' = webKey /\ bucket' = bucket /\ cdn' = cdn /\ deriver' = deriver
      /\ sweep' = sweep /\ account' = account /\ purges' = purges /\ unpurged' = unpurged
      /\ unflushed' = unflushed
  BY DEF CascadeDelete
<1>2. \A r \in Photo : state'[r] = IF r \in P THEN "gone" ELSE state[r]
  BY DEF CascadeDelete, Forget
<1>3. raced \subseteq raced' /\ \A r \in P : Deriving(r, Deriver) => Web(r) \in raced'
  BY <1>1, RacingNames
<1>4. \A r \in Photo : /\ Settled(r) => Settled(r)'
                       /\ Settled(r)' => Settled(r) \/ r \in P
  BY <1>2 DEF Settled
<1>5. \A r \in Photo : Settled(r)' /\ r \notin orphaned' => Settled(r) /\ r \notin orphaned
  BY <1>1, <1>4
<1>6. \A r \in Photo : Settled(r) /\ r \notin orphaned => Settled(r)' /\ r \notin orphaned'
  BY <1>1, <1>4
<1>7. \A r \in Photo : Collected(r)' => Collected(r) \/ r \in P
  BY <1>1, <1>4 DEF Collected
<1>8. \A r \in Photo : HasWeb(r)' <=> HasWeb(r)
  BY <1>1 DEF HasWeb
<1>9. \A o : Excused(o) => Excused(o)'
  BY <1>1, <1>3 DEF Excused
<1>10. DerivativesKnown'
  BY <1>1, <1>2, <1>3, <1>8 DEF ObjectsInv, DerivativesKnown
<1>11. RacesKnown'
  <2>1. \A e \in Deriver : deriver[e].pc # "rest" /\ deriver[e].photo \in P
                              => Web(deriver[e].photo) \in raced'
    BY <1>3 DEF Deriving
  <2> QED
    BY <1>0, <1>1, <1>3, <1>7, <2>1 DEF ObjectsInv, RacesKnown
<1>12. SweepCovers' /\ AccountCovers'
  BY <1>1, <1>3, <1>6, <1>8, ReadersKeep
<1>13. OrphansGone'
  BY <1>1, <1>2 DEF ObjectsInv, OrphansGone, ObjectsTypeOK
<1>14. SettledExcused'
  BY <1>1, <1>5, <1>9 DEF ObjectsInv, SettledExcused, Accounted
<1> QED
  BY <1>10, <1>11, <1>12, <1>13, <1>14 DEF ObjectsKept

(* The sweep and the account deletion: what they read covers what they      *)
(* settle.                                                                  *)
LEMMA SweepingKeeps ==
    ASSUME ObjectsInv, SweepRead \/ SweepCommit \/ AccountRead \/ AccountCommit \/ RolledBack
    PROVE  ObjectsKept'
<1>0. /\ \A e \in Deriver : deriver[e].pc # "rest" => deriver[e].photo \in Photo
      /\ sweep.pc = "read" => sweep.photos \in SUBSET Photo
      /\ account.pc = "read" => account.photos \in SUBSET Photo
      /\ sweep = NothingRead \/ sweep.pc = "read"
      /\ account = NothingRead \/ account.pc = "read"
      /\ NothingRead.pc # "read"
  BY DEF ObjectsInv, ObjectsTypeOK, AtRest, NothingRead
(* Keys of the rows in P are read: nothing else changes.                    *)
<1>1. ASSUME NEW P \in SUBSET Photo, \A p \in P : state[p] # "gone",
             raced' = raced \cup Racing(P, Deriver),
             /\ state' = state /\ webKey' = webKey /\ bucket' = bucket /\ cdn' = cdn
             /\ deriver' = deriver /\ purges' = purges /\ unpurged' = unpurged
             /\ unflushed' = unflushed /\ orphaned' = orphaned,
             \A p \in Photo : Collected(p)' => Collected(p) \/ p \in P
      PROVE  /\ DerivativesKnown' /\ RacesKnown' /\ OrphansGone' /\ SettledExcused'
             /\ \A p \in P : \A keys : Keys(p) \subseteq keys => Read(keys, p)'
             /\ \A p \in Photo : \A keys : Read(keys, p) => Read(keys, p)'
  <2>1. raced \subseteq raced' /\ \A p \in P : Deriving(p, Deriver) => Web(p) \in raced'
    BY <1>1, RacingNames
  <2>2. \A r \in Photo : (HasWeb(r)' <=> HasWeb(r)) /\ (Settled(r)' <=> Settled(r))
    BY <1>1 DEF HasWeb, Settled
  <2>3. \A o : Excused(o) => Excused(o)'
    BY <1>1, <2>1 DEF Excused
  <2>4. DerivativesKnown'
    BY <1>1, <2>1, <2>2 DEF ObjectsInv, DerivativesKnown
  <2>5. RacesKnown'
    <3>1. \A e \in Deriver : deriver[e].pc # "rest" /\ deriver[e].photo \in P
                                => Web(deriver[e].photo) \in raced'
      BY <2>1 DEF Deriving
    <3> QED
      BY <1>0, <1>1, <2>1, <3>1 DEF ObjectsInv, RacesKnown
  <2>6. OrphansGone' /\ SettledExcused'
    BY <1>1, <2>2, <2>3 DEF ObjectsInv, OrphansGone, SettledExcused, Accounted
  <2>7. \A p \in P : \A keys : Keys(p) \subseteq keys => Read(keys, p)'
    BY <1>1, <2>1, <2>2, KeysCover DEF ObjectsInv, Read, Cover
  <2>8. \A p \in Photo : \A keys : Read(keys, p) => Read(keys, p)'
    BY <1>1, <2>1, <2>2 DEF Read, Cover
  <2> QED
    BY <2>4, <2>5, <2>6, <2>7, <2>8
<1>2. CASE SweepRead
  <2> DEFINE P == {p \in Photo : state[p] = "expired"}
             keys == UNION {Keys(p) : p \in P}
  <2>1. /\ sweep' = [pc |-> "read", photos |-> P, keys |-> keys]
        /\ raced' = raced \cup Racing(P, Deriver)
        /\ state' = state /\ webKey' = webKey /\ bucket' = bucket /\ cdn' = cdn
        /\ deriver' = deriver /\ account' = account /\ purges' = purges /\ unpurged' = unpurged
        /\ unflushed' = unflushed /\ orphaned' = orphaned
    BY <1>2 DEF SweepRead
  <2>2. sweep'.photos = P /\ sweep'.keys = keys
    BY <2>1
  <2>3. P \in SUBSET Photo /\ \A p \in P : state[p] # "gone" /\ Keys(p) \subseteq keys
    OBVIOUS
  <2> HIDE DEF P, keys
  <2>4. \A p \in Photo : Collected(p)' => Collected(p) \/ p \in P
    BY <2>1, <2>2 DEF Collected, Settled
  <2>5. /\ DerivativesKnown' /\ RacesKnown' /\ OrphansGone' /\ SettledExcused'
        /\ \A p \in P : \A k : Keys(p) \subseteq k => Read(k, p)'
        /\ \A p \in Photo : \A k : Read(k, p) => Read(k, p)'
    BY <1>1, <2>1, <2>3, <2>4
  <2>6. SweepCovers'
    BY <2>2, <2>3, <2>5 DEF SweepCovers, Read, Cover
  <2>7. AccountCovers'
    BY <1>0, <2>1, <2>5 DEF ObjectsInv, AccountCovers, Read, Cover
  <2> QED
    BY <2>5, <2>6, <2>7 DEF ObjectsKept
<1>3. CASE AccountRead
  <2> DEFINE P == {p \in Photo : state[p] # "gone"}
             keys == UNION {Keys(p) : p \in P}
  <2>1. /\ account' = [pc |-> "read", photos |-> P, keys |-> keys]
        /\ raced' = raced \cup Racing(P, Deriver)
        /\ state' = state /\ webKey' = webKey /\ bucket' = bucket /\ cdn' = cdn
        /\ deriver' = deriver /\ sweep' = sweep /\ purges' = purges /\ unpurged' = unpurged
        /\ unflushed' = unflushed /\ orphaned' = orphaned
    BY <1>3 DEF AccountRead
  <2>2. account'.photos = P /\ account'.keys = keys
    BY <2>1
  <2>3. P \in SUBSET Photo /\ \A p \in P : state[p] # "gone" /\ Keys(p) \subseteq keys
    OBVIOUS
  <2> HIDE DEF P, keys
  <2>4. \A p \in Photo : Collected(p)' => Collected(p) \/ p \in P
    BY <2>1, <2>2 DEF Collected, Settled
  <2>5. /\ DerivativesKnown' /\ RacesKnown' /\ OrphansGone' /\ SettledExcused'
        /\ \A p \in P : \A k : Keys(p) \subseteq k => Read(k, p)'
        /\ \A p \in Photo : \A k : Read(k, p) => Read(k, p)'
    BY <1>1, <2>1, <2>3, <2>4
  <2>6. SweepCovers'
    BY <1>0, <2>1, <2>5 DEF ObjectsInv, SweepCovers, Read, Cover
  <2>7. AccountCovers'
    BY <2>2, <2>3, <2>5 DEF AccountCovers, Read, Cover
  <2> QED
    BY <2>5, <2>6, <2>7 DEF ObjectsKept
(* The rows in P are gone, and keys that cover them are queued.             *)
<1>4. ASSUME NEW P \in SUBSET Photo, Forget(P), NEW keys, Enqueue(keys),
             \A p \in P : Collected(p) /\ Read(keys, p),
             /\ webKey' = webKey /\ bucket' = bucket /\ cdn' = cdn /\ deriver' = deriver
             /\ raced' = raced /\ unflushed' = unflushed /\ orphaned' = orphaned \ P,
             sweep' \in {sweep, NothingRead}, account' \in {account, NothingRead}
      PROVE  ObjectsKept'
  <2>1. \A r \in Photo : state'[r] = IF r \in P THEN "gone" ELSE state[r]
    BY <1>4 DEF Forget
  <2>2. \A r \in Photo : HasWeb(r)' <=> HasWeb(r)
    BY <1>4 DEF HasWeb
  <2>3. /\ \A o : Excused(o) => Excused(o)'
        /\ \A o : o \in keys => Excused(o)'
        /\ \A o : o \in raced => Excused(o)'
    <3>1. \A o : o \in raced' => Excused(o)'
      BY DEF Excused
    <3> QED
      BY <1>4, <3>1, EnqueueExcuses
  <2>4. \A r \in Photo : /\ Settled(r) => Settled(r)'
                         /\ Settled(r)' => Settled(r) \/ r \in P
    BY <2>1 DEF Settled
  <2>5. \A r \in Photo : Collected(r)' => Collected(r)
    BY <1>0, <1>4, <2>4 DEF Collected
  <2>6. DerivativesKnown'
    BY <1>4, <2>1, <2>2 DEF ObjectsInv, DerivativesKnown
  <2>7. RacesKnown'
    BY <1>0, <1>4, <2>5 DEF ObjectsInv, RacesKnown
  <2>8. SweepCovers' /\ AccountCovers'
    BY <1>4, <2>2, <2>4, ReadersKeep
  <2>9. SettledExcused'
    <3>1. \A r \in Photo : Accounted(r) => Accounted(r)'
      BY <1>4, <2>3 DEF Accounted
    <3>2. \A r \in Photo : Cover(keys, r) => Accounted(r)'
      BY <1>4, <2>3 DEF Accounted, Cover, HasWeb
    <3>3. \A r \in P : Accounted(r)'
      BY <1>4, <3>1, <3>2 DEF Read, ObjectsInv, SettledExcused
    <3> QED
      BY <1>4, <2>4, <3>1, <3>3 DEF ObjectsInv, SettledExcused
  <2>10. OrphansGone'
    BY <1>4, <2>1 DEF ObjectsInv, OrphansGone, ObjectsTypeOK
  <2> QED
    BY <2>6, <2>7, <2>8, <2>9, <2>10 DEF ObjectsKept
<1>5. CASE SweepCommit
  <2>1. /\ sweep.pc = "read" /\ Forget(sweep.photos) /\ Enqueue(sweep.keys) /\ sweep' = NothingRead
        /\ webKey' = webKey /\ bucket' = bucket /\ cdn' = cdn /\ deriver' = deriver
        /\ raced' = raced /\ account' = account /\ unflushed' = unflushed
        /\ orphaned' = orphaned \ sweep.photos
    BY <1>5 DEF SweepCommit
  <2>2. PICK P \in SUBSET Photo : P = sweep.photos
    BY <1>0, <2>1
  <2>3. PICK keys : keys = sweep.keys
    OBVIOUS
  <2>4. Forget(P) /\ Enqueue(keys) /\ orphaned' = orphaned \ P
    BY <2>1, <2>2, <2>3
  <2>5. \A p \in P : Collected(p) /\ Read(keys, p)
    BY <2>1, <2>2, <2>3 DEF ObjectsInv, SweepCovers, Collected
  <2>6. sweep' \in {sweep, NothingRead} /\ account' \in {account, NothingRead}
    BY <2>1
  <2> QED
    BY <1>4, <2>1, <2>4, <2>5, <2>6
<1>6. CASE AccountCommit
  <2>1. /\ account.pc = "read" /\ Forget(account.photos) /\ Enqueue(account.keys)
        /\ account' = NothingRead
        /\ webKey' = webKey /\ bucket' = bucket /\ cdn' = cdn /\ deriver' = deriver
        /\ raced' = raced /\ sweep' = sweep /\ unflushed' = unflushed
        /\ orphaned' = orphaned \ account.photos
    BY <1>6 DEF AccountCommit
  <2>2. PICK P \in SUBSET Photo : P = account.photos
    BY <1>0, <2>1
  <2>3. PICK keys : keys = account.keys
    OBVIOUS
  <2>4. Forget(P) /\ Enqueue(keys) /\ orphaned' = orphaned \ P
    BY <2>1, <2>2, <2>3
  <2>5. \A p \in P : Collected(p) /\ Read(keys, p)
    BY <2>1, <2>2, <2>3 DEF ObjectsInv, AccountCovers, Collected
  <2>6. sweep' \in {sweep, NothingRead} /\ account' \in {account, NothingRead}
    BY <2>1
  <2> QED
    BY <1>4, <2>1, <2>4, <2>5, <2>6
<1>7. CASE RolledBack
  <2>1. /\ state' = state /\ webKey' = webKey /\ bucket' = bucket /\ cdn' = cdn
        /\ deriver' = deriver /\ purges' = purges /\ unpurged' = unpurged /\ raced' = raced
        /\ unflushed' = unflushed /\ orphaned' = orphaned
        /\ sweep' \in {sweep, NothingRead} /\ account' \in {account, NothingRead}
    BY <1>7 DEF RolledBack, excuseVars
  <2>2. \A r \in Photo : (Collected(r)' => Collected(r)) /\ (Settled(r)' <=> Settled(r))
    BY <1>0, <2>1 DEF Collected, Settled
  <2>3. \A r \in Photo : HasWeb(r)' <=> HasWeb(r)
    BY <2>1 DEF HasWeb
  <2>4. \A o : Excused(o)' <=> Excused(o)
    BY <2>1 DEF Excused
  <2>5. DerivativesKnown'
    BY <2>1, <2>3 DEF ObjectsInv, DerivativesKnown
  <2>6. RacesKnown'
    BY <1>0, <2>1, <2>2 DEF ObjectsInv, RacesKnown
  <2>7. SweepCovers' /\ AccountCovers'
    BY <2>1, <2>2, <2>3, ReadersKeep
  <2>8. OrphansGone' /\ SettledExcused'
    BY <2>1, <2>2, <2>4 DEF ObjectsInv, OrphansGone, SettledExcused, Accounted
  <2> QED
    BY <2>5, <2>6, <2>7, <2>8 DEF ObjectsKept
<1> QED
  BY <1>2, <1>3, <1>5, <1>6, <1>7

(* The purge, the CDN and the ticket.                                       *)
LEMMA PurgingKeeps ==
    ASSUME ObjectsInv,
           \/ \E p \in Photo : CdnFetches(p) \/ TicketUsedAgain(p)
           \/ \E t \in purges : PurgeDone(t) \/ PurgeRefused(t)
           \/ UNCHANGED objectVars
    PROVE  ObjectsKept'
<1>0. \A e \in Deriver : deriver[e].pc # "rest" => deriver[e].photo \in Photo
  BY DEF ObjectsInv, ObjectsTypeOK, AtRest
(* What disappears, or comes with an excuse, needs none.                    *)
<1>1. ASSUME state' = state, webKey' = webKey, deriver' = deriver, orphaned' = orphaned,
             sweep' = sweep, account' = account, raced \subseteq raced',
             \A p \in Photo : HasWeb(p)' => HasWeb(p),
             \A p \in Photo : Accounted(p) => Accounted(p)'
      PROVE  ObjectsKept'
  <2>1. \A r \in Photo : (Collected(r)' <=> Collected(r)) /\ (Settled(r)' <=> Settled(r))
    BY <1>1 DEF Collected, Settled
  <2>2. DerivativesKnown'
    BY <1>1 DEF ObjectsInv, DerivativesKnown
  <2>3. RacesKnown'
    BY <1>0, <1>1, <2>1 DEF ObjectsInv, RacesKnown
  <2>4. SweepCovers' /\ AccountCovers'
    BY <1>1, <2>1, ReadersKeep
  <2>5. OrphansGone' /\ SettledExcused'
    BY <1>1, <2>1 DEF ObjectsInv, OrphansGone, SettledExcused
  <2> QED
    BY <2>2, <2>3, <2>4, <2>5 DEF ObjectsKept
<1>2. ASSUME NEW p \in Photo, CdnFetches(p)
      PROVE  ObjectsKept'
  <2>1. /\ Web(p) \in bucket /\ cdn' = cdn \cup {p}
        /\ state' = state /\ webKey' = webKey /\ deriver' = deriver /\ bucket' = bucket
        /\ sweep' = sweep /\ account' = account /\ raced' = raced
        /\ purges' = purges /\ unpurged' = unpurged /\ unflushed' = unflushed
        /\ orphaned' = orphaned
    BY <1>2 DEF CdnFetches, excuseVars
  <2>2. \A r \in Photo : HasWeb(r)' => HasWeb(r)
    BY <2>1 DEF HasWeb
  <2>3. \A o : Excused(o)' <=> Excused(o)
    BY <2>1 DEF Excused
  <2>4. \A r \in Photo : Accounted(r) => Accounted(r)'
    BY <2>1, <2>3 DEF Accounted
  <2> QED
    BY <1>1, <2>1, <2>2, <2>4
<1>3. ASSUME NEW p \in Photo, TicketUsedAgain(p)
      PROVE  ObjectsKept'
  <2>1. /\ bucket' = bucket \cup {Original(p)} /\ raced' = raced \cup {Original(p)}
        /\ state' = state /\ webKey' = webKey /\ deriver' = deriver /\ cdn' = cdn
        /\ sweep' = sweep /\ account' = account
        /\ purges' = purges /\ unpurged' = unpurged /\ unflushed' = unflushed
        /\ orphaned' = orphaned
    BY <1>3 DEF TicketUsedAgain
  <2>2. \A r \in Photo : Web(r) \in bucket' <=> Web(r) \in bucket
    BY <2>1, KeysDiffer
  <2>3. \A r \in Photo : HasWeb(r)' => HasWeb(r)
    BY <2>1, <2>2 DEF HasWeb
  <2>4. \A o : Excused(o) \/ o = Original(p) => Excused(o)'
    BY <2>1 DEF Excused
  <2>5. \A r \in Photo : Accounted(r) => Accounted(r)'
    BY <2>1, <2>2, <2>4 DEF Accounted
  <2> QED
    BY <1>1, <2>1, <2>3, <2>5
(* A purge of t deletes what it deletes, and either is queued again or      *)
(* leaves a note of the rest.                                               *)
<1>4. ASSUME NEW t \in purges, NEW kept, NEW missed \in SUBSET cdn, Deletes(t, kept, missed),
             kept \subseteq t.keys \cap bucket,
             \/ PurgeOver(t, kept, missed)
             \/ /\ unpurged' = unpurged /\ unflushed' = unflushed
                /\ \E again \in purges' : again.keys = t.keys
                /\ purges \ {t} \subseteq purges',
             /\ state' = state /\ webKey' = webKey /\ deriver' = deriver /\ orphaned' = orphaned
             /\ sweep' = sweep /\ account' = account /\ raced' = raced
      PROVE  ObjectsKept'
  <2>1. /\ bucket' = (bucket \ t.keys) \cup kept
        /\ cdn' = {p \in cdn : Web(p) \notin t.keys} \cup missed
    BY <1>4 DEF Deletes
  <2>2. \A r \in Photo : HasWeb(r)' => HasWeb(r)
    BY <1>4, <2>1 DEF HasWeb
  <2>3. \A r \in Photo : Accounted(r) => Accounted(r)'
    <3>1. CASE PurgeOver(t, kept, missed)
      <4>1. /\ purges' = purges \ {t} /\ unpurged' = (unpurged \ t.keys) \cup kept
            /\ unflushed' = {p \in unflushed : Web(p) \notin t.keys} \cup missed
        BY <3>1 DEF PurgeOver
      <4>2. \A o : Excused(o) /\ o \notin t.keys => Excused(o)'
        BY <1>4, <4>1 DEF Excused
      <4>3. \A o : o \in kept => Excused(o)'
        BY <4>1 DEF Excused
      <4>4. \A o : o \in bucket' => o \in kept \/ (o \in bucket /\ o \notin t.keys)
        BY <2>1
      <4>5. \A r \in Photo : r \in cdn' => r \in missed \/ (r \in cdn /\ Web(r) \notin t.keys)
        BY <2>1
      <4>6. \A r \in Photo : r \in missed \/ (r \in unflushed /\ Web(r) \notin t.keys) => r \in unflushed'
        BY <4>1
      <4> QED
        BY <4>2, <4>3, <4>4, <4>5, <4>6 DEF Accounted
    <3>2. CASE /\ unpurged' = unpurged /\ unflushed' = unflushed
               /\ \E again \in purges' : again.keys = t.keys
               /\ purges \ {t} \subseteq purges'
      <4>1. \A o : Excused(o) => Excused(o)'
        BY <1>4, <3>2 DEF Excused
      <4>2. /\ \A o : o \in bucket' => o \in bucket
            /\ \A r \in Photo : r \in cdn' => r \in cdn
        BY <1>4, <2>1
      <4> QED
        BY <3>2, <4>1, <4>2 DEF Accounted
    <3> QED
      BY <1>4, <3>1, <3>2
  <2> QED
    BY <1>1, <1>4, <2>2, <2>3
<1>5. ASSUME NEW t \in purges, PurgeDone(t)
      PROVE  ObjectsKept'
  <2>1. PICK kept \in SUBSET (t.keys \cap bucket), missed \in SUBSET {p \in cdn : Web(p) \in t.keys} :
          Deletes(t, kept, missed) /\ PurgeOver(t, kept, missed)
    BY <1>5 DEF PurgeDone
  <2>2. missed \in SUBSET cdn /\ kept \subseteq t.keys \cap bucket
    OBVIOUS
  <2>3. /\ state' = state /\ webKey' = webKey /\ deriver' = deriver /\ orphaned' = orphaned
        /\ sweep' = sweep /\ account' = account /\ raced' = raced
    BY <1>5 DEF PurgeDone
  <2> QED
    BY <1>4, <2>1, <2>2, <2>3
<1>6. ASSUME NEW t \in purges, PurgeRefused(t)
      PROVE  ObjectsKept'
  <2> DEFINE again == [t EXCEPT !.tries = t.tries + 1]
  <2>1. PICK kept \in SUBSET (t.keys \cap bucket), missed \in SUBSET {p \in cdn : Web(p) \in t.keys} :
          /\ Deletes(t, kept, missed)
          /\ IF t.tries + 1 < MaxPurges
             THEN purges' = (purges \ {t}) \cup {again} /\ unpurged' = unpurged /\ unflushed' = unflushed
             ELSE PurgeOver(t, kept, missed)
    BY <1>6 DEF PurgeRefused
  <2>2. missed \in SUBSET cdn /\ kept \subseteq t.keys \cap bucket
    OBVIOUS
  <2>3. /\ state' = state /\ webKey' = webKey /\ deriver' = deriver /\ orphaned' = orphaned
        /\ sweep' = sweep /\ account' = account /\ raced' = raced
    BY <1>6 DEF PurgeRefused
  <2>4. again.keys = t.keys
    BY DEF ObjectsInv, Task
  <2> HIDE DEF again
  <2>5. \/ PurgeOver(t, kept, missed)
        \/ /\ unpurged' = unpurged /\ unflushed' = unflushed
           /\ \E a \in purges' : a.keys = t.keys
           /\ purges \ {t} \subseteq purges'
    BY <2>1, <2>4
  <2> QED
    BY <1>4, <2>1, <2>2, <2>3, <2>5
<1>7. CASE UNCHANGED objectVars
  <2>1. /\ state' = state /\ webKey' = webKey /\ deriver' = deriver /\ bucket' = bucket
        /\ sweep' = sweep /\ account' = account /\ raced' = raced
        /\ purges' = purges /\ unpurged' = unpurged /\ cdn' = cdn
        /\ unflushed' = unflushed /\ orphaned' = orphaned
    BY <1>7 DEF objectVars, excuseVars
  <2>2. \A r \in Photo : HasWeb(r)' => HasWeb(r)
    BY <2>1 DEF HasWeb
  <2>3. \A o : Excused(o)' <=> Excused(o)
    BY <2>1 DEF Excused
  <2>4. \A r \in Photo : Accounted(r) => Accounted(r)'
    BY <2>1, <2>3 DEF Accounted
  <2> QED
    BY <1>1, <2>1, <2>2, <2>4
<1> QED
  BY <1>2, <1>3, <1>5, <1>6, <1>7

(* The invariant of keys and objects.                                       *)
THEOREM ObjectsInvariant == ObjectsSpec => []ObjectsInv
<1>1. ObjectsInv /\ [ObjectsNext]_objectVars => ObjectsInv'
  <2> SUFFICES ASSUME ObjectsInv, [ObjectsNext]_objectVars
               PROVE  ObjectsInv'
    OBVIOUS
  <2>1. ObjectsTypeOK' /\ purges' \in SUBSET Task
    BY ObjectsTyped DEF ObjectsInv
  <2>2. \/ \E d \in Deriver : \/ \E p \in Photo : DeriveRead(d, p)
                              \/ DeriveUpload(d) \/ DeriveNote(d) \/ DeriveFails(d)
        \/ \/ \E d \in Deriver : DerivePoison(d)
           \/ \E p \in Photo : OwnerDeletes(p) \/ GalleryExpires(p)
        \/ \E P \in SUBSET Photo : CascadeDelete(P)
        \/ SweepRead \/ SweepCommit \/ AccountRead \/ AccountCommit \/ RolledBack
        \/ \/ \E p \in Photo : CdnFetches(p) \/ TicketUsedAgain(p)
           \/ \E t \in purges : PurgeDone(t) \/ PurgeRefused(t)
           \/ UNCHANGED objectVars
    BY DEF ObjectsNext
  <2>3. ObjectsKept'
    BY <2>2, DerivingKeeps, SettlingKeeps, CascadeKeeps, SweepingKeeps, PurgingKeeps
  <2> QED
    BY <2>1, <2>3 DEF ObjectsInv, ObjectsKept
<1> QED
  BY <1>1, ObjectsStart, PTL DEF ObjectsSpec

(* Of a photo that failed, or that its owner, the hard delete or the        *)
(* account's deletion took, nothing stays in R2 or the CDN but what the     *)
(* property excuses: for any number of photos, runs, sweeps, cascades and   *)
(* retries.                                                                 *)
THEOREM NothingStays == ObjectsSpec => []NothingLeft
BY ObjectsInvariant, ExcusedIsNothingLeft, PTL
-----------------------------------------------------------------------------
(* The sink.                                                                *)

(* Parts follow one another from the first byte to this one, and all but    *)
(* the last - or all of them - have the full size.                          *)
Tiles(s, end) ==
    /\ IF s = <<>> THEN end = 0 ELSE s[Len(s)][2] = end
    /\ \A i \in 1..Len(s) : s[i][1] = IF i = 1 THEN 1 ELSE s[i - 1][2] + 1
FullBefore(s, n) == \A i \in 1..Len(s) : i < n => s[i][2] - s[i][1] = Chunk - 1

SinkInv ==
    /\ SinkTypeOK
    /\ full => writer \in {"writing", "footer"} /\ written - flushed >= Chunk
    /\ writer = "writing" => Tiles(parts, flushed) /\ FullBefore(parts, Len(parts) + 1)
    /\ writer = "done" => object # NoObject
    /\ object # NoObject =>
        /\ writer \in {"done", "failed"}
        /\ Tiles(object, written) /\ FullBefore(object, Len(object))

(* The invariant says of every object what the property asks.             *)
LEMMA SinkInvMeans == SinkInv => UploadWhole
<1> SUFFICES ASSUME SinkInv, object # NoObject
             PROVE  /\ object[Len(object)][2] = written
                    /\ \A i \in DOMAIN object :
                        /\ object[i][1] = IF i = 1 THEN 1 ELSE object[i - 1][2] + 1
                        /\ i < Len(object) => object[i][2] - object[i][1] = Chunk - 1
  BY DEF SinkInv, UploadWhole
<1>1. DOMAIN object = 1..Len(object)
  BY LenProperties DEF SinkInv, SinkTypeOK
<1>2. Tiles(object, written) /\ FullBefore(object, Len(object)) /\ object # <<>>
  BY DEF SinkInv, NoObject
<1> QED
  BY <1>1, <1>2 DEF Tiles, FullBefore

(* One more part, which begins where the parts so far end.                  *)
LEMMA TilesGrow ==
    ASSUME NEW s \in Seq(Intervals), NEW a \in Int, NEW b \in Int, <<a + 1, b>> \in Intervals,
           Tiles(s, a), FullBefore(s, Len(s) + 1),
           NEW t, t = Append(s, <<a + 1, b>>)
    PROVE  /\ t \in Seq(Intervals) /\ Len(t) = Len(s) + 1 /\ t # <<>>
           /\ Tiles(t, b) /\ FullBefore(t, Len(t))
           /\ b = a + Chunk => FullBefore(t, Len(t) + 1)
<1> DEFINE x == <<a + 1, b>>
<1>1. x[1] = a + 1 /\ x[2] = b
  OBVIOUS
<1> HIDE DEF x
<1>2. t = Append(s, x) /\ x \in Intervals
  BY DEF x
<1>3. Len(s) \in Nat /\ t \in Seq(Intervals) /\ Len(t) = Len(s) + 1
      /\ \A i \in 1..Len(s) : t[i] = s[i]
      /\ t[Len(s) + 1] = x
  BY <1>2
<1>4. t # <<>>
  BY <1>3
<1>5. Tiles(t, b)
  <2>1. t[Len(t)][2] = b
    BY <1>1, <1>3
  <2>2. t[Len(t)][1] = IF Len(t) = 1 THEN 1 ELSE t[Len(t) - 1][2] + 1
    <3>1. CASE s = <<>>
      BY <1>1, <1>3, <3>1 DEF Tiles
    <3>2. CASE s # <<>>
      <4>1. Len(s) \in 1..Len(s) /\ s[Len(s)][2] = a
        BY <1>3, <3>2, EmptySeq DEF Tiles
      <4> QED
        BY <1>1, <1>3, <4>1
    <3> QED
      BY <3>1, <3>2
  <2>3. ASSUME NEW i \in 1..Len(s)
        PROVE  t[i][1] = IF i = 1 THEN 1 ELSE t[i - 1][2] + 1
    BY <1>3, <2>3 DEF Tiles
  <2> QED
    BY <1>3, <1>4, <2>1, <2>2, <2>3 DEF Tiles
<1>6. FullBefore(t, Len(t))
  BY <1>3 DEF FullBefore
<1>7. b = a + Chunk => FullBefore(t, Len(t) + 1)
  BY <1>1, <1>3, SinkAssumption DEF FullBefore
<1> QED
  BY <1>3, <1>4, <1>5, <1>6, <1>7

(* The first state is one of the invariant's.                               *)
LEMMA SinkStarts == SinkInit => SinkInv
<1> SUFFICES ASSUME SinkInit
             PROVE  SinkInv
  OBVIOUS
<1>1. /\ upload = "open" /\ written = 0 /\ flushed = 0 /\ parts = <<>> /\ writer = "writing"
      /\ object = <<>> /\ faults = 0
  BY DEF SinkInit, NoObject
<1>2. full = FALSE
  BY DEF SinkInit
<1>3. <<>> \in Seq(Intervals) /\ Len(<<>>) = 0
  BY EmptySeq
<1>4. Len(parts) \in 0..MaxParts /\ 0 \in 0..MaxStream /\ 0 \in 0..0 /\ 0 \in 0..MaxRefusals
  BY <1>1, <1>3, SinkAssumption
<1>5. full \in BOOLEAN
  BY <1>2
<1>6. SinkTypeOK
  <2>1. Len(parts) <= MaxParts
    BY <1>1, <1>3, SinkAssumption
  <2> QED
    BY <1>1, <1>3, <1>4, <1>5, <2>1 DEF SinkTypeOK
<1>7. Tiles(parts, flushed) /\ FullBefore(parts, Len(parts) + 1)
  BY <1>1, <1>3 DEF Tiles, FullBefore
<1> QED
  BY <1>1, <1>2, <1>6, <1>7 DEF SinkInv, NoObject

(* Every step of the sink or of its user keeps it.                          *)
LEMMA SinkKeeps == SinkInv /\ [SinkNext]_sinkVars => SinkInv'
<1> SUFFICES ASSUME SinkInv, [SinkNext]_sinkVars
             PROVE  SinkInv'
  OBVIOUS
<1> USE SinkAssumption
<1>0. SinkTypeOK
  BY DEF SinkInv
<1>1. ASSUME NEW n \in 1..(2 * Chunk), Write(n)
      PROVE  SinkInv'
  <2>1. /\ writer \in {"writing", "footer"} /\ written + n <= MaxStream /\ written' = written + n
        /\ full' = (written - flushed + n >= Chunk)
        /\ writer' = (IF writer = "footer" /\ ~full' THEN "failed" ELSE writer)
        /\ upload' = upload /\ flushed' = flushed /\ parts' = parts /\ object' = object
        /\ faults' = faults
    BY <1>1 DEF Write, Buffered
  <2>2. object = NoObject
    BY <2>1 DEF SinkInv
  <2>3. SinkTypeOK'
    <3>1. written' \in 0..MaxStream /\ flushed' \in 0..written'
      BY <1>0, <2>1 DEF SinkTypeOK
    <3>2. full' \in BOOLEAN
      BY <2>1
    <3>3. writer' \in {"writing", "footer", "done", "failed"}
      BY <1>0, <2>1 DEF SinkTypeOK
    <3> QED
      BY <1>0, <2>1, <3>1, <3>2, <3>3 DEF SinkTypeOK
  <2>4. full' => writer' \in {"writing", "footer"} /\ written' - flushed' >= Chunk
    <3>1. SUFFICES ASSUME full'
                   PROVE  writer' \in {"writing", "footer"} /\ written' - flushed' >= Chunk
      OBVIOUS
    <3>2. written - flushed + n >= Chunk
      BY <2>1, <3>1
    <3>3. written' - flushed' = written - flushed + n
      BY <1>0, <2>1 DEF SinkTypeOK
    <3>4. writer' = writer
      BY <2>1, <3>1
    <3> QED
      BY <2>1, <3>2, <3>3, <3>4
  <2>5. writer' = "writing" => writer = "writing"
    BY <2>1
  <2>6. writer' # "done"
    BY <2>1
  <2> QED
    BY <2>1, <2>2, <2>3, <2>4, <2>5, <2>6 DEF SinkInv
<1>2. CASE FlushChunk
  <2>1. full /\ flushed' = flushed + Chunk /\ upload' = upload /\ written' = written
        /\ object' = object
    BY <1>2 DEF FlushChunk
  <2>2. writer \in {"writing", "footer"} /\ written - flushed >= Chunk /\ object = NoObject
    BY <2>1 DEF SinkInv
  <2>3. flushed' \in 0..written /\ flushed \in Nat /\ written \in 0..MaxStream
    BY <1>0, <2>1, <2>2 DEF SinkTypeOK
  <2>4. CASE /\ CanAnswer /\ parts' = Append(parts, <<flushed + 1, flushed'>>)
             /\ full' = (written - flushed' >= Chunk)
             /\ writer' = writer /\ faults' = faults
    <3> DEFINE b == flushed'
    <3>1. b \in Int /\ <<flushed + 1, b>> \in Intervals
      BY <2>1, <2>3 DEF Intervals
    <3>2. parts' = Append(parts, <<flushed + 1, b>>) /\ b = flushed + Chunk
      BY <2>1, <2>4
    <3>3. parts \in Seq(Intervals) /\ Len(parts) < MaxParts
      BY <1>0, <2>4 DEF SinkTypeOK, CanAnswer
    <3> HIDE DEF b
    <3>4. parts' \in Seq(Intervals) /\ Len(parts') = Len(parts) + 1
      BY <3>1, <3>2, <3>3
    <3>5. writer = "writing" => Tiles(parts', b) /\ FullBefore(parts', Len(parts') + 1)
      <4> SUFFICES ASSUME writer = "writing"
                   PROVE  Tiles(parts', b) /\ FullBefore(parts', Len(parts') + 1)
        OBVIOUS
      <4>1. PICK s, t, a, e : s = parts /\ t = parts' /\ a = flushed /\ e = b
        OBVIOUS
      <4>2. Tiles(s, a) /\ FullBefore(s, Len(s) + 1)
        BY <4>1 DEF SinkInv
      <4>3. s \in Seq(Intervals) /\ a \in Int /\ e \in Int /\ <<a + 1, e>> \in Intervals
            /\ t = Append(s, <<a + 1, e>>) /\ e = a + Chunk
        BY <2>3, <3>1, <3>2, <3>3, <4>1
      <4>4. Tiles(t, e) /\ FullBefore(t, Len(t) + 1)
        BY <4>2, <4>3, TilesGrow
      <4> QED
        BY <4>1, <4>4
    <3>6. Len(parts') <= MaxParts
      BY <3>3, <3>4
    <3>7. SinkTypeOK'
      <4>1. full' \in BOOLEAN
        BY <2>4
      <4>2. faults' \in 0..MaxRefusals /\ writer' \in {"writing", "footer", "done", "failed"}
        BY <1>0, <2>4 DEF SinkTypeOK
      <4>3. flushed' \in 0..written'
        BY <2>1, <2>3
      <4> QED
        BY <1>0, <2>1, <3>4, <3>6, <4>1, <4>2, <4>3 DEF SinkTypeOK
    <3>8. full' => writer' \in {"writing", "footer"} /\ written' - flushed' >= Chunk
      BY <2>1, <2>2, <2>4
    <3> QED
      BY <2>1, <2>2, <2>4, <3>5, <3>7, <3>8 DEF SinkInv, b
  <2>5. CASE /\ CanFail /\ Fault /\ parts' = parts /\ full' = FALSE
             /\ writer' \in {"footer", "failed"}
    <3>1. faults' \in 0..MaxRefusals
      BY <1>0, <2>5 DEF SinkTypeOK, CanFail, Fault
    <3>2. SinkTypeOK'
      <4>1. full' \in BOOLEAN
        BY <2>5
      <4>2. writer' \in {"writing", "footer", "done", "failed"}
        BY <2>5
      <4>3. flushed' \in 0..written'
        BY <2>1, <2>3
      <4> QED
        BY <1>0, <2>1, <2>5, <3>1, <4>1, <4>2, <4>3 DEF SinkTypeOK
    <3>3. ~full' /\ writer' # "writing" /\ writer' # "done" /\ object' = NoObject
      BY <2>1, <2>2, <2>5
    <3> QED
      BY <3>2, <3>3 DEF SinkInv, NoObject
  <2> QED
    BY <1>2, <2>2, <2>4, <2>5 DEF FlushChunk
<1>3. CASE SourceFails
  <2>1. /\ ~full /\ writer = "writing" /\ writer' \in {"footer", "failed"}
        /\ upload' = upload /\ written' = written /\ flushed' = flushed /\ parts' = parts
        /\ full' = full /\ object' = object /\ faults' = faults
    BY <1>3 DEF SourceFails
  <2>2. SinkTypeOK'
    BY <1>0, <2>1 DEF SinkTypeOK
  <2>3. object = NoObject
    BY <2>1 DEF SinkInv
  <2> QED
    BY <2>1, <2>2, <2>3 DEF SinkInv, NoObject
<1>4. CASE Close
  <2>1. /\ writer = "writing" /\ ~full /\ flushed' = written /\ written' = written /\ full' = full
    BY <1>4 DEF Close
  <2>2. /\ parts \in Seq(Intervals) /\ Len(parts) \in Nat
        /\ flushed \in Nat /\ written \in 0..MaxStream /\ flushed <= written
    BY <1>0 DEF SinkTypeOK
  <2>3. Tiles(parts, flushed) /\ FullBefore(parts, Len(parts) + 1)
    BY <2>1 DEF SinkInv
  <2> DEFINE last == IF Buffered > 0 \/ parts = <<>>
                     THEN <<<<flushed + 1, written>>>> ELSE <<>>
  <2>4. CASE (CanAnswer \/ last = <<>>) /\ object' = parts \o last /\ parts' = object'
    <3>1. /\ parts' \in Seq(Intervals) /\ parts' # <<>> /\ Len(parts') <= MaxParts
          /\ Tiles(parts', written) /\ FullBefore(parts', Len(parts'))
      <4>1. CASE Buffered > 0 \/ parts = <<>>
        <5>1. <<flushed + 1, written>> \in Intervals
          BY <2>2 DEF Intervals
        <5> DEFINE x == <<flushed + 1, written>>
        <5>2. last = <<x>> /\ last # <<>>
          BY <4>1
        <5>3. parts' = Append(parts, x)
          <6>1. parts' = parts \o <<x>>
            BY <2>4, <5>2
          <6> HIDE DEF x
          <6> QED
            BY <2>2, <5>1, <6>1 DEF x
        <5>4. Len(parts) < MaxParts
          BY <2>4, <5>2 DEF CanAnswer
        <5> HIDE DEF last
        <5>5. /\ parts' \in Seq(Intervals) /\ Len(parts') = Len(parts) + 1 /\ parts' # <<>>
              /\ Tiles(parts', written) /\ FullBefore(parts', Len(parts'))
          <6>1. PICK s, t, a, e : s = parts /\ t = parts' /\ a = flushed /\ e = written
            OBVIOUS
          <6>2. Tiles(s, a) /\ FullBefore(s, Len(s) + 1)
            BY <2>3, <6>1
          <6>3. s \in Seq(Intervals) /\ a \in Int /\ e \in Int /\ <<a + 1, e>> \in Intervals
                /\ t = Append(s, <<a + 1, e>>)
            BY <2>2, <5>1, <5>3, <6>1
          <6>4. t \in Seq(Intervals) /\ Len(t) = Len(s) + 1
            BY <6>2, <6>3, TilesGrow
          <6>5. t # <<>>
            BY <6>2, <6>3, TilesGrow
          <6>6. Tiles(t, e)
            BY <6>2, <6>3, TilesGrow
          <6>7. FullBefore(t, Len(t))
            BY <6>2, <6>3, TilesGrow
          <6> QED
            BY <6>1, <6>4, <6>5, <6>6, <6>7
        <5> QED
          BY <2>2, <5>4, <5>5
      <4>2. CASE ~(Buffered > 0 \/ parts = <<>>)
        <5>1. last = <<>> /\ flushed = written
          BY <2>2, <4>2 DEF Buffered
        <5>2. parts' = parts
          BY <2>2, <2>4, <5>1, ConcatEmptySeq
        <5>3. FullBefore(parts, Len(parts))
          BY <2>2, <2>3 DEF FullBefore
        <5>4. Len(parts) <= MaxParts
          BY <1>0 DEF SinkTypeOK
        <5> QED
          BY <2>2, <2>3, <4>2, <5>1, <5>2, <5>3, <5>4
      <4> QED
        BY <4>1, <4>2
    <3>2. /\ writer' \in {"done", "failed"} /\ upload' \in {"completed", "aborted"}
          /\ faults' \in 0..MaxRefusals
      BY <1>0, <1>4, <2>4 DEF Close, SinkTypeOK, CanFail, Fault
    <3> HIDE DEF last
    <3>3. SinkTypeOK'
      <4>1. flushed' \in 0..written' /\ written' \in 0..MaxStream
        BY <2>1, <2>2
      <4>2. full' \in BOOLEAN
        BY <1>0, <2>1 DEF SinkTypeOK
      <4>3. object' \in Seq(Intervals) /\ parts' \in Seq(Intervals) /\ Len(parts') <= MaxParts
        BY <2>4, <3>1
      <4>4. writer' \in {"writing", "footer", "done", "failed"}
            /\ upload' \in {"open", "completed", "aborted"}
        BY <3>2
      <4> QED
        BY <3>2, <4>1, <4>2, <4>3, <4>4 DEF SinkTypeOK
    <3>4. ~full' /\ writer' # "writing" /\ object' # NoObject
      BY <2>1, <2>4, <3>1, <3>2 DEF NoObject
    <3> QED
      BY <2>1, <2>4, <3>1, <3>2, <3>3, <3>4 DEF SinkInv
  <2>5. CASE /\ CanFail /\ Fault /\ writer' = "failed" /\ upload' = "aborted"
             /\ object' = object /\ parts' = parts
    <3>1. faults' \in 0..MaxRefusals
      BY <1>0, <2>5 DEF SinkTypeOK, CanFail, Fault
    <3>2. SinkTypeOK'
      <4>1. full' \in BOOLEAN
        BY <1>0, <2>1 DEF SinkTypeOK
      <4>2. flushed' \in 0..written' /\ written' \in 0..MaxStream
        BY <2>1, <2>2
      <4> QED
        BY <1>0, <2>5, <3>1, <4>1, <4>2 DEF SinkTypeOK
    <3>3. object = NoObject
      BY <2>1 DEF SinkInv
    <3> QED
      BY <2>1, <2>5, <3>2, <3>3 DEF SinkInv
  <2> QED
    BY <1>4, <2>4, <2>5 DEF Close
<1>5. CASE Abort
  <2>1. /\ upload' = "aborted" /\ writer' = writer /\ full' = full
        /\ written' = written /\ flushed' = flushed /\ parts' = parts
        /\ object' = object /\ faults' = faults
    BY <1>5 DEF Abort
  <2>2. SinkTypeOK'
    BY <1>0, <2>1 DEF SinkTypeOK
  <2> QED
    BY <2>1, <2>2 DEF SinkInv, NoObject
<1>6. CASE UNCHANGED sinkVars
  <2>1. /\ upload' = upload /\ writer' = writer /\ full' = full
        /\ written' = written /\ flushed' = flushed /\ parts' = parts
        /\ object' = object /\ faults' = faults
    BY <1>6 DEF sinkVars
  <2>2. SinkTypeOK'
    BY <1>0, <2>1 DEF SinkTypeOK
  <2> QED
    BY <2>1, <2>2 DEF SinkInv, NoObject
<1> QED
  BY <1>1, <1>2, <1>3, <1>4, <1>5, <1>6 DEF SinkNext

(* The invariant.                                                           *)
THEOREM SinkInvariant == SinkSpec => []SinkInv
BY SinkStarts, SinkKeeps, PTL DEF SinkSpec

(* UploadWhole, for every size of chunk and stream.                        *)
THEOREM UploadsAreWhole == SinkSpec => []UploadWhole
<1>1. SinkSpec => []SinkInv
  BY SinkInvariant
<1> QED
  BY <1>1, SinkInvMeans, PTL
-----------------------------------------------------------------------------
(* Numbers.                                                                 *)

(* A set of natural numbers has a least one.                                *)
LEMMA LeastNumber ==
    ASSUME NEW T, T \subseteq Nat, T # {}
    PROVE  \E m \in T : \A n \in T : m <= n
<1>1. PICK below : /\ IsWellFoundedOn(below, Nat)
                    /\ \A i, k \in Nat : <<i, k>> \in below <=> i < k
  <2>1. \A i, k \in Nat : <<i, k>> \in OpToRel(<, Nat) <=> i < k
    BY DEF OpToRel
  <2> QED
    BY <2>1, NatLessThanWellFounded
<1>2. \E m \in T : \A n \in T : ~(<<n, m>> \in below)
  <2>1. T \subseteq Nat /\ T # {} /\ IsWellFoundedOn(below, Nat)
    BY <1>1
  <2> QED
    BY <2>1, WFMin, Zenon
<1>3. PICK m \in T : \A n \in T : ~(<<n, m>> \in below)
  BY <1>2
<1>4. \A n \in T : m \in Nat /\ n \in Nat /\ ~(n < m)
  BY <1>1, <1>3
<1> QED
  BY <1>3, <1>4
-----------------------------------------------------------------------------
(* The schedule of grouping.                                                *)

(* The queued tasks are records of these two fields.                        *)
GroupingTasks == grouping \in SUBSET [wait : 0..Debounce, tries : 0..MaxGroupings]

(* A lock that was not taken in vain has its task queued for when it is     *)
(* free, or about to be queued.                                             *)
LockHasTask ==
    debounce > 0 /\ ~vain =>
        \/ \E h \in Hasher : hasher[h].pc = "queue"
        \/ \E t \in grouping : t.wait >= debounce

(* A grouping uses every hashed photo it used the time before, and only     *)
(* photos that had their hash.                                              *)
ReadersSeeMore ==
    /\ \A s \in grouped : shot[s] # "ready"
    /\ reader.pc = "read" =>
        /\ \A s \in reader.shots : shot[s] # "ready"
        /\ \A s \in grouped : shot[s] = "hashed" => s \in reader.shots

BurstInv == BurstTypeOK /\ GroupingTasks /\ LockHasTask /\ ReadersSeeMore /\ BurstsCatchUp

(* The initial state.                                                       *)
LEMMA BurstStarts == BurstInit => BurstInv
<1> SUFFICES ASSUME BurstInit
             PROVE  BurstInv
  OBVIOUS
<1>1. BurstTypeOK
  <2>1. /\ shot \in [Shot -> {"ready", "hashed", "gone"}]
        /\ hashing \in [Shot -> 0..MaxHashings]
        /\ hasher \in [Hasher -> {NotHashing} \cup HashPcs]
        /\ debounce \in 0..Debounce
    BY BurstAssumption DEF BurstInit
  <2>2. grouping = {} /\ reader = NoReader /\ grouped = {} /\ forgotten = {} /\ vain \in BOOLEAN
    BY DEF BurstInit
  <2> QED
    BY <2>1, <2>2, Zenon DEF BurstTypeOK
<1>2. GroupingTasks /\ LockHasTask
  <2>1. grouping = {} /\ debounce = 0
    BY DEF BurstInit
  <2> QED
    BY <2>1 DEF GroupingTasks, LockHasTask
<1>3. \A s \in Shot : shot[s] = "ready"
  BY DEF BurstInit
<1>4. ReadersSeeMore /\ BurstsCatchUp
  BY <1>3 DEF BurstInit, ReadersSeeMore, BurstsCatchUp, Ungrouped, NoReader
<1> QED
  BY <1>1, <1>2, <1>4 DEF BurstInv

(* The runs that hash a photo.                                              *)
LEMMA HashingKeeps ==
    ASSUME BurstInv, NEW h \in Hasher,
           \/ \E s \in Shot : HashStart(h, s)
           \/ HashWrite(h) \/ Ask(h) \/ QueueGrouping(h) \/ HashFails(h)
    PROVE  BurstInv'
<1> USE BurstAssumption
<1> USE DEF BurstInv
<1>1. ASSUME NEW s \in Shot, HashStart(h, s)
      PROVE  BurstInv'
  <2>1. hasher[h] = NotHashing /\ hashing[s] \in 1..MaxHashings
    BY <1>1 DEF HashStart, BurstTypeOK
  <2>2. \/ hasher' = hasher
        \/ hasher' = [hasher EXCEPT ![h] = [pc |-> "hash", shot |-> s]]
    BY <1>1 DEF HashStart
  <2>3. BurstTypeOK'
    BY <1>1, <2>1, <2>2 DEF HashStart, BurstTypeOK, HashPcs
  <2>4. \A k \in Hasher : hasher[k].pc \in {"queue", "ask"} => hasher'[k] = hasher[k]
    BY <2>1, <2>2 DEF BurstTypeOK, NotHashing
  <2> QED
    BY <1>1, <2>3, <2>4
    DEF HashStart, GroupingTasks, LockHasTask, ReadersSeeMore, BurstsCatchUp, Ungrouped
<1> DEFINE s == hasher[h].shot
<1>2. CASE HashWrite(h)
  <2>1. hasher[h] \in HashPcs /\ hasher[h].pc = "hash" /\ s \in Shot
    BY <1>2 DEF HashWrite, BurstTypeOK, HashPcs, NotHashing
  <2>2. hasher' = [hasher EXCEPT ![h] = [hasher[h] EXCEPT !.pc = "ask"]]
    BY <1>2 DEF HashWrite
  <2>3. [hasher[h] EXCEPT !.pc = "ask"] \in HashPcs
    BY <2>1 DEF HashPcs
  <2>4. hasher'[h].pc = "ask" /\ hasher'[h].shot = s
    BY <2>1, <2>2 DEF BurstTypeOK, HashPcs
  <2>5. BurstTypeOK'
    <3>1. hasher' \in [Hasher -> {NotHashing} \cup HashPcs]
      BY <2>2, <2>3 DEF BurstTypeOK
    <3>2. shot' \in [Shot -> {"ready", "hashed", "gone"}]
      BY <1>2 DEF HashWrite, BurstTypeOK
    <3> QED
      BY <1>2, <3>1, <3>2 DEF HashWrite, BurstTypeOK
  <2>6. \A k \in Hasher : hasher[k].pc \in {"queue", "ask"} => hasher'[k] = hasher[k]
    BY <2>1, <2>2 DEF BurstTypeOK
  <2> HIDE DEF s
  <2>7. \A z \in Shot : shot'[z] # shot[z] => z = s /\ shot[z] = "ready" /\ shot'[z] = "hashed"
    BY <1>2 DEF HashWrite, s, BurstTypeOK
  <2>8. LockHasTask'
    BY <1>2, <2>6 DEF HashWrite, LockHasTask
  <2>9. ReadersSeeMore'
    BY <1>2, <2>7 DEF HashWrite, ReadersSeeMore, BurstTypeOK
  <2>10. BurstsCatchUp'
    BY <1>2, <2>4, <2>6, <2>7 DEF HashWrite, BurstsCatchUp, Ungrouped
  <2> QED
    BY <1>2, <2>5, <2>8, <2>9, <2>10 DEF HashWrite, GroupingTasks
<1>3. CASE Ask(h)
  <2>1. hasher[h] \in HashPcs /\ hasher[h].pc = "ask" /\ s \in Shot
    BY <1>3 DEF Ask, BurstTypeOK, HashPcs, NotHashing
  <2>2. CASE debounce = 0
    <3>1. hasher' = [hasher EXCEPT ![h] = [hasher[h] EXCEPT !.pc = "queue"]]
          /\ debounce' = Debounce /\ vain' = FALSE /\ forgotten' = forgotten
      BY <1>3, <2>2 DEF Ask
    <3>2. [hasher[h] EXCEPT !.pc = "queue"] \in HashPcs
      BY <2>1 DEF HashPcs
    <3>3. hasher'[h].pc = "queue"
      BY <2>1, <3>1 DEF BurstTypeOK, HashPcs
    <3>4. BurstTypeOK'
      <4>1. hasher' \in [Hasher -> {NotHashing} \cup HashPcs]
        BY <3>1, <3>2 DEF BurstTypeOK
      <4>2. debounce' \in 0..Debounce
        BY <3>1
      <4>3. vain' \in BOOLEAN
        BY <3>1
      <4>4. forgotten' \in SUBSET Shot
        BY <3>1 DEF BurstTypeOK
      <4>5. UNCHANGED <<shot, hashing, grouping, reader, grouped>>
        BY <1>3 DEF Ask
      <4>6. /\ shot' \in [Shot -> {"ready", "hashed", "gone"}]
            /\ hashing' \in [Shot -> 0..MaxHashings]
            /\ grouped' \in SUBSET Shot
            /\ \A t \in grouping' : t.wait \in 0..Debounce /\ t.tries \in 0..MaxGroupings
        BY <4>5 DEF BurstTypeOK
      <4>7. reader' \in {NoReader} \cup [pc : {"read"}, shots : SUBSET Shot, tries : 0..MaxGroupings]
        BY <4>5 DEF BurstTypeOK
      <4> QED
        BY <4>1, <4>2, <4>3, <4>4, <4>6, <4>7, Zenon DEF BurstTypeOK
    <3> QED
      BY <1>3, <3>1, <3>3, <3>4
      DEF Ask, GroupingTasks, LockHasTask, ReadersSeeMore, BurstsCatchUp, Ungrouped
  <2>3. CASE debounce # 0
    <3>1. hasher' = [hasher EXCEPT ![h] = NotHashing] /\ debounce' = debounce /\ vain' = vain
          /\ forgotten' = IF vain THEN forgotten \cup ({s} \cap Ungrouped) ELSE forgotten
      BY <1>3, <2>3 DEF Ask
    <3>2. BurstTypeOK'
      BY <1>3, <2>1, <3>1 DEF Ask, BurstTypeOK
    <3> HIDE DEF s
    <3>3. \A k \in Hasher : k # h => hasher'[k] = hasher[k]
      BY <3>1 DEF BurstTypeOK
    <3>4. LockHasTask'
      BY <1>3, <2>1, <3>1, <3>3 DEF Ask, LockHasTask
    <3>5. ~vain => \/ grouping # {}
                   \/ \E k \in Hasher : k # h /\ hasher[k].pc = "queue"
      BY <2>1, <2>3 DEF LockHasTask, BurstTypeOK
    <3>6. BurstsCatchUp'
      BY <1>3, <2>1, <3>1, <3>3, <3>5 DEF Ask, BurstsCatchUp, Ungrouped, s
    <3> QED
      BY <1>3, <3>1, <3>2, <3>4, <3>6 DEF Ask, GroupingTasks, ReadersSeeMore
  <2> QED
    BY <2>2, <2>3
<1>4. CASE QueueGrouping(h)
  <2>1. hasher[h].pc = "queue" /\ hasher' = [hasher EXCEPT ![h] = NotHashing]
        /\ grouping' = grouping \cup {[wait |-> Debounce, tries |-> 0]}
    BY <1>4 DEF QueueGrouping
  <2>2. \A k \in Hasher : k # h => hasher'[k] = hasher[k]
    BY <2>1 DEF BurstTypeOK
  <2>3. [wait |-> Debounce, tries |-> 0] \in [wait : 0..Debounce, tries : 0..MaxGroupings]
    OBVIOUS
  <2>4. GroupingTasks'
    BY <2>1, <2>3 DEF GroupingTasks
  <2>5. BurstTypeOK'
    BY <1>4, <2>1, <2>4 DEF QueueGrouping, BurstTypeOK, GroupingTasks
  <2>6. \E t \in grouping' : t.wait >= debounce
    <3> DEFINE new == [wait |-> Debounce, tries |-> 0]
    <3>1. new.wait = Debounce /\ Debounce >= debounce
      BY DEF BurstTypeOK
    <3> HIDE DEF new
    <3>2. new \in grouping'
      BY <2>1 DEF new
    <3> QED
      BY <3>1, <3>2
  <2>7. grouping' # {} /\ debounce' = debounce
    BY <1>4, <2>1 DEF QueueGrouping
  <2>8. LockHasTask'
    BY <2>6, <2>7 DEF LockHasTask
  <2>9. BurstsCatchUp'
    BY <2>7 DEF BurstsCatchUp
  <2> QED
    BY <1>4, <2>4, <2>5, <2>8, <2>9 DEF QueueGrouping, ReadersSeeMore
<1>5. CASE HashFails(h)
  <2>1. hasher[h] \in HashPcs /\ hasher' = [hasher EXCEPT ![h] = NotHashing]
    BY <1>5 DEF HashFails, BurstTypeOK
  <2>2. \A k \in Hasher : k # h => hasher'[k] = hasher[k]
    BY <2>1 DEF BurstTypeOK
  <2>3. BurstTypeOK'
    BY <1>5, <2>1 DEF HashFails, BurstTypeOK, Ungrouped, HashPcs
  <2>4. LockHasTask'
    BY <1>5, <2>2 DEF HashFails, LockHasTask
  <2>5. BurstsCatchUp'
    BY <1>5, <2>1, <2>2 DEF HashFails, BurstsCatchUp, Ungrouped, HashPcs
  <2> QED
    BY <1>5, <2>3, <2>4, <2>5 DEF HashFails, GroupingTasks, ReadersSeeMore
<1> QED
  BY <1>1, <1>2, <1>3, <1>4, <1>5

(* The grouping, deletions and time.                                        *)
LEMMA GroupingKeeps ==
    ASSUME BurstInv,
           \/ \E t \in grouping : GroupRead(t)
           \/ GroupWrite \/ GroupFails \/ Moment
           \/ \E s \in Shot : ShotDeleted(s)
    PROVE  BurstInv'
<1> USE BurstAssumption
<1> USE DEF BurstInv
<1>1. ASSUME NEW t \in grouping, GroupRead(t)
      PROVE  BurstInv'
  <2>1. t.wait = 0 /\ reader = NoReader /\ grouping' = grouping \ {t}
        /\ reader' = [pc |-> "read", tries |-> t.tries, shots |-> {s \in Shot : shot[s] = "hashed"}]
    BY <1>1 DEF GroupRead
  <2>2. t.tries \in 0..MaxGroupings
    BY DEF GroupingTasks
  <2>3. BurstTypeOK'
    BY <1>1, <2>1, <2>2 DEF GroupRead, BurstTypeOK
  <2>4. LockHasTask'
    BY <1>1, <2>1 DEF GroupRead, LockHasTask, BurstTypeOK
  <2>5. reader'.pc = "read" /\ reader'.shots = {s \in Shot : shot[s] = "hashed"}
    BY <2>1
  <2>6. ReadersSeeMore'
    BY <1>1, <2>5 DEF GroupRead, ReadersSeeMore, BurstTypeOK
  <2>7. BurstsCatchUp'
    BY <1>1, <2>5 DEF GroupRead, BurstsCatchUp, Ungrouped
  <2> QED
    BY <2>1, <2>3, <2>4, <2>6, <2>7 DEF GroupingTasks
<1>2. CASE GroupWrite
  <2>1. reader \in [pc : {"read"}, shots : SUBSET Shot, tries : 0..MaxGroupings]
    BY <1>2 DEF GroupWrite, BurstTypeOK, NoReader
  <2>2. reader.pc = "read" /\ reader.shots \in SUBSET Shot
    BY <2>1
  <2>3. BurstTypeOK'
    BY <1>2, <2>2 DEF GroupWrite, BurstTypeOK
  <2>4. ReadersSeeMore'
    BY <1>2, <2>2 DEF GroupWrite, ReadersSeeMore, NoReader
  <2>5. BurstsCatchUp'
    BY <1>2, <2>2 DEF GroupWrite, ReadersSeeMore, BurstsCatchUp, Ungrouped
  <2> QED
    BY <1>2, <2>3, <2>4, <2>5 DEF GroupWrite, GroupingTasks, LockHasTask
<1>3. CASE GroupFails
  <2>1. reader \in [pc : {"read"}, shots : SUBSET Shot, tries : 0..MaxGroupings]
    BY <1>3 DEF GroupFails, BurstTypeOK, NoReader
  <2>2. reader' = NoReader
        /\ shot' = shot /\ hashing' = hashing /\ hasher' = hasher /\ debounce' = debounce
        /\ grouped' = grouped /\ vain' = vain
    BY <1>3 DEF GroupFails
  <2>3. ReadersSeeMore'
    BY <2>2 DEF ReadersSeeMore, NoReader
  <2>4. CASE reader.tries + 1 < MaxGroupings
    <3> DEFINE again == [wait |-> Debounce, tries |-> reader.tries + 1]
    <3>1. grouping' = grouping \cup {again} /\ forgotten' = forgotten
      BY <1>3, <2>4 DEF GroupFails
    <3>2. again \in [wait : 0..Debounce, tries : 0..MaxGroupings]
      BY <2>1, <2>4
    <3> HIDE DEF again
    <3>3. GroupingTasks'
      BY <3>1, <3>2 DEF GroupingTasks
    <3>4. BurstTypeOK'
      BY <2>2, <3>1, <3>3 DEF BurstTypeOK, GroupingTasks
    <3>5. LockHasTask'
      BY <2>2, <3>1 DEF LockHasTask
    <3>6. BurstsCatchUp'
      BY <2>2, <3>1 DEF BurstsCatchUp, Ungrouped
    <3> QED
      BY <2>3, <3>3, <3>4, <3>5, <3>6
  <2>5. CASE ~(reader.tries + 1 < MaxGroupings)
    <3>1. grouping' = grouping /\ forgotten' = forgotten \cup Ungrouped
      BY <1>3, <2>5 DEF GroupFails
    <3> QED
      BY <2>2, <2>3, <3>1
      DEF BurstTypeOK, GroupingTasks, LockHasTask, BurstsCatchUp, Ungrouped
  <2> QED
    BY <2>4, <2>5
<1>4. CASE Moment
  <2> DEFINE D(n) == IF n > 0 THEN n - 1 ELSE 0
             older(t) == [t EXCEPT !.wait = D(t.wait)]
             Kept == [wait : 0..Debounce, tries : 0..MaxGroupings]
  <2>1. debounce' = D(debounce) /\ grouping' = {older(t) : t \in grouping}
    BY <1>4 DEF Moment
  <2>2. \A t \in Kept : older(t) \in Kept /\ older(t).wait = D(t.wait)
    OBVIOUS
  <2> HIDE DEF older, Kept
  <2>3. GroupingTasks'
    BY <2>1, <2>2 DEF GroupingTasks, Kept
  <2>4. BurstTypeOK'
    <3>1. debounce' \in 0..Debounce
      BY <2>1 DEF BurstTypeOK
    <3>2. \A t \in grouping' : t.wait \in 0..Debounce /\ t.tries \in 0..MaxGroupings
      BY <2>3 DEF GroupingTasks
    <3> QED
      BY <1>4, <3>1, <3>2 DEF Moment, BurstTypeOK
  <2>5. LockHasTask'
    <3> SUFFICES ASSUME debounce' > 0, ~vain', ~ \E h \in Hasher : hasher'[h].pc = "queue"
                 PROVE  \E t \in grouping' : t.wait >= debounce'
      BY DEF LockHasTask
    <3>1. debounce > 0 /\ debounce \in 0..Debounce
      BY <2>1 DEF BurstTypeOK
    <3>2. PICK t \in grouping : t.wait >= debounce
      BY <1>4, <3>1 DEF Moment, LockHasTask
    <3>3. older(t) \in grouping' /\ t \in Kept
      BY <2>1 DEF GroupingTasks, Kept
    <3>4. t.wait \in 0..Debounce
      BY <3>3 DEF Kept
    <3>5. older(t).wait >= debounce'
      BY <2>1, <2>2, <3>1, <3>2, <3>3, <3>4
    <3> QED
      BY <3>3, <3>5
  <2>6. grouping # {} => grouping' # {}
    BY <2>1
  <2> QED
    BY <1>4, <2>3, <2>4, <2>5, <2>6 DEF Moment, ReadersSeeMore, BurstsCatchUp, Ungrouped
<1>5. ASSUME NEW s \in Shot, ShotDeleted(s)
      PROVE  BurstInv'
  <2>1. \A z \in Shot : shot'[z] = IF z = s THEN "gone" ELSE shot[z]
    BY <1>5 DEF ShotDeleted, BurstTypeOK
  <2>2. BurstTypeOK'
    BY <1>5 DEF ShotDeleted, BurstTypeOK
  <2>3. reader.pc = "read" => reader.shots \in SUBSET Shot
    BY DEF BurstTypeOK, NoReader
  <2>4. ReadersSeeMore'
    BY <1>5, <2>1, <2>3 DEF ShotDeleted, ReadersSeeMore, BurstTypeOK
  <2> QED
    BY <1>5, <2>1, <2>2, <2>4
    DEF ShotDeleted, GroupingTasks, LockHasTask, BurstsCatchUp, Ungrouped
<1> QED
  BY <1>1, <1>2, <1>3, <1>4, <1>5

(* The invariant of the schedule.                                           *)
THEOREM BurstInvariant == BurstSpec => []BurstInv
<1>1. BurstInv /\ [BurstNext]_burstVars => BurstInv'
  <2> SUFFICES ASSUME BurstInv, [BurstNext]_burstVars
               PROVE  BurstInv'
    OBVIOUS
  <2>1. CASE UNCHANGED burstVars
    BY <2>1 DEF burstVars, BurstInv, BurstTypeOK, GroupingTasks, LockHasTask, ReadersSeeMore,
                BurstsCatchUp, Ungrouped
  <2> QED
    BY <2>1, HashingKeeps, GroupingKeeps DEF BurstNext
<1> QED
  BY <1>1, BurstStarts, PTL DEF BurstSpec

(* No hashed photo is dropped because another had asked shortly before it.  *)
THEOREM NoShotDropped == BurstSpec => []BurstsCatchUp
<1>1. BurstInv => BurstsCatchUp
  BY DEF BurstInv
<1> QED
  BY <1>1, BurstInvariant, PTL
-----------------------------------------------------------------------------
(* Groups of near photos.                                                   *)

Photos == Cardinality(Image)
RootsOf(P) == {x \in Image : P[x] = x}

(* What union-find keeps of its forest: a photo's rank is below its         *)
(* parent's, and leaves room for the roots there are.                       *)
RanksRise(P, r) == \A x \in Image : P[x] # x => r[x] < r[P[x]]
RanksBounded(P, r) == \A x \in Image : r[x] + Cardinality(RootsOf(P)) <= Photos
Forest(P, r) ==
    /\ P \in [Image -> Image] /\ r \in [Image -> Nat]
    /\ RanksRise(P, r) /\ RanksBounded(P, r)

(* The photos are finitely many.                                            *)
LEMMA PhotosFinite ==
    /\ Photos \in Nat
    /\ \A S \in SUBSET Image :
         IsFiniteSet(S) /\ Cardinality(S) \in Nat /\ Cardinality(S) <= Photos
    /\ Image # {} => Photos > 0
<1>1. IsFiniteSet(Image)
  BY GroupAssumption
<1>2. Photos \in Nat
  BY <1>1, FS_CardinalityType DEF Photos
<1>3. ASSUME NEW S \in SUBSET Image
      PROVE  IsFiniteSet(S) /\ Cardinality(S) \in Nat /\ Cardinality(S) <= Photos
  BY <1>1, FS_Subset, FS_CardinalityType DEF Photos
<1>4. ASSUME Image # {}
      PROVE  Photos # 0
  BY <1>1, <1>4, FS_EmptySet DEF Photos
<1> QED
  BY <1>2, <1>3, <1>4

(* A function on a set can be applied as often as there are photos.         *)
LEMMA Iterates ==
    ASSUME NEW T, NEW F \in [T -> T], NEW x \in T
    PROVE  \E w : /\ w \in [0..Photos -> T] /\ w[0] = x
                  /\ \A n \in 1..Photos : w[n] = F[w[n - 1]]
<1> DEFINE Goes(w, m) == /\ w \in [0..m -> T] /\ w[0] = x
                         /\ \A n \in 1..m : w[n] = F[w[n - 1]]
           none == {m \in Nat : ~ \E w : Goes(w, m)}
<1>1. none = {}
  <2> SUFFICES ASSUME none # {}
               PROVE  FALSE
    OBVIOUS
  <2>1. PICK m \in none : \A n \in none : m <= n
    <3>1. none \subseteq Nat
      OBVIOUS
    <3> HIDE DEF none
    <3> QED
      BY <3>1, LeastNumber
  <2>2. CASE m = 0
    <3> DEFINE w == [n \in 0..0 |-> x]
    <3>1. Goes(w, 0)
      <4>1. w \in [0..0 -> T] /\ w[0] = x
        OBVIOUS
      <4>2. \A n \in 1..0 : w[n] = F[w[n - 1]]
        OBVIOUS
      <4> HIDE DEF w
      <4> QED
        BY <4>1, <4>2
    <3> QED
      BY <2>1, <2>2, <3>1
  <2>3. CASE m # 0
    <3>1. m - 1 \in Nat /\ m - 1 \notin none /\ m \in Nat
      <4>1. m \in Nat
        OBVIOUS
      <4> HIDE DEF none
      <4> QED
        BY <2>1, <2>3, <4>1
    <3>2. PICK w : Goes(w, m - 1)
      BY <3>1
    <3> DEFINE v == [n \in 0..m |-> IF n = m THEN F[w[m - 1]] ELSE w[n]]
    <3>3. w \in [0..(m - 1) -> T] /\ w[0] = x /\ \A n \in 1..(m - 1) : w[n] = F[w[n - 1]]
      BY <3>2
    <3>4. v \in [0..m -> T]
      BY <3>1, <3>3
    <3>5. v[0] = x
      BY <2>3, <3>1, <3>3
    <3>6. ASSUME NEW n \in 1..m
          PROVE  v[n] = F[v[n - 1]]
      <4>1. CASE n = m
        BY <3>1, <4>1
      <4>2. CASE n # m
        <5>1. n \in 1..(m - 1) /\ n - 1 # m /\ n - 1 \in 0..m /\ n \in 0..m
          BY <3>1, <4>2
        <5> QED
          BY <3>3, <4>2, <5>1
      <4> QED
        BY <4>1, <4>2
    <3> HIDE DEF v
    <3>7. Goes(v, m)
      BY <3>4, <3>5, <3>6
    <3> QED
      BY <2>1, <3>7
  <2> QED
    BY <2>2, <2>3
<1>2. PICK w : Goes(w, Photos)
  BY <1>1, PhotosFinite
<1> QED
  BY <1>2

(* The walk to the root goes from parent to parent.                         *)
LEMMA WalkSteps ==
    ASSUME parent \in [Image -> Image], NEW x \in Image
    PROVE  /\ Walk(x)[0] = x
           /\ \A n \in 1..Photos : Walk(x)[n] = parent[Walk(x)[n - 1]]
           /\ \A n \in 0..Photos : Walk(x)[n] \in Image
<1>2. PICK w : /\ w \in [0..Photos -> Image] /\ w[0] = x
               /\ \A n \in 1..Photos : w[n] = parent[w[n - 1]]
  <2>1. PICK F \in [Image -> Image] : F = parent
    OBVIOUS
  <2> QED
    BY <2>1, Iterates
<1>3. w = [n \in 0..Photos |-> IF n = 0 THEN x ELSE parent[w[n - 1]]]
  <2>1. w \in [0..Photos -> Image] /\ w[0] = x /\ \A n \in 1..Photos : w[n] = parent[w[n - 1]]
    BY <1>2
  <2>2. \A n \in 0..Photos : w[n] = IF n = 0 THEN x ELSE parent[w[n - 1]]
    BY <2>1, PhotosFinite
  <2> QED
    BY <2>1, <2>2
<1>4. PICK s : s = Walk(x)
  OBVIOUS
<1>5. s = [n \in 0..Photos |-> IF n = 0 THEN x ELSE parent[s[n - 1]]]
  BY <1>3, <1>4 DEF Walk, Photos
<1>6. s[0] = x /\ \A n \in 1..Photos : s[n] = parent[s[n - 1]]
  <2>1. \A n \in 0..Photos : s[n] = IF n = 0 THEN x ELSE parent[s[n - 1]]
    <3>1. PICK t : t = [n \in 0..Photos |-> IF n = 0 THEN x ELSE parent[s[n - 1]]]
      OBVIOUS
    <3>2. \A n \in 0..Photos : t[n] = IF n = 0 THEN x ELSE parent[s[n - 1]]
      BY <3>1
    <3>3. s = t
      BY <1>5, <3>1
    <3> QED
      BY <3>2, <3>3
  <2> QED
    BY <2>1, PhotosFinite
<1>7. \A n \in 0..Photos : s[n] \in Image
  <2> DEFINE out == {n \in 0..Photos : s[n] \notin Image}
  <2> SUFFICES ASSUME out # {}
               PROVE  FALSE
    OBVIOUS
  <2>1. PICK m \in out : \A n \in out : m <= n
    <3>1. out \subseteq Nat
      OBVIOUS
    <3> HIDE DEF out
    <3> QED
      BY <3>1, LeastNumber
  <2>2. m # 0 /\ m - 1 \in 0..Photos /\ m - 1 \notin out /\ m \in 1..Photos
    BY <1>6, <2>1, PhotosFinite
  <2> QED
    BY <1>6, <2>1, <2>2
<1> QED
  BY <1>4, <1>6, <1>7

(* A set that holds a photo and every parent of its photos holds the walk.  *)
LEMMA WalkStays ==
    ASSUME parent \in [Image -> Image], NEW x \in Image,
           NEW S \in SUBSET Image, x \in S, \A i \in S : parent[i] \in S
    PROVE  \A n \in 0..Photos : Walk(x)[n] \in S
<1> DEFINE out == {n \in 0..Photos : Walk(x)[n] \notin S}
<1> SUFFICES ASSUME out # {}
             PROVE  FALSE
  OBVIOUS
<1>1. PICK m \in out : \A n \in out : m <= n
  <2>1. out \subseteq Nat
    OBVIOUS
  <2> HIDE DEF out
  <2> QED
    BY <2>1, LeastNumber
<1>2. m # 0 /\ m - 1 \in 0..Photos /\ m - 1 \notin out /\ m \in 1..Photos
  BY <1>1, WalkSteps, PhotosFinite
<1> QED
  BY <1>1, <1>2, WalkSteps

(* A walk ends at a root: it rises in rank until it is there.               *)
LEMMA WalkEnds ==
    ASSUME Forest(parent, rank), NEW x \in Image
    PROVE  Root(x) \in RootsOf(parent)
<1>0. /\ parent \in [Image -> Image] /\ rank \in [Image -> Nat]
      /\ \A y \in Image : parent[y] # y => rank[y] < rank[parent[y]]
      /\ \A y \in Image : rank[y] <= Photos
  <2>1. Cardinality(RootsOf(parent)) \in Nat /\ Photos \in Nat
    BY PhotosFinite DEF RootsOf
  <2> QED
    BY <2>1 DEF Forest, RanksRise, RanksBounded
<1>1. PICK w : w = Walk(x)
  OBVIOUS
<1>2. /\ w[0] = x /\ \A n \in 1..Photos : w[n] = parent[w[n - 1]]
      /\ \A n \in 0..Photos : w[n] \in Image
  BY <1>0, <1>1, WalkSteps
<1>3. \A n \in 0..Photos : w[n] \in RootsOf(parent) \/ rank[w[n]] >= n
  <2> DEFINE out == {n \in 0..Photos : ~(w[n] \in RootsOf(parent) \/ rank[w[n]] >= n)}
  <2> SUFFICES ASSUME out # {}
               PROVE  FALSE
    OBVIOUS
  <2>1. PICK m \in out : \A n \in out : m <= n
    <3>1. out \subseteq Nat
      OBVIOUS
    <3> HIDE DEF out
    <3> QED
      BY <3>1, LeastNumber
  <2>2. m \in 0..Photos /\ w[m] \notin RootsOf(parent) /\ ~(rank[w[m]] >= m)
    BY <2>1
  <2>3. m # 0
    BY <1>0, <1>2, <2>2
  <2>4. m - 1 \in 0..Photos /\ m - 1 \notin out /\ m \in 1..Photos
    BY <2>1, <2>2, <2>3, PhotosFinite
  <2>5. PICK y \in Image : y = w[m - 1] /\ w[m] = parent[y]
    BY <1>2, <2>4
  <2>6. y \in RootsOf(parent) \/ rank[y] >= m - 1
    BY <2>4, <2>5
  <2>7. y \notin RootsOf(parent)
    BY <2>2, <2>5 DEF RootsOf
  <2>8. rank[y] < rank[w[m]] /\ rank[y] \in Nat /\ rank[w[m]] \in Nat
    BY <1>0, <2>5, <2>7 DEF RootsOf
  <2> QED
    BY <2>2, <2>6, <2>7, <2>8
<1>4. PICK y \in Image : y = w[Photos]
  BY <1>2, PhotosFinite
<1>5. y \in RootsOf(parent) \/ rank[y] >= Photos
  BY <1>3, <1>4, PhotosFinite
<1>6. y \in RootsOf(parent)
  <2> SUFFICES ASSUME y \notin RootsOf(parent)
               PROVE  FALSE
    OBVIOUS
  <2>1. rank[y] < rank[parent[y]] /\ parent[y] \in Image
    BY <1>0 DEF RootsOf
  <2>2. rank[parent[y]] <= Photos /\ rank[y] \in Nat /\ rank[parent[y]] \in Nat
    BY <1>0, <2>1
  <2> QED
    BY <1>5, <2>1, <2>2, PhotosFinite
<1> QED
  BY <1>1, <1>4, <1>6 DEF Root, Photos

(* What find() returns: the root is the parent's root, and ranks above all  *)
(* that is not a root.                                                      *)
LEMMA RootFacts ==
    ASSUME Forest(parent, rank), NEW x \in Image
    PROVE  /\ Root(x) \in RootsOf(parent) /\ Root(x) \in Image
           /\ x \in RootsOf(parent) => Root(x) = x
           /\ x \notin RootsOf(parent) => rank[x] < rank[Root(x)]
           /\ Root(parent[x]) = Root(x)
<1>0. /\ parent \in [Image -> Image] /\ rank \in [Image -> Nat]
      /\ \A y \in Image : parent[y] # y => rank[y] < rank[parent[y]]
  BY DEF Forest, RanksRise
<1>1. Root(x) \in RootsOf(parent) /\ Root(x) \in Image
  BY WalkEnds DEF RootsOf
<1>2. \A y \in Image : Root(y) = Walk(y)[Photos] /\ Photos \in 0..Photos
  BY PhotosFinite DEF Root, Photos
<1>3. x \in RootsOf(parent) => Root(x) = x
  <2> SUFFICES ASSUME x \in RootsOf(parent)
               PROVE  Root(x) = x
    OBVIOUS
  <2>1. {x} \in SUBSET Image /\ x \in {x} /\ \A i \in {x} : parent[i] \in {x}
    BY DEF RootsOf
  <2>2. Walk(x)[Photos] \in {x}
    BY <1>0, <1>2, <2>1, WalkStays
  <2> QED
    BY <1>2, <2>2
<1>4. x \notin RootsOf(parent) => rank[x] < rank[Root(x)]
  <2> SUFFICES ASSUME x \notin RootsOf(parent)
               PROVE  rank[x] < rank[Root(x)]
    OBVIOUS
  <2> DEFINE up == {y \in Image : y = x \/ rank[x] < rank[y]}
  <2>1. up \in SUBSET Image /\ x \in up
    OBVIOUS
  <2>2. ASSUME NEW i \in up
        PROVE  parent[i] \in up
    <3>1. parent[i] \in Image /\ rank[i] \in Nat /\ rank[parent[i]] \in Nat /\ rank[x] \in Nat
      BY <1>0
    <3>2. parent[i] = i \/ rank[i] < rank[parent[i]]
      BY <1>0
    <3> QED
      BY <3>1, <3>2
  <2>3. Walk(x)[Photos] \in up
    <3> HIDE DEF up
    <3> QED
      BY <1>0, <1>2, <2>1, <2>2, WalkStays
  <2> QED
    BY <1>1, <1>2, <2>3
<1>5. Root(parent[x]) = Root(x)
  <2>1. PICK w, v, z : w = Walk(x) /\ v = Walk(z) /\ z = parent[x]
    OBVIOUS
  <2>2. /\ z \in Image
        /\ w[0] = x /\ \A n \in 1..Photos : w[n] = parent[w[n - 1]]
        /\ v[0] = z /\ \A n \in 1..Photos : v[n] = parent[v[n - 1]]
    BY <1>0, <2>1, WalkSteps
  <2>3. Photos \in Nat /\ Photos > 0
    BY PhotosFinite
  <2>4. \A n \in 0..(Photos - 1) : v[n] = w[n + 1]
    <3> DEFINE out == {n \in 0..(Photos - 1) : v[n] # w[n + 1]}
    <3> SUFFICES ASSUME out # {}
                 PROVE  FALSE
      OBVIOUS
    <3>1. PICK m \in out : \A n \in out : m <= n
      <4>1. out \subseteq Nat
        OBVIOUS
      <4> HIDE DEF out
      <4> QED
        BY <4>1, LeastNumber
    <3>2. m \in 0..(Photos - 1) /\ v[m] # w[m + 1]
      BY <3>1
    <3>3. m # 0
      BY <2>1, <2>2, <2>3, <3>2
    <3>4. m - 1 \notin out /\ m - 1 \in 0..(Photos - 1) /\ m \in 1..Photos /\ m + 1 \in 1..Photos
      <4>1. m - 1 \notin out
        <5> HIDE DEF out
        <5> QED
          BY <2>3, <3>1, <3>2
      <4> QED
        BY <2>3, <3>2, <3>3, <4>1
    <3>5. v[m - 1] = w[m - 1 + 1] /\ m - 1 + 1 = m /\ m + 1 - 1 = m
      BY <3>2, <3>4
    <3>6. v[m] = parent[v[m - 1]] /\ w[m + 1] = parent[w[m]]
      BY <2>2, <3>4, <3>5
    <3> QED
      BY <3>2, <3>5, <3>6
  <2>5. Photos - 1 \in 0..(Photos - 1) /\ Photos - 1 + 1 = Photos /\ Photos \in 1..Photos
    BY <2>3
  <2>6. v[Photos] = parent[w[Photos]]
    BY <2>2, <2>4, <2>5
  <2>7. w[Photos] \in RootsOf(parent)
    BY <1>1, <1>2, <2>1
  <2>8. v[Photos] = w[Photos]
    BY <2>6, <2>7 DEF RootsOf
  <2> QED
    BY <1>2, <2>1, <2>2, <2>8
<1> QED
  BY <1>1, <1>3, <1>4, <1>5

(* A forest whose photos hang from their old parents or from their roots.   *)
IsFlat(f) == f \in [Image -> Image] /\ \A i \in Image : f[i] = parent[i] \/ f[i] = Root(i)

(* Path compression yields one, and puts what it starts from below its root.*)
LEMMA FlattenedIsFlat ==
    ASSUME Forest(parent, rank), NEW X \in SUBSET Image
    PROVE  IsFlat(Flattened(X)) /\ \A x \in X : Flattened(X)[x] = Root(x)
<1> DEFINE way == UNION {{Walk(x)[n] : n \in 0..Photos} : x \in X}
<1>1. Flattened(X) = [i \in Image |-> IF i \in way THEN Root(i) ELSE parent[i]]
  BY DEF Flattened, Photos
<1>2. \A i \in Image : Root(i) \in Image /\ parent[i] \in Image
  BY RootFacts DEF Forest
<1>3. \A x \in X : x \in way
  <2> SUFFICES ASSUME NEW x \in X
               PROVE  x \in way
    OBVIOUS
  <2>1. Walk(x)[0] = x /\ 0 \in 0..Photos
    BY WalkSteps, PhotosFinite DEF Forest
  <2>2. x \in {Walk(x)[n] : n \in 0..Photos}
    BY <2>1
  <2> QED
    BY <2>2
<1> HIDE DEF way
<1> QED
  BY <1>1, <1>2, <1>3 DEF IsFlat

(* It has the same roots, and ranks still rise in it.                       *)
LEMMA FlatForest ==
    ASSUME Forest(parent, rank), NEW f, IsFlat(f)
    PROVE  RootsOf(f) = RootsOf(parent) /\ Forest(f, rank)
<1>1. ASSUME NEW i \in Image
      PROVE  (f[i] = i <=> parent[i] = i) /\ (f[i] # i => rank[i] < rank[f[i]])
  <2>1. CASE f[i] = parent[i]
    BY <2>1 DEF Forest, RanksRise
  <2>2. CASE f[i] = Root(i)
    <3>1. i \in RootsOf(parent) => f[i] = i
      BY <2>2, RootFacts
    <3>2. i \notin RootsOf(parent) => rank[i] < rank[f[i]]
      BY <2>2, RootFacts
    <3>3. rank[i] \in Nat /\ (i \in RootsOf(parent) <=> parent[i] = i)
      BY DEF Forest, RootsOf
    <3> QED
      BY <3>1, <3>2, <3>3
  <2> QED
    BY <2>1, <2>2 DEF IsFlat
<1>2. RootsOf(f) = RootsOf(parent)
  BY <1>1 DEF RootsOf
<1> QED
  BY <1>1, <1>2 DEF Forest, RanksRise, RanksBounded, IsFlat

(* Sets of whole trees.                                                     *)
WholeTrees(P, S) == \A i \in Image : i \in S <=> P[i] \in S

(* A set of whole trees of the flat forest was one before.                  *)
LEMMA FlatTrees ==
    ASSUME Forest(parent, rank), NEW f, IsFlat(f),
           NEW S \in SUBSET Image, WholeTrees(f, S)
    PROVE  WholeTrees(parent, S) /\ \A y \in Image : y \in S <=> Root(y) \in S
<1> DEFINE wrong == {y \in Image : ~(y \in S <=> Root(y) \in S)}
           depths == {Photos - rank[y] : y \in wrong}
<1>0. \A y \in Image : rank[y] \in 0..Photos /\ parent[y] \in Image
  <2>1. Cardinality(RootsOf(parent)) \in Nat /\ Photos \in Nat
    BY PhotosFinite DEF RootsOf
  <2> QED
    BY <2>1 DEF Forest, RanksBounded
<1>1. wrong = {}
  <2> SUFFICES ASSUME wrong # {}
               PROVE  FALSE
    OBVIOUS
  <2>1. depths \subseteq Nat /\ depths # {}
    BY <1>0, PhotosFinite
  <2>2. PICK d \in depths : \A e \in depths : d <= e
    <3> HIDE DEF depths
    <3> QED
      BY <2>1, LeastNumber
  <2>3. PICK y \in wrong : d = Photos - rank[y]
    OBVIOUS
  <2>4. \A z \in wrong : Photos - rank[y] <= Photos - rank[z]
    BY <2>2, <2>3
  <2>5. y \in Image /\ ~(y \in S <=> Root(y) \in S)
    OBVIOUS
  <2>6. y \in S <=> f[y] \in S
    BY <2>5 DEF WholeTrees
  <2>7. f[y] = parent[y] /\ parent[y] # y
    BY <2>5, <2>6, RootFacts DEF IsFlat, RootsOf
  <2>8. rank[y] < rank[parent[y]] /\ parent[y] \in Image
    BY <1>0, <2>5, <2>7 DEF Forest, RanksRise
  <2>9. parent[y] \notin wrong
    <3> HIDE DEF wrong
    <3> QED
      BY <1>0, <2>4, <2>5, <2>8, PhotosFinite
  <2>10. Root(parent[y]) = Root(y)
    BY <2>5, RootFacts
  <2> QED
    BY <2>5, <2>6, <2>7, <2>8, <2>9, <2>10
<1>2. \A y \in Image : y \in S <=> Root(y) \in S
  BY <1>1
<1>3. \A y \in Image : y \in S <=> parent[y] \in S
  <2> SUFFICES ASSUME NEW y \in Image
               PROVE  y \in S <=> parent[y] \in S
    OBVIOUS
  <2>1. parent[y] \in Image /\ Root(parent[y]) = Root(y)
    BY <1>0, RootFacts
  <2> QED
    BY <1>2, <2>1
<1> QED
  BY <1>2, <1>3 DEF WholeTrees

(* One root is hung below another of a rank not lower, whose rank grows if  *)
(* they were equal.                                                         *)
LEMMA GraftForest ==
    ASSUME Forest(parent, rank), NEW f, IsFlat(f),
           NEW a \in RootsOf(parent), NEW b \in RootsOf(parent), a # b, rank[a] <= rank[b],
           NEW g, g = [f EXCEPT ![a] = b],
           NEW r, r = IF rank[a] = rank[b] THEN [rank EXCEPT ![b] = rank[b] + 1] ELSE rank
    PROVE  /\ Forest(g, r)
           /\ \A S \in SUBSET Image :
                WholeTrees(g, S) => (WholeTrees(f, S) /\ (a \in S <=> b \in S))
<1>1. /\ f \in [Image -> Image] /\ rank \in [Image -> Nat] /\ a \in Image /\ b \in Image
      /\ RootsOf(f) = RootsOf(parent) /\ RanksRise(f, rank) /\ RanksBounded(f, rank)
      /\ f[a] = a /\ f[b] = b
  BY FlatForest DEF Forest, RootsOf
<1>2. /\ g \in [Image -> Image] /\ g[a] = b /\ \A i \in Image : i # a => g[i] = f[i]
  BY <1>1
<1>3. /\ r \in [Image -> Nat] /\ rank[a] < r[b] /\ rank[b] <= r[b] /\ r[b] <= rank[b] + 1
      /\ \A i \in Image : i # b => r[i] = rank[i]
  <2>1. rank[a] \in Nat /\ rank[b] \in Nat
    BY <1>1
  <2>2. CASE rank[a] = rank[b]
    <3>1. r = [rank EXCEPT ![b] = rank[b] + 1]
      BY <2>2
    <3> QED
      BY <1>1, <2>1, <2>2, <3>1
  <2>3. CASE rank[a] # rank[b]
    <3>1. r = rank /\ rank[a] < rank[b]
      BY <2>1, <2>3
    <3> QED
      BY <1>1, <2>1, <3>1
  <2> QED
    BY <2>2, <2>3
<1>4. RootsOf(g) = RootsOf(f) \ {a}
  BY <1>1, <1>2 DEF RootsOf
<1>5. RanksRise(g, r)
  <2> SUFFICES ASSUME NEW i \in Image, g[i] # i
               PROVE  r[i] < r[g[i]]
    BY DEF RanksRise
  <2>0. \A k \in Image : rank[k] \in Nat /\ r[k] \in Nat /\ rank[k] <= r[k]
    BY <1>1, <1>3
  <2>1. CASE i = a
    BY <1>1, <1>2, <1>3, <2>1
  <2>2. CASE i # a
    <3>1. g[i] = f[i] /\ f[i] # i /\ rank[i] < rank[f[i]] /\ f[i] \in Image
      BY <1>1, <1>2, <2>2 DEF RanksRise
    <3>2. i # b
      BY <1>1, <3>1
    <3> QED
      BY <1>3, <2>0, <3>1, <3>2
  <2> QED
    BY <2>1, <2>2
<1>6. RanksBounded(g, r)
  <2>1. IsFiniteSet(RootsOf(f)) /\ Cardinality(RootsOf(f)) \in Nat /\ a \in RootsOf(f)
    BY <1>1, PhotosFinite DEF RootsOf
  <2>2. Cardinality(RootsOf(g)) = Cardinality(RootsOf(f)) - 1
    BY <1>4, <2>1, FS_RemoveElement
  <2>3. \A k \in Image : rank[k] \in Nat /\ r[k] \in Nat /\ r[k] <= rank[k] + 1
    BY <1>1, <1>3
  <2>4. \A k \in Image : rank[k] + Cardinality(RootsOf(f)) <= Photos
    BY <1>1 DEF RanksBounded
  <2> QED
    BY <2>1, <2>2, <2>3, <2>4, PhotosFinite DEF RanksBounded
<1>7. ASSUME NEW S \in SUBSET Image, WholeTrees(g, S)
      PROVE  WholeTrees(f, S) /\ (a \in S <=> b \in S)
  BY <1>1, <1>2, <1>7 DEF WholeTrees
<1> QED
  BY <1>2, <1>3, <1>5, <1>6, <1>7 DEF Forest

(* A function that adds to sets of photos, applied to one photo as often as *)
(* there are photos, has nothing left to add.                               *)
LEMMA GrowthEnds ==
    ASSUME NEW x \in Image, NEW F \in [SUBSET Image -> SUBSET Image],
           \A X \in SUBSET Image : X \subseteq F[X],
           \A X, Y \in SUBSET Image : X \subseteq Y => F[X] \subseteq F[Y],
           NEW g \in [0..Photos -> SUBSET Image],
           g[0] = {x}, \A n \in 1..Photos : g[n] = F[g[n - 1]]
    PROVE  /\ x \in g[Photos] /\ F[g[Photos]] = g[Photos]
           /\ \A S \in SUBSET Image : (x \in S /\ F[S] \subseteq S) => g[Photos] \subseteq S
<1>0. Photos \in Nat /\ Photos > 0 /\ Photos \in 0..Photos
  BY PhotosFinite
<1>1. /\ g[0] = {x} /\ \A n \in 1..Photos : g[n] = F[g[n - 1]]
      /\ \A n \in 0..Photos : g[n] \in SUBSET Image
  OBVIOUS
<1>2. \A X \in SUBSET Image : X \subseteq F[X]
  OBVIOUS
<1>5. \A X, Y \in SUBSET Image : X \subseteq Y => F[X] \subseteq F[Y]
  OBVIOUS
<1>6. \A n \in 0..(Photos - 1) : g[n + 1] = F[g[n]]
  <2> SUFFICES ASSUME NEW n \in 0..(Photos - 1)
               PROVE  g[n + 1] = F[g[n]]
    OBVIOUS
  <2>1. n + 1 \in 1..Photos /\ n + 1 - 1 = n
    BY <1>0
  <2> QED
    BY <1>1, <2>1
<1>7. \A n \in 0..Photos : g[n] \in SUBSET Image
  BY <1>1
<1>8. \A n \in 0..Photos : IsFiniteSet(g[n]) /\ Cardinality(g[n]) \in Nat
                           /\ Cardinality(g[n]) <= Photos
  BY <1>7, PhotosFinite
<1>9. ASSUME NEW S \in SUBSET Image, x \in S, F[S] \subseteq S
      PROVE  g[Photos] \subseteq S
  <2> DEFINE out == {n \in 0..Photos : ~(g[n] \subseteq S)}
  <2> SUFFICES ASSUME out # {}
               PROVE  FALSE
    BY <1>0
  <2>1. PICK m \in out : \A n \in out : m <= n
    <3>1. out \subseteq Nat
      OBVIOUS
    <3> HIDE DEF out
    <3> QED
      BY <3>1, LeastNumber
  <2>2. m \in 0..Photos /\ ~(g[m] \subseteq S) /\ m # 0
    BY <1>1, <1>9, <2>1
  <2>3. m - 1 \notin out
    <3> HIDE DEF out
    <3> QED
      BY <1>0, <2>1, <2>2
  <2>4. m - 1 \in 0..Photos /\ m \in 1..Photos
    BY <1>0, <2>2
  <2>5. g[m - 1] \subseteq S
    BY <2>3, <2>4
  <2>6. g[m] \subseteq F[S]
    BY <1>1, <1>5, <1>7, <2>4, <2>5
  <2> QED
    BY <1>9, <2>2, <2>6
<1>10. \E n \in 0..(Photos - 1) : g[n + 1] = g[n]
  <2> SUFFICES ASSUME \A n \in 0..(Photos - 1) : g[n + 1] # g[n]
               PROVE  FALSE
    OBVIOUS
  <2> DEFINE out == {n \in 0..Photos : ~(Cardinality(g[n]) > n)}
  <2>1. out # {}
    <3>1. ~(Cardinality(g[Photos]) > Photos)
      BY <1>0, <1>8
    <3> QED
      BY <1>0, <3>1
  <2>2. PICK m \in out : \A n \in out : m <= n
    <3>1. out \subseteq Nat
      OBVIOUS
    <3> HIDE DEF out
    <3> QED
      BY <2>1, <3>1, LeastNumber
  <2>3. m \in 0..Photos /\ ~(Cardinality(g[m]) > m)
    BY <2>2
  <2>4. m # 0
    <3> SUFFICES ASSUME m = 0
                 PROVE  FALSE
      OBVIOUS
    <3>1. Cardinality({x}) = 1
      BY FS_Singleton
    <3>2. g[m] = {x}
      BY <1>1
    <3>3. Cardinality(g[m]) = 1
      BY <3>1, <3>2
    <3>4. ~(1 > 0)
      BY <2>3, <3>3
    <3> QED
      BY <3>4
  <2>5. m - 1 \notin out
    <3> HIDE DEF out
    <3> QED
      BY <1>0, <2>2, <2>3, <2>4
  <2>6. PICK p : p = m - 1
    OBVIOUS
  <2>7. p \in 0..Photos /\ p \in 0..(Photos - 1) /\ m = p + 1
    BY <1>0, <2>3, <2>4, <2>6
  <2>8. Cardinality(g[p]) > p
    BY <2>5, <2>6, <2>7
  <2>9. g[p] \subseteq g[m] /\ g[p] # g[m]
    BY <1>2, <1>6, <1>7, <2>7
  <2>10. Cardinality(g[p]) <= Cardinality(g[m])
         /\ (Cardinality(g[m]) = Cardinality(g[p]) => g[m] = g[p])
    BY <1>8, <2>3, <2>9, FS_Subset
  <2>11. Cardinality(g[p]) \in Nat /\ Cardinality(g[m]) \in Nat /\ p \in Nat
    BY <1>8, <2>3, <2>7
  <2> QED
    BY <2>3, <2>7, <2>8, <2>9, <2>10, <2>11
<1>11. PICK n \in 0..(Photos - 1) : g[n + 1] = g[n]
  BY <1>10
<1>12. \A m \in n..Photos : g[m] = g[n]
  <2> DEFINE out == {m \in n..Photos : g[m] # g[n]}
  <2> SUFFICES ASSUME out # {}
               PROVE  FALSE
    OBVIOUS
  <2>1. PICK m \in out : \A k \in out : m <= k
    <3>1. out \subseteq Nat
      OBVIOUS
    <3> HIDE DEF out
    <3> QED
      BY <3>1, LeastNumber
  <2>2. m \in n..Photos /\ g[m] # g[n] /\ m # n
    BY <2>1
  <2>3. m - 1 \notin out
    <3> HIDE DEF out
    <3> QED
      BY <1>0, <2>1, <2>2
  <2>4. PICK p : p = m - 1
    OBVIOUS
  <2>5. p \in n..Photos /\ p \in 0..(Photos - 1) /\ m = p + 1
    BY <1>0, <2>2, <2>4
  <2>6. g[p] = g[n]
    BY <2>3, <2>4, <2>5
  <2>7. g[m] = g[n]
    BY <1>6, <1>11, <2>5, <2>6
  <2> QED
    BY <2>2, <2>7
<1>13. F[g[Photos]] = g[Photos]
  <2>1. Photos \in n..Photos
    BY <1>0
  <2> QED
    BY <1>6, <1>11, <1>12, <2>1
<1>14. x \in g[Photos]
  <2> DEFINE out == {m \in 0..Photos : x \notin g[m]}
  <2> SUFFICES ASSUME out # {}
               PROVE  FALSE
    BY <1>0
  <2>1. PICK m \in out : \A k \in out : m <= k
    <3>1. out \subseteq Nat
      OBVIOUS
    <3> HIDE DEF out
    <3> QED
      BY <3>1, LeastNumber
  <2>2. m \in 0..Photos /\ x \notin g[m] /\ m # 0
    BY <1>1, <2>1
  <2>3. m - 1 \notin out
    <3> HIDE DEF out
    <3> QED
      BY <1>0, <2>1, <2>2
  <2>4. PICK p : p = m - 1
    OBVIOUS
  <2>5. p \in 0..Photos /\ p \in 0..(Photos - 1) /\ m = p + 1
    BY <1>0, <2>2, <2>4
  <2>6. x \in g[p] /\ g[p] \subseteq g[m]
    BY <1>2, <1>6, <1>7, <2>3, <2>4, <2>5
  <2> QED
    BY <2>2, <2>6
<1> QED
  BY <1>9, <1>13, <1>14

(* Trees a set holds whole in the old forest, it holds whole in the flat    *)
(* one.                                                                     *)
LEMMA TreesFlatten ==
    ASSUME Forest(parent, rank), NEW f, IsFlat(f),
           NEW S \in SUBSET Image, WholeTrees(parent, S)
    PROVE  WholeTrees(f, S) /\ \A y \in Image : y \in S <=> Root(y) \in S
<1>1. ASSUME NEW y \in Image
      PROVE  y \in S <=> Root(y) \in S
  <2>0. parent \in [Image -> Image] /\ Photos \in 0..Photos /\ Root(y) = Walk(y)[Photos]
    BY PhotosFinite DEF Forest, Root, Photos
  <2>1. CASE y \in S
    <3>1. \A i \in S : parent[i] \in S
      BY DEF WholeTrees
    <3> QED
      BY <2>0, <2>1, <3>1, WalkStays
  <2>2. CASE y \notin S
    <3>1. PICK U \in SUBSET Image : U = Image \ S
      OBVIOUS
    <3>2. y \in U /\ \A i \in U : parent[i] \in U
      BY <2>0, <2>2, <3>1 DEF WholeTrees
    <3>3. Root(y) \in U
      BY <2>0, <3>2, WalkStays
    <3> QED
      BY <2>2, <3>1, <3>3
  <2> QED
    BY <2>1, <2>2
<1> QED
  BY <1>1 DEF WholeTrees, IsFlat

(* So it does when a root is hung below a root of the same side.            *)
LEMMA TreesGraft ==
    ASSUME NEW f \in [Image -> Image], NEW a \in Image, NEW b \in Image,
           f[a] = a, NEW S \in SUBSET Image, WholeTrees(f, S), a \in S <=> b \in S,
           NEW g, g = [f EXCEPT ![a] = b]
    PROVE  WholeTrees(g, S)
<1>1. g[a] = b /\ \A i \in Image : i # a => g[i] = f[i]
  OBVIOUS
<1> QED
  BY <1>1 DEF WholeTrees

(* What happens to the forest when two near photos are united.              *)
LEMMA UniteForest ==
    ASSUME Forest(parent, rank), NEW a \in Image, NEW b \in Image, Near(a, b),
           Unite(a, b), NEW P, P = parent', NEW r, r = rank'
    PROVE  /\ Forest(P, r)
           /\ \A S \in SUBSET Image :
                WholeTrees(P, S) => (WholeTrees(parent, S) /\ (a \in S <=> b \in S))
           /\ \A S \in SUBSET Image :
                (WholeTrees(parent, S) /\ (a \in S <=> b \in S)) => WholeTrees(P, S)
<1>1. PICK ra, rb, flat : ra = Root(a) /\ rb = Root(b) /\ flat = Flattened({a, b})
  OBVIOUS
<1>2. /\ ra \in RootsOf(parent) /\ rb \in RootsOf(parent)
      /\ ra \in Image /\ rb \in Image
  BY <1>1, RootFacts
<1>3. /\ IsFlat(flat) /\ flat \in [Image -> Image]
      /\ RootsOf(flat) = RootsOf(parent) /\ Forest(flat, rank)
  <2>1. {a, b} \in SUBSET Image
    OBVIOUS
  <2>2. IsFlat(flat)
    BY <1>1, <2>1, FlattenedIsFlat
  <2> QED
    BY <2>2, FlatForest DEF IsFlat
<1>4. flat[ra] = ra /\ flat[rb] = rb
  BY <1>2, <1>3 DEF RootsOf
<1>5. ASSUME NEW S \in SUBSET Image, WholeTrees(flat, S)
      PROVE  WholeTrees(parent, S) /\ (a \in S <=> ra \in S) /\ (b \in S <=> rb \in S)
  BY <1>1, <1>3, <1>5, FlatTrees
<1>6. ASSUME NEW S \in SUBSET Image, WholeTrees(parent, S)
      PROVE  WholeTrees(flat, S) /\ (a \in S <=> ra \in S) /\ (b \in S <=> rb \in S)
  BY <1>1, <1>3, <1>6, TreesFlatten
<1>7. CASE ra = rb
  <2>1. P = flat /\ r = rank
    BY <1>1, <1>7, Zenon DEF Unite
  <2> QED
    BY <1>3, <1>5, <1>6, <1>7, <2>1
<1>8. CASE ra # rb /\ rank[ra] < rank[rb]
  <2>1. P = [flat EXCEPT ![ra] = rb] /\ r = rank
    BY <1>1, <1>8, Zenon DEF Unite
  <2>2. rank[ra] \in Nat /\ rank[rb] \in Nat
    BY <1>2 DEF Forest
  <2>3. rank[ra] <= rank[rb] /\ ra # rb
        /\ r = IF rank[ra] = rank[rb] THEN [rank EXCEPT ![rb] = rank[rb] + 1] ELSE rank
    BY <1>8, <2>1, <2>2
  <2>4. /\ Forest(parent, rank) /\ IsFlat(flat)
        /\ ra \in RootsOf(parent) /\ rb \in RootsOf(parent) /\ ra # rb /\ rank[ra] <= rank[rb]
        /\ P = [flat EXCEPT ![ra] = rb]
        /\ r = IF rank[ra] = rank[rb] THEN [rank EXCEPT ![rb] = rank[rb] + 1] ELSE rank
    BY <1>2, <1>3, <2>1, <2>3
  <2>6. /\ Forest(P, r)
        /\ \A S \in SUBSET Image : WholeTrees(P, S) => (WholeTrees(flat, S) /\ (ra \in S <=> rb \in S))
    BY <2>4, GraftForest, Zenon
  <2>5. ASSUME NEW S \in SUBSET Image, WholeTrees(parent, S), a \in S <=> b \in S
        PROVE  WholeTrees(P, S)
    <3>1. WholeTrees(flat, S) /\ (ra \in S <=> rb \in S)
      BY <1>6, <2>5
    <3> QED
      BY <1>2, <1>3, <1>4, <2>1, <3>1, TreesGraft
  <2> QED
    BY <1>5, <2>5, <2>6
<1>9. CASE ra # rb /\ ~(rank[ra] < rank[rb])
  <2>1. P = [flat EXCEPT ![rb] = ra]
        /\ r = IF rank[ra] = rank[rb] THEN [rank EXCEPT ![ra] = rank[ra] + 1] ELSE rank
    BY <1>1, <1>9, Zenon DEF Unite
  <2>2. rank[ra] \in Nat /\ rank[rb] \in Nat
    BY <1>2 DEF Forest
  <2>3. rank[rb] <= rank[ra] /\ rb # ra
        /\ r = IF rank[rb] = rank[ra] THEN [rank EXCEPT ![ra] = rank[ra] + 1] ELSE rank
    BY <1>9, <2>1, <2>2
  <2>4. /\ Forest(parent, rank) /\ IsFlat(flat)
        /\ rb \in RootsOf(parent) /\ ra \in RootsOf(parent) /\ rb # ra /\ rank[rb] <= rank[ra]
        /\ P = [flat EXCEPT ![rb] = ra]
        /\ r = IF rank[rb] = rank[ra] THEN [rank EXCEPT ![ra] = rank[ra] + 1] ELSE rank
    BY <1>2, <1>3, <2>1, <2>3
  <2>6. /\ Forest(P, r)
        /\ \A S \in SUBSET Image : WholeTrees(P, S) => (WholeTrees(flat, S) /\ (rb \in S <=> ra \in S))
    BY <2>4, GraftForest, Zenon
  <2>5. ASSUME NEW S \in SUBSET Image, WholeTrees(parent, S), a \in S <=> b \in S
        PROVE  WholeTrees(P, S)
    <3>1. WholeTrees(flat, S) /\ (rb \in S <=> ra \in S)
      BY <1>6, <2>5
    <3>2. P = [flat EXCEPT ![rb] = ra]
      BY <2>1
    <3> QED
      BY <1>2, <1>3, <1>4, <3>1, <3>2, TreesGraft
  <2> QED
    BY <1>5, <2>5, <2>6
<1> QED
  BY <1>7, <1>8, <1>9

(* Sets of photos that no near pair straddles.                              *)
NearSets == {S \in SUBSET Image : \A i, k \in Image : Near(i, k) => (i \in S <=> k \in S)}

(* What holds at every step: near pairs link the trees and nothing else     *)
(* does, and a candidate pair that is near and no longer waits is in one    *)
(* tree.                                                                    *)
TreesAreLinked == \A S \in NearSets : WholeTrees(parent, S)
PairsJoined ==
    \A a, b \in Image :
        (a < b /\ ShareBand(a, b) /\ Near(a, b) /\ <<a, b>> \notin pairs) =>
            \A S \in SUBSET Image : WholeTrees(parent, S) => (a \in S <=> b \in S)
Collecting ==
    /\ compress = Image \/ pairs = {}
    /\ \A i \in Image \ compress : parent[i] \in RootsOf(parent)
GroupInv ==
    /\ hash \in [Image -> Bits] /\ taken \in [Image -> Instants]
    /\ pairs \in SUBSET (Image \X Image) /\ compress \in SUBSET Image
    /\ Forest(parent, rank)
    /\ TreesAreLinked /\ PairsJoined /\ Collecting

(* Before the first pair every photo is a tree of its own.                  *)
LEMMA GroupStarts == GroupInit => GroupInv
<1> SUFFICES ASSUME GroupInit
             PROVE  GroupInv
  OBVIOUS
<1>1. /\ hash \in [Image -> Bits] /\ taken \in [Image -> Instants]
      /\ pairs = {p \in Image \X Image : p[1] < p[2] /\ ShareBand(p[1], p[2])}
      /\ parent = [i \in Image |-> i] /\ rank = [i \in Image |-> 0] /\ compress = Image
  BY DEF GroupInit
<1>2. pairs \in SUBSET (Image \X Image)
  BY <1>1
<1>3. Forest(parent, rank)
  <2>1. parent \in [Image -> Image] /\ rank \in [Image -> Nat]
    BY <1>1
  <2>2. RanksRise(parent, rank)
    BY <1>1 DEF RanksRise
  <2>3. Cardinality(RootsOf(parent)) \in Nat /\ Cardinality(RootsOf(parent)) <= Photos
    BY PhotosFinite DEF RootsOf
  <2>4. RanksBounded(parent, rank)
    BY <1>1, <2>3, PhotosFinite DEF RanksBounded
  <2> QED
    BY <2>1, <2>2, <2>4 DEF Forest
<1>4. TreesAreLinked
  BY <1>1 DEF TreesAreLinked, WholeTrees
<1>5. PairsJoined
  <2> SUFFICES ASSUME NEW a \in Image, NEW b \in Image, a < b, ShareBand(a, b),
                      <<a, b>> \notin pairs
               PROVE  FALSE
    BY DEF PairsJoined
  <2>1. PICK p \in Image \X Image : p = <<a, b>>
    OBVIOUS
  <2>2. p[1] = a /\ p[2] = b
    BY <2>1
  <2>3. p \in pairs
    BY <1>1, <2>2
  <2> QED
    BY <2>1, <2>3
<1>6. Collecting
  BY <1>1 DEF Collecting
<1> QED
  BY <1>1, <1>2, <1>3, <1>4, <1>5, <1>6 DEF GroupInv

(* Looking at a pair keeps the invariant.                                   *)
LEMMA UniteKeeps ==
    ASSUME GroupInv, NEW a \in Image, NEW b \in Image, Unite(a, b)
    PROVE  GroupInv'
<1>1. PICK P, r : P = parent' /\ r = rank'
  OBVIOUS
<1>2. /\ <<a, b>> \in pairs /\ pairs' = pairs \ {<<a, b>>}
      /\ hash' = hash /\ taken' = taken /\ compress' = compress
  BY Zenon DEF Unite
<1>3. ~Near(a, b) => (P = parent /\ r = rank)
  BY <1>1, Zenon DEF Unite
<1>4. /\ hash \in [Image -> Bits] /\ taken \in [Image -> Instants]
      /\ pairs \in SUBSET (Image \X Image) /\ compress \in SUBSET Image
      /\ Forest(parent, rank)
      /\ TreesAreLinked /\ PairsJoined /\ Collecting
  BY Zenon DEF GroupInv
<1>5. /\ Forest(P, r)
      /\ \A S \in SUBSET Image : WholeTrees(P, S) => WholeTrees(parent, S)
      /\ Near(a, b) => \A S \in SUBSET Image : WholeTrees(P, S) => (a \in S <=> b \in S)
      /\ \A S \in SUBSET Image :
           (WholeTrees(parent, S) /\ (Near(a, b) => (a \in S <=> b \in S))) => WholeTrees(P, S)
  <2>1. CASE Near(a, b)
    BY <1>1, <1>4, <2>1, UniteForest
  <2>2. CASE ~Near(a, b)
    BY <1>3, <1>4, <2>2
  <2> QED
    BY <2>1, <2>2
<1>6. NearSets' = NearSets
  BY <1>2 DEF NearSets, Near, Distance, Apart
<1>7. TreesAreLinked'
  <2>1. ASSUME NEW S \in NearSets
        PROVE  WholeTrees(P, S)
    <3>1. S \in SUBSET Image /\ (Near(a, b) => (a \in S <=> b \in S))
      BY DEF NearSets
    <3>2. WholeTrees(parent, S)
      BY <1>4 DEF TreesAreLinked
    <3> QED
      BY <1>5, <3>1, <3>2
  <2> QED
    BY <1>1, <1>6, <2>1 DEF TreesAreLinked, WholeTrees
<1>8. PairsJoined'
  <2>1. ASSUME NEW c \in Image, NEW d \in Image, c < d, ShareBand(c, d), Near(c, d),
               <<c, d>> \notin pairs \ {<<a, b>>}, NEW S \in SUBSET Image, WholeTrees(P, S)
        PROVE  c \in S <=> d \in S
    <3>1. WholeTrees(parent, S)
      BY <1>5, <2>1
    <3>2. CASE <<c, d>> \notin pairs
      BY <1>4, <2>1, <3>1, <3>2 DEF PairsJoined
    <3>3. CASE <<c, d>> \in pairs
      <4>1. c = a /\ d = b
        BY <2>1, <3>3
      <4> QED
        BY <1>5, <2>1, <4>1
    <3> QED
      BY <3>2, <3>3
  <2>2. ASSUME NEW c \in Image, NEW d \in Image
        PROVE  (ShareBand(c, d)' <=> ShareBand(c, d)) /\ (Near(c, d)' <=> Near(c, d))
    BY <1>2 DEF ShareBand, Band, Near, Distance, Apart
  <2>3. \A S : WholeTrees(parent, S)' <=> WholeTrees(P, S)
    BY <1>1 DEF WholeTrees
  <2> QED
    BY <1>2, <2>1, <2>2, <2>3 DEF PairsJoined
<1>9. Collecting'
  <2>1. compress = Image
    BY <1>2, <1>4 DEF Collecting
  <2> QED
    BY <1>2, <2>1 DEF Collecting
<1>10. Forest(parent, rank)'
  BY <1>1, <1>5 DEF Forest, RanksRise, RanksBounded, RootsOf, Photos
<1>11. /\ hash' \in [Image -> Bits] /\ taken' \in [Image -> Instants]
       /\ pairs' \in SUBSET (Image \X Image) /\ compress' \in SUBSET Image
  BY <1>2, <1>4
<1> QED
  BY <1>7, <1>8, <1>9, <1>10, <1>11, Zenon DEF GroupInv, Bits

(* So does reading a photo's group, which flattens its tree.                *)
LEMMA CollectKeeps ==
    ASSUME GroupInv, NEW i \in Image, CollectGroup(i)
    PROVE  GroupInv'
<1>1. PICK P : P = parent' /\ P = Flattened({i})
  BY DEF CollectGroup
<1>2. /\ pairs = {} /\ compress' = compress \ {i}
      /\ hash' = hash /\ taken' = taken /\ pairs' = pairs /\ rank' = rank
  BY DEF CollectGroup
<1>4. /\ hash \in [Image -> Bits] /\ taken \in [Image -> Instants]
      /\ pairs \in SUBSET (Image \X Image) /\ compress \in SUBSET Image
      /\ Forest(parent, rank)
      /\ TreesAreLinked /\ PairsJoined /\ Collecting
  BY Zenon DEF GroupInv
<1>5. /\ IsFlat(P) /\ P[i] = Root(i)
      /\ RootsOf(P) = RootsOf(parent) /\ Forest(P, rank)
  <2>1. {i} \in SUBSET Image /\ i \in {i}
    OBVIOUS
  <2>2. IsFlat(P) /\ P[i] = Root(i)
    BY <1>1, <1>4, <2>1, FlattenedIsFlat
  <2> QED
    BY <1>4, <2>2, FlatForest
<1>6. /\ \A S \in SUBSET Image : WholeTrees(P, S) => WholeTrees(parent, S)
      /\ \A S \in SUBSET Image : WholeTrees(parent, S) => WholeTrees(P, S)
  BY <1>4, <1>5, FlatTrees, TreesFlatten
<1>7. TreesAreLinked'
  <2>1. NearSets' = NearSets
    BY <1>2 DEF NearSets, Near, Distance, Apart
  <2>2. \A S \in NearSets : WholeTrees(P, S)
    BY <1>4, <1>6 DEF TreesAreLinked, NearSets
  <2> QED
    BY <1>1, <2>1, <2>2 DEF TreesAreLinked, WholeTrees
<1>8. PairsJoined'
  <2>1. ASSUME NEW c \in Image, NEW d \in Image
        PROVE  (ShareBand(c, d)' <=> ShareBand(c, d)) /\ (Near(c, d)' <=> Near(c, d))
    BY <1>2 DEF ShareBand, Band, Near, Distance, Apart
  <2>2. \A S : WholeTrees(parent, S)' <=> WholeTrees(P, S)
    BY <1>1 DEF WholeTrees
  <2> QED
    BY <1>2, <1>4, <1>6, <2>1, <2>2 DEF PairsJoined
<1>9. Collecting'
  <2>1. ASSUME NEW k \in Image \ (compress \ {i})
        PROVE  P[k] \in RootsOf(P)
    <3>1. CASE k = i
      BY <1>4, <1>5, <3>1, RootFacts
    <3>2. CASE k # i
      <4>1. parent[k] \in RootsOf(parent)
        BY <1>4, <3>2 DEF Collecting
      <4>2. Root(k) \in RootsOf(parent)
        BY <1>4, RootFacts
      <4> QED
        BY <1>5, <4>1, <4>2 DEF IsFlat
    <3> QED
      BY <3>1, <3>2
  <2>2. RootsOf(parent)' = RootsOf(P)
    BY <1>1 DEF RootsOf
  <2> QED
    BY <1>1, <1>2, <2>1, <2>2 DEF Collecting
<1>10. Forest(parent, rank)'
  BY <1>1, <1>2, <1>5 DEF Forest, RanksRise, RanksBounded, RootsOf, Photos
<1>11. /\ hash' \in [Image -> Bits] /\ taken' \in [Image -> Instants]
       /\ pairs' \in SUBSET (Image \X Image) /\ compress' \in SUBSET Image
  BY <1>2, <1>4
<1> QED
  BY <1>7, <1>8, <1>9, <1>10, <1>11, Zenon DEF GroupInv, Bits

(* Nearness has no order.                                                   *)
LEMMA NearBothWays ==
    ASSUME hash \in [Image -> Bits], taken \in [Image -> Instants],
           NEW a \in Image, NEW b \in Image
    PROVE  /\ Distance(a, b) = Distance(b, a)
           /\ Near(a, b) <=> Near(b, a)
           /\ ShareBand(a, b) <=> ShareBand(b, a)
<1>1. (hash[a] \ hash[b]) \cup (hash[b] \ hash[a]) = (hash[b] \ hash[a]) \cup (hash[a] \ hash[b])
  OBVIOUS
<1>2. Distance(a, b) = Distance(b, a)
  BY <1>1, Zenon DEF Distance
<1>3. Apart(a, b) = Apart(b, a)
  <2>1. taken[a] \in Int /\ taken[b] \in Int
    BY GroupAssumption
  <2> QED
    BY <2>1 DEF Apart
<1>4. ShareBand(a, b) <=> ShareBand(b, a)
  BY DEF ShareBand
<1> QED
  BY <1>2, <1>3, <1>4 DEF Near

(* Photos that differ in fewer bits than there are bands agree on a band:   *)
(* every band they do not agree on holds a bit they differ in.              *)
LEMMA FewBitsShareBand ==
    ASSUME hash \in [Image -> Bits], NEW a \in Image, NEW b \in Image,
           Distance(a, b) < Bands
    PROVE  ShareBand(a, b)
<1> SUFFICES ASSUME ~ShareBand(a, b)
             PROVE  FALSE
  OBVIOUS
<1>1. PICK D : D = (hash[a] \ hash[b]) \cup (hash[b] \ hash[a])
  OBVIOUS
<1>2. D \subseteq (1..Bands) \X (1..BandSize)
  <2>1. hash[a] \in Bits /\ hash[b] \in Bits
    OBVIOUS
  <2> QED
    BY <1>1, <2>1 DEF Bits
<1>3. Bands \in Nat /\ BandSize \in Nat
  BY GroupAssumption
<1>4. IsFiniteSet(D)
  <2>1. IsFiniteSet(1..Bands) /\ IsFiniteSet(1..BandSize)
    BY <1>3, FS_Interval
  <2>2. IsFiniteSet((1..Bands) \X (1..BandSize))
    BY <2>1, FS_Product
  <2> QED
    BY <1>2, <2>2, FS_Subset
<1>5. ASSUME NEW n \in 1..Bands
      PROVE  \E bit \in D : bit[1] = n
  <2>1. Band(a, n) # Band(b, n)
    BY DEF ShareBand
  <2>2. {bit \in hash[a] : bit[1] = n} # {bit \in hash[b] : bit[1] = n}
    BY <2>1 DEF Band
  <2> QED
    BY <1>1, <2>2
<1>6. PICK f \in [1..Bands -> D] : \A n \in 1..Bands : f[n][1] = n
  <2>1. PICK f : f = [n \in 1..Bands |-> CHOOSE bit \in D : bit[1] = n]
    OBVIOUS
  <2>2. \A n \in 1..Bands : f[n] \in D /\ f[n][1] = n
    BY <1>5, <2>1
  <2>3. f \in [1..Bands -> D]
    BY <2>1, <2>2
  <2> QED
    BY <2>2, <2>3
<1>7. f \in Injection(1..Bands, D)
  BY <1>6 DEF Injection, IsInjective
<1>8. Cardinality(1..Bands) <= Cardinality(D)
  BY <1>4, <1>7, FS_Injection
<1>9. Cardinality(1..Bands) = Bands
  BY <1>3, FS_Interval
<1>10. Cardinality(D) \in Nat /\ Cardinality(D) < Bands
  BY <1>1, <1>4, FS_CardinalityType DEF Distance
<1> QED
  BY <1>3, <1>8, <1>9, <1>10

(* What chains of near photos reach is the smallest set they close.      *)
LEMMA NearReach ==
    ASSUME NEW x \in Image
    PROVE  /\ Reach(Near, x) \subseteq Image /\ x \in Reach(Near, x)
           /\ \A i \in Image, k \in Reach(Near, x) : Near(i, k) => i \in Reach(Near, x)
           /\ \A S \in SUBSET Image :
                (x \in S /\ \A i \in Image, k \in S : Near(i, k) => i \in S) => Reach(Near, x) \subseteq S
<1> DEFINE Add(X) == {i \in Image : \E k \in X : i = k \/ Near(i, k)}
           F == [X \in SUBSET Image |-> Add(X)]
<1>0. Photos \in Nat /\ Photos \in 0..Photos
  BY PhotosFinite
<1>1. PICK c : c = CHOOSE g : g = [n \in 0..Cardinality(Image) |->
                     IF n = 0 THEN {x}
                     ELSE {i \in Image : \E k \in g[n - 1] : i = k \/ Near(i, k)}]
  OBVIOUS
<1>2. Reach(Near, x) = c[Photos]
  BY <1>1, Zenon DEF Reach, Photos
<1>3. /\ F \in [SUBSET Image -> SUBSET Image] /\ \A X \in SUBSET Image : F[X] = Add(X)
      /\ {x} \in SUBSET Image
  OBVIOUS
<1>4. PICK w \in [0..Photos -> SUBSET Image] :
        w[0] = {x} /\ \A n \in 1..Photos : w[n] = F[w[n - 1]]
  <2> HIDE DEF F
  <2>1. PICK T, y : T = SUBSET Image /\ y = {x}
    OBVIOUS
  <2>2. F \in [T -> T] /\ y \in T
    BY <1>3, <2>1
  <2>3. \E w : /\ w \in [0..Photos -> T] /\ w[0] = y
              /\ \A n \in 1..Photos : w[n] = F[w[n - 1]]
    BY <2>2, Iterates
  <2> QED
    BY <2>1, <2>3
<1>5. w = [n \in 0..Photos |-> IF n = 0 THEN {x} ELSE Add(w[n - 1])]
  <2> HIDE DEF F, Add
  <2>1. \A n \in 0..Photos : w[n] = IF n = 0 THEN {x} ELSE Add(w[n - 1])
    <3> SUFFICES ASSUME NEW n \in 0..Photos, n # 0
                 PROVE  w[n] = Add(w[n - 1])
      BY <1>4
    <3>1. n \in 1..Photos /\ n - 1 \in 0..Photos
      BY <1>0
    <3> QED
      BY <1>3, <1>4, <3>1
  <2> QED
    BY <2>1
<1>6. c = [n \in 0..Photos |-> IF n = 0 THEN {x} ELSE Add(c[n - 1])]
  <2>1. \E g : g = [n \in 0..Photos |-> IF n = 0 THEN {x} ELSE Add(g[n - 1])]
    BY <1>5, Zenon
  <2> QED
    BY <1>1, <2>1, Zenon DEF Photos
<1>7. \A X : Add(X) \in SUBSET Image
  OBVIOUS
<1>8. \A X \in SUBSET Image : X \subseteq Add(X)
  OBVIOUS
<1>9. \A X, Y \in SUBSET Image : X \subseteq Y => Add(X) \subseteq Add(Y)
  OBVIOUS
<1>10. \A S \in SUBSET Image :
         (\A i \in Image, k \in S : Near(i, k) => i \in S) <=> Add(S) \subseteq S
  OBVIOUS
<1> HIDE DEF Add, F
<1>11. PICK t : t = [n \in 0..Photos |-> IF n = 0 THEN {x} ELSE Add(c[n - 1])]
  OBVIOUS
<1>12. t \in [0..Photos -> SUBSET Image]
       /\ \A n \in 0..Photos : t[n] = IF n = 0 THEN {x} ELSE Add(c[n - 1])
  BY <1>7, <1>11
<1>13. c \in [0..Photos -> SUBSET Image] /\ c[0] = {x} /\ \A n \in 1..Photos : c[n] = F[c[n - 1]]
  <2>1. c = t
    BY <1>6, <1>11
  <2>2. ASSUME NEW n \in 1..Photos
        PROVE  c[n] = F[c[n - 1]]
    <3>1. n \in 0..Photos /\ n # 0 /\ n - 1 \in 0..Photos
      BY <1>0
    <3>2. c[n - 1] \in SUBSET Image
      BY <1>12, <2>1, <3>1
    <3>3. c[n] = Add(c[n - 1])
      BY <1>12, <2>1, <3>1
    <3> QED
      BY <1>3, <3>2, <3>3
  <2>3. c[0] = {x}
    BY <1>0, <1>12, <2>1
  <2> QED
    BY <1>12, <2>1, <2>2, <2>3
<1>14. /\ x \in c[Photos] /\ F[c[Photos]] = c[Photos]
       /\ \A S \in SUBSET Image : (x \in S /\ F[S] \subseteq S) => c[Photos] \subseteq S
  <2>1. /\ \A X \in SUBSET Image : X \subseteq F[X]
        /\ \A X, Y \in SUBSET Image : X \subseteq Y => F[X] \subseteq F[Y]
    BY <1>3, <1>8, <1>9
  <2> QED
    BY <1>3, <1>13, <2>1, GrowthEnds
<1>15. c[Photos] \in SUBSET Image
  BY <1>0, <1>13
<1>16. \A i \in Image, k \in c[Photos] : Near(i, k) => i \in c[Photos]
  BY <1>3, <1>10, <1>14, <1>15
<1>17. \A S \in SUBSET Image :
         (x \in S /\ \A i \in Image, k \in S : Near(i, k) => i \in S) => c[Photos] \subseteq S
  BY <1>3, <1>10, <1>14
<1> QED
  BY <1>2, <1>14, <1>15, <1>16, <1>17

(* The chains the grouping is sure to find.                                 *)
SurelyReach(x) ==
    LET Surely(a, b) == Near(a, b) /\ Distance(a, b) < Bands
    IN  Reach(Surely, x)

(* The same of the chains the bands are sure to show.                    *)
LEMMA SureReach ==
    ASSUME NEW x \in Image
    PROVE  /\ SurelyReach(x) \subseteq Image /\ x \in SurelyReach(x)
           /\ \A i \in Image, k \in SurelyReach(x) : (Near(i, k) /\ Distance(i, k) < Bands) => i \in SurelyReach(x)
           /\ \A S \in SUBSET Image :
                (x \in S /\ \A i \in Image, k \in S : (Near(i, k) /\ Distance(i, k) < Bands) => i \in S) => SurelyReach(x) \subseteq S
<1> DEFINE Add(X) == {i \in Image : \E k \in X : i = k \/ (Near(i, k) /\ Distance(i, k) < Bands)}
           F == [X \in SUBSET Image |-> Add(X)]
<1>0. Photos \in Nat /\ Photos \in 0..Photos
  BY PhotosFinite
<1>1. PICK c : c = CHOOSE g : g = [n \in 0..Cardinality(Image) |->
                     IF n = 0 THEN {x}
                     ELSE {i \in Image : \E k \in g[n - 1] : i = k \/ (Near(i, k) /\ Distance(i, k) < Bands)}]
  OBVIOUS
<1>2. SurelyReach(x) = c[Photos]
  BY <1>1, Zenon DEF Reach, Photos, SurelyReach
<1>3. /\ F \in [SUBSET Image -> SUBSET Image] /\ \A X \in SUBSET Image : F[X] = Add(X)
      /\ {x} \in SUBSET Image
  OBVIOUS
<1>4. PICK w \in [0..Photos -> SUBSET Image] :
        w[0] = {x} /\ \A n \in 1..Photos : w[n] = F[w[n - 1]]
  <2> HIDE DEF F
  <2>1. PICK T, y : T = SUBSET Image /\ y = {x}
    OBVIOUS
  <2>2. F \in [T -> T] /\ y \in T
    BY <1>3, <2>1
  <2>3. \E w : /\ w \in [0..Photos -> T] /\ w[0] = y
              /\ \A n \in 1..Photos : w[n] = F[w[n - 1]]
    BY <2>2, Iterates
  <2> QED
    BY <2>1, <2>3
<1>5. w = [n \in 0..Photos |-> IF n = 0 THEN {x} ELSE Add(w[n - 1])]
  <2> HIDE DEF F, Add
  <2>1. \A n \in 0..Photos : w[n] = IF n = 0 THEN {x} ELSE Add(w[n - 1])
    <3> SUFFICES ASSUME NEW n \in 0..Photos, n # 0
                 PROVE  w[n] = Add(w[n - 1])
      BY <1>4
    <3>1. n \in 1..Photos /\ n - 1 \in 0..Photos
      BY <1>0
    <3> QED
      BY <1>3, <1>4, <3>1
  <2> QED
    BY <2>1
<1>6. c = [n \in 0..Photos |-> IF n = 0 THEN {x} ELSE Add(c[n - 1])]
  <2>1. \E g : g = [n \in 0..Photos |-> IF n = 0 THEN {x} ELSE Add(g[n - 1])]
    BY <1>5, Zenon
  <2> QED
    BY <1>1, <2>1, Zenon DEF Photos
<1>7. \A X : Add(X) \in SUBSET Image
  OBVIOUS
<1>8. \A X \in SUBSET Image : X \subseteq Add(X)
  OBVIOUS
<1>9. \A X, Y \in SUBSET Image : X \subseteq Y => Add(X) \subseteq Add(Y)
  OBVIOUS
<1>10. \A S \in SUBSET Image :
         (\A i \in Image, k \in S : (Near(i, k) /\ Distance(i, k) < Bands) => i \in S) <=> Add(S) \subseteq S
  OBVIOUS
<1> HIDE DEF Add, F
<1>11. PICK t : t = [n \in 0..Photos |-> IF n = 0 THEN {x} ELSE Add(c[n - 1])]
  OBVIOUS
<1>12. t \in [0..Photos -> SUBSET Image]
       /\ \A n \in 0..Photos : t[n] = IF n = 0 THEN {x} ELSE Add(c[n - 1])
  BY <1>7, <1>11
<1>13. c \in [0..Photos -> SUBSET Image] /\ c[0] = {x} /\ \A n \in 1..Photos : c[n] = F[c[n - 1]]
  <2>1. c = t
    BY <1>6, <1>11
  <2>2. ASSUME NEW n \in 1..Photos
        PROVE  c[n] = F[c[n - 1]]
    <3>1. n \in 0..Photos /\ n # 0 /\ n - 1 \in 0..Photos
      BY <1>0
    <3>2. c[n - 1] \in SUBSET Image
      BY <1>12, <2>1, <3>1
    <3>3. c[n] = Add(c[n - 1])
      BY <1>12, <2>1, <3>1
    <3> QED
      BY <1>3, <3>2, <3>3
  <2>3. c[0] = {x}
    BY <1>0, <1>12, <2>1
  <2> QED
    BY <1>12, <2>1, <2>2, <2>3
<1>14. /\ x \in c[Photos] /\ F[c[Photos]] = c[Photos]
       /\ \A S \in SUBSET Image : (x \in S /\ F[S] \subseteq S) => c[Photos] \subseteq S
  <2>1. /\ \A X \in SUBSET Image : X \subseteq F[X]
        /\ \A X, Y \in SUBSET Image : X \subseteq Y => F[X] \subseteq F[Y]
    BY <1>3, <1>8, <1>9
  <2> QED
    BY <1>3, <1>13, <2>1, GrowthEnds
<1>15. c[Photos] \in SUBSET Image
  BY <1>0, <1>13
<1>16. \A i \in Image, k \in c[Photos] : (Near(i, k) /\ Distance(i, k) < Bands) => i \in c[Photos]
  BY <1>3, <1>10, <1>14, <1>15
<1>17. \A S \in SUBSET Image :
         (x \in S /\ \A i \in Image, k \in S : (Near(i, k) /\ Distance(i, k) < Bands) => i \in S) => c[Photos] \subseteq S
  BY <1>3, <1>10, <1>14
<1> QED
  BY <1>2, <1>14, <1>15, <1>16, <1>17

(* GroupsAreBursts: whatever the order of the pairs, what is read at the    *)
(* end are the groups that chains of near photos make.                      *)
LEMMA GroupsRight == GroupInv => GroupsAreBursts
<1> SUFFICES ASSUME GroupInv
             PROVE  GroupsAreBursts
  OBVIOUS
<1>1. /\ hash \in [Image -> Bits] /\ taken \in [Image -> Instants]
      /\ parent \in [Image -> Image] /\ RanksRise(parent, rank)
      /\ TreesAreLinked /\ PairsJoined /\ Collecting
  BY DEF GroupInv, Forest
<1>2. ASSUME compress = {}, NEW x \in Image,
             NEW group, group = {i \in Image : parent[i] = parent[x]}
      PROVE  SurelyReach(x) \subseteq group /\ group \subseteq Reach(Near, x)
  <2>1. pairs = {} /\ \A i \in Image : parent[parent[i]] = parent[i] /\ parent[i] \in Image
    BY <1>1, <1>2 DEF Collecting, RootsOf
  <2>2. /\ group \in SUBSET Image /\ x \in group /\ WholeTrees(parent, group)
        /\ \A i \in Image : i \in group <=> parent[i] = parent[x]
    BY <1>2, <2>1 DEF WholeTrees
  <2>3. ASSUME NEW i \in Image, NEW k \in group, Near(i, k), Distance(i, k) < Bands
        PROVE  i \in group
    <3>1. k \in Image /\ i \in Int /\ k \in Int
      BY <2>2, GroupAssumption
    <3>2. ShareBand(i, k) /\ ShareBand(k, i) /\ Near(k, i)
      BY <1>1, <2>3, <3>1, FewBitsShareBand, NearBothWays
    <3>3. CASE i < k
      BY <1>1, <2>1, <2>2, <2>3, <3>1, <3>2, <3>3 DEF PairsJoined
    <3>4. CASE k < i
      BY <1>1, <2>1, <2>2, <2>3, <3>1, <3>2, <3>4 DEF PairsJoined
    <3> QED
      BY <2>3, <3>1, <3>3, <3>4
  <2>4. SurelyReach(x) \subseteq group
    BY <2>2, <2>3, SureReach
  <2>5. PICK R : R = Reach(Near, x)
    OBVIOUS
  <2>6. R \in SUBSET Image /\ x \in R /\ \A i \in Image, k \in R : Near(i, k) => i \in R
    BY <2>5, NearReach
  <2>7. R \in NearSets
    BY <1>1, <2>6, NearBothWays DEF NearSets
  <2>8. WholeTrees(parent, R)
    BY <1>1, <2>7 DEF TreesAreLinked
  <2>9. group \subseteq R
    BY <2>2, <2>6, <2>8 DEF WholeTrees
  <2> QED
    BY <2>4, <2>5, <2>9
<1>3. \A x \in Image : parent[x] # x => rank[x] < rank[parent[x]]
  BY <1>1 DEF RanksRise
<1>4. compress = {} =>
        \A x \in Image :
          /\ SurelyReach(x) \subseteq {i \in Image : parent[i] = parent[x]}
          /\ {i \in Image : parent[i] = parent[x]} \subseteq Reach(Near, x)
  BY <1>2, Zenon
<1> QED
  BY <1>3, <1>4, Zenon DEF GroupsAreBursts, SurelyReach

(* The types hold, and no rank outgrows the number of photos.               *)
LEMMA GroupsTyped == GroupInv => GroupTypeOK
<1> SUFFICES ASSUME GroupInv
             PROVE  GroupTypeOK
  OBVIOUS
<1>1. /\ parent \in [Image -> Image] /\ rank \in [Image -> Nat] /\ RanksBounded(parent, rank)
      /\ hash \in [Image -> Bits] /\ taken \in [Image -> Instants]
      /\ pairs \in SUBSET (Image \X Image) /\ compress \in SUBSET Image
  BY Zenon DEF GroupInv, Forest
<1>2. Cardinality(RootsOf(parent)) \in Nat /\ Photos \in Nat
  BY PhotosFinite DEF RootsOf
<1>3. \A i \in Image : rank[i] \in 0..Photos
  BY <1>1, <1>2 DEF RanksBounded
<1>4. rank \in [Image -> 0..Cardinality(Image)]
  BY <1>1, <1>3 DEF Photos
<1> QED
  BY <1>1, <1>4, Zenon DEF GroupTypeOK

(* Every step keeps it.                                                     *)
LEMMA GroupsKeep == GroupInv /\ [GroupNext]_groupVars => GroupInv'
<1> SUFFICES ASSUME GroupInv, [GroupNext]_groupVars
             PROVE  GroupInv'
  OBVIOUS
<1>1. ASSUME NEW a \in Image, NEW b \in Image, Unite(a, b)
      PROVE  GroupInv'
  BY <1>1, UniteKeeps
<1>2. ASSUME NEW i \in Image, CollectGroup(i)
      PROVE  GroupInv'
  BY <1>2, CollectKeeps
<1>3. CASE UNCHANGED groupVars
  <2>1. /\ hash' = hash /\ taken' = taken /\ pairs' = pairs /\ parent' = parent
        /\ rank' = rank /\ compress' = compress
    BY <1>3 DEF groupVars
  <2>2. NearSets' = NearSets
    BY <2>1 DEF NearSets, Near, Distance, Apart
  <2>3. (TreesAreLinked /\ Collecting)' <=> (TreesAreLinked /\ Collecting)
    BY <2>1, <2>2 DEF TreesAreLinked, Collecting, WholeTrees, RootsOf
  <2>4. PairsJoined' <=> PairsJoined
    <3>1. ASSUME NEW c \in Image, NEW d \in Image
          PROVE  (ShareBand(c, d)' <=> ShareBand(c, d)) /\ (Near(c, d)' <=> Near(c, d))
      BY <2>1 DEF ShareBand, Band, Near, Distance, Apart
    <3>2. \A S : WholeTrees(parent, S)' <=> WholeTrees(parent, S)
      BY <2>1 DEF WholeTrees
    <3> QED
      BY <2>1, <3>1, <3>2 DEF PairsJoined
  <2>5. Forest(parent, rank)' <=> Forest(parent, rank)
    BY <2>1 DEF Forest, RanksRise, RanksBounded, RootsOf, Photos
  <2> QED
    BY <2>1, <2>3, <2>4, <2>5, Zenon DEF GroupInv, Bits
<1> QED
  BY <1>1, <1>2, <1>3 DEF GroupNext

(* GroupsAreBursts: in the order the pairs come, with path compression and  *)
(* union by rank, the groups are never more than the chains of near photos  *)
(* join and never less than the chains whose photos share a band do, and    *)
(* ranks rise to the root, which bounds the recursion of find()             *)
(* (burst_cluster.py:43-77).                                                *)
THEOREM GroupingIsRight == GroupSpec => [](GroupsAreBursts /\ GroupTypeOK)
<1>1. GroupInit => GroupInv
  BY GroupStarts
<1>2. GroupInv /\ [GroupNext]_groupVars => GroupInv'
  BY GroupsKeep
<1>3. GroupInv => (GroupsAreBursts /\ GroupTypeOK)
  BY GroupsRight, GroupsTyped
<1> QED
  BY <1>1, <1>2, <1>3, PTL DEF GroupSpec
-----------------------------------------------------------------------------
(* The corner of the watermark.                                             *)

(* It holds of the empty set, and of every other if it holds without one    *)
(* of its members.                                                          *)
Inductive(S, G) ==
    {} \in G /\ \A T \in SUBSET S : T # {} => \E e \in T : T \ {e} \in G => T \in G
(* What is inductive holds of all finite sets.                              *)
LEMMA SetInduction ==
    ASSUME NEW S, IsFiniteSet(S), NEW G, Inductive(S, G)
    PROVE  \A T \in SUBSET S : T \in G
<1> DEFINE wrong == {n \in Nat : \E T \in SUBSET S : Cardinality(T) = n /\ T \notin G}
<1>0. {} \in G /\ \A T \in SUBSET S : T # {} => \E e \in T : T \ {e} \in G => T \in G
  BY DEF Inductive
<1>1. \A T \in SUBSET S : IsFiniteSet(T) /\ Cardinality(T) \in Nat
  BY FS_Subset, FS_CardinalityType
<1>2. wrong = {}
  <2> SUFFICES ASSUME wrong # {}
               PROVE  FALSE
    OBVIOUS
  <2>1. PICK n \in wrong : \A k \in wrong : n <= k
    <3>1. wrong \subseteq Nat
      OBVIOUS
    <3> HIDE DEF wrong
    <3> QED
      BY <3>1, LeastNumber
  <2>2. PICK T \in SUBSET S : Cardinality(T) = n /\ T \notin G
    OBVIOUS
  <2>3. T # {}
    <3> HIDE DEF wrong
    <3> QED
      BY <1>0, <2>2, Zenon
  <2>4. PICK e \in T : T \ {e} \in G => T \in G
    BY <1>0, <2>3
  <2>5. T \ {e} \in SUBSET S /\ Cardinality(T \ {e}) = Cardinality(T) - 1
    BY <1>1, FS_RemoveElement
  <2>6. n \in Nat /\ n - 1 \in Nat
    BY <1>1, <2>2, <2>5
  <2>7. n - 1 \in wrong
    BY <2>2, <2>4, <2>5, <2>6
  <2> HIDE DEF wrong
  <2> QED
    BY <2>1, <2>6, <2>7
<1> QED
  BY <1>1, <1>2

(* It is zero for the empty set, and a member can be taken from any other   *)
(* without a change.                                                        *)
Unchanging(S, F) ==
    F[{}] = 0 /\ \A T \in SUBSET S : T # {} => \E e \in T : F[T] = F[T \ {e}]
(* What is unchanging is zero.                                              *)
LEMMA StaysZero ==
    ASSUME NEW S, IsFiniteSet(S), NEW F, Unchanging(S, F)
    PROVE  \A T \in SUBSET S : F[T] = 0
<1>1. PICK G : G = {T \in SUBSET S : F[T] = 0}
  OBVIOUS
<1>2. Inductive(S, G)
  BY <1>1 DEF Inductive, Unchanging
<1>3. \A T \in SUBSET S : T \in G
  BY <1>2, SetInduction
<1> QED
  BY <1>1, <1>3

(* Files of one size weigh as many times that size as they are.             *)
LEMMA TotalLevel ==
    ASSUME NEW S, IsFiniteSet(S), NEW size, NEW n \in Nat, \A p \in S : size[p] = n
    PROVE  Total(S, size) = Cardinality(S) * n
<1>1. BytesOf(S, size) = S \X (1..n)
  BY DEF BytesOf
<1>2. IsFiniteSet(1..n) /\ Cardinality(1..n) = n
  BY FS_Interval
<1>3. Cardinality(S \X (1..n)) = Cardinality(S) * Cardinality(1..n)
  BY <1>2, FS_Product
<1> QED
  BY <1>1, <1>2, <1>3 DEF Total

-----------------------------------------------------------------------------
(* The variance of a set of pixels is what all pairs of them differ by:     *)
(* pixels by their luminance, the sums over those of some luminances, and   *)
(* the pairs of luminances among those.                                     *)
LumPairs == {p \in Luminance \X Luminance : p[1] < p[2]}
Of(D, v, V) == {q \in D : v[q] \in V}
Squares(D, v) == [q \in D |-> v[q] * v[q]]
Many(D, v, l) == Cardinality({q \in D : v[q] = l})
Weights(D, v) == [p \in LumPairs |-> Square(p[2] - p[1]) * Many(D, v, p[1]) * Many(D, v, p[2])]
Among(V) == {p \in LumPairs : p[1] \in V /\ p[2] \in V}
Ending(e, V) == {p \in LumPairs : \/ p[1] = e /\ p[2] \in V
                                  \/ p[2] = e /\ p[1] \in V}

(* The products are natural, and the pairs are finitely many.               *)
LEMMA PairsFinite ==
    /\ \A l \in Luminance : l \in Nat
    /\ IsFiniteSet(LumPairs)
    /\ \A V \in SUBSET Luminance : IsFiniteSet(V)
    /\ \A T \in SUBSET LumPairs : IsFiniteSet(T)
<1>1. Luminance \subseteq Nat /\ IsFiniteSet(Luminance)
  BY CornerAssumption
<1>2. IsFiniteSet(Luminance \X Luminance)
  BY <1>1, FS_Product
<1>3. IsFiniteSet(LumPairs)
  BY <1>2, FS_Subset DEF LumPairs
<1> QED
  BY <1>1, <1>3, FS_Subset

(* A product of natural numbers is one; and so is a square.                 *)
LEMMA Products ==
    /\ \A a, b \in Nat : a * b \in Nat
    /\ \A a \in Int : a * a \in Nat /\ Square(a) = a * a
BY DEF Square

(* Numbers of pixels and weights of pairs are natural.                      *)
LEMMA WeightsType ==
    ASSUME NEW D, IsFiniteSet(D), NEW v
    PROVE  /\ \A l : Many(D, v, l) \in Nat
           /\ \A p \in LumPairs : Weights(D, v)[p] \in Nat
<1>1. \A l : Many(D, v, l) \in Nat
  <2> SUFFICES ASSUME NEW l
               PROVE  Many(D, v, l) \in Nat
    OBVIOUS
  <2>1. IsFiniteSet({q \in D : v[q] = l})
    BY FS_Subset
  <2> QED
    BY <2>1, FS_CardinalityType DEF Many
<1>2. ASSUME NEW p \in LumPairs
      PROVE  Weights(D, v)[p] \in Nat
  <2>1. p[1] \in Nat /\ p[2] \in Nat
    BY PairsFinite DEF LumPairs
  <2>2. PICK a, b, c : a = Square(p[2] - p[1]) /\ b = Many(D, v, p[1]) /\ c = Many(D, v, p[2])
    OBVIOUS
  <2>3. a \in Nat /\ b \in Nat /\ c \in Nat
    BY <1>1, <2>1, <2>2, Products
  <2>4. a * b \in Nat /\ a * b * c \in Nat
    BY <2>3, Products
  <2> QED
    BY <2>2, <2>4 DEF Weights
<1> QED
  BY <1>1, <1>2

(* What one luminance more adds to the three sums.                          *)
LEMMA LevelAdds ==
    ASSUME NEW D, IsFiniteSet(D), NEW v, \A q \in D : v[q] \in Luminance,
           NEW V \in SUBSET Luminance, NEW e \in V
    PROVE  LET U == V \ {e}
               n == Many(D, v, e)
           IN  /\ n \in Nat /\ e \in Nat
               /\ Cardinality(Of(D, v, U)) \in Nat
               /\ Total(Of(D, v, U), v) \in Nat /\ Total(Of(D, v, U), Squares(D, v)) \in Nat
               /\ Cardinality(Of(D, v, V)) = Cardinality(Of(D, v, U)) + n
               /\ Total(Of(D, v, V), v) = Total(Of(D, v, U), v) + n * e
               /\ Total(Of(D, v, V), Squares(D, v)) = Total(Of(D, v, U), Squares(D, v)) + n * (e * e)
<1> DEFINE U == V \ {e}
<1>1. PICK A, L, n, w : A = Of(D, v, U) /\ L = {q \in D : v[q] = e} /\ n = Many(D, v, e)
                        /\ w = Squares(D, v)
  OBVIOUS
<1>2. /\ Of(D, v, V) = A \cup L /\ A \cap L = {} /\ A \subseteq D /\ L \subseteq D
      /\ Cardinality(L) = n
  BY <1>1 DEF Of, Many
<1>3. IsFiniteSet(A) /\ IsFiniteSet(L) /\ Cardinality(A) \in Nat /\ n \in Nat
  BY <1>2, FS_Subset, FS_CardinalityType
<1>4. \A q \in D : v[q] \in Nat /\ w[q] \in Nat
  BY <1>1, PairsFinite, Products DEF Squares
<1>5. e \in Nat /\ e * e \in Nat
  BY PairsFinite, Products
<1>6. Cardinality(A \cup L) = Cardinality(A) + n
  <2>1. Cardinality(A \cap L) = 0
    BY <1>2, FS_EmptySet
  <2>2. Cardinality(A \cup L) = Cardinality(A) + Cardinality(L) - Cardinality(A \cap L)
    BY <1>3, FS_Union
  <2> QED
    BY <1>2, <1>3, <2>1, <2>2
<1>7. Total(L, v) = n * e /\ Total(L, w) = n * (e * e)
  <2>1. \A q \in L : v[q] = e
    BY <1>1
  <2>2. \A q \in L : w[q] = e * e
    BY <1>1 DEF Squares
  <2>3. Total(L, v) = Cardinality(L) * e
    BY <1>3, <1>5, <2>1, TotalLevel
  <2>4. Total(L, w) = Cardinality(L) * (e * e)
    <3>1. PICK k \in Nat : k = e * e
      BY <1>5
    <3>2. Total(L, w) = Cardinality(L) * k
      BY <1>3, <2>2, <3>1, TotalLevel
    <3> QED
      BY <3>1, <3>2
  <2> QED
    BY <1>2, <2>3, <2>4
<1>8. /\ Total(A \cup L, v) = Total(A, v) + Total(L, v)
      /\ Total(A \cup L, w) = Total(A, w) + Total(L, w)
  <2>1. \A q \in A \cup L : v[q] \in Nat /\ w[q] \in Nat
    BY <1>2, <1>4
  <2> QED
    BY <1>2, <1>3, <2>1, TotalUnion
<1>9. Total(A, v) \in Nat /\ Total(A, w) \in Nat
  <2>1. \A q \in A : v[q] \in Nat /\ w[q] \in Nat
    BY <1>2, <1>4
  <2> QED
    BY <1>3, <2>1, TotalType
<1> QED
  BY <1>1, <1>2, <1>3, <1>5, <1>6, <1>7, <1>8, <1>9

(* The algebra of one luminance more.                                       *)
LEMMA SpreadAlgebra ==
    ASSUME NEW e \in Int, NEW l \in Int, NEW n \in Int, NEW k \in Int,
           NEW N \in Int, NEW A \in Int, NEW B \in Int
    PROVE  /\ n * (e * e * (N + k) - 2 * e * (A + k * l) + (B + k * (l * l)))
                = n * (e * e * N - 2 * e * A + B) + (e - l) * (e - l) * n * k
           /\ (N + n) * (B + n * (e * e)) - (A + n * e) * (A + n * e)
                = N * B - A * A + n * (e * e * N - 2 * e * A + B)
OBVIOUS

(* What the pairs of one luminance with others add up to.                   *)
LEMMA PairsOfOne ==
    ASSUME NEW D, IsFiniteSet(D), NEW v, \A q \in D : v[q] \in Luminance,
           NEW e \in Luminance, NEW V \in SUBSET Luminance, e \notin V
    PROVE  Total(Ending(e, V), Weights(D, v))
             = Many(D, v, e) * (e * e * Cardinality(Of(D, v, V))
                                  - 2 * e * Total(Of(D, v, V), v)
                                  + Total(Of(D, v, V), Squares(D, v)))
<1> DEFINE sum(T) == Many(D, v, e) * (e * e * Cardinality(Of(D, v, T))
                                        - 2 * e * Total(Of(D, v, T), v)
                                        + Total(Of(D, v, T), Squares(D, v)))
           F == [T \in SUBSET V |-> Total(Ending(e, T), Weights(D, v)) - sum(T)]
<1>1. IsFiniteSet(V) /\ e \in Nat /\ Many(D, v, e) \in Nat
  BY PairsFinite, WeightsType
<1>2. sum({}) = 0 /\ Total(Ending(e, {}), Weights(D, v)) = 0
  <2>1. Of(D, v, {}) = {} /\ Ending(e, {}) = {}
    BY DEF Of, Ending
  <2>2. Cardinality({}) = 0 /\ Total({}, v) = 0 /\ Total({}, Squares(D, v)) = 0
        /\ Total({}, Weights(D, v)) = 0
    BY FS_EmptySet, TotalEmpty
  <2>3. sum({}) = Many(D, v, e) * (e * e * 0 - 2 * e * 0 + 0)
    BY <2>1, <2>2
  <2>4. \A n \in Nat : n * (e * e * 0 - 2 * e * 0 + 0) = 0
    BY <1>1
  <2>5. sum({}) = 0
    <3> HIDE DEF sum
    <3> QED
      BY <1>1, <2>3, <2>4
  <2> QED
    BY <2>1, <2>2, <2>5
<1>3. ASSUME NEW T \in SUBSET V, NEW l \in T
      PROVE  F[T] = F[T \ {l}]
  <2>1. PICK U : U = T \ {l}
    OBVIOUS
  <2>2. PICK n, k, N, A, B, N2, A2, B2 :
          /\ n = Many(D, v, e) /\ k = Many(D, v, l)
          /\ N = Cardinality(Of(D, v, U)) /\ N2 = Cardinality(Of(D, v, T))
          /\ A = Total(Of(D, v, U), v) /\ A2 = Total(Of(D, v, T), v)
          /\ B = Total(Of(D, v, U), Squares(D, v)) /\ B2 = Total(Of(D, v, T), Squares(D, v))
    OBVIOUS
  <2>3. /\ k \in Nat /\ l \in Nat /\ N \in Nat /\ A \in Nat /\ B \in Nat
        /\ N2 = N + k /\ A2 = A + k * l /\ B2 = B + k * (l * l)
    <3>1. T \in SUBSET Luminance
      OBVIOUS
    <3> QED
      BY <2>1, <2>2, <3>1, LevelAdds
  <2>4. n \in Int /\ e \in Int /\ l \in Int /\ k \in Int /\ N \in Int /\ A \in Int /\ B \in Int
    BY <1>1, <2>2, <2>3
  <2>5. sum(T) = sum(U) + (e - l) * (e - l) * n * k
    <3>1. sum(T) = n * (e * e * (N + k) - 2 * e * (A + k * l) + (B + k * (l * l)))
      BY <2>2, <2>3
    <3>2. sum(U) = n * (e * e * N - 2 * e * A + B)
      BY <2>2
    <3> HIDE DEF sum
    <3> QED
      BY <2>4, <3>1, <3>2, SpreadAlgebra
  <2>6. PICK p \in LumPairs : /\ Ending(e, T) = Ending(e, U) \cup {p} /\ p \notin Ending(e, U)
                              /\ (p = <<e, l>> \/ p = <<l, e>>)
    <3>1. PICK p : p = IF e < l THEN <<e, l>> ELSE <<l, e>>
      OBVIOUS
    <3>2. l # e /\ e \in Nat /\ l \in Nat /\ l \in Luminance
      BY <1>1, <2>3
    <3>3. p \in LumPairs /\ (p = <<e, l>> \/ p = <<l, e>>)
      BY <3>1, <3>2 DEF LumPairs
    <3>4. \A q \in LumPairs : (q[1] = e /\ q[2] = l) \/ (q[2] = e /\ q[1] = l) <=> q = p
      BY <3>1, <3>2, <3>3 DEF LumPairs
    <3>5. Ending(e, T) = Ending(e, U) \cup {p} /\ p \notin Ending(e, U)
      BY <2>1, <3>2, <3>3, <3>4 DEF Ending
    <3> QED
      BY <3>3, <3>5
  <2>7. Weights(D, v)[p] = (e - l) * (e - l) * n * k
    <3>1. Weights(D, v)[p] = Square(p[2] - p[1]) * Many(D, v, p[1]) * Many(D, v, p[2])
      BY <2>6 DEF Weights
    <3>2. CASE p = <<e, l>>
      <4>1. Weights(D, v)[p] = (l - e) * (l - e) * n * k
        BY <2>2, <3>1, <3>2 DEF Square
      <4> QED
        BY <2>4, <4>1
    <3>3. CASE p = <<l, e>>
      <4>1. Weights(D, v)[p] = (e - l) * (e - l) * k * n
        BY <2>2, <3>1, <3>3 DEF Square
      <4> QED
        BY <2>4, <4>1
    <3> QED
      BY <2>6, <3>2, <3>3
  <2>8. Total(Ending(e, T), Weights(D, v)) = Total(Ending(e, U), Weights(D, v)) + Weights(D, v)[p]
    <3>1. PICK W, H : W = Weights(D, v) /\ H = Ending(e, U)
      OBVIOUS
    <3>2. \A q \in LumPairs : W[q] \in Nat
      BY <3>1, WeightsType
    <3>3. H \subseteq LumPairs /\ IsFiniteSet(H) /\ IsFiniteSet({p}) /\ H \cap {p} = {}
      BY <2>6, <3>1, PairsFinite, FS_Singleton DEF Ending
    <3>4. \A q \in H \cup {p} : W[q] \in Nat
      BY <2>6, <3>2, <3>3
    <3>5. Total(H \cup {p}, W) = Total(H, W) + Total({p}, W)
      BY <3>3, <3>4, TotalUnion
    <3>6. Total({p}, W) = W[p]
      BY <3>4, TotalSingle
    <3> QED
      BY <2>6, <3>1, <3>5, <3>6
  <2>9. F[T] = Total(Ending(e, T), Weights(D, v)) - sum(T)
        /\ F[U] = Total(Ending(e, U), Weights(D, v)) - sum(U)
    BY <2>1
  <2>10. Total(Ending(e, U), Weights(D, v)) \in Nat /\ sum(U) \in Int
         /\ (e - l) * (e - l) * n * k \in Int
    <3>1. IsFiniteSet(Ending(e, U)) /\ \A q \in Ending(e, U) : Weights(D, v)[q] \in Nat
      BY PairsFinite, WeightsType DEF Ending
    <3>2. sum(U) = n * (e * e * N - 2 * e * A + B)
      BY <2>2
    <3>3. Total(Ending(e, U), Weights(D, v)) \in Nat
      BY <3>1, TotalType
    <3> HIDE DEF sum
    <3> QED
      BY <2>4, <3>2, <3>3
  <2> HIDE DEF sum, F
  <2> QED
    BY <2>1, <2>5, <2>7, <2>8, <2>9, <2>10
<1>4. F[{}] = 0
  <2>1. F[{}] = Total(Ending(e, {}), Weights(D, v)) - sum({})
    OBVIOUS
  <2> HIDE DEF sum, F
  <2> QED
    BY <1>2, <2>1
<1>5. F[V] = 0
  <2>1. \A T \in SUBSET V : T # {} => \E l \in T : F[T] = F[T \ {l}]
    BY <1>3
  <2> HIDE DEF F
  <2>2. Unchanging(V, F)
    BY <1>4, <2>1 DEF Unchanging
  <2>3. \A T \in SUBSET V : F[T] = 0
    BY <1>1, <2>2, StaysZero
  <2> QED
    BY <2>3
<1>6. Total(Ending(e, V), Weights(D, v)) - sum(V) = 0
  BY <1>5
<1>7. Total(Ending(e, V), Weights(D, v)) \in Nat /\ sum(V) \in Int
  <2>1. IsFiniteSet(Ending(e, V)) /\ \A q \in Ending(e, V) : Weights(D, v)[q] \in Nat
    BY PairsFinite, WeightsType DEF Ending
  <2>2. IsFiniteSet(Of(D, v, V)) /\ Cardinality(Of(D, v, V)) \in Nat
    BY FS_Subset, FS_CardinalityType DEF Of
  <2>3. \A q \in Of(D, v, V) : v[q] \in Nat /\ Squares(D, v)[q] \in Nat
    BY PairsFinite, Products DEF Of, Squares
  <2>4. Total(Of(D, v, V), v) \in Nat /\ Total(Of(D, v, V), Squares(D, v)) \in Nat
    BY <2>2, <2>3, TotalType
  <2>5. PICK n, N, A, B : /\ n = Many(D, v, e) /\ N = Cardinality(Of(D, v, V))
                          /\ A = Total(Of(D, v, V), v) /\ B = Total(Of(D, v, V), Squares(D, v))
    OBVIOUS
  <2>6. sum(V) = n * (e * e * N - 2 * e * A + B)
    BY <2>5
  <2>7. Total(Ending(e, V), Weights(D, v)) \in Nat
    BY <2>1, TotalType
  <2>8. n \in Int /\ N \in Int /\ A \in Int /\ B \in Int /\ e \in Int
    BY <1>1, <2>2, <2>4, <2>5
  <2> HIDE DEF sum
  <2> QED
    BY <2>6, <2>7, <2>8
<1>8. Total(Ending(e, V), Weights(D, v)) = sum(V)
  <2> HIDE DEF sum
  <2> QED
    BY <1>6, <1>7
<1> QED
  BY <1>8

(* n times the sum of the squares less the square of the sum is what all    *)
(* pairs of luminances differ by, squared.                                  *)
LEMMA VarianceOfPairs ==
    ASSUME NEW D, IsFiniteSet(D), NEW v, \A q \in D : v[q] \in Luminance
    PROVE  Cardinality(D) * Total(D, Squares(D, v)) - Total(D, v) * Total(D, v)
             = Total(LumPairs, Weights(D, v))
<1> DEFINE sum(T) == Cardinality(Of(D, v, T)) * Total(Of(D, v, T), Squares(D, v))
                       - Total(Of(D, v, T), v) * Total(Of(D, v, T), v)
           F == [T \in SUBSET Luminance |-> Total(Among(T), Weights(D, v)) - sum(T)]
<1>1. \A T \in SUBSET LumPairs : Total(T, Weights(D, v)) \in Nat
  <2> SUFFICES ASSUME NEW T \in SUBSET LumPairs
               PROVE  Total(T, Weights(D, v)) \in Nat
    OBVIOUS
  <2>1. IsFiniteSet(T) /\ \A q \in T : Weights(D, v)[q] \in Nat
    BY PairsFinite, WeightsType
  <2> QED
    BY <2>1, TotalType
<1>2. F[{}] = 0
  <2>1. Of(D, v, {}) = {} /\ Among({}) = {}
    BY DEF Of, Among
  <2>2. Cardinality({}) = 0 /\ Total({}, v) = 0 /\ Total({}, Squares(D, v)) = 0
        /\ Total({}, Weights(D, v)) = 0
    BY FS_EmptySet, TotalEmpty
  <2>3. sum({}) = 0 * 0 - 0 * 0
    BY <2>1, <2>2
  <2>4. F[{}] = Total(Among({}), Weights(D, v)) - sum({})
    OBVIOUS
  <2> HIDE DEF sum, F
  <2> QED
    BY <2>1, <2>2, <2>3, <2>4
<1>3. ASSUME NEW T \in SUBSET Luminance, NEW e \in T
      PROVE  F[T] = F[T \ {e}]
  <2>1. PICK U : U = T \ {e}
    OBVIOUS
  <2>2. PICK n, N, A, B, N2, A2, B2 :
          /\ n = Many(D, v, e)
          /\ N = Cardinality(Of(D, v, U)) /\ N2 = Cardinality(Of(D, v, T))
          /\ A = Total(Of(D, v, U), v) /\ A2 = Total(Of(D, v, T), v)
          /\ B = Total(Of(D, v, U), Squares(D, v)) /\ B2 = Total(Of(D, v, T), Squares(D, v))
    OBVIOUS
  <2>3. /\ n \in Nat /\ e \in Nat /\ N \in Nat /\ A \in Nat /\ B \in Nat
        /\ N2 = N + n /\ A2 = A + n * e /\ B2 = B + n * (e * e)
    BY <2>1, <2>2, LevelAdds
  <2>4. sum(T) = sum(U) + n * (e * e * N - 2 * e * A + B)
    <3>1. sum(T) = (N + n) * (B + n * (e * e)) - (A + n * e) * (A + n * e)
      BY <2>2, <2>3
    <3>2. sum(U) = N * B - A * A
      BY <2>2
    <3>3. n \in Int /\ e \in Int /\ N \in Int /\ A \in Int /\ B \in Int
      BY <2>3
    <3> HIDE DEF sum
    <3> QED
      BY <3>1, <3>2, <3>3, SpreadAlgebra
  <2>5. Total(Ending(e, U), Weights(D, v)) = n * (e * e * N - 2 * e * A + B)
    <3>1. e \in Luminance /\ U \in SUBSET Luminance /\ e \notin U
      BY <2>1
    <3> QED
      BY <2>2, <3>1, PairsOfOne
  <2>6. /\ Among(T) = Among(U) \cup Ending(e, U) /\ Among(U) \cap Ending(e, U) = {}
        /\ Among(U) \subseteq LumPairs /\ Ending(e, U) \subseteq LumPairs
    <3>1. \A p \in LumPairs : p[1] # p[2]
      BY PairsFinite DEF LumPairs
    <3> QED
      BY <2>1, <3>1 DEF Among, Ending
  <2>7. Total(Among(T), Weights(D, v))
          = Total(Among(U), Weights(D, v)) + Total(Ending(e, U), Weights(D, v))
    <3>1. PICK W, G, H : W = Weights(D, v) /\ G = Among(U) /\ H = Ending(e, U)
      OBVIOUS
    <3>2. /\ IsFiniteSet(G) /\ IsFiniteSet(H) /\ G \cap H = {}
          /\ \A q \in G \cup H : W[q] \in Nat
      BY <2>6, <3>1, PairsFinite, WeightsType
    <3>3. Total(G \cup H, W) = Total(G, W) + Total(H, W)
      BY <3>2, TotalUnion
    <3> QED
      BY <2>6, <3>1, <3>3
  <2>8. F[T] = Total(Among(T), Weights(D, v)) - sum(T)
        /\ F[U] = Total(Among(U), Weights(D, v)) - sum(U)
    BY <2>1
  <2>9. /\ Total(Among(U), Weights(D, v)) \in Nat /\ sum(U) \in Int
        /\ n * (e * e * N - 2 * e * A + B) \in Int
    <3>1. sum(U) = N * B - A * A
      BY <2>2
    <3>2. Total(Among(U), Weights(D, v)) \in Nat
      BY <1>1, <2>6
    <3> HIDE DEF sum
    <3> QED
      BY <2>3, <3>1, <3>2
  <2> HIDE DEF sum, F
  <2> QED
    BY <2>1, <2>4, <2>5, <2>7, <2>8, <2>9
<1>4. F[Luminance] = 0
  <2>1. \A T \in SUBSET Luminance : T # {} => \E e \in T : F[T] = F[T \ {e}]
    BY <1>3
  <2> HIDE DEF F
  <2>2. Unchanging(Luminance, F)
    BY <1>2, <2>1 DEF Unchanging
  <2>3. \A T \in SUBSET Luminance : F[T] = 0
    BY <2>2, CornerAssumption, StaysZero
  <2> QED
    BY <2>3
<1>5. Of(D, v, Luminance) = D /\ Among(Luminance) = LumPairs
  BY DEF Of, Among, LumPairs
<1>6. Total(LumPairs, Weights(D, v)) - sum(Luminance) = 0
  BY <1>4, <1>5
<1>7. Total(LumPairs, Weights(D, v)) \in Nat
  BY <1>1
<1>8. sum(Luminance) = Cardinality(D) * Total(D, Squares(D, v)) - Total(D, v) * Total(D, v)
  BY <1>5
<1>9. Cardinality(D) \in Nat /\ Total(D, v) \in Nat /\ Total(D, Squares(D, v)) \in Nat
  <2>1. \A q \in D : v[q] \in Nat /\ Squares(D, v)[q] \in Nat
    BY PairsFinite, Products DEF Squares
  <2> QED
    BY <2>1, TotalType, FS_CardinalityType
<1> HIDE DEF sum
<1>10. Cardinality(D) * Total(D, Squares(D, v)) \in Nat /\ Total(D, v) * Total(D, v) \in Nat
  BY <1>9, Products
<1>11. PICK x, y, z, t :
         /\ x = Total(LumPairs, Weights(D, v)) /\ t = sum(Luminance)
         /\ y = Cardinality(D) * Total(D, Squares(D, v)) /\ z = Total(D, v) * Total(D, v)
  OBVIOUS
<1>12. x - t = 0 /\ t = y - z /\ x \in Nat /\ y \in Nat /\ z \in Nat
  BY <1>6, <1>7, <1>8, <1>10, <1>11
<1>13. y - z = x
  BY <1>12
<1> QED
  BY <1>11, <1>13

-----------------------------------------------------------------------------
(* Sides of the scaled copy are at least one pixel long.                    *)
LEMMA RoundedType ==
    ASSUME NEW a \in Nat, NEW b \in Nat \ {0}
    PROVE  Rounded(a, b) \in Nat
<1>1. a \div b \in Nat
  OBVIOUS
<1>2. PICK q : q = a \div b
  OBVIOUS
<1>3. q \in Nat /\ q + 1 \in Nat
  BY <1>1, <1>2
<1>4. Rounded(a, b) = q + 1 \/ Rounded(a, b) = q
  BY <1>2 DEF Rounded
<1> QED
  BY <1>3, <1>4

(* A copy with its logo and margin: nothing is scaled to nothing.           *)
Sides == [w : Nat \ {0}, h : Nat \ {0}, lw : Nat \ {0}, lh : Nat \ {0}, m : Nat]

(* What scaling a canvas gives.                                             *)
LEMMA SmallType ==
    ASSUME NEW c \in Canvas
    PROVE  /\ c \in [w : Nat, h : Nat, lw : Nat, lh : Nat, m : Nat]
           /\ Small(c) \in Sides
<1>1. /\ c \in [w : Nat, h : Nat, lw : Nat, lh : Nat, m : Nat]
      /\ MaxSide \in Nat \ {0}
  BY CornerAssumption
<1>2. Longest(c) \in Nat
  BY <1>1 DEF Longest, AtLeast
<1>3. ASSUME NEW n \in Nat
      PROVE  Scaled(c, n) \in Nat
  <2>1. n * MaxSide \in Nat
    BY <1>1, Products
  <2>2. CASE Longest(c) > MaxSide
    <3>1. PICK a, b : a = n * MaxSide /\ b = Longest(c)
      OBVIOUS
    <3>2. a \in Nat /\ b \in Nat \ {0}
      BY <1>1, <1>2, <2>1, <2>2, <3>1
    <3>3. Rounded(a, b) \in Nat
      BY <3>2, RoundedType
    <3> QED
      BY <2>2, <3>1, <3>3 DEF Scaled
  <2>3. CASE ~(Longest(c) > MaxSide)
    BY <2>3 DEF Scaled
  <2> QED
    BY <2>2, <2>3
<1>4. \A n \in Nat : AtLeast(1, n) \in Nat \ {0}
  BY DEF AtLeast
<1>5. /\ c.w \in Nat /\ c.h \in Nat /\ c.lw \in Nat /\ c.lh \in Nat /\ c.m \in Nat
  BY <1>1
<1>6. /\ AtLeast(1, Scaled(c, c.w)) \in Nat \ {0} /\ AtLeast(1, Scaled(c, c.h)) \in Nat \ {0}
      /\ AtLeast(1, Scaled(c, c.lw)) \in Nat \ {0} /\ AtLeast(1, Scaled(c, c.lh)) \in Nat \ {0}
      /\ Scaled(c, c.m) \in Nat
  BY <1>3, <1>4, <1>5
<1>7. Small(c) \in Sides
  BY <1>6, Zenon DEF Small, Sides
<1> QED
  BY <1>1, <1>7

(* Corners are on the canvas or right and below of it.                      *)
LEMMA PositionType ==
    ASSUME NEW c, c \in [w : Nat, h : Nat, lw : Nat, lh : Nat, m : Nat], NEW k \in Corners
    PROVE  Position(c)[k][1] \in Nat /\ Position(c)[k][2] \in Nat
BY DEF Position, Corners, AtLeast

(* What the tables and the row's sum hold when the pixel at x, y is next:   *)
(* above and to the left of it, what the pixels up to there weigh.          *)
Within(c, x, y) == {q \in Grid(c) : q[1] <= x /\ q[2] <= y}
RowTo(c, x, y) == {q \in Grid(c) : q[1] <= x /\ q[2] = y}
Sums(c, s, f, x, y, t) ==
    /\ t = Total(RowTo(c, x - 1, y), f)
    /\ \A p \in Table(c) :
         (p[1] = 0 \/ p[2] < y \/ (p[2] = y /\ p[1] < x)) =>
             s[p] = Total(Within(c, p[1], p[2]), f)

(* Any pixels of the copy are finitely many, and their weight is natural.   *)
LEMMA PixelsWeigh ==
    ASSUME NEW c \in Canvas, NEW f \in [Grid(c) -> Nat], NEW S \in SUBSET Grid(c)
    PROVE  IsFiniteSet(S) /\ Total(S, f) \in Nat
<1>1. IsFiniteSet(Grid(c))
  <2>1. Small(c).w \in Int /\ Small(c).h \in Int
    BY SmallType DEF Sides
  <2>2. IsFiniteSet(1..Small(c).w) /\ IsFiniteSet(1..Small(c).h)
    BY <2>1, FS_Interval
  <2> QED
    BY <2>2, FS_Product DEF Grid
<1>2. IsFiniteSet(S)
  BY <1>1, FS_Subset
<1> QED
  BY <1>2, TotalType

(* Two sets of pixels that share none weigh as much as both.                *)
LEMMA PixelsAdd ==
    ASSUME NEW c \in Canvas, NEW f \in [Grid(c) -> Nat],
           NEW S \in SUBSET Grid(c), NEW T \in SUBSET Grid(c), S \cap T = {}
    PROVE  Total(S \cup T, f) = Total(S, f) + Total(T, f)
<1>1. IsFiniteSet(S) /\ IsFiniteSet(T) /\ \A q \in S \cup T : f[q] \in Nat
  BY PixelsWeigh
<1> QED
  BY <1>1, TotalUnion

(* Summing one pixel more.                                                  *)
LEMMA SumsGrow ==
    ASSUME NEW c \in Canvas, NEW f \in [Grid(c) -> Nat], NEW s \in [Table(c) -> Nat],
           NEW x \in 1..Small(c).w, NEW y \in 1..Small(c).h,
           NEW t, Sums(c, s, f, x, y, t),
           NEW u, u = t + f[<<x, y>>],
           NEW r, r = [s EXCEPT ![<<x, y>>] = s[<<x, y - 1>>] + u]
    PROVE  /\ t \in Nat /\ u \in Nat /\ r \in [Table(c) -> Nat]
           /\ x # Small(c).w => Sums(c, r, f, x + 1, y, u)
           /\ x = Small(c).w => Sums(c, r, f, 1, y + 1, 0)
<1>0. Small(c).w \in Nat /\ Small(c).h \in Nat /\ x \in Nat /\ y \in Nat
  BY SmallType DEF Sides
<1>1. /\ <<x, y>> \in Grid(c) /\ <<x, y>> \in Table(c) /\ <<x, y - 1>> \in Table(c)
  BY <1>0 DEF Grid, Table
<1>2. \A q \in Grid(c) : q[1] \in 1..Small(c).w /\ q[2] \in 1..Small(c).h /\ q = <<q[1], q[2]>>
  BY DEF Grid
<1>3. \A q \in Table(c) : q[1] \in 0..Small(c).w /\ q[2] \in 0..Small(c).h /\ q = <<q[1], q[2]>>
  BY DEF Table
<1>4. /\ RowTo(c, x, y) = RowTo(c, x - 1, y) \cup {<<x, y>>}
      /\ RowTo(c, x - 1, y) \cap {<<x, y>>} = {}
  BY <1>0, <1>1, <1>2 DEF RowTo
<1>5. /\ t = Total(RowTo(c, x - 1, y), f) /\ t \in Nat
      /\ Total({<<x, y>>}, f) = f[<<x, y>>] /\ f[<<x, y>>] \in Nat
  <2>1. RowTo(c, x - 1, y) \in SUBSET Grid(c)
    BY DEF RowTo
  <2>2. f[<<x, y>>] \in Nat
    BY <1>1
  <2> QED
    BY <2>1, <2>2, PixelsWeigh, TotalSingle DEF Sums
<1>6. u = Total(RowTo(c, x, y), f) /\ u \in Nat
  <2>1. RowTo(c, x - 1, y) \in SUBSET Grid(c) /\ {<<x, y>>} \in SUBSET Grid(c)
    BY <1>1 DEF RowTo
  <2>2. Total(RowTo(c, x - 1, y) \cup {<<x, y>>}, f)
          = Total(RowTo(c, x - 1, y), f) + Total({<<x, y>>}, f)
    BY <1>4, <2>1, PixelsAdd
  <2> QED
    BY <1>4, <1>5, <2>2
<1>7. /\ Within(c, x, y) = Within(c, x, y - 1) \cup RowTo(c, x, y)
      /\ Within(c, x, y - 1) \cap RowTo(c, x, y) = {}
  BY <1>0, <1>2 DEF Within, RowTo
<1>8. s[<<x, y - 1>>] + u = Total(Within(c, x, y), f) /\ s[<<x, y - 1>>] + u \in Nat
  <2>1. s[<<x, y - 1>>] = Total(Within(c, x, y - 1), f)
    <3>1. PICK p \in Table(c) : p = <<x, y - 1>>
      BY <1>1
    <3>2. p[1] = x /\ p[2] = y - 1 /\ p[2] < y
      BY <1>0, <3>1
    <3> QED
      BY <3>1, <3>2 DEF Sums
  <2>2. Within(c, x, y - 1) \in SUBSET Grid(c) /\ RowTo(c, x, y) \in SUBSET Grid(c)
    BY DEF Within, RowTo
  <2>3. Total(Within(c, x, y - 1) \cup RowTo(c, x, y), f)
          = Total(Within(c, x, y - 1), f) + Total(RowTo(c, x, y), f)
    BY <1>7, <2>2, PixelsAdd
  <2>4. s[<<x, y - 1>>] \in Nat
    BY <1>1
  <2> QED
    BY <1>6, <1>7, <2>1, <2>3, <2>4
<1>9. /\ r \in [Table(c) -> Nat] /\ r[<<x, y>>] = Total(Within(c, x, y), f)
      /\ \A p \in Table(c) : p # <<x, y>> => r[p] = s[p]
  BY <1>1, <1>8
<1>10. \A p \in Table(c) :
         (p[1] = 0 \/ p[2] < y \/ (p[2] = y /\ p[1] <= x)) =>
             r[p] = Total(Within(c, p[1], p[2]), f)
  <2> SUFFICES ASSUME NEW p \in Table(c), p[1] = 0 \/ p[2] < y \/ (p[2] = y /\ p[1] <= x)
               PROVE  r[p] = Total(Within(c, p[1], p[2]), f)
    OBVIOUS
  <2>1. CASE p = <<x, y>>
    <3>1. p[1] = x /\ p[2] = y
      BY <2>1
    <3> QED
      BY <1>9, <2>1, <3>1
  <2>2. CASE p # <<x, y>>
    <3>1. ~(p[1] = x /\ p[2] = y)
      BY <1>3, <2>2
    <3>2. p[1] = 0 \/ p[2] < y \/ (p[2] = y /\ p[1] < x)
      BY <1>0, <1>3, <3>1
    <3>3. s[p] = Total(Within(c, p[1], p[2]), f)
      BY <3>2 DEF Sums
    <3> QED
      BY <1>9, <2>2, <3>3
  <2> QED
    BY <2>1, <2>2
<1>11. x # Small(c).w => Sums(c, r, f, x + 1, y, u)
  <2>1. x + 1 - 1 = x
    BY <1>0
  <2>2. \A p \in Table(c) : p[1] < x + 1 => p[1] <= x
    BY <1>0, <1>3
  <2> QED
    BY <1>6, <1>10, <2>1, <2>2 DEF Sums
<1>12. x = Small(c).w => Sums(c, r, f, 1, y + 1, 0)
  <2> SUFFICES ASSUME x = Small(c).w
               PROVE  Sums(c, r, f, 1, y + 1, 0)
    OBVIOUS
  <2>1. RowTo(c, 1 - 1, y + 1) = {}
    BY <1>0, <1>2 DEF RowTo
  <2>2. Total(RowTo(c, 1 - 1, y + 1), f) = 0
    BY <2>1, TotalEmpty
  <2>3. ASSUME NEW p \in Table(c), p[1] = 0 \/ p[2] < y + 1 \/ (p[2] = y + 1 /\ p[1] < 1)
        PROVE  p[1] = 0 \/ p[2] < y \/ (p[2] = y /\ p[1] <= x)
    BY <1>0, <1>3, <2>3
  <2> QED
    BY <1>10, <2>2, <2>3 DEF Sums
<1> QED
  BY <1>5, <1>6, <1>9, <1>11, <1>12

(* The pixels between four places of a table.                               *)
Block(c, x, y, a, b) ==
    {q \in Grid(c) : x < q[1] /\ q[1] <= x + a /\ y < q[2] /\ q[2] <= y + b}
(* Four reads of a table are the weight of the pixels between them.         *)
LEMMA FourReads ==
    ASSUME NEW c \in Canvas, NEW f \in [Grid(c) -> Nat],
           NEW x \in Nat, NEW y \in Nat, NEW a \in Nat, NEW b \in Nat
    PROVE  Total(Within(c, x + a, y + b), f) - Total(Within(c, x + a, y), f)
             - Total(Within(c, x, y + b), f) + Total(Within(c, x, y), f)
             = Total(Block(c, x, y, a, b), f)
<1>0. PICK D : D = Block(c, x, y, a, b)
  OBVIOUS
<1> DEFINE left == {q \in Grid(c) : q[1] <= x /\ y < q[2] /\ q[2] <= y + b}
<1>1. \A q \in Grid(c) : q[1] \in Nat /\ q[2] \in Nat
  <2>1. Small(c).w \in Nat /\ Small(c).h \in Nat
    BY SmallType DEF Sides
  <2> QED
    BY <2>1 DEF Grid
<1>2. /\ Within(c, x, y + b) = Within(c, x, y) \cup left
      /\ Within(c, x, y) \cap left = {}
  BY <1>1 DEF Within
<1>3. /\ Within(c, x + a, y + b) = Within(c, x + a, y) \cup (left \cup D)
      /\ Within(c, x + a, y) \cap (left \cup D) = {}
      /\ left \cap D = {}
  BY <1>0, <1>1 DEF Within, Block
<1>4. /\ Within(c, x, y) \in SUBSET Grid(c) /\ Within(c, x + a, y) \in SUBSET Grid(c)
      /\ left \in SUBSET Grid(c) /\ D \in SUBSET Grid(c) /\ left \cup D \in SUBSET Grid(c)
  BY <1>0 DEF Within, Block
<1> HIDE DEF left
<1>5. Total(Within(c, x, y + b), f) = Total(Within(c, x, y), f) + Total(left, f)
  BY <1>2, <1>4, PixelsAdd
<1>6. Total(Within(c, x + a, y + b), f) = Total(Within(c, x + a, y), f) + Total(left \cup D, f)
  BY <1>3, <1>4, PixelsAdd
<1>7. Total(left \cup D, f) = Total(left, f) + Total(D, f)
  BY <1>3, <1>4, PixelsAdd
<1>8. /\ Total(Within(c, x, y), f) \in Nat /\ Total(Within(c, x + a, y), f) \in Nat
      /\ Total(left, f) \in Nat /\ Total(D, f) \in Nat
  BY <1>4, PixelsWeigh
<1> QED
  BY <1>0, <1>5, <1>6, <1>7, <1>8

(* What the spread of a corner is, as a sum over the pairs of luminances.   *)
LEMMA SpreadIsTotal ==
    ASSUME NEW k, IsFiniteSet(Covered(k))
    PROVE  Spread(k) = Total(LumPairs, Weights(Covered(k), pixel))
           /\ Spread(k) \in Nat
<1> DEFINE pick(S) == CHOOSE t \in S : TRUE
           term(t) == Square(t[2] - t[1]) * Level(k, t[1]) * Level(k, t[2])
<1>1. PICK c : c = CHOOSE g : g = [S \in SUBSET LumPairs |->
                     IF S = {} THEN 0 ELSE term(pick(S)) + g[S \ {pick(S)}]]
  OBVIOUS
<1>2. Spread(k) = c[LumPairs]
  BY <1>1, Zenon DEF Spread, LumPairs
<1>3. PICK W : W = Weights(Covered(k), pixel)
  OBVIOUS
<1>4. \A t \in LumPairs : term(t) = W[t] /\ W[t] \in Nat
  BY <1>3, WeightsType DEF Weights, Many, Level
<1>5. \A S \in SUBSET LumPairs : S # {} => pick(S) \in S
  OBVIOUS
<1> HIDE DEF term, pick
<1>6. ASSUME NEW S \in SUBSET LumPairs, NEW t \in S
      PROVE  Total(S, W) = term(t) + Total(S \ {t}, W)
  <2>1. IsFiniteSet(S) /\ {t} \subseteq S /\ \A p \in S : W[p] \in Nat
    BY <1>4, PairsFinite
  <2>2. /\ Total(S \ {t}, W) = Total(S, W) - Total({t}, W)
        /\ Total({t}, W) \in Nat /\ Total(S, W) \in Nat
    BY <2>1, TotalMinus, TotalType
  <2>3. Total({t}, W) = W[t]
    BY <2>1, TotalSingle
  <2> QED
    BY <1>4, <2>2, <2>3
<1>7. PICK w : w = [S \in SUBSET LumPairs |-> Total(S, W)]
  OBVIOUS
<1>8. w = [S \in SUBSET LumPairs |-> IF S = {} THEN 0 ELSE term(pick(S)) + w[S \ {pick(S)}]]
  <2>1. ASSUME NEW S \in SUBSET LumPairs
        PROVE  w[S] = IF S = {} THEN 0 ELSE term(pick(S)) + w[S \ {pick(S)}]
    <3>1. CASE S = {}
      BY <1>7, <3>1, TotalEmpty
    <3>2. CASE S # {}
      <4>1. pick(S) \in S /\ S \ {pick(S)} \in SUBSET LumPairs
        BY <1>5, <3>2
      <4>2. Total(S, W) = term(pick(S)) + Total(S \ {pick(S)}, W)
        BY <1>6, <4>1
      <4> QED
        BY <1>7, <3>2, <4>1, <4>2
    <3> QED
      BY <3>1, <3>2
  <2> QED
    BY <1>7, <2>1
<1>9. c = [S \in SUBSET LumPairs |-> IF S = {} THEN 0 ELSE term(pick(S)) + c[S \ {pick(S)}]]
  BY <1>1, <1>8, Zenon
<1>10. \A S \in SUBSET LumPairs :
         c[S] = IF S = {} THEN 0 ELSE term(pick(S)) + c[S \ {pick(S)}]
  <2>1. PICK d : d = [S \in SUBSET LumPairs |->
                       IF S = {} THEN 0 ELSE term(pick(S)) + c[S \ {pick(S)}]]
    OBVIOUS
  <2>2. \A S \in SUBSET LumPairs :
          d[S] = IF S = {} THEN 0 ELSE term(pick(S)) + c[S \ {pick(S)}]
    BY <2>1
  <2>3. c = d
    BY <1>9, <2>1
  <2> QED
    BY <2>2, <2>3
<1>11. PICK G : G = {S \in SUBSET LumPairs : c[S] = Total(S, W)}
  OBVIOUS
<1>12. Inductive(LumPairs, G)
  <2>1. {} \in G
    <3>1. {} \in SUBSET LumPairs
      OBVIOUS
    <3>2. c[{}] = 0 /\ Total({}, W) = 0
      BY <1>10, <3>1, TotalEmpty
    <3> QED
      BY <1>11, <3>1, <3>2
  <2>2. ASSUME NEW S \in SUBSET LumPairs, S # {}
        PROVE  \E e \in S : S \ {e} \in G => S \in G
    <3>1. PICK e \in S : e = pick(S)
      BY <1>5, <2>2
    <3>2. c[S] = term(e) + c[S \ {e}]
      BY <1>10, <2>2, <3>1
    <3>3. Total(S, W) = term(e) + Total(S \ {e}, W)
      BY <1>6
    <3>4. S \ {e} \in G => S \in G
      BY <1>11, <3>2, <3>3
    <3> QED
      BY <3>4
  <2> QED
    BY <2>1, <2>2 DEF Inductive
<1>13. LumPairs \in G
  BY <1>12, PairsFinite, SetInduction
<1>14. Total(LumPairs, W) \in Nat
  BY <1>4, PairsFinite, TotalType
<1> QED
  BY <1>2, <1>3, <1>11, <1>13, <1>14

-----------------------------------------------------------------------------
(* The tables hold the sums of what was read, and the corner is chosen for  *)
(* what the pixels say.                                                     *)
Lit(c, v) == [q \in Grid(c) |-> v[q] * v[q]]
CornerInv ==
    /\ CornerTypeOK
    /\ at \in [x : Nat, y : Nat, sum : Nat, sumsq : Nat]
    /\ Sums(canvas, s1, pixel, at.x, at.y, at.sum)
    /\ Sums(canvas, s2, Lit(canvas, pixel), at.x, at.y, at.sumsq)
    /\ LogoInQuietCorner

(* The four reads of a corner give its variance by definition.              *)
LEMMA VarianceIsSpread ==
    ASSUME CornerInv, Summed, NEW k \in Scored
    PROVE  Variance(k) = Spread(k) /\ Spread(k) \in Nat
<1>0. /\ canvas \in Canvas /\ pixel \in [Grid(canvas) -> Luminance] /\ k \in Corners
      /\ s1 \in [Table(canvas) -> Nat] /\ s2 \in [Table(canvas) -> Nat]
      /\ at.x \in Nat /\ at.y \in Nat /\ at.y > Small(canvas).h
      /\ Sums(canvas, s1, pixel, at.x, at.y, at.sum)
      /\ Sums(canvas, s2, Lit(canvas, pixel), at.x, at.y, at.sumsq)
  BY DEF CornerInv, CornerTypeOK, Summed, Scored
<1>1. PICK c, x, y, a, b : /\ c = Small(canvas) /\ x = Position(c)[k][1] /\ y = Position(c)[k][2]
                           /\ a = c.lw /\ b = c.lh
  OBVIOUS
<1>2. /\ c \in Sides /\ c.w \in Nat /\ c.h \in Nat /\ a \in Nat /\ b \in Nat
  BY <1>0, <1>1, SmallType DEF Sides
<1>3. x \in Nat /\ y \in Nat
  <2>1. c \in [w : Nat, h : Nat, lw : Nat, lh : Nat, m : Nat]
    BY <1>2 DEF Sides
  <2> QED
    BY <1>0, <1>1, <2>1, PositionType
<1>4. x + a <= c.w /\ y + b <= c.h
  BY <1>1 DEF Scored, Inside
<1>5. PICK D : D = Covered(k)
  OBVIOUS
<1>6. D = {q \in Grid(canvas) : /\ x < q[1] /\ q[1] <= x + a
                                /\ y < q[2] /\ q[2] <= y + b}
  BY <1>1, <1>5 DEF Covered
<1>7. /\ pixel \in [Grid(canvas) -> Nat] /\ Lit(canvas, pixel) \in [Grid(canvas) -> Nat]
  <2>1. \A q \in Grid(canvas) : pixel[q] \in Nat /\ pixel[q] * pixel[q] \in Nat
    BY <1>0, PairsFinite, Products
  <2>2. Lit(canvas, pixel) \in [Grid(canvas) -> Nat]
    BY <2>1 DEF Lit
  <2> QED
    BY <1>0, <2>1, <2>2
<1>8. ASSUME NEW s, NEW f \in [Grid(canvas) -> Nat], NEW t, Sums(canvas, s, f, at.x, at.y, t)
      PROVE  s[<<x + a, y + b>>] - s[<<x + a, y>>] - s[<<x, y + b>>] + s[<<x, y>>] = Total(D, f)
  <2>1. ASSUME NEW i \in 0..c.w, NEW j \in 0..c.h
        PROVE  s[<<i, j>>] = Total(Within(canvas, i, j), f)
    <3>1. PICK p \in Table(canvas) : p = <<i, j>>
      BY <1>1 DEF Table
    <3>2. p[1] = i /\ p[2] = j /\ p[2] < at.y
      BY <1>0, <1>1, <1>2, <3>1
    <3> QED
      BY <1>8, <3>1, <3>2 DEF Sums
  <2>2. x + a \in 0..c.w /\ x \in 0..c.w /\ y + b \in 0..c.h /\ y \in 0..c.h
    BY <1>2, <1>3, <1>4
  <2>3. /\ s[<<x + a, y + b>>] = Total(Within(canvas, x + a, y + b), f)
        /\ s[<<x + a, y>>] = Total(Within(canvas, x + a, y), f)
        /\ s[<<x, y + b>>] = Total(Within(canvas, x, y + b), f)
        /\ s[<<x, y>>] = Total(Within(canvas, x, y), f)
    BY <2>1, <2>2
  <2>4. Total(Within(canvas, x + a, y + b), f) - Total(Within(canvas, x + a, y), f)
          - Total(Within(canvas, x, y + b), f) + Total(Within(canvas, x, y), f) = Total(D, f)
    <3>1. D = Block(canvas, x, y, a, b)
      BY <1>6 DEF Block
    <3>2. canvas \in Canvas /\ f \in [Grid(canvas) -> Nat]
          /\ x \in Nat /\ y \in Nat /\ a \in Nat /\ b \in Nat
      BY <1>0, <1>2, <1>3
    <3>3. Total(Within(canvas, x + a, y + b), f) - Total(Within(canvas, x + a, y), f)
            - Total(Within(canvas, x, y + b), f) + Total(Within(canvas, x, y), f)
            = Total(Block(canvas, x, y, a, b), f)
      BY <3>2, FourReads
    <3> QED
      BY <3>1, <3>3
  <2> QED
    BY <2>3, <2>4
<1>9. D \in SUBSET Grid(canvas) /\ IsFiniteSet(D)
  <2>1. D \in SUBSET Grid(canvas)
    BY <1>6
  <2> QED
    BY <1>0, <1>7, <2>1, PixelsWeigh
<1>10. Cardinality(D) = a * b
  <2>1. D = ((x + 1)..(x + a)) \X ((y + 1)..(y + b))
    <3>1. Grid(canvas) = (1..c.w) \X (1..c.h)
      BY <1>1 DEF Grid
    <3>2. ASSUME NEW q
          PROVE  q \in D <=> q \in ((x + 1)..(x + a)) \X ((y + 1)..(y + b))
      <4>1. q \in D <=> /\ q \in (1..c.w) \X (1..c.h)
                        /\ x < q[1] /\ q[1] <= x + a /\ y < q[2] /\ q[2] <= y + b
        BY <1>6, <3>1
      <4> QED
        BY <1>2, <1>3, <1>4, <4>1
    <3> QED
      BY <3>2
  <2>2. /\ IsFiniteSet((x + 1)..(x + a)) /\ Cardinality((x + 1)..(x + a)) = a
        /\ IsFiniteSet((y + 1)..(y + b)) /\ Cardinality((y + 1)..(y + b)) = b
    <3>1. x + 1 \in Int /\ x + a \in Int /\ y + 1 \in Int /\ y + b \in Int
      BY <1>2, <1>3
    <3>2. /\ IsFiniteSet((x + 1)..(x + a))
          /\ Cardinality((x + 1)..(x + a)) = IF x + 1 > x + a THEN 0 ELSE (x + a) - (x + 1) + 1
          /\ IsFiniteSet((y + 1)..(y + b))
          /\ Cardinality((y + 1)..(y + b)) = IF y + 1 > y + b THEN 0 ELSE (y + b) - (y + 1) + 1
      BY <3>1, FS_Interval
    <3> QED
      BY <1>2, <1>3, <3>2
  <2>3. Cardinality(((x + 1)..(x + a)) \X ((y + 1)..(y + b)))
          = Cardinality((x + 1)..(x + a)) * Cardinality((y + 1)..(y + b))
    BY <2>2, FS_Product
  <2> QED
    BY <2>1, <2>2, <2>3
<1>11. Total(D, Lit(canvas, pixel)) = Total(D, Squares(D, pixel))
  <2>1. \A q \in D : Lit(canvas, pixel)[q] = Squares(D, pixel)[q]
    BY <1>9 DEF Lit, Squares
  <2> QED
    BY <2>1, TotalAgree
<1>12. PICK A, B, N : A = Total(D, pixel) /\ B = Total(D, Squares(D, pixel)) /\ N = Cardinality(D)
  OBVIOUS
<1>13. /\ s1[<<x + a, y + b>>] - s1[<<x + a, y>>] - s1[<<x, y + b>>] + s1[<<x, y>>] = A
       /\ s2[<<x + a, y + b>>] - s2[<<x + a, y>>] - s2[<<x, y + b>>] + s2[<<x, y>>] = B
  BY <1>0, <1>7, <1>8, <1>11, <1>12
<1>14. Variance(k) = a * b * B - Square(A)
  <2>1. Variance(k) =
          a * b * (s2[<<x + a, y + b>>] - s2[<<x + a, y>>] - s2[<<x, y + b>>] + s2[<<x, y>>])
            - Square(s1[<<x + a, y + b>>] - s1[<<x + a, y>>] - s1[<<x, y + b>>] + s1[<<x, y>>])
    BY <1>1, Zenon DEF Variance
  <2> QED
    BY <1>13, <2>1
<1>15. N * B - A * A = Total(LumPairs, Weights(D, pixel))
  <2>1. \A q \in D : pixel[q] \in Luminance
    BY <1>0, <1>9
  <2> QED
    BY <1>9, <1>12, <2>1, VarianceOfPairs
<1>16. Spread(k) = Total(LumPairs, Weights(D, pixel)) /\ Spread(k) \in Nat
  BY <1>5, <1>9, SpreadIsTotal
<1> QED
  BY <1>10, <1>12, <1>14, <1>15, <1>16 DEF Square

(* Before the first pixel.                                                  *)
LEMMA CornerStarts == CornerInit => CornerInv
<1> SUFFICES ASSUME CornerInit
             PROVE  CornerInv
  OBVIOUS
<1>1. /\ canvas \in Canvas /\ pixel \in [Grid(canvas) -> Luminance]
      /\ s1 = [p \in Table(canvas) |-> 0] /\ s2 = s1
      /\ at = [x |-> 1, y |-> 1, sum |-> 0, sumsq |-> 0] /\ choice = Undecided
  BY DEF CornerInit
<1>2. Small(canvas).w \in Nat \ {0} /\ Small(canvas).h \in Nat \ {0}
  BY <1>1, SmallType DEF Sides
<1>3. CornerTypeOK
  BY <1>1, <1>2 DEF CornerTypeOK
<1>4. ASSUME NEW f
      PROVE  Sums(canvas, s1, f, 1, 1, 0)
  <2>1. \A q \in Grid(canvas) : q[1] >= 1 /\ q[2] >= 1 /\ q[1] \in Nat /\ q[2] \in Nat
    BY <1>2 DEF Grid
  <2>2. RowTo(canvas, 1 - 1, 1) = {}
    BY <2>1 DEF RowTo
  <2>3. ASSUME NEW p \in Table(canvas), p[1] = 0 \/ p[2] < 1 \/ (p[2] = 1 /\ p[1] < 1)
        PROVE  s1[p] = Total(Within(canvas, p[1], p[2]), f)
    <3>1. p[1] \in Nat /\ p[2] \in Nat
      BY <1>2 DEF Table
    <3>2. p[1] = 0 \/ p[2] = 0
      BY <2>3, <3>1
    <3>3. Within(canvas, p[1], p[2]) = {}
      BY <2>1, <3>1, <3>2 DEF Within
    <3>4. s1[p] = 0
      BY <1>1
    <3> QED
      BY <3>3, <3>4, TotalEmpty
  <2> QED
    BY <2>2, <2>3, TotalEmpty DEF Sums
<1>5. LogoInQuietCorner
  BY <1>1, Zenon DEF LogoInQuietCorner
<1>6. at \in [x : Nat, y : Nat, sum : Nat, sumsq : Nat]
      /\ at.x = 1 /\ at.y = 1 /\ at.sum = 0 /\ at.sumsq = 0
  BY <1>1
<1> QED
  BY <1>1, <1>3, <1>4, <1>5, <1>6 DEF CornerInv

(* A pixel is added to both tables.                                         *)
LEMMA SumKeeps == CornerInv /\ SumPixel => CornerInv'
<1> SUFFICES ASSUME CornerInv, SumPixel
             PROVE  CornerInv'
  OBVIOUS
<1>0. /\ canvas \in Canvas /\ pixel \in [Grid(canvas) -> Luminance]
      /\ s1 \in [Table(canvas) -> Nat] /\ s2 \in [Table(canvas) -> Nat]
      /\ at.x \in 1..Small(canvas).w /\ at.y \in 1..(Small(canvas).h + 1)
      /\ at \in [x : Nat, y : Nat, sum : Nat, sumsq : Nat]
      /\ Sums(canvas, s1, pixel, at.x, at.y, at.sum)
      /\ Sums(canvas, s2, Lit(canvas, pixel), at.x, at.y, at.sumsq)
  BY DEF CornerInv, CornerTypeOK
<1>1. PICK x, y, lum, sum, sumsq :
        /\ x = at.x /\ y = at.y /\ lum = pixel[<<x, y>>]
        /\ sum = at.sum + lum /\ sumsq = at.sumsq + lum * lum
  OBVIOUS
<1>2. /\ ~(y > Small(canvas).h) /\ choice = Undecided
      /\ s1' = [s1 EXCEPT ![<<x, y>>] = s1[<<x, y - 1>>] + sum]
      /\ s2' = [s2 EXCEPT ![<<x, y>>] = s2[<<x, y - 1>>] + sumsq]
      /\ at' = IF x = Small(canvas).w THEN [x |-> 1, y |-> y + 1, sum |-> 0, sumsq |-> 0]
               ELSE [x |-> x + 1, y |-> y, sum |-> sum, sumsq |-> sumsq]
      /\ canvas' = canvas /\ pixel' = pixel /\ choice' = choice
  BY <1>1, Zenon DEF SumPixel, Summed
<1>3. PICK W, H : W = Small(canvas).w /\ H = Small(canvas).h
  OBVIOUS
<1>4. W \in Nat \ {0} /\ H \in Nat \ {0} /\ x \in 1..W /\ y \in 1..H
  <2>1. Small(canvas) \in Sides
    BY <1>0, SmallType
  <2> QED
    BY <1>0, <1>1, <1>2, <1>3, <2>1 DEF Sides
<1>5. <<x, y>> \in Grid(canvas)
  BY <1>3, <1>4 DEF Grid
<1>6. PICK f : f = Lit(canvas, pixel)
  OBVIOUS
<1>7. pixel \in [Grid(canvas) -> Nat] /\ f \in [Grid(canvas) -> Nat] /\ f[<<x, y>>] = lum * lum
  <2>1. \A q \in Grid(canvas) : pixel[q] \in Nat /\ pixel[q] * pixel[q] \in Nat
    BY <1>0, PairsFinite, Products
  <2>2. pixel \in [Grid(canvas) -> Nat]
    BY <1>0, <2>1
  <2> QED
    BY <1>1, <1>5, <1>6, <2>1, <2>2 DEF Lit
<1>8. PICK r1, r2 : r1 = s1' /\ r2 = s2'
  OBVIOUS
<1>9. /\ sum \in Nat /\ r1 \in [Table(canvas) -> Nat]
      /\ x # W => Sums(canvas, r1, pixel, x + 1, y, sum)
      /\ x = W => Sums(canvas, r1, pixel, 1, y + 1, 0)
  <2>1. /\ x \in 1..Small(canvas).w /\ y \in 1..Small(canvas).h
        /\ Sums(canvas, s1, pixel, x, y, at.sum) /\ sum = at.sum + pixel[<<x, y>>]
        /\ r1 = [s1 EXCEPT ![<<x, y>>] = s1[<<x, y - 1>>] + sum]
    BY <1>0, <1>1, <1>2, <1>3, <1>4, <1>8
  <2> QED
    BY <1>0, <1>3, <1>7, <2>1, SumsGrow
<1>10. /\ sumsq \in Nat /\ r2 \in [Table(canvas) -> Nat]
       /\ x # W => Sums(canvas, r2, f, x + 1, y, sumsq)
       /\ x = W => Sums(canvas, r2, f, 1, y + 1, 0)
  <2>1. /\ x \in 1..Small(canvas).w /\ y \in 1..Small(canvas).h
        /\ Sums(canvas, s2, f, x, y, at.sumsq) /\ sumsq = at.sumsq + f[<<x, y>>]
        /\ r2 = [s2 EXCEPT ![<<x, y>>] = s2[<<x, y - 1>>] + sumsq]
    BY <1>0, <1>1, <1>2, <1>3, <1>4, <1>6, <1>7, <1>8
  <2> QED
    BY <1>0, <1>3, <1>7, <2>1, SumsGrow
<1>11. PICK n : n = at'
  OBVIOUS
<1>12. /\ n \in [x : Nat, y : Nat, sum : Nat, sumsq : Nat]
       /\ n.x \in 1..W /\ n.y \in 1..(H + 1)
       /\ Sums(canvas, r1, pixel, n.x, n.y, n.sum)
       /\ Sums(canvas, r2, f, n.x, n.y, n.sumsq)
  <2>1. CASE x = W
    <3>1. n = [x |-> 1, y |-> y + 1, sum |-> 0, sumsq |-> 0]
      BY <1>2, <1>3, <1>11, <2>1
    <3>2. n.x = 1 /\ n.y = y + 1 /\ n.sum = 0 /\ n.sumsq = 0
      BY <3>1
    <3>3. n \in [x : Nat, y : Nat, sum : Nat, sumsq : Nat]
      BY <1>4, <3>1
    <3> QED
      BY <1>4, <1>9, <1>10, <2>1, <3>2, <3>3
  <2>2. CASE x # W
    <3>1. n = [x |-> x + 1, y |-> y, sum |-> sum, sumsq |-> sumsq]
      BY <1>2, <1>3, <1>11, <2>2
    <3>2. n.x = x + 1 /\ n.y = y /\ n.sum = sum /\ n.sumsq = sumsq
      BY <3>1
    <3>3. n \in [x : Nat, y : Nat, sum : Nat, sumsq : Nat]
      BY <1>4, <1>9, <1>10, <3>1
    <3> QED
      BY <1>4, <1>9, <1>10, <2>2, <3>2, <3>3
  <2> QED
    BY <2>1, <2>2
<1>13. (Sums(canvas, s1, pixel, at.x, at.y, at.sum))'
         /\ (Sums(canvas, s2, Lit(canvas, pixel), at.x, at.y, at.sumsq))'
  <2>1. \A s, g, i, j, t : Sums(canvas, s, g, i, j, t)' <=> Sums(canvas, s, g, i, j, t)
    BY <1>2 DEF Sums, RowTo, Within, Grid, Table, Small, Scaled, Longest, Total, BytesOf
  <2>2. (Lit(canvas, pixel))' = f
    BY <1>2, <1>6 DEF Lit, Grid, Small, Scaled, Longest
  <2> QED
    BY <1>2, <1>8, <1>11, <1>12, <2>1, <2>2
<1>14. CornerTypeOK'
  <2>1. Grid(canvas)' = Grid(canvas) /\ Table(canvas)' = Table(canvas) /\ Small(canvas)' = Small(canvas)
    BY <1>2 DEF Grid, Table, Small, Scaled, Longest
  <2>2. choice' \in Corners \cup {Undecided}
    BY <1>2
  <2> QED
    BY <1>0, <1>2, <1>3, <1>8, <1>9, <1>10, <1>11, <1>12, <2>1, <2>2 DEF CornerTypeOK, Corners, Undecided
<1>15. LogoInQuietCorner'
  BY <1>2, Zenon DEF LogoInQuietCorner, Undecided
<1>16. at' \in [x : Nat, y : Nat, sum : Nat, sumsq : Nat]
  BY <1>11, <1>12
<1> QED
  BY <1>13, <1>14, <1>15, <1>16 DEF CornerInv

(* What the choice must answer for.                                         *)
Rightly(k) ==
    LET p == Position(canvas)[k]
    IN  /\ Fits(canvas) => p[1] + canvas.lw <= canvas.w /\ p[2] + canvas.lh <= canvas.h
        /\ k # "BR" =>
            /\ \A j \in Scored : Spread(k) <= Spread(j)
            /\ "BR" \in Scored => Spread("BR") > Spread(k) + Tie
        /\ (k = "BR" /\ Fits(canvas) /\ "BR" \in Scored) =>
            \/ \A j \in Scored : Spread("BR") <= Spread(j) + Tie
            \/ \A j, i \in Scored : Spread(j) <= Spread(i) + Tie

(* Any corner of a canvas with room is inside it.                           *)
LEMMA CornersInside ==
    ASSUME canvas \in Canvas, Fits(canvas), NEW k \in Corners
    PROVE  /\ Position(canvas)[k][1] + canvas.lw <= canvas.w
           /\ Position(canvas)[k][2] + canvas.lh <= canvas.h
<1>1. /\ canvas.w \in Nat /\ canvas.h \in Nat /\ canvas.lw \in Nat /\ canvas.lh \in Nat
      /\ canvas.m \in Nat
      /\ canvas.w >= canvas.lw + 2 * canvas.m /\ canvas.h >= canvas.lh + 2 * canvas.m
  BY SmallType DEF Fits
<1> QED
  BY <1>1 DEF Position, Corners, AtLeast

(* The corner that is chosen when the tables are done is the right one.     *)
LEMMA ChosenRightly ==
    ASSUME CornerInv, Summed, NEW k,
           LET quietest == {i \in Scored : \A j \in Scored : Variance(i) <= Variance(j)}
               nearBR == \E i \in quietest : "BR" \in Scored /\ Variance("BR") - Variance(i) <= Tie
               level == \A j, i \in Scored : Variance(j) - Variance(i) <= Tie
           IN  k \in IF Scored = {} \/ nearBR \/ level THEN {"BR"} ELSE quietest
    PROVE  Rightly(k) /\ k \in Corners
<1>0. canvas \in Canvas /\ Scored \subseteq Corners
  BY DEF CornerInv, CornerTypeOK, Scored
<1>1. \A i \in Scored : Variance(i) = Spread(i) /\ Spread(i) \in Nat
  BY VarianceIsSpread
<1>2. Tie \in Nat
  <2>1. Small(canvas).lw \in Nat /\ Small(canvas).lh \in Nat
    BY <1>0, SmallType DEF Sides
  <2>2. PICK n : n = Small(canvas).lw * Small(canvas).lh
    OBVIOUS
  <2>3. n \in Nat /\ Square(n) \in Nat /\ Epsilon \in Nat
    BY <2>1, <2>2, Products, CornerAssumption
  <2>4. PICK m : m = Square(n)
    OBVIOUS
  <2>5. Epsilon * m \in Nat
    BY <2>3, <2>4, Products
  <2> QED
    BY <2>2, <2>4, <2>5 DEF Tie
<1> DEFINE quietest == {i \in Scored : \A j \in Scored : Variance(i) <= Variance(j)}
           nearBR == \E i \in quietest : "BR" \in Scored /\ Variance("BR") - Variance(i) <= Tie
           level == \A j, i \in Scored : Variance(j) - Variance(i) <= Tie
<1>3. \/ k = "BR" /\ (Scored = {} \/ nearBR \/ level)
      \/ k \in quietest /\ ~nearBR
  OBVIOUS
<1>4. \A i \in quietest : i \in Scored /\ \A j \in Scored : Spread(i) <= Spread(j)
  BY <1>1
<1>5. nearBR <=> \E i \in quietest : "BR" \in Scored /\ Spread("BR") - Spread(i) <= Tie
  BY <1>1
<1>6. level <=> \A j, i \in Scored : Spread(j) - Spread(i) <= Tie
  BY <1>1
<1> HIDE DEF quietest, nearBR, level
<1>7. k \in Corners
  <2>1. CASE k = "BR"
    BY <2>1 DEF Corners
  <2>2. CASE k \in quietest
    BY <1>0, <1>4, <2>2
  <2> QED
    BY <1>3, <2>1, <2>2
<1>8. ASSUME k # "BR"
      PROVE  /\ \A j \in Scored : Spread(k) <= Spread(j)
             /\ "BR" \in Scored => Spread("BR") > Spread(k) + Tie
  <2>1. k \in quietest /\ ~nearBR
    BY <1>3, <1>8
  <2>2. k \in Scored /\ \A j \in Scored : Spread(k) <= Spread(j)
    BY <1>4, <2>1
  <2>3. "BR" \in Scored => ~(Spread("BR") - Spread(k) <= Tie)
    BY <1>5, <2>1
  <2> QED
    BY <1>1, <1>2, <2>2, <2>3
<1>9. ASSUME k = "BR", "BR" \in Scored
      PROVE  \/ \A j \in Scored : Spread("BR") <= Spread(j) + Tie
             \/ \A j, i \in Scored : Spread(j) <= Spread(i) + Tie
  <2>1. CASE level
    BY <1>1, <1>2, <1>6, <2>1
  <2>2. CASE nearBR
    <3>1. PICK i \in quietest : Spread("BR") - Spread(i) <= Tie
      BY <1>5, <2>2
    <3>2. i \in Scored /\ \A j \in Scored : Spread(i) <= Spread(j)
      BY <1>4
    <3> QED
      BY <1>1, <1>2, <1>9, <3>1, <3>2
  <2>3. CASE k \in quietest
    BY <1>1, <1>2, <1>4, <1>9, <2>3
  <2> QED
    BY <1>3, <1>9, <2>1, <2>2, <2>3
<1>10. Fits(canvas) => /\ Position(canvas)[k][1] + canvas.lw <= canvas.w
                       /\ Position(canvas)[k][2] + canvas.lh <= canvas.h
  BY <1>0, <1>7, CornersInside
<1> QED
  BY <1>7, <1>8, <1>9, <1>10, Zenon DEF Rightly

(* The spread of a corner depends on the pixels it covers alone.            *)
SpreadOf(D, v) == Total(LumPairs, Weights(D, v))
SpreadStated == \A k \in Corners : IsFiniteSet(Covered(k)) => Spread(k) = SpreadOf(Covered(k), pixel)
(* It is so in every state.                                                 *)
LEMMA SpreadIsStated == SpreadStated
BY SpreadIsTotal, Zenon DEF SpreadStated, SpreadOf

(* So it does in the state after.                                           *)
LEMMA SpreadIsStatedNext == SpreadStated'
<1>1. SpreadStated
  BY SpreadIsStated
<1> QED
  BY <1>1, PTL

(* A corner covers finitely many pixels.                                    *)
LEMMA CoveredFinite ==
    ASSUME CornerTypeOK, NEW k
    PROVE  IsFiniteSet(Covered(k))
<1>1. Small(canvas).w \in Nat /\ Small(canvas).h \in Nat
  BY SmallType DEF CornerTypeOK, Sides
<1>2. IsFiniteSet(1..Small(canvas).w) /\ IsFiniteSet(1..Small(canvas).h)
  <2>1. PICK w, h : w = Small(canvas).w /\ h = Small(canvas).h
    OBVIOUS
  <2>2. 1 \in Int /\ w \in Int /\ h \in Int
    BY <1>1, <2>1
  <2>3. IsFiniteSet(1..w) /\ IsFiniteSet(1..h)
    BY <2>2, FS_Interval
  <2> QED
    BY <2>1, <2>3
<1>3. IsFiniteSet((1..Small(canvas).w) \X (1..Small(canvas).h))
  BY <1>2, FS_Product
<1>4. IsFiniteSet(Grid(canvas))
  BY <1>3, Zenon DEF Grid
<1>5. Covered(k) \subseteq Grid(canvas)
  BY Zenon DEF Covered
<1> QED
  BY <1>4, <1>5, FS_Subset

(* A step that sums nothing keeps the tables and what they hold.            *)
LEMMA RestKeepsTables ==
    ASSUME CornerInv, UNCHANGED <<canvas, pixel, s1, s2, at>>,
           choice' \in Corners \cup {Undecided}, LogoInQuietCorner'
    PROVE  CornerInv'
<1>1. canvas' = canvas /\ pixel' = pixel /\ s1' = s1 /\ s2' = s2 /\ at' = at
  OBVIOUS
<1>2. CornerTypeOK'
  <2>1. Grid(canvas)' = Grid(canvas) /\ Table(canvas)' = Table(canvas) /\ Small(canvas)' = Small(canvas)
    BY <1>1 DEF Grid, Table, Small, Scaled, Longest
  <2>2. CornerTypeOK
    BY DEF CornerInv
  <2> QED
    BY <1>1, <2>1, <2>2 DEF CornerTypeOK, Corners, Undecided
<1>3. (Sums(canvas, s1, pixel, at.x, at.y, at.sum))'
      /\ (Sums(canvas, s2, Lit(canvas, pixel), at.x, at.y, at.sumsq))'
  <2>1. Sums(canvas, s1, pixel, at.x, at.y, at.sum)
        /\ Sums(canvas, s2, Lit(canvas, pixel), at.x, at.y, at.sumsq)
    BY DEF CornerInv
  <2> QED
    BY <1>1, <2>1
<1>4. at' \in [x : Nat, y : Nat, sum : Nat, sumsq : Nat]
  BY <1>1 DEF CornerInv
<1> QED
  BY <1>2, <1>3, <1>4 DEF CornerInv

(* What the choice answers for does not depend on anything but the canvas   *)
(* and its pixels.                                                          *)
LEMMA ChoosingKeeps ==
    ASSUME CornerInv, UNCHANGED <<canvas, pixel, s1, s2, at>>,
           choice' \in Corners, Rightly(choice')
    PROVE  CornerInv'
<1>1. canvas' = canvas /\ pixel' = pixel
  OBVIOUS
<1>2. PICK k : k = choice'
  OBVIOUS
<1>3. Rightly(k)
  BY <1>2
<1>4. Scored' = Scored /\ Tie' = Tie
  BY <1>1 DEF Scored, Inside, Tie
<1>5. \A j \in Corners : Spread(j)' = Spread(j)
  <2> SUFFICES ASSUME NEW j \in Corners
               PROVE  Spread(j)' = Spread(j)
    OBVIOUS
  <2>1. Covered(j)' = Covered(j)
    BY <1>1 DEF Covered
  <2>2. IsFiniteSet(Covered(j))
    BY CoveredFinite DEF CornerInv
  <2>3. Spread(j) = SpreadOf(Covered(j), pixel)
    BY <2>2, SpreadIsStated DEF SpreadStated
  <2>4. Spread(j)' = SpreadOf(Covered(j)', pixel')
    BY <2>1, <2>2, SpreadIsStatedNext DEF SpreadStated
  <2> QED
    BY <1>1, <2>1, <2>3, <2>4
<1>6. Scored \subseteq Corners
  BY DEF Scored
<1>7. Rightly(k)'
  <2>1. Fits(canvas') = Fits(canvas) /\ Position(canvas')[k] = Position(canvas)[k]
    BY <1>1
  <2>2. k \in Corners
    BY <1>2
  <2>3. k # "BR" => /\ \A j \in Scored : Spread(k)' <= Spread(j)'
                    /\ "BR" \in Scored => Spread("BR")' > Spread(k)' + Tie
    BY <1>3, <1>5, <1>6, <2>2 DEF Rightly
  <2>4. (k = "BR" /\ Fits(canvas) /\ "BR" \in Scored) =>
            \/ \A j \in Scored : Spread("BR")' <= Spread(j)' + Tie
            \/ \A j, i \in Scored : Spread(j)' <= Spread(i)' + Tie
    BY <1>3, <1>5, <1>6 DEF Rightly
  <2>5. Fits(canvas) => /\ Position(canvas)[k][1] + canvas.lw <= canvas.w
                        /\ Position(canvas)[k][2] + canvas.lh <= canvas.h
    BY <1>3 DEF Rightly
  <2> QED
    BY <1>1, <1>4, <2>3, <2>4, <2>5, Zenon DEF Rightly
<1>8. LogoInQuietCorner'
  <2>1. LogoInQuietCorner' <=> (choice' # Undecided => Rightly(k)')
    BY <1>2 DEF LogoInQuietCorner, Rightly
  <2> QED
    BY <1>7, <2>1
<1> QED
  BY <1>8, RestKeepsTables

(* Every step keeps it.                                                     *)
LEMMA CornerKeeps == CornerInv /\ [CornerNext]_cornerVars => CornerInv'
<1> SUFFICES ASSUME CornerInv, [CornerNext]_cornerVars
             PROVE  CornerInv'
  OBVIOUS
<1>1. CASE SumPixel
  BY <1>1, SumKeeps
<1>2. CASE SkipSearch
  <2>1. UNCHANGED <<canvas, pixel, s1, s2, at>> /\ choice' = "BR" /\ ~Fits(canvas)
    BY <1>2 DEF SkipSearch
  <2>2. choice' \in Corners /\ Rightly(choice')
    BY <2>1 DEF Rightly, Corners
  <2> QED
    BY <2>1, <2>2, ChoosingKeeps
<1>3. CASE Choose
  <2>1. Summed /\ UNCHANGED <<canvas, pixel, s1, s2, at>>
    BY <1>3 DEF Choose
  <2>2. PICK k : k = choice'
    OBVIOUS
  <2>3. LET quietest == {i \in Scored : \A j \in Scored : Variance(i) <= Variance(j)}
            nearBR == \E i \in quietest : "BR" \in Scored /\ Variance("BR") - Variance(i) <= Tie
            level == \A j, i \in Scored : Variance(j) - Variance(i) <= Tie
        IN  k \in IF Scored = {} \/ nearBR \/ level THEN {"BR"} ELSE quietest
    BY <1>3, <2>2, Zenon DEF Choose
  <2>4. Rightly(k) /\ k \in Corners
    BY <2>1, <2>3, ChosenRightly
  <2> QED
    BY <2>1, <2>2, <2>4, ChoosingKeeps
<1>4. CASE UNCHANGED cornerVars
  <2>1. UNCHANGED <<canvas, pixel, s1, s2, at>> /\ choice' = choice
    BY <1>4 DEF cornerVars
  <2>2. CASE choice = Undecided
    <3>1. LogoInQuietCorner'
      BY <2>1, <2>2, Zenon DEF LogoInQuietCorner
    <3> QED
      BY <2>1, <2>2, <3>1, RestKeepsTables
  <2>3. CASE choice # Undecided
    <3>1. choice \in Corners
      BY <2>3 DEF CornerInv, CornerTypeOK
    <3>2. Rightly(choice)
      BY <2>3 DEF CornerInv, LogoInQuietCorner, Rightly
    <3> QED
      BY <2>1, <3>1, <3>2, ChoosingKeeps
  <2> QED
    BY <2>2, <2>3
<1> QED
  BY <1>1, <1>2, <1>3, <1>4 DEF CornerNext

(* LogoInQuietCorner, for any canvas, logo, margin and pixels.              *)
THEOREM QuietCornerChosen == CornerSpec => [](LogoInQuietCorner /\ CornerTypeOK)
<1>1. CornerInit => CornerInv
  BY CornerStarts
<1>2. CornerInv /\ [CornerNext]_cornerVars => CornerInv'
  BY CornerKeeps
<1>3. CornerInv => (LogoInQuietCorner /\ CornerTypeOK)
  BY DEF CornerInv
<1> QED
  BY <1>1, <1>2, <1>3, PTL DEF CornerSpec
==============================================================================
