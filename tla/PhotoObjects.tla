---------------------------- MODULE PhotoObjects ----------------------------
(***************************************************************************)
(* What is left of a photo outside the database when its row is failed or   *)
(* deleted (gallery/tasks.py, views.py, asset_purge.py, photo_failure.py,   *)
(* retention.py, core/signals.py): the original, the web derivative that a  *)
(* task writes and only then notes in the row, and the copy of it the image *)
(* CDN fetched.  The keys are collected by whoever settles the row, but for *)
(* the cascade of a scene or an event, and deleted by a task of its own.    *)
(***************************************************************************)
EXTENDS Integers, FiniteSets

CONSTANTS
    Photo,
    Deriver,        \* concurrent runs of generate_photo_web_derivative
    MaxDerivations, \* bound: deliveries of it for one photo, retries included
    MaxPurges       \* attempts of a purge task: max_retries + 1

ASSUME ObjectsAssumption == MaxDerivations \in Nat /\ MaxPurges \in Nat \ {0}

VARIABLES
    state,      \* the row's status; "gone" when it is deleted
    webKey,     \* rows that hold their derivative's key
    derivation, \* deliveries of the derivative task still to come
    deriver,    \* the photo a run is at, and whether it has uploaded
    bucket,     \* objects in R2
    cdn,        \* photos whose derivative the CDN has fetched
    sweep,      \* keys read by a hard delete that has not committed
    account,    \* keys read by an account deletion that has not committed
    purges,     \* purge tasks queued
    unpurged,   \* history: keys the last purge was lost with, gave up or left
    unflushed,  \* history: photos whose copy the last purge left in the CDN
    raced,      \* history: objects written while their keys were collected
    orphaned    \* history: photos a cascade took before their keys were collected

excuseVars == <<unpurged, unflushed, raced, orphaned>>
objectVars == <<state, webKey, derivation, deriver, bucket, cdn, sweep, account,
                purges, excuseVars>>

Original(p) == <<p, "original">>
Web(p) == <<p, "web">>
Objects == Photo \X {"original", "web"}
AtRest == [pc |-> "rest"]
NothingRead == [pc |-> "none"]

ObjectsTypeOK ==
    /\ state \in [Photo -> {"ready", "failed", "expired", "gone"}]
    /\ webKey \in SUBSET Photo
    /\ derivation \in [Photo -> 0..MaxDerivations]
    /\ deriver \in [Deriver -> {AtRest} \cup [pc : {"render", "note"}, photo : Photo]]
    /\ bucket \in SUBSET Objects
    /\ cdn \in SUBSET Photo
    /\ sweep \in {NothingRead} \cup [pc : {"read"}, photos : SUBSET Photo, keys : SUBSET Objects]
    /\ account \in {NothingRead} \cup [pc : {"read"}, photos : SUBSET Photo, keys : SUBSET Objects]
    /\ \A t \in purges : t.keys \subseteq Objects /\ t.tries \in 0..MaxPurges
    /\ unpurged \in SUBSET Objects /\ raced \in SUBSET Objects
    /\ unflushed \in SUBSET Photo /\ orphaned \in SUBSET Photo

(* Delivered photos whose derivative has just been asked for.               *)
ObjectsInit ==
    /\ state = [p \in Photo |-> "ready"]
    /\ webKey = {}
    /\ derivation = [p \in Photo |-> MaxDerivations]
    /\ deriver = [d \in Deriver |-> AtRest]
    /\ bucket = {Original(p) : p \in Photo}
    /\ cdn = {}
    /\ sweep = NothingRead /\ account = NothingRead
    /\ purges = {}
    /\ unpurged = {} /\ raced = {} /\ unflushed = {} /\ orphaned = {}

Settled(p) == state[p] \in {"failed", "gone"}

(* Mutant: only the original's key is collected.                            *)
KeysOriginal(p) == {Original(p)}

(* The keys a row gives away.                                               *)
Keys(p) == {Original(p)} \cup (IF p \in webKey THEN {Web(p)} ELSE {})

(* Photos whose keys have been read, or are no longer kept anywhere.        *)
Collected(p) ==
    \/ Settled(p)
    \/ sweep.pc = "read" /\ p \in sweep.photos
    \/ account.pc = "read" /\ p \in account.photos

(* Whose derivative a run of D may yet write, behind the back of whoever    *)
(* collects the keys of P now.                                              *)
Racing(P, D) ==
    {Web(p) : p \in {q \in P : \E d \in D : deriver[d].pc # "rest" /\ deriver[d].photo = q}}

(* on_commit queues the purge; the process may die before it does.          *)
Enqueue(keys) ==
    \/ purges' = purges \cup {[keys |-> keys, tries |-> 0]} /\ unpurged' = unpurged \ keys
    \/ unpurged' = unpurged \cup keys /\ UNCHANGED purges

(* The keys a row has are collected and purged, what was written before     *)
(* without the row's knowing stays.                                         *)
Give(p, D) ==
    /\ Enqueue(Keys(p))
    /\ raced' = (raced \ Keys(p)) \cup Racing({p}, D)
-----------------------------------------------------------------------------
(* The derivative task.                                                     *)

(* A row that is gone or already has its derivative ends the task; any      *)
(* other row with an original is rendered, whatever its status.             *)
DeriveRead(d, p) ==
    /\ deriver[d] = AtRest /\ derivation[p] > 0
    /\ derivation' = [derivation EXCEPT ![p] = @ - 1]
    /\ IF state[p] = "gone" \/ p \in webKey THEN UNCHANGED <<deriver, raced>>
       ELSE /\ deriver' = [deriver EXCEPT ![d] = [pc |-> "render", photo |-> p]]
            /\ raced' = IF Collected(p) THEN raced \cup {Web(p)} ELSE raced
    /\ UNCHANGED <<state, webKey, bucket, cdn, sweep, account, purges, unpurged, unflushed, orphaned>>

DeriveUpload(d) ==
    LET p == deriver[d].photo
    IN  /\ deriver[d].pc = "render" /\ Original(p) \in bucket
        /\ bucket' = bucket \cup {Web(p)}
        /\ deriver' = [deriver EXCEPT ![d].pc = "note"]
        /\ UNCHANGED <<state, webKey, derivation, cdn, sweep, account, purges, excuseVars>>

(* An update by id: nothing happens if the row is gone.                     *)
DeriveNote(d) ==
    LET p == deriver[d].photo
    IN  /\ deriver[d].pc = "note"
        /\ webKey' = IF state[p] = "gone" THEN webKey ELSE webKey \cup {p}
        /\ raced' = IF Collected(p) THEN raced ELSE raced \ {Web(p)}
        /\ deriver' = [deriver EXCEPT ![d] = AtRest]
        /\ UNCHANGED <<state, derivation, bucket, cdn, sweep, account, purges, unpurged, unflushed, orphaned>>

(* The original cannot be decoded: the row is failed, its keys collected    *)
(* under its lock.                                                          *)
DerivePoison(d) ==
    LET p == deriver[d].photo
    IN  /\ deriver[d].pc = "render" /\ Original(p) \in bucket
        /\ deriver' = [deriver EXCEPT ![d] = AtRest]
        /\ IF state[p] = "ready"
           THEN /\ state' = [state EXCEPT ![p] = "failed"]
                /\ Give(p, Deriver \ {d})
           ELSE UNCHANGED <<state, purges, unpurged, raced>>
        /\ UNCHANGED <<webKey, derivation, bucket, cdn, sweep, account, unflushed, orphaned>>

(* An error before or after the upload, or the worker's death: the retry is *)
(* one of the deliveries to come, and renders again.                        *)
DeriveFails(d) ==
    /\ deriver[d] # AtRest
    /\ raced' = IF deriver[d].pc = "note" THEN raced \cup {Web(deriver[d].photo)} ELSE raced
    /\ deriver' = [deriver EXCEPT ![d] = AtRest]
    /\ UNCHANGED <<state, webKey, derivation, bucket, cdn, sweep, account, purges, unpurged, unflushed, orphaned>>
-----------------------------------------------------------------------------
(* Rows are settled; each collects the keys it finds in the row.            *)

Forget(P) == state' = [p \in Photo |-> IF p \in P THEN "gone" ELSE state[p]]

OwnerDeletes(p) ==
    /\ state[p] # "gone"
    /\ Forget({p})
    /\ Give(p, Deriver)
    /\ UNCHANGED <<webKey, derivation, deriver, bucket, cdn, sweep, account, unflushed, orphaned>>

(* A scene or an event is deleted and its photos go with it: no key is      *)
(* collected and no purge queued.  Those of failed rows were collected when *)
(* they failed.                                                             *)
CascadeDelete(P) ==
    /\ P # {} /\ \A p \in P : state[p] # "gone"
    /\ Forget(P)
    /\ orphaned' = orphaned \cup {p \in P : ~Settled(p)}
    /\ raced' = raced \cup Racing(P, Deriver)
    /\ UNCHANGED <<webKey, derivation, deriver, bucket, cdn, sweep, account, purges, unpurged, unflushed>>

GalleryExpires(p) ==
    /\ state[p] = "ready"
    /\ state' = [state EXCEPT ![p] = "expired"]
    /\ UNCHANGED <<webKey, derivation, deriver, bucket, cdn, sweep, account, purges, excuseVars>>

SweepRead ==
    LET P == {p \in Photo : state[p] = "expired"}
    IN  /\ sweep = NothingRead /\ P # {}
        /\ sweep' = [pc |-> "read", photos |-> P, keys |-> UNION {Keys(p) : p \in P}]
        /\ raced' = raced \cup Racing(P, Deriver)
        /\ UNCHANGED <<state, webKey, derivation, deriver, bucket, cdn, account, purges, unpurged,
                       unflushed, orphaned>>

(* What was read is purged, whoever has deleted the rows by now.            *)
SweepCommit ==
    /\ sweep.pc = "read"
    /\ Forget(sweep.photos)
    /\ Enqueue(sweep.keys)
    /\ orphaned' = orphaned \ sweep.photos
    /\ sweep' = NothingRead
    /\ UNCHANGED <<webKey, derivation, deriver, bucket, cdn, account, unflushed, raced>>

(* pre_delete lists the keys of every photo of the user.                    *)
AccountRead ==
    LET P == {p \in Photo : state[p] # "gone"}
    IN  /\ account = NothingRead /\ P # {}
        /\ account' = [pc |-> "read", photos |-> P, keys |-> UNION {Keys(p) : p \in P}]
        /\ raced' = raced \cup Racing(P, Deriver)
        /\ UNCHANGED <<state, webKey, derivation, deriver, bucket, cdn, sweep, purges, unpurged,
                       unflushed, orphaned>>

AccountCommit ==
    /\ account.pc = "read"
    /\ Forget(account.photos)
    /\ Enqueue(account.keys)
    /\ orphaned' = orphaned \ account.photos
    /\ account' = NothingRead
    /\ UNCHANGED <<webKey, derivation, deriver, bucket, cdn, sweep, unflushed, raced>>

RolledBack ==
    /\ \/ sweep # NothingRead /\ sweep' = NothingRead /\ UNCHANGED account
       \/ account # NothingRead /\ account' = NothingRead /\ UNCHANGED sweep
    /\ UNCHANGED <<state, webKey, derivation, deriver, bucket, cdn, purges, excuseVars>>
-----------------------------------------------------------------------------
(* The purge, and what happens to the objects meanwhile.                    *)

(* R2 deletes all keys but those in kept, then the CDN is told of the       *)
(* derivatives, which may fail unnoticed.                                   *)
Deletes(t, kept, missed) ==
    /\ bucket' = (bucket \ t.keys) \cup kept
    /\ cdn' = {p \in cdn : Web(p) \notin t.keys} \cup missed

(* A task is not run again: what it left is left.                           *)
PurgeOver(t, kept, missed) ==
    /\ purges' = purges \ {t}
    /\ unpurged' = (unpurged \ t.keys) \cup kept
    /\ unflushed' = {p \in unflushed : Web(p) \notin t.keys} \cup missed

(* R2, asked to be quiet, is believed to have deleted all.                  *)
PurgeDone(t) ==
    /\ \E kept \in SUBSET (t.keys \cap bucket), missed \in SUBSET {p \in cdn : Web(p) \in t.keys} :
          Deletes(t, kept, missed) /\ PurgeOver(t, kept, missed)
    /\ UNCHANGED <<state, webKey, derivation, deriver, sweep, account, raced, orphaned>>

(* delete_objects raised, with or without its work done: the CDN is told    *)
(* all the same, and the task tries again until its retries are spent.      *)
PurgeRefused(t) ==
    /\ \E kept \in SUBSET (t.keys \cap bucket), missed \in SUBSET {p \in cdn : Web(p) \in t.keys} :
          /\ Deletes(t, kept, missed)
          /\ IF t.tries + 1 < MaxPurges
             THEN /\ purges' = (purges \ {t}) \cup {[t EXCEPT !.tries = @ + 1]}
                  /\ UNCHANGED <<unpurged, unflushed>>
             ELSE PurgeOver(t, kept, missed)
    /\ UNCHANGED <<state, webKey, derivation, deriver, sweep, account, raced, orphaned>>

(* A visitor has the address of the derivative.                             *)
CdnFetches(p) ==
    /\ Web(p) \in bucket /\ p \notin cdn
    /\ cdn' = cdn \cup {p}
    /\ UNCHANGED <<state, webKey, derivation, deriver, bucket, sweep, account, purges, excuseVars>>

(* A ticket can be used again for fifteen minutes.                          *)
TicketUsedAgain(p) ==
    /\ Original(p) \notin bucket
    /\ bucket' = bucket \cup {Original(p)}
    /\ raced' = raced \cup {Original(p)}
    /\ UNCHANGED <<state, webKey, derivation, deriver, cdn, sweep, account, purges, unpurged,
                   unflushed, orphaned>>

ObjectsNext ==
    \/ \E d \in Deriver : \/ \E p \in Photo : DeriveRead(d, p)
                          \/ DeriveUpload(d) \/ DeriveNote(d) \/ DerivePoison(d) \/ DeriveFails(d)
    \/ \E p \in Photo : OwnerDeletes(p) \/ GalleryExpires(p) \/ CdnFetches(p) \/ TicketUsedAgain(p)
    \/ \E P \in SUBSET Photo : CascadeDelete(P)
    \/ SweepRead \/ SweepCommit \/ AccountRead \/ AccountCommit \/ RolledBack
    \/ \E t \in purges : PurgeDone(t) \/ PurgeRefused(t)

ObjectsSpec == ObjectsInit /\ [][ObjectsNext]_objectVars
-----------------------------------------------------------------------------
(* An object may be there still: a purge is to delete it, the last purge    *)
(* left it, or it was written while its key was collected.                  *)
Excused(o) == o \in unpurged \/ o \in raced \/ \E t \in purges : o \in t.keys

(* When a row has failed or is deleted by its owner, by the hard delete or  *)
(* with the account, nothing of the photo stays in R2 or the CDN but what a *)
(* purge is to delete, what the last purge left, and what was written       *)
(* behind the back of whoever last collected its keys                       *)
(* (asset_purge.py:45-113, tasks.py:356-374).  The photos of a deleted      *)
(* scene or event are not promised anything, unless a hard delete or an     *)
(* account deletion had read their keys and commits (views.py:363).         *)
NothingLeft ==
    \A p \in Photo \ orphaned : Settled(p) =>
        /\ \A o \in {Original(p), Web(p)} \cap bucket : Excused(o)
        /\ p \in cdn => p \in unflushed \/ Excused(Web(p))
=============================================================================
