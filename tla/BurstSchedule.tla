--------------------------- MODULE BurstSchedule ---------------------------
(***************************************************************************)
(* When the bursts of a scene are grouped again (gallery/tasks.py): every   *)
(* photo that gets its hash asks for it, the first to do so for a while     *)
(* takes a lock in the cache and queues one task for the end of that while. *)
(***************************************************************************)
EXTENDS Integers, FiniteSets

CONSTANTS
    Shot,           \* photos of the scene
    Hasher,         \* concurrent runs of compute_photo_phash
    Debounce,       \* PHOTO_CLUSTER_DEBOUNCE_SECONDS
    MaxHashings,    \* bound: deliveries of it for one photo
    MaxGroupings    \* attempts of cluster_scene_bursts: max_retries + 1

ASSUME BurstAssumption ==
    /\ Debounce \in Nat \ {0}
    /\ MaxHashings \in Nat /\ MaxGroupings \in Nat \ {0}

VARIABLES
    shot,       \* rows: delivered, and then hashed, or deleted
    hashing,    \* deliveries of the hash task still to come
    hasher,     \* what a run is about to do, for which photo
    debounce,   \* what is left of the lock's time; 0 when it is free
    grouping,   \* tasks queued: what is left of their countdown, their attempts
    reader,     \* a grouping that holds the scene's row lock: the photos it read
    grouped,    \* photos whose hash the last grouping has used
    forgotten,  \* history: hashed photos whose request came to nothing
    vain        \* history: the lock's task was never queued

burstVars == <<shot, hashing, hasher, debounce, grouping, reader, grouped, forgotten, vain>>

NotHashing == [pc |-> "none"]
NoReader == [pc |-> "none"]
HashPcs == [pc : {"hash", "ask", "queue"}, shot : Shot]

BurstTypeOK ==
    /\ shot \in [Shot -> {"ready", "hashed", "gone"}]
    /\ hashing \in [Shot -> 0..MaxHashings]
    /\ hasher \in [Hasher -> {NotHashing} \cup HashPcs]
    /\ debounce \in 0..Debounce
    /\ \A t \in grouping : t.wait \in 0..Debounce /\ t.tries \in 0..MaxGroupings
    /\ reader \in {NoReader} \cup [pc : {"read"}, shots : SUBSET Shot, tries : 0..MaxGroupings]
    /\ grouped \in SUBSET Shot /\ forgotten \in SUBSET Shot /\ vain \in BOOLEAN

BurstInit ==
    /\ shot = [s \in Shot |-> "ready"]
    /\ hashing = [s \in Shot |-> MaxHashings]
    /\ hasher = [h \in Hasher |-> NotHashing]
    /\ debounce = 0
    /\ grouping = {}
    /\ reader = NoReader
    /\ grouped = {} /\ forgotten = {} /\ vain = FALSE

Ungrouped == {s \in Shot : shot[s] = "hashed" /\ s \notin grouped}

(* A photo that is deleted or already hashed needs nothing - also when the  *)
(* run that hashed it died before it asked for a grouping.                  *)
HashStart(h, s) ==
    /\ hasher[h] = NotHashing /\ hashing[s] > 0
    /\ hashing' = [hashing EXCEPT ![s] = @ - 1]
    /\ hasher' = IF shot[s] = "ready"
                 THEN [hasher EXCEPT ![h] = [pc |-> "hash", shot |-> s]] ELSE hasher
    /\ UNCHANGED <<shot, debounce, grouping, reader, grouped, forgotten, vain>>

HashWrite(h) ==
    LET s == hasher[h].shot
    IN  /\ hasher[h].pc = "hash"
        /\ shot' = IF shot[s] = "ready" THEN [shot EXCEPT ![s] = "hashed"] ELSE shot
        /\ hasher' = [hasher EXCEPT ![h].pc = "ask"]
        /\ UNCHANGED <<hashing, debounce, grouping, reader, grouped, forgotten, vain>>

(* Mutant: the lock is taken again by every request that finds it.          *)
AskExtending(h) ==
    /\ hasher[h].pc = "ask"
    /\ debounce' = Debounce
    /\ IF debounce = 0
       THEN hasher' = [hasher EXCEPT ![h].pc = "queue"] /\ vain' = FALSE /\ UNCHANGED forgotten
       ELSE /\ hasher' = [hasher EXCEPT ![h] = NotHashing]
            /\ forgotten' = IF vain THEN forgotten \cup ({hasher[h].shot} \cap Ungrouped) ELSE forgotten
            /\ UNCHANGED vain
    /\ UNCHANGED <<shot, hashing, grouping, reader, grouped>>

(* cache.add: whoever sets the key queues the task, the others have done.   *)
Ask(h) ==
    /\ hasher[h].pc = "ask"
    /\ IF debounce = 0
       THEN /\ debounce' = Debounce
            /\ hasher' = [hasher EXCEPT ![h].pc = "queue"]
            /\ vain' = FALSE /\ UNCHANGED forgotten
       ELSE /\ hasher' = [hasher EXCEPT ![h] = NotHashing]
            /\ forgotten' = IF vain THEN forgotten \cup ({hasher[h].shot} \cap Ungrouped) ELSE forgotten
            /\ UNCHANGED <<debounce, vain>>
    /\ UNCHANGED <<shot, hashing, grouping, reader, grouped>>

QueueGrouping(h) ==
    /\ hasher[h].pc = "queue"
    /\ grouping' = grouping \cup {[wait |-> Debounce, tries |-> 0]}
    /\ hasher' = [hasher EXCEPT ![h] = NotHashing]
    /\ UNCHANGED <<shot, hashing, debounce, reader, grouped, forgotten, vain>>

(* The cache or the broker refuses, or the worker dies: the delivery that   *)
(* follows finds the hash, and whoever relied on the lock is forgotten too. *)
HashFails(h) ==
    /\ hasher[h] # NotHashing
    /\ forgotten' = IF hasher[h].pc = "hash" THEN forgotten
                    ELSE IF hasher[h].pc = "ask" THEN forgotten \cup ({hasher[h].shot} \cap Ungrouped)
                    ELSE forgotten \cup Ungrouped
    /\ vain' = (vain \/ hasher[h].pc = "queue")
    /\ hasher' = [hasher EXCEPT ![h] = NotHashing]
    /\ UNCHANGED <<shot, hashing, debounce, grouping, reader, grouped>>

(* The scene's row is locked, and its hashed photos are read.               *)
GroupRead(t) ==
    /\ t.wait = 0 /\ reader = NoReader
    /\ grouping' = grouping \ {t}
    /\ reader' = [pc |-> "read", tries |-> t.tries,
                  shots |-> {s \in Shot : shot[s] = "hashed"}]
    /\ UNCHANGED <<shot, hashing, hasher, debounce, grouped, forgotten, vain>>

GroupWrite ==
    /\ reader.pc = "read"
    /\ grouped' = reader.shots
    /\ forgotten' = forgotten \ reader.shots
    /\ reader' = NoReader
    /\ UNCHANGED <<shot, hashing, hasher, debounce, grouping, vain>>

(* A photo it is about to name was deleted, or the task dies; it is tried   *)
(* again after a while, and in the end no more.                             *)
GroupFails ==
    /\ reader.pc = "read"
    /\ IF reader.tries + 1 < MaxGroupings
       THEN /\ grouping' = grouping \cup {[wait |-> Debounce, tries |-> reader.tries + 1]}
            /\ UNCHANGED forgotten
       ELSE forgotten' = forgotten \cup Ungrouped /\ UNCHANGED grouping
    /\ reader' = NoReader
    /\ UNCHANGED <<shot, hashing, hasher, debounce, grouped, vain>>

ShotDeleted(s) ==
    /\ shot[s] # "gone"
    /\ shot' = [shot EXCEPT ![s] = "gone"]
    /\ grouped' = grouped \ {s} /\ forgotten' = forgotten \ {s}
    /\ UNCHANGED <<hashing, hasher, debounce, grouping, reader, vain>>

(* The lock and the countdowns run on one clock; a task may start late, and *)
(* a request that is about to queue its task does so within the second.     *)
Moment ==
    /\ debounce > 0 \/ \E t \in grouping : t.wait > 0
    /\ debounce' = IF debounce > 0 THEN debounce - 1 ELSE 0
    /\ grouping' = {[t EXCEPT !.wait = IF @ > 0 THEN @ - 1 ELSE 0] : t \in grouping}
    /\ UNCHANGED <<shot, hashing, hasher, reader, grouped, forgotten, vain>>

BurstNext ==
    \/ \E h \in Hasher : \/ \E s \in Shot : HashStart(h, s)
                         \/ HashWrite(h) \/ Ask(h) \/ QueueGrouping(h) \/ HashFails(h)
    \/ \E t \in grouping : GroupRead(t)
    \/ GroupWrite \/ GroupFails
    \/ \E s \in Shot : ShotDeleted(s)
    \/ Moment

BurstSpec == BurstInit /\ [][BurstNext]_burstVars
-----------------------------------------------------------------------------
(* A photo with a hash is in the grouping of its scene, or a grouping that  *)
(* will see it is queued, or about to be, or it is one of those whose       *)
(* request was lost: none is dropped because another had asked shortly      *)
(* before it (tasks.py:413-424).                                            *)
BurstsCatchUp ==
    \A s \in Ungrouped :
        \/ s \in forgotten
        \/ grouping # {}
        \/ \E h \in Hasher : \/ hasher[h].pc = "queue"
                             \/ hasher[h].pc = "ask" /\ hasher[h].shot = s
        \/ reader.pc = "read" /\ s \in reader.shots
=============================================================================
