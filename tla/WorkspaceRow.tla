---------------------------- MODULE WorkspaceRow ----------------------------
(***************************************************************************)
(* A workspace's row and the index from host names to workspaces            *)
(* (core/models.py, core/domain_index.py, gallery/views.py): a PATCH reads  *)
(* the row, writes every column of it in a transaction, and invalidates the *)
(* cached hosts before it commits; uploads charge the same row's ledger;    *)
(* the edge router looks hosts up, in the cache and then in the table.      *)
(***************************************************************************)
EXTENDS Integers, FiniteSets

CONSTANTS
    Tenant,         \* workspaces
    Host,           \* host names
    Nobody,         \* no host; no workspace; no entry in the cache is Absent
    Absent,
    Lookup,         \* concurrent requests of the edge router
    Saver,          \* concurrent PATCHes
    Limit,          \* storage_limit_bytes of each, in uploads of one size
    MaxOwed         \* bound: uploads charged and not released

ASSUME RowAssumption ==
    /\ Nobody \notin Host \cup Tenant
    /\ Absent \notin Tenant \cup {Nobody}
    /\ Limit \in [Tenant -> Nat] /\ MaxOwed \in Nat

VARIABLES
    row,        \* committed rows: host, soft deletion, storage_used_bytes
    saver,      \* PATCHes: the row they write, what they have to invalidate
    cache,      \* for each host an owner, Nobody, or Absent
    lookup,     \* the host a lookup asked the table for, and the answer
    owed,       \* history: bytes charged and not released
    refilled,   \* history: hosts a lookup cached while a PATCH that had dealt
                \* with them had yet to commit
    late        \* history: hosts whose entry a commit overtook nevertheless

rowVars == <<row, saver, cache, lookup, owed, refilled, late>>

Resting == [pc |-> "none"]
Asleep == [host |-> Nobody, answer |-> Nobody]
Rows == [host : Host \cup {Nobody}, gone : BOOLEAN, used : Nat]
Looks == [host : Host \cup {Nobody}, gone : BOOLEAN]

RowTypeOK ==
    /\ row \in [Tenant -> Rows]
    /\ saver \in [Saver -> {Resting} \cup [pc : {"read"}, of : Tenant, used : Nat]
                  \cup [pc : {"looked"}, of : Tenant, used : Nat, old : Looks]
                  \cup [pc : {"written"}, of : Tenant, row : Rows, todo : SUBSET Host,
                        missed : SUBSET Host]]
    /\ cache \in [Host -> Tenant \cup {Nobody, Absent}]
    /\ lookup \in [Lookup -> [host : Host \cup {Nobody}, answer : Tenant \cup {Nobody}]]
    /\ owed \in [Tenant -> Nat]
    /\ refilled \in [Saver -> SUBSET Host]
    /\ late \in SUBSET Host

RowInit ==
    /\ row = [w \in Tenant |-> [host |-> Nobody, gone |-> FALSE, used |-> 0]]
    /\ saver = [s \in Saver |-> Resting]
    /\ cache = [h \in Host |-> Absent]
    /\ lookup = [q \in Lookup |-> Asleep]
    /\ owed = [w \in Tenant |-> 0]
    /\ refilled = [s \in Saver |-> {}]
    /\ late = {}

(* The table's answer: a deleted workspace is not in the default manager.   *)
OwnerIn(rows, h) ==
    LET owners == {w \in Tenant : rows[w].host = h /\ ~rows[w].gone}
    IN  IF owners = {} THEN Nobody ELSE CHOOSE w \in owners : TRUE

RowLocked(w) == \E s \in Saver : saver[s].pc = "written" /\ saver[s].of = w
-----------------------------------------------------------------------------
(* core/quota.py: the row is locked, then changed by an expression.         *)

Reserve(w) ==
    /\ ~RowLocked(w)
    /\ row[w].used < Limit[w] /\ owed[w] < MaxOwed
    /\ row' = [row EXCEPT ![w].used = @ + 1]
    /\ owed' = [owed EXCEPT ![w] = @ + 1]
    /\ UNCHANGED <<saver, cache, lookup, refilled, late>>

Refund(w) ==
    /\ ~RowLocked(w)
    /\ owed[w] > 0
    /\ row' = [row EXCEPT ![w].used = IF @ > 0 THEN @ - 1 ELSE 0]
    /\ owed' = [owed EXCEPT ![w] = @ - 1]
    /\ UNCHANGED <<saver, cache, lookup, refilled, late>>
-----------------------------------------------------------------------------
(* PATCH of a workspace.  Of the row it read only the used bytes are kept:  *)
(* it may write back the host and the deletion it read, or any others.      *)

PatchRead(s, w) ==
    /\ saver[s] = Resting
    /\ saver' = [saver EXCEPT ![s] = [pc |-> "read", of |-> w,
                                      used |-> row[w].used]]
    /\ UNCHANGED <<row, cache, lookup, owed, refilled, late>>

(* Mutant: only the host the workspace has from now on is invalidated.      *)
StaleNewOnly(old, new) == {new.host} \ {Nobody}

(* The hosts to invalidate: both when the domain changes, the one it keeps  *)
(* when the workspace is deleted or restored.                               *)
Stale(old, new) ==
    (IF old.host # new.host THEN {old.host, new.host}
     ELSE IF old.gone # new.gone THEN {new.host} ELSE {}) \ {Nobody}

Seen(r) == [host |-> r.host, gone |-> r.gone]

(* save() looks at the two columns once more, without a lock, but only for  *)
(* what to invalidate.                                                      *)
PatchLook(s) ==
    /\ saver[s].pc = "read"
    /\ saver' = [saver EXCEPT ![s] = [pc |-> "looked", of |-> @.of, used |-> @.used,
                                      old |-> Seen(row[@.of])]]
    /\ UNCHANGED <<row, cache, lookup, owed, refilled, late>>

(* A host is one workspace's, uncommitted ones included.                    *)
Taken(w, h) ==
    \/ \E v \in Tenant \ {w} : row[v].host = h
    \/ \E q \in Saver : saver[q].pc = "written" /\ saver[q].of # w /\ saver[q].row.host = h

(* Every column is written, storage_used_bytes as it was read.  The lock    *)
(* then keeps other saves away; missed (history) are the workspace's hosts  *)
(* this one will not come to when another came between its look and here.   *)
PatchWrite(s) ==
    LET w == saver[s].of
    IN  /\ saver[s].pc = "looked"
        /\ ~RowLocked(w)
        /\ \E h \in Host \cup {Nobody}, gone \in BOOLEAN :
              LET new == [host |-> h, gone |-> gone, used |-> saver[s].used]
                  stale == Stale(saver[s].old, new)
                  missed == IF saver[s].old = Seen(row[w]) THEN {}
                            ELSE {row[w].host, h} \ (stale \cup {Nobody})
              IN  /\ h = Nobody \/ ~Taken(w, h)
                  /\ saver' = [saver EXCEPT ![s] = [pc |-> "written", of |-> w, row |-> new,
                                     todo |-> stale, missed |-> missed]]
        /\ UNCHANGED <<row, cache, lookup, owed, refilled, late>>

(* Another workspace has the host, or the request dies: all is rolled back, *)
(* except what was invalidated.                                             *)
PatchFails(s) ==
    /\ saver[s] # Resting
    /\ saver' = [saver EXCEPT ![s] = Resting]
    /\ refilled' = [refilled EXCEPT ![s] = {}]
    /\ UNCHANGED <<row, cache, lookup, owed, late>>

Invalidate(s, h) ==
    /\ saver[s].pc = "written" /\ h \in saver[s].todo
    /\ cache' = [cache EXCEPT ![h] = Absent]
    /\ late' = late \ {h}
    /\ saver' = [saver EXCEPT ![s].todo = @ \ {h}]
    /\ UNCHANGED <<row, lookup, owed, refilled>>

(* Which entries a commit may overtake is a matter of what happened when:   *)
(* those a lookup cached after the PATCH had dealt with the host, and the   *)
(* hosts it missed because another save overtook its look.                  *)
PatchCommit(s) ==
    LET w == saver[s].of
    IN  /\ saver[s].pc = "written" /\ saver[s].todo = {}
        /\ row' = [row EXCEPT ![w] = saver[s].row]
        /\ late' = {h \in late \cup refilled[s] \cup saver[s].missed :
                        cache[h] \notin {Absent, OwnerIn(row', h)}}
        /\ saver' = [saver EXCEPT ![s] = Resting]
        /\ refilled' = [refilled EXCEPT ![s] = {}]
        /\ UNCHANGED <<cache, lookup, owed>>
-----------------------------------------------------------------------------
(* Lookups; a hit of either kind is answered from the cache.                *)

ReadTable(q, h) ==
    /\ lookup[q] = Asleep
    /\ cache[h] = Absent
    /\ lookup' = [lookup EXCEPT ![q] = [host |-> h, answer |-> OwnerIn(row, h)]]
    /\ UNCHANGED <<row, saver, cache, owed, refilled, late>>

FillCache(q) ==
    LET h == lookup[q].host
    IN  /\ h # Nobody
        /\ cache' = [cache EXCEPT ![h] = lookup[q].answer]
        /\ refilled' = [s \in Saver |->
                IF saver[s].pc = "written" /\ h \notin saver[s].todo
                THEN refilled[s] \cup {h} ELSE refilled[s]]
        /\ late' = IF lookup[q].answer = OwnerIn(row, h) THEN late \ {h} ELSE late \cup {h}
        /\ lookup' = [lookup EXCEPT ![q] = Asleep]
        /\ UNCHANGED <<row, saver, owed>>

(* DOMAIN_CACHE_TTL after it was written.                                   *)
EntryExpires(h) ==
    /\ cache[h] # Absent
    /\ cache' = [cache EXCEPT ![h] = Absent]
    /\ late' = late \ {h}
    /\ UNCHANGED <<row, saver, lookup, owed, refilled>>

RowNext ==
    \/ \E w \in Tenant : Reserve(w) \/ Refund(w)
    \/ \E s \in Saver : \/ \E w \in Tenant : PatchRead(s, w)
                        \/ PatchLook(s) \/ PatchWrite(s) \/ PatchFails(s) \/ PatchCommit(s)
                        \/ \E h \in Host : Invalidate(s, h)
    \/ \E q \in Lookup : FillCache(q) \/ \E h \in Host : ReadTable(q, h)
    \/ \E h \in Host : EntryExpires(h)

RowSpec == RowInit /\ [][RowNext]_rowVars
-----------------------------------------------------------------------------
(* A wrong entry of the cache - the host of a workspace that gave it away,  *)
(* is deleted, or has only now got it - was cached by a lookup that read    *)
(* the table before a commit and wrote after it, or between a PATCH's       *)
(* invalidation of the host and its commit, or concerns a workspace that    *)
(* two saves raced for.  An entry that was in the cache when a save came to *)
(* its host does not survive the save (core/models.py:195-211).             *)
CacheFresh == \A h \in Host : cache[h] \in {Absent, OwnerIn(row, h)} \/ h \in late

(* "Quota gate: Atomic updates prevent concurrent overspend"                *)
(* (security-architecture.md:27): what is charged and not released stays    *)
(* within the limit.                                                        *)
NoOverspend == \A w \in Tenant : owed[w] <= Limit[w]
=============================================================================
