--------------------------- MODULE ServicesProofs ---------------------------
(***************************************************************************)
(* Proofs about the components that MCServices sets side by side: the locks *)
(* of rows, the row of a workspace, the rate limiter, the reading of a      *)
(* table page by page, and that what is proved of each one holds of their   *)
(* composition.                                                             *)
(***************************************************************************)
EXTENDS MCServices, MoneyProofs, LeaseProofs, PictureProofs

(* Locks of rows: the rows have a rank, every transaction outside the ones  *)
(* named by DeadlocksExplained locks them by rising rank, and of those that *)
(* wait for one another the one that waits highest waits for nobody.        *)

Rank(r) ==
    CASE r \in Frame -> 1 [] r = "link" -> 1 [] r = "scene" -> 2 [] r = "event" -> 3
      [] r = "sub" -> 4 [] r = "user" -> 5 [] r = "workspace" -> 6

Reversed == {"upload", "group", "subscribe"}

(* What every deed outside the reversed ones is: it locks rows of rising    *)
(* rank, but for the two photos of a statement over many.                   *)
Rising(d) ==
    \A i, j \in 1..Len(d.locks) : i < j =>
        \/ Rank(d.locks[i].row) < Rank(d.locks[j].row)
        \/ d.kind = "many" /\ Rank(d.locks[i].row) = 1 /\ Rank(d.locks[j].row) = 1

(* The ranks, one by one.                                                   *)
LEMMA Ranks ==
    /\ \A f \in Frame : Rank(f) = 1
    /\ Rank("link") = 1 /\ Rank("scene") = 2 /\ Rank("event") = 3
    /\ Rank("sub") = 4 /\ Rank("user") = 5 /\ Rank("workspace") = 6
BY FrameAssumption DEF Rank, Above

(* A deed is one of these.                                                  *)
LEMMA DeedCases ==
    ASSUME NEW d \in Deeds \cup {NoDeed}
    PROVE  \/ d = NoDeed
           \/ d \in {Consume, RenewPlan, FirstPlan, Bulk, Fast}
           \/ \E f \in Frame : d \in {Webhook(f), Fail(f), Destroy(f), Abandon(f), Reap(f)}
           \/ \E f, g \in Frame :
                 d \in {HardDelete(f, g), Expire(f, g), Cascade(f, g), Group(f, g)}
<1> DEFINE One(f) == {Webhook(f), Fail(f), Destroy(f), Abandon(f), Reap(f)}
           Two(f, g) == {HardDelete(f, g), Expire(f, g), Cascade(f, g), Group(f, g)}
<1> HIDE DEF One, Two
<1>1. Deeds = (UNION {One(f) : f \in Frame})
                \cup (UNION {UNION {Two(f, g) : g \in Frame \ {f}} : f \in Frame})
                \cup {Consume, RenewPlan, FirstPlan, Bulk, Fast}
  BY DEF Deeds, One, Two
<1>2. CASE d \in UNION {One(f) : f \in Frame}
  <2>1. PICK f \in Frame : d \in One(f)
    BY <1>2
  <2> QED
    BY <2>1 DEF One
<1>3. CASE d \in UNION {UNION {Two(f, g) : g \in Frame \ {f}} : f \in Frame}
  <2>1. PICK f \in Frame : d \in UNION {Two(f, g) : g \in Frame \ {f}}
    BY <1>3
  <2>2. PICK g \in Frame \ {f} : d \in Two(f, g)
    BY <2>1
  <2> QED
    BY <2>2 DEF Two
<1> QED
  BY <1>1, <1>2, <1>3

(* Every lock of a deed is on a row that has a rank.                        *)
LEMMA DeedShape ==
    ASSUME NEW d \in Deeds \cup {NoDeed}
    PROVE  /\ Len(d.locks) \in Nat
           /\ \A i \in 1..Len(d.locks) : Rank(d.locks[i].row) \in 1..6
<1>1. CASE d = NoDeed
  BY <1>1 DEF NoDeed, Deed
<1>2. CASE d \in {Consume, RenewPlan, FirstPlan, Bulk, Fast}
  BY <1>2, Ranks DEF Consume, RenewPlan, FirstPlan, Bulk, Fast, Deed, Lock
<1>3. ASSUME NEW f \in Frame, d \in {Webhook(f), Fail(f), Destroy(f), Abandon(f), Reap(f)}
      PROVE  /\ Len(d.locks) \in Nat
             /\ \A i \in 1..Len(d.locks) : Rank(d.locks[i].row) \in 1..6
  BY <1>3, Ranks DEF Webhook, Fail, Destroy, Abandon, Reap, Deed, Lock
<1>4. ASSUME NEW f \in Frame, NEW g \in Frame,
             d \in {HardDelete(f, g), Expire(f, g), Cascade(f, g), Group(f, g)}
      PROVE  /\ Len(d.locks) \in Nat
             /\ \A i \in 1..Len(d.locks) : Rank(d.locks[i].row) \in 1..6
  <2>1. CASE d = HardDelete(f, g)
    BY <2>1, Ranks DEF HardDelete, Deed, Lock
  <2>2. CASE d = Expire(f, g)
    BY <2>2, Ranks DEF Expire, Deed, Lock
  <2>3. CASE d = Cascade(f, g)
    BY <2>3, Ranks DEF Cascade, Deed, Lock
  <2>4. CASE d = Group(f, g)
    BY <2>4, Ranks DEF Group, Deed, Lock
  <2> QED
    BY <1>4, <2>1, <2>2, <2>3, <2>4
<1> QED
  BY DeedCases, <1>1, <1>2, <1>3, <1>4

(* All but uploads, groupings and first subscriptions rise.                 *)
LEMMA DeedsRise ==
    ASSUME NEW d \in Deeds \cup {NoDeed}, d.kind \notin Reversed
    PROVE  Rising(d)
<1>1. CASE d = NoDeed
  BY <1>1 DEF NoDeed, Deed, Rising
<1>2. CASE d \in {Consume, RenewPlan, FirstPlan, Bulk, Fast}
  BY <1>2, Ranks DEF Consume, RenewPlan, FirstPlan, Bulk, Fast, Deed, Lock, Rising, Reversed
<1>3. ASSUME NEW f \in Frame, d \in {Webhook(f), Fail(f), Destroy(f), Abandon(f), Reap(f)}
      PROVE  Rising(d)
  BY <1>3, Ranks DEF Webhook, Fail, Destroy, Abandon, Reap, Deed, Lock, Rising
<1>4. ASSUME NEW f \in Frame, NEW g \in Frame,
             d \in {HardDelete(f, g), Expire(f, g), Cascade(f, g), Group(f, g)}
      PROVE  Rising(d)
  BY <1>4, Ranks DEF HardDelete, Expire, Cascade, Group, Deed, Lock, Rising, Reversed
<1> QED
  BY DeedCases, <1>1, <1>2, <1>3, <1>4
-----------------------------------------------------------------------------

(* A transaction has at every time locked a prefix of its rows: whatever    *)
(* begins, waits, ends or is failed.                                        *)
THEOREM LocksTypeCorrect == LockSpec => []LockTypeOK
<1>1. LockInit => LockTypeOK
  BY DEF LockInit, LockTypeOK, NoDeed, Deed
<1>2. LockTypeOK /\ [LockNext]_lockVars => LockTypeOK'
  <2> SUFFICES ASSUME LockTypeOK, [LockNext]_lockVars
               PROVE  LockTypeOK'
    OBVIOUS
  <2> USE DEF LockTypeOK
  <2>1. ASSUME NEW t \in Txn, Begin(t)
        PROVE  LockTypeOK'
    <3>1. PICK d \in Deeds : deed' = [deed EXCEPT ![t] = d]
      BY <2>1 DEF Begin
    <3>2. held' = held /\ deed[t] = NoDeed
      BY <2>1 DEF Begin
    <3>3. held[t] = 0
      BY <3>2 DEF NoDeed, Deed
    <3>4. Len(d.locks) \in Nat
      BY DeedShape
    <3> QED
      BY <3>1, <3>2, <3>3, <3>4
  <2>2. ASSUME NEW t \in Txn, Take(t)
        PROVE  LockTypeOK'
    <3>1. held[t] < Len(deed[t].locks) /\ deed' = deed
          /\ held' = [held EXCEPT ![t] = held[t] + 1]
      BY <2>2 DEF Take
    <3>2. Len(deed[t].locks) \in Nat
      BY DeedShape
    <3> QED
      BY <3>1, <3>2
  <2>3. ASSUME NEW t \in Txn, End(t)
        PROVE  LockTypeOK'
    <3>1. deed' = [deed EXCEPT ![t] = NoDeed] /\ held' = [held EXCEPT ![t] = 0]
      BY <2>3 DEF End
    <3>2. Len(NoDeed.locks) = 0
      BY DEF NoDeed, Deed
    <3> QED
      BY <3>1, <3>2
  <2>4. CASE UNCHANGED lockVars
    BY <2>4 DEF lockVars
  <2> QED
    BY <2>1, <2>2, <2>3, <2>4 DEF LockNext, Commit, StopWaiting, BreakDeadlock
<1> QED
  BY <1>1, <1>2, PTL DEF LockSpec

-----------------------------------------------------------------------------
(* The rank of the row a transaction wants.                                 *)
Need(t) == Rank(Wanted(t).row)

LEMMA NeedRange ==
    ASSUME LockTypeOK, NEW t \in Txn, NEW u \in Txn, WaitsFor(t, u)
    PROVE  Need(t) \in 1..6
<1>1. deed[t] \in Deeds \cup {NoDeed} /\ held[t] \in Nat /\ held[t] < Len(deed[t].locks)
  BY DEF LockTypeOK, WaitsFor
<1>2. Len(deed[t].locks) \in Nat /\ held[t] + 1 \in 1..Len(deed[t].locks)
  BY <1>1, DeedShape
<1> QED
  BY <1>1, <1>2, DeedShape DEF Need, Wanted

(* Who is waited for, and waits itself, wants a row of higher rank; or is a *)
(* statement over many photos that holds one and wants another.             *)
LEMMA WaitRises ==
    ASSUME LockTypeOK, NEW t \in Txn, NEW u \in Txn, NEW v \in Txn,
           WaitsFor(t, u), WaitsFor(u, v), deed[u].kind \notin Reversed
    PROVE  \/ Need(t) < Need(u)
           \/ deed[u].kind = "many" /\ Need(t) = 1 /\ Need(u) = 1
<1>1. PICK i \in 1..held[u] : deed[u].locks[i].row = Wanted(t).row
  BY DEF WaitsFor
<1>2. deed[u] \in Deeds \cup {NoDeed} /\ held[u] \in Nat /\ held[u] < Len(deed[u].locks)
  BY DEF LockTypeOK, WaitsFor
<1>3. Len(deed[u].locks) \in Nat
  BY <1>2, DeedShape
<1>4. Rising(deed[u])
  BY <1>2, DeedsRise
<1>5. i \in 1..Len(deed[u].locks) /\ held[u] + 1 \in 1..Len(deed[u].locks) /\ i < held[u] + 1
  BY <1>2, <1>3
<1> QED
  BY <1>1, <1>4, <1>5 DEF Rising, Need, Wanted

(* Of transactions that all rise, at most one of them over many photos, no  *)
(* set waits for itself: nobody in it can want a row of rank 6, then none   *)
(* of rank 5, and so on; and one who wants a photo waits for a statement    *)
(* over many, which waits for another one.                                  *)
LEMMA NoRisingDeadlock ==
    ASSUME LockTypeOK, NEW S \in SUBSET Txn, Deadlocked(S),
           \A t \in S : deed[t].kind \notin Reversed,
           \A t, u \in S : deed[t].kind = "many" /\ deed[u].kind = "many" => t = u
    PROVE  FALSE
<1>1. \A t \in S : \E u \in S : WaitsFor(t, u)
  BY DEF Deadlocked
<1>2. \A t \in S : Need(t) \in 1..6
  BY <1>1, NeedRange
<1>3. \A t, u \in S : WaitsFor(t, u) =>
         \/ Need(t) < Need(u)
         \/ deed[u].kind = "many" /\ Need(t) = 1 /\ Need(u) = 1
  BY <1>1, WaitRises
<1>4. \A t \in S : Need(t) < 6
  BY <1>1, <1>2, <1>3
<1>5. \A t \in S : Need(t) < 5
  BY <1>1, <1>2, <1>3, <1>4
<1>6. \A t \in S : Need(t) < 4
  BY <1>1, <1>2, <1>3, <1>5
<1>7. \A t \in S : Need(t) < 3
  BY <1>1, <1>2, <1>3, <1>6
<1>8. \A t \in S : Need(t) < 2
  BY <1>1, <1>2, <1>3, <1>7
<1>9. \A t, u \in S : WaitsFor(t, u) => deed[u].kind = "many"
  BY <1>2, <1>3, <1>8
<1>10. PICK t \in S : TRUE
  BY DEF Deadlocked
<1>11. PICK u \in S : WaitsFor(t, u)
  BY <1>1
<1>12. PICK v \in S : WaitsFor(u, v)
  BY <1>1
<1>13. u # v
  BY <1>12 DEF WaitsFor
<1> QED
  BY <1>9, <1>11, <1>12, <1>13

(* A deadlock has an upload, a grouping or a first subscription in it, or   *)
(* two statements over several photos: for any number of transactions, and  *)
(* of photos.                                                               *)
THEOREM DeadlocksAreExplained == LockSpec => []DeadlocksExplained
<1>1. LockTypeOK => DeadlocksExplained
  BY NoRisingDeadlock DEF DeadlocksExplained, OfKind, Reversed
<1> QED
  BY <1>1, LocksTypeCorrect, PTL
-----------------------------------------------------------------------------
(* The row of a workspace, and the cache of custom domains.                 *)

(* A PATCH between its write and its commit.                                *)
Writing == [pc : {"written"}, of : Tenant, row : Rows, todo : SUBSET Host, missed : SUBSET Host]

(* Writing the row of one tenant leaves the types alone.                    *)
LEMMA RowsTyped ==
    ASSUME RowTypeOK, NEW w \in Tenant, NEW r \in Rows
    PROVE  [row EXCEPT ![w] = r] \in [Tenant -> Rows]
BY DEF RowTypeOK

(* Columns keep their types through every request.                          *)
THEOREM RowTyped == RowSpec => []RowTypeOK
<1>1. RowInit => RowTypeOK
  BY RowAssumption DEF RowInit, RowTypeOK, Rows, Resting, Asleep
<1>2. RowTypeOK /\ [RowNext]_rowVars => RowTypeOK'
  <2> SUFFICES ASSUME RowTypeOK, [RowNext]_rowVars
               PROVE  RowTypeOK'
    OBVIOUS
  <2> USE DEF RowTypeOK, Writing
  <2>1. ASSUME NEW w \in Tenant, Reserve(w)
        PROVE  RowTypeOK'
    <3> DEFINE u == row[w].used + 1
    <3>1. row[w] \in Rows /\ u \in Nat
      BY DEF Rows
    <3>2. row' = [row EXCEPT ![w] = [row[w] EXCEPT !.used = u]]
      BY <2>1 DEF Reserve
    <3>3. [row[w] EXCEPT !.used = u] \in Rows
      BY <3>1 DEF Rows
    <3>4. row' \in [Tenant -> Rows]
      BY <3>2, <3>3
    <3>5. owed' \in [Tenant -> Nat]
      BY <2>1 DEF Reserve
    <3> QED
      BY <2>1, <3>4, <3>5 DEF Reserve
  <2>2. ASSUME NEW w \in Tenant, Refund(w)
        PROVE  RowTypeOK'
    <3> DEFINE u == IF row[w].used > 0 THEN row[w].used - 1 ELSE 0
    <3>1. row[w] \in Rows /\ u \in Nat
      BY DEF Rows
    <3>2. row' = [row EXCEPT ![w] = [row[w] EXCEPT !.used = u]]
      BY <2>2 DEF Refund
    <3>3. [row[w] EXCEPT !.used = u] \in Rows
      BY <3>1 DEF Rows
    <3>4. row' \in [Tenant -> Rows]
      BY <3>2, <3>3
    <3>5. owed' \in [Tenant -> Nat]
      BY <2>2 DEF Refund
    <3> QED
      BY <2>2, <3>4, <3>5 DEF Refund
  <2>3. ASSUME NEW s \in Saver, NEW w \in Tenant, PatchRead(s, w)
        PROVE  RowTypeOK'
    <3> DEFINE rec == [pc |-> "read", of |-> w, used |-> row[w].used]
    <3>1. saver' = [saver EXCEPT ![s] = rec]
      BY <2>3 DEF PatchRead
    <3>2. rec \in [pc : {"read"}, of : Tenant, used : Nat]
      BY DEF Rows
    <3> HIDE DEF rec
    <3> QED
      BY <2>3, <3>1, <3>2 DEF PatchRead
  <2>4. ASSUME NEW s \in Saver, PatchLook(s)
        PROVE  RowTypeOK'
    <3>1. saver[s] \in [pc : {"read"}, of : Tenant, used : Nat]
      BY <2>4 DEF PatchLook, Resting
    <3> DEFINE new == [pc |-> "looked", of |-> saver[s].of, used |-> saver[s].used,
                       old |-> Seen(row[saver[s].of])]
    <3>2. saver' = [saver EXCEPT ![s] = new]
      BY <2>4 DEF PatchLook
    <3>3. new \in [pc : {"looked"}, of : Tenant, used : Nat, old : Looks]
      BY <3>1 DEF Rows, Looks, Seen
    <3> HIDE DEF new
    <3> QED
      BY <2>4, <3>2, <3>3 DEF PatchLook
  <2>5. ASSUME NEW s \in Saver, PatchWrite(s)
        PROVE  RowTypeOK'
    <3>1. saver[s] \in [pc : {"looked"}, of : Tenant, used : Nat, old : Looks]
      BY <2>5 DEF PatchWrite, Resting
    <3>2. PICK h \in Host \cup {Nobody}, gone \in BOOLEAN :
             LET new == [host |-> h, gone |-> gone, used |-> saver[s].used]
             IN  saver' = [saver EXCEPT ![s] =
                    [pc |-> "written", of |-> saver[s].of, row |-> new,
                     todo |-> Stale(saver[s].old, new),
                     missed |-> IF saver[s].old = Seen(row[saver[s].of]) THEN {}
                                ELSE {row[saver[s].of].host, h}
                                        \ (Stale(saver[s].old, new) \cup {Nobody})]]
      BY <2>5 DEF PatchWrite
    <3> DEFINE new == [host |-> h, gone |-> gone, used |-> saver[s].used]
               todo == Stale(saver[s].old, new)
               missed == IF saver[s].old = Seen(row[saver[s].of]) THEN {}
                         ELSE {row[saver[s].of].host, h} \ (todo \cup {Nobody})
               rec == [pc |-> "written", of |-> saver[s].of, row |-> new, todo |-> todo,
                       missed |-> missed]
    <3>3. new \in Rows /\ todo \in SUBSET Host
      BY <3>1 DEF Stale, Rows, Looks
    <3>4. saver' = [saver EXCEPT ![s] = rec]
      BY <3>2
    <3>5. saver[s].of \in Tenant /\ missed \in SUBSET Host
      BY <3>1 DEF RowTypeOK, Rows
    <3> HIDE DEF new, todo, missed
    <3>6. rec \in Writing
      BY <3>3, <3>5 DEF Writing
    <3> HIDE DEF rec
    <3> QED
      BY <2>5, <3>4, <3>6 DEF PatchWrite, Writing
  <2>6. ASSUME NEW s \in Saver, PatchFails(s)
        PROVE  RowTypeOK'
    BY <2>6 DEF PatchFails
  <2>7. ASSUME NEW s \in Saver, NEW h \in Host, Invalidate(s, h)
        PROVE  RowTypeOK'
    <3>1. saver[s] \in Writing
      BY <2>7 DEF Invalidate, Resting
    <3> DEFINE rec == [saver[s] EXCEPT !.todo = saver[s].todo \ {h}]
    <3>2. rec \in Writing
      BY <3>1
    <3>3. saver' = [saver EXCEPT ![s] = rec]
      BY <2>7 DEF Invalidate
    <3> HIDE DEF rec
    <3>4. cache' \in [Host -> Tenant \cup {Nobody, Absent}] /\ late' \in SUBSET Host
      BY <2>7 DEF Invalidate
    <3>5. UNCHANGED <<row, lookup, owed, refilled>>
      BY <2>7 DEF Invalidate
    <3> QED
      BY <3>2, <3>3, <3>4, <3>5
  <2>8. ASSUME NEW s \in Saver, PatchCommit(s)
        PROVE  RowTypeOK'
    <3>1. saver[s] \in Writing
      BY <2>8 DEF PatchCommit, Resting
    <3>2. /\ saver[s].of \in Tenant /\ saver[s].row \in Rows
          /\ refilled[s] \in SUBSET Host /\ saver[s].missed \in SUBSET Host
      BY <3>1
    <3>3. late' \in SUBSET Host
      BY <2>8, <3>2 DEF PatchCommit
    <3>4. row' \in [Tenant -> Rows]
      BY <2>8, <3>2 DEF PatchCommit
    <3> QED
      BY <2>8, <3>3, <3>4 DEF PatchCommit
  <2>9. ASSUME NEW q \in Lookup, NEW h \in Host, ReadTable(q, h)
        PROVE  RowTypeOK'
    <3>1. OwnerIn(row, h) \in Tenant \cup {Nobody}
      BY DEF OwnerIn
    <3> QED
      BY <2>9, <3>1 DEF ReadTable
  <2>10. ASSUME NEW q \in Lookup, FillCache(q)
         PROVE  RowTypeOK'
    <3>1. lookup[q].host \in Host
      BY <2>10 DEF FillCache
    <3> QED
      BY <2>10, <3>1 DEF FillCache, Asleep
  <2>11. ASSUME NEW h \in Host, EntryExpires(h)
         PROVE  RowTypeOK'
    BY <2>11 DEF EntryExpires
  <2>12. CASE UNCHANGED rowVars
    BY <2>12 DEF rowVars
  <2> QED
    BY <2>1, <2>2, <2>3, <2>4, <2>5, <2>6, <2>7, <2>8, <2>9, <2>10, <2>11, <2>12 DEF RowNext
<1> QED
  BY <1>1, <1>2, PTL DEF RowSpec

(* The table's answer for a host depends on who has it and is not deleted.  *)
LEMMA SameOwner ==
    ASSUME NEW a, NEW b, NEW h,
           \A w \in Tenant : (a[w].host = h /\ ~a[w].gone) <=> (b[w].host = h /\ ~b[w].gone)
    PROVE  OwnerIn(a, h) = OwnerIn(b, h)
<1> DEFINE A == {w \in Tenant : a[w].host = h /\ ~a[w].gone}
           B == {w \in Tenant : b[w].host = h /\ ~b[w].gone}
<1>1. A = B
  OBVIOUS
<1>2. OwnerIn(a, h) = IF A = {} THEN Nobody ELSE CHOOSE w \in A : TRUE
  BY DEF OwnerIn
<1>3. OwnerIn(b, h) = IF B = {} THEN Nobody ELSE CHOOSE w \in B : TRUE
  BY DEF OwnerIn
<1> HIDE DEF A, B
<1> QED
  BY <1>1, <1>2, <1>3

(* A host changes hands only when a workspace that has it, or gets it,      *)
(* changes its host or its deletion.                                        *)
LEMMA OwnerMoves ==
    ASSUME RowTypeOK, NEW w \in Tenant, NEW new \in Rows, NEW h \in Host,
           OwnerIn([row EXCEPT ![w] = new], h) # OwnerIn(row, h)
    PROVE  /\ h \in {row[w].host, new.host}
           /\ row[w].host # new.host \/ row[w].gone # new.gone
<1> DEFINE after == [row EXCEPT ![w] = new]
<1>1. after[w] = new /\ \A v \in Tenant \ {w} : after[v] = row[v]
  BY DEF RowTypeOK
<1> HIDE DEF after
<1>2. ~\A v \in Tenant : (after[v].host = h /\ ~after[v].gone) <=> (row[v].host = h /\ ~row[v].gone)
  <2>1. OwnerIn(after, h) # OwnerIn(row, h)
    BY DEF after
  <2> QED
    BY <2>1, SameOwner
<1>3. (new.host = h /\ ~new.gone) # (row[w].host = h /\ ~row[w].gone)
  BY <1>1, <1>2
<1> QED
  BY <1>3

(* A row that is written and not committed is locked: it has one writer.    *)
WritersApart ==
    \A s, q \in Saver : saver[s].pc = "written" /\ saver[q].pc = "written" /\ s # q
        => saver[s].of # saver[q].of

(* What a PATCH had to invalidate and has dealt with is not in the cache,   *)
(* unless a lookup has cached it since.                                     *)
DealtWith ==
    \A s \in Saver : saver[s].pc = "written" =>
        \A h \in Stale(row[saver[s].of], saver[s].row) \ (saver[s].todo \cup saver[s].missed) :
            cache[h] = Absent \/ h \in refilled[s]

(* The lock of a row has one holder after every step.                       *)
LEMMA WritersStayApart ==
    ASSUME RowTypeOK, WritersApart, [RowNext]_rowVars
    PROVE  WritersApart'
<1>1. ASSUME NEW s \in Saver, NEW new, saver' = [saver EXCEPT ![s] = new],
             new.pc = "written" => new.of = saver[s].of /\ (saver[s].pc = "written" \/ ~RowLocked(new.of))
      PROVE  WritersApart'
  <2>1. saver'[s] = new /\ \A q \in Saver \ {s} : saver'[q] = saver[q]
    BY <1>1 DEF RowTypeOK
  <2>2. \A q \in Saver \ {s} : saver[q].pc = "written" /\ new.pc = "written" => saver[q].of # new.of
    BY <1>1 DEF RowLocked, WritersApart
  <2> QED
    BY <2>1, <2>2 DEF WritersApart
<1>2. ASSUME NEW s \in Saver, NEW w \in Tenant, PatchRead(s, w)
      PROVE  WritersApart'
  BY <1>1, <1>2 DEF PatchRead
<1>3. ASSUME NEW s \in Saver, PatchLook(s)
      PROVE  WritersApart'
  BY <1>1, <1>3 DEF PatchLook
<1>4. ASSUME NEW s \in Saver, PatchWrite(s)
      PROVE  WritersApart'
  <2>1. PICK new : /\ saver' = [saver EXCEPT ![s] = new]
                   /\ new.of = saver[s].of /\ ~RowLocked(saver[s].of)
    BY <1>4 DEF PatchWrite
  <2> QED
    BY <1>1, <2>1
<1>5. ASSUME NEW s \in Saver, PatchFails(s) \/ PatchCommit(s)
      PROVE  WritersApart'
  BY <1>1, <1>5 DEF PatchFails, PatchCommit, Resting
<1>6. ASSUME NEW s \in Saver, NEW h \in Host, Invalidate(s, h)
      PROVE  WritersApart'
  <2>1. saver[s] \in Writing
    BY <1>6 DEF Invalidate, Resting, RowTypeOK, Writing
  <2> DEFINE rec == [saver[s] EXCEPT !.todo = saver[s].todo \ {h}]
  <2>2. rec.pc = "written" /\ rec.of = saver[s].of /\ saver[s].pc = "written"
    BY <2>1 DEF Writing
  <2>3. saver' = [saver EXCEPT ![s] = rec]
    BY <1>6 DEF Invalidate
  <2> HIDE DEF rec
  <2> QED
    BY <1>1, <2>2, <2>3
<1>7. CASE UNCHANGED saver
  BY <1>7 DEF WritersApart
<1> QED
  BY <1>2, <1>3, <1>4, <1>5, <1>6, <1>7
  DEF RowNext, rowVars, Reserve, Refund, ReadTable, FillCache, EntryExpires

(* A change of a row that no PATCH has locked leaves what was dealt with.   *)
LEMMA OtherRow ==
    ASSUME RowTypeOK, DealtWith, NEW w \in Tenant, ~RowLocked(w), NEW r,
           row' = [row EXCEPT ![w] = r], UNCHANGED <<saver, cache, refilled>>
    PROVE  DealtWith'
<1>1. ASSUME NEW s \in Saver, saver[s].pc = "written"
      PROVE  row'[saver[s].of] = row[saver[s].of]
  <2>1. saver[s] \in Writing /\ saver[s].of # w
    BY <1>1 DEF RowTypeOK, Resting, RowLocked, Writing
  <2> QED
    BY <2>1 DEF RowTypeOK, Writing
<1> QED
  BY <1>1 DEF DealtWith

(* Every step leaves what a PATCH has dealt with out of the cache, or known *)
(* to be cached again.                                                      *)
LEMMA DealingKeeps ==
    ASSUME RowTypeOK, WritersApart, DealtWith, [RowNext]_rowVars
    PROVE  DealtWith'
<1>1. ASSUME NEW s \in Saver, NEW new, saver' = [saver EXCEPT ![s] = new],
             row' = row, cache' = cache,
             refilled' = refilled \/ refilled' = [refilled EXCEPT ![s] = {}],
             new.pc = "written" =>
                Stale(row[new.of], new.row) \subseteq new.todo \cup new.missed
      PROVE  DealtWith'
  <2>1. saver'[s] = new /\ \A q \in Saver \ {s} : saver'[q] = saver[q] /\ refilled'[q] = refilled[q]
    BY <1>1 DEF RowTypeOK
  <2>2. ASSUME NEW q \in Saver, saver'[q].pc = "written",
               NEW h \in Stale(row'[saver'[q].of], saver'[q].row)
                           \ (saver'[q].todo \cup saver'[q].missed)
        PROVE  cache'[h] = Absent \/ h \in refilled'[q]
    <3>1. CASE q = s
      BY <1>1, <2>1, <2>2, <3>1
    <3>2. CASE q # s
      BY <1>1, <2>1, <2>2, <3>2 DEF DealtWith
    <3> QED
      BY <3>1, <3>2
  <2> QED
    BY <2>2 DEF DealtWith
<1>2. ASSUME NEW s \in Saver, NEW w \in Tenant, PatchRead(s, w)
      PROVE  DealtWith'
  BY <1>1, <1>2 DEF PatchRead
<1>3. ASSUME NEW s \in Saver, PatchLook(s)
      PROVE  DealtWith'
  BY <1>1, <1>3 DEF PatchLook
<1>4. ASSUME NEW s \in Saver, PatchWrite(s)
      PROVE  DealtWith'
  <2>1. PICK new : saver' = [saver EXCEPT ![s] =
                     [pc |-> "written", of |-> saver[s].of, row |-> new,
                      todo |-> Stale(saver[s].old, new),
                      missed |-> IF saver[s].old = Seen(row[saver[s].of]) THEN {}
                                 ELSE {row[saver[s].of].host, new.host}
                                         \ (Stale(saver[s].old, new) \cup {Nobody})]]
    <3>1. PICK h, gone :
            LET r == [host |-> h, gone |-> gone, used |-> saver[s].used]
            IN  saver' = [saver EXCEPT ![s] =
                     [pc |-> "written", of |-> saver[s].of, row |-> r,
                      todo |-> Stale(saver[s].old, r),
                      missed |-> IF saver[s].old = Seen(row[saver[s].of]) THEN {}
                                 ELSE {row[saver[s].of].host, h}
                                         \ (Stale(saver[s].old, r) \cup {Nobody})]]
      BY <1>4 DEF PatchWrite
    <3> WITNESS [host |-> h, gone |-> gone, used |-> saver[s].used]
    <3> QED
      BY <3>1
  <2> DEFINE rec == [pc |-> "written", of |-> saver[s].of, row |-> new,
                     todo |-> Stale(saver[s].old, new),
                     missed |-> IF saver[s].old = Seen(row[saver[s].of]) THEN {}
                                ELSE {row[saver[s].of].host, new.host}
                                        \ (Stale(saver[s].old, new) \cup {Nobody})]
  <2>2. Stale(row[rec.of], rec.row) \subseteq rec.todo \cup rec.missed
    <3>1. \A r : Stale(Seen(r), new) = Stale(r, new)
      BY DEF Stale, Seen
    <3>2. \A r : Stale(r, new) \subseteq {r.host, new.host} \ {Nobody}
      BY DEF Stale
    <3> QED
      BY <3>1, <3>2
  <2>3. saver' = [saver EXCEPT ![s] = rec]
    BY <2>1
  <2>4. row' = row /\ cache' = cache /\ refilled' = refilled
    BY <1>4 DEF PatchWrite
  <2> HIDE DEF rec
  <2> QED
    BY <1>1, <2>2, <2>3, <2>4
<1>5. ASSUME NEW s \in Saver, PatchFails(s)
      PROVE  DealtWith'
  BY <1>1, <1>5 DEF PatchFails, Resting
<1>6. ASSUME NEW s \in Saver, PatchCommit(s)
      PROVE  DealtWith'
  <2>1. /\ saver' = [saver EXCEPT ![s] = Resting] /\ cache' = cache
        /\ refilled' = [refilled EXCEPT ![s] = {}] /\ saver[s].pc = "written"
        /\ row' = [row EXCEPT ![saver[s].of] = saver[s].row]
    BY <1>6 DEF PatchCommit
  <2>2. saver'[s] = Resting /\ \A q \in Saver \ {s} : saver'[q] = saver[q] /\ refilled'[q] = refilled[q]
    BY <2>1 DEF RowTypeOK
  <2>3. ASSUME NEW q \in Saver \ {s}, saver[q].pc = "written"
        PROVE  row'[saver[q].of] = row[saver[q].of]
    <3>1. saver[q] \in Writing /\ saver[q].of # saver[s].of
      BY <2>1, <2>3 DEF RowTypeOK, Resting, WritersApart, Writing
    <3> QED
      BY <2>1, <3>1 DEF RowTypeOK, Writing
  <2>4. Resting.pc # "written"
    BY DEF Resting
  <2> QED
    BY <2>1, <2>2, <2>3, <2>4 DEF DealtWith
<1>7. ASSUME NEW s \in Saver, NEW h \in Host, Invalidate(s, h)
      PROVE  DealtWith'
  <2>1. /\ saver[s].pc = "written" /\ refilled' = refilled /\ row' = row
        /\ cache' = [cache EXCEPT ![h] = Absent]
        /\ saver' = [saver EXCEPT ![s] = [saver[s] EXCEPT !.todo = saver[s].todo \ {h}]]
    BY <1>7 DEF Invalidate
  <2>2. saver[s] \in Writing
    BY <2>1 DEF RowTypeOK, Resting, Writing
  <2>3. \A q \in Saver : /\ saver'[q].pc = saver[q].pc
                         /\ saver[q].pc = "written" => /\ saver'[q].of = saver[q].of
                                                       /\ saver'[q].row = saver[q].row
                                                       /\ saver'[q].missed = saver[q].missed
                                                       /\ saver[q].todo \ {h} \subseteq saver'[q].todo
    BY <2>1, <2>2 DEF RowTypeOK, Writing
  <2>4. \A g : g = h \/ cache[g] = Absent => cache'[g] = Absent \/ g \notin Host
    BY <2>1 DEF RowTypeOK
  <2>5. \A q \in Saver : saver[q].pc = "written" => Stale(row[saver[q].of], saver[q].row) \subseteq Host
    BY DEF RowTypeOK, Resting, Stale, Rows
  <2> QED
    BY <2>1, <2>3, <2>4, <2>5 DEF DealtWith
<1>8. ASSUME NEW q \in Lookup, FillCache(q)
      PROVE  DealtWith'
  <2> DEFINE h == lookup[q].host
  <2>1. /\ h \in Host /\ saver' = saver /\ row' = row
        /\ cache' = [cache EXCEPT ![h] = lookup[q].answer]
        /\ \A s \in Saver : refilled'[s] = IF saver[s].pc = "written" /\ h \notin saver[s].todo
                                           THEN refilled[s] \cup {h} ELSE refilled[s]
    BY <1>8 DEF FillCache, RowTypeOK
  <2> HIDE DEF h
  <2>2. \A g : g # h => cache'[g] = cache[g] \/ g \notin Host
    BY <2>1 DEF RowTypeOK
  <2>3. \A s \in Saver : saver[s].pc = "written" => Stale(row[saver[s].of], saver[s].row) \subseteq Host
    BY DEF RowTypeOK, Resting, Stale, Rows
  <2>4. ASSUME NEW s \in Saver, saver[s].pc = "written",
               NEW g \in Stale(row[saver[s].of], saver[s].row)
                           \ (saver[s].todo \cup saver[s].missed)
        PROVE  cache'[g] = Absent \/ g \in refilled'[s]
    <3>1. g \in Host /\ (cache[g] = Absent \/ g \in refilled[s])
      BY <2>3, <2>4 DEF DealtWith
    <3>2. refilled[s] \subseteq refilled'[s] /\ (g = h => h \in refilled'[s])
      BY <2>1, <2>4
    <3> QED
      BY <2>2, <3>1, <3>2
  <2>5. saver' = saver /\ row' = row
    BY <2>1
  <2> QED
    BY <2>4, <2>5 DEF DealtWith
<1>9. ASSUME NEW h \in Host, EntryExpires(h)
      PROVE  DealtWith'
  BY <1>9 DEF EntryExpires, DealtWith, RowTypeOK
<1>10. ASSUME NEW w \in Tenant, Reserve(w) \/ Refund(w)
       PROVE  DealtWith'
  <2>1. PICK r : row' = [row EXCEPT ![w] = r]
    BY <1>10 DEF Reserve, Refund
  <2> QED
    BY <1>10, <2>1, OtherRow DEF Reserve, Refund
<1>11. CASE UNCHANGED <<row, saver, cache, refilled>>
  BY <1>11 DEF DealtWith
<1> QED
  BY <1>2, <1>3, <1>4, <1>5, <1>6, <1>7, <1>8, <1>9, <1>10, <1>11
  DEF RowNext, rowVars, ReadTable

(* A wrong entry of the cache raced the change that made it wrong; what was *)
(* cached before a save came to its host does not survive the save: for any *)
(* number of workspaces, hosts, PATCHes and lookups.                        *)
THEOREM CacheStaysFresh == RowSpec => []CacheFresh
<1>1. RowInit => CacheFresh /\ WritersApart /\ DealtWith
  BY DEF RowInit, CacheFresh, WritersApart, DealtWith, Resting
<1>2. RowTypeOK /\ CacheFresh /\ WritersApart /\ DealtWith /\ [RowNext]_rowVars
        => CacheFresh' /\ WritersApart' /\ DealtWith'
  <2> SUFFICES ASSUME RowTypeOK, CacheFresh, WritersApart, DealtWith, [RowNext]_rowVars
               PROVE  CacheFresh'
    BY DealingKeeps, WritersStayApart
  <2>1. ASSUME NEW w \in Tenant, Reserve(w) \/ Refund(w)
        PROVE  CacheFresh'
    <3>1. PICK u : row' = [row EXCEPT ![w] = [row[w] EXCEPT !.used = u]]
      BY <2>1 DEF Reserve, Refund
    <3>2. \A h \in Host : OwnerIn(row, h) = OwnerIn(row', h)
      <4> SUFFICES ASSUME NEW h \in Host
                   PROVE  OwnerIn(row, h) = OwnerIn(row', h)
        OBVIOUS
      <4>1. \A v \in Tenant : row'[v].host = row[v].host /\ row'[v].gone = row[v].gone
        BY <3>1 DEF RowTypeOK, Rows
      <4> QED
        BY <4>1, SameOwner
    <3> QED
      BY <2>1, <3>2 DEF Reserve, Refund, CacheFresh
  <2>2. ASSUME NEW s \in Saver, NEW h \in Host, Invalidate(s, h)
        PROVE  CacheFresh'
    BY <2>2 DEF Invalidate, CacheFresh, RowTypeOK
  <2>3. ASSUME NEW s \in Saver, PatchCommit(s)
        PROVE  CacheFresh'
    <3>1. saver[s] \in Writing
      BY <2>3 DEF PatchCommit, Resting, RowTypeOK, Writing
    <3> DEFINE w == saver[s].of
               new == saver[s].row
               missed == saver[s].missed
    <3>2. w \in Tenant /\ new \in Rows
      BY <3>1 DEF Writing
    <3>3. /\ saver[s].pc = "written" /\ saver[s].todo = {}
          /\ row' = [row EXCEPT ![w] = new] /\ cache' = cache
          /\ late' = {h \in late \cup refilled[s] \cup missed :
                         cache[h] \notin {Absent, OwnerIn(row', h)}}
      BY <2>3 DEF PatchCommit
    <3> SUFFICES ASSUME NEW h \in Host, cache[h] \notin {Absent, OwnerIn(row', h)}
                 PROVE  h \in late \cup refilled[s] \cup missed
      BY <3>3 DEF CacheFresh
    <3>4. CASE OwnerIn(row', h) = OwnerIn(row, h)
      BY <3>4 DEF CacheFresh
    <3>5. CASE OwnerIn(row', h) # OwnerIn(row, h)
      <4>1. /\ h \in {row[w].host, new.host}
            /\ row[w].host # new.host \/ row[w].gone # new.gone
        <5>1. OwnerIn([row EXCEPT ![w] = new], h) # OwnerIn(row, h)
          BY <3>3, <3>5
        <5> HIDE DEF w, new, missed
        <5> QED
          BY <3>2, <5>1, OwnerMoves
      <4>2. h \in Stale(row[w], new)
        BY <4>1, RowAssumption DEF Stale
      <4> QED
        BY <3>3, <4>2 DEF DealtWith
    <3> QED
      BY <3>4, <3>5
  <2>4. ASSUME NEW q \in Lookup, FillCache(q)
        PROVE  CacheFresh'
    <3>1. lookup[q].host \in Host
      BY <2>4 DEF FillCache, RowTypeOK
    <3> QED
      BY <2>4, <3>1 DEF FillCache, CacheFresh, RowTypeOK
  <2>5. ASSUME NEW h \in Host, EntryExpires(h)
        PROVE  CacheFresh'
    BY <2>5 DEF EntryExpires, CacheFresh, RowTypeOK
  <2>6. CASE UNCHANGED <<row, cache, late>>
    BY <2>6 DEF CacheFresh
  <2> QED
    BY <2>1, <2>2, <2>3, <2>4, <2>5, <2>6
    DEF RowNext, rowVars, PatchRead, PatchLook, PatchWrite, PatchFails, ReadTable
<1> QED
  BY <1>1, <1>2, RowTyped, PTL DEF RowSpec
-----------------------------------------------------------------------------
(* The rate limiter.                                                        *)

(* A hit still younger than the shortened window is in the set, at a score  *)
(* that is not behind its time, and the key outlives it by the difference   *)
(* of the clocks.                                                           *)
HitsPast == \A k \in 1..Len(admitted) : admitted[k] <= clock
KeyLives == \A k \in 1..Len(admitted) : keyTtl >= Window - (clock - admitted[k])
HitsKept ==
    \A k \in 1..Len(admitted) :
        clock - admitted[k] < Window - MaxSkew =>
            \E h \in zset : h[2] = k - 1 /\ h[1] >= admitted[k]

WindowInv ==
    /\ WindowTypeOK /\ IsFiniteSet(zset)
    /\ HitsPast /\ KeyLives /\ HitsKept
    /\ WindowHolds

(* There is a greatest difference of the clocks, less than a window.        *)
LEMMA SkewBound == MaxSkew \in 0..(Window - 1) /\ \A r \in Replica : Skew[r] <= MaxSkew
<1> DEFINE short == {Window - Skew[r] : r \in Replica}
<1>1. short \subseteq Nat /\ short # {}
  BY WindowAssumption
<1>2. PICK m \in short : \A n \in short : m <= n
  <2> HIDE DEF short
  <2> QED
    BY <1>1, LeastNumber
<1>3. PICK q \in Replica : \A r \in Replica : Window - Skew[q] <= Window - Skew[r]
  BY <1>2
<1>4. \A r \in Replica : Skew[r] \in 0..(Window - 1) /\ Skew[r] <= Skew[q]
  BY <1>3, WindowAssumption
<1>5. \E s \in 0..Window : (\A r \in Replica : Skew[r] <= s) /\ (\E r \in Replica : Skew[r] = s)
  BY <1>4, WindowAssumption
<1>6. (\A r \in Replica : Skew[r] <= MaxSkew) /\ (\E r \in Replica : Skew[r] = MaxSkew)
  BY <1>5 DEF MaxSkew
<1> QED
  BY <1>4, <1>6

(* Hits that are each in the set, by their number, are not more than it.    *)
LEMMA HitsCount ==
    ASSUME NEW Z, IsFiniteSet(Z), NEW K, K \subseteq Int,
           \A k \in K : \E h \in Z : h[2] = k - 1
    PROVE  IsFiniteSet(K) /\ Cardinality(K) <= Cardinality(Z)
<1> DEFINE f == [k \in K |-> CHOOSE h \in Z : h[2] = k - 1]
<1>1. f \in [K -> Z] /\ \A k \in K : f[k][2] = k - 1
  OBVIOUS
<1>2. \A i, k \in K : f[i] = f[k] => i = k
  <2> SUFFICES ASSUME NEW i \in K, NEW k \in K, f[i] = f[k]
               PROVE  i = k
    OBVIOUS
  <2>1. i - 1 = k - 1
    BY <1>1
  <2> QED
    BY <2>1
<1> HIDE DEF f
<1>3. f \in Injection(K, Z)
  BY <1>1, <1>2 DEF Injection, IsInjective
<1> QED
  BY <1>3, FS_Injection, Zenon

(* The hits a window that ends at t has admitted.                           *)
InWindow(t) == {k \in 1..Len(admitted) : t - (Window - MaxSkew) < admitted[k] /\ admitted[k] <= t}

(* WindowHolds in these words.                                              *)
LEMMA WindowMeans ==
    ASSUME WindowTypeOK
    PROVE  /\ DOMAIN admitted = 1..Len(admitted) /\ Len(admitted) \in Nat
           /\ \A k \in 1..Len(admitted) : admitted[k] \in 0..MaxTime
           /\ WindowHolds <=> \A i \in 1..Len(admitted) : Cardinality(InWindow(admitted[i])) <= Rate
<1>1. DOMAIN admitted = 1..Len(admitted) /\ Len(admitted) \in Nat
      /\ \A k \in 1..Len(admitted) : admitted[k] \in 0..MaxTime
  <2>1. admitted \in Seq(0..MaxTime)
    BY DEF WindowTypeOK
  <2>2. DOMAIN admitted = 1..Len(admitted) /\ Len(admitted) \in Nat
    BY <2>1, LenProperties
  <2>3. \A k \in 1..Len(admitted) : admitted[k] \in 0..MaxTime
    BY <2>1, ElementOfSeq
  <2> QED
    BY <2>2, <2>3
<1>2. ASSUME NEW i \in 1..Len(admitted)
      PROVE  {k \in DOMAIN admitted :
                admitted[k] \in (admitted[i] - (Window - MaxSkew) + 1)..admitted[i]}
             = InWindow(admitted[i])
  BY <1>1, SkewBound, WindowAssumption DEF InWindow
<1> QED
  BY <1>1, <1>2 DEF WindowHolds

(* Before the first hit.                                                    *)
LEMMA WindowStarts == WindowInit => WindowInv
<1> SUFFICES ASSUME WindowInit
             PROVE  WindowInv
  OBVIOUS
<1>1. clock = 0 /\ zset = {} /\ keyTtl = 0 /\ admitted = <<>> /\ Len(admitted) = 0
  BY DEF WindowInit
<1>2. WindowTypeOK
  BY <1>1, WindowAssumption DEF WindowTypeOK
<1>3. WindowHolds
  BY <1>1, <1>2, WindowMeans
<1>4. IsFiniteSet(zset)
  BY <1>1, FS_EmptySet
<1> QED
  BY <1>1, <1>2, <1>3, <1>4 DEF WindowInv, HitsPast, KeyLives, HitsKept

(* What trimming at a replica's time leaves is enough of the set.           *)
LEMMA TrimKeeps ==
    ASSUME WindowInv, NEW r \in Replica
    PROVE  LET used == Trimmed(clock + Skew[r])
           IN  /\ used \subseteq zset /\ IsFiniteSet(used) /\ Cardinality(used) \in Nat
               /\ \A k \in 1..Len(admitted) :
                    clock - admitted[k] < Window - MaxSkew =>
                        \E h \in used : h[2] = k - 1 /\ h[1] >= admitted[k]
<1> DEFINE used == Trimmed(clock + Skew[r])
<1>1. used \subseteq zset
  BY DEF Trimmed
<1>2. IsFiniteSet(used) /\ Cardinality(used) \in Nat
  <2> HIDE DEF used
  <2> QED
    BY <1>1, FS_Subset, FS_CardinalityType DEF WindowInv
<1>3. ASSUME NEW k \in 1..Len(admitted), clock - admitted[k] < Window - MaxSkew
      PROVE  \E h \in used : h[2] = k - 1 /\ h[1] >= admitted[k]
  <2>1. PICK h \in zset : h[2] = k - 1 /\ h[1] >= admitted[k]
    BY <1>3 DEF WindowInv, HitsKept
  <2>2. h[1] \in Int /\ admitted[k] \in Int /\ clock \in Int
    BY WindowMeans DEF WindowInv, WindowTypeOK
  <2>3. Skew[r] \in Int /\ Skew[r] <= MaxSkew /\ MaxSkew \in Int /\ Window \in Int
    BY SkewBound, WindowAssumption
  <2>4. h[1] > clock + Skew[r] - Window
    BY <1>3, <2>1, <2>2, <2>3
  <2>5. h \in used
    BY <2>2, <2>3, <2>4 DEF Trimmed
  <2> QED
    BY <2>1, <2>5
<1> QED
  BY <1>1, <1>2, <1>3

(* A request let in keeps the bound for every window.                       *)
LEMMA HitBounded ==
    ASSUME WindowInv, NEW r \in Replica, Hit(r)
    PROVE  WindowInv'
<1> DEFINE now == clock + Skew[r]
           used == Trimmed(now)
           n == Len(admitted)
<1>1. /\ Cardinality(used) < Rate /\ zset' = used \cup {<<now, n>>}
      /\ keyTtl' = Window /\ admitted' = Append(admitted, clock) /\ clock' = clock
  BY DEF Hit
<1>2. /\ used \subseteq zset /\ IsFiniteSet(used) /\ Cardinality(used) \in Nat
      /\ \A k \in 1..n :
           clock - admitted[k] < Window - MaxSkew =>
               \E h \in used : h[2] = k - 1 /\ h[1] >= admitted[k]
  BY TrimKeeps
<1>3. /\ WindowTypeOK /\ n \in Nat /\ clock \in 0..MaxTime
      /\ \A k \in 1..n : admitted[k] \in 0..MaxTime /\ admitted[k] <= clock
  BY WindowMeans DEF WindowInv, WindowTypeOK, HitsPast
<1>4. /\ MaxSkew \in 0..(Window - 1) /\ Skew[r] \in 0..(Window - 1) /\ Skew[r] <= MaxSkew
      /\ Window \in Nat \ {0} /\ Rate \in Nat \ {0} /\ MaxTime \in Nat
  BY SkewBound, WindowAssumption
<1>5. now \in 0..(MaxTime + Window) /\ now >= clock
  BY <1>3, <1>4
<1> HIDE DEF now, used
<1>6. /\ admitted' \in Seq(0..MaxTime) /\ Len(admitted') = n + 1
      /\ \A k \in 1..n : admitted'[k] = admitted[k]
      /\ admitted'[n + 1] = clock
  BY <1>1, <1>3 DEF WindowTypeOK
<1>7. WindowTypeOK'
  <2>1. zset \subseteq (0..(MaxTime + Window)) \X Nat
    BY <1>3 DEF WindowTypeOK
  <2>2. zset' \subseteq (0..(MaxTime + Window)) \X Nat
    <3>1. <<now, n>> \in (0..(MaxTime + Window)) \X Nat
      BY <1>3, <1>5
    <3> QED
      BY <1>1, <1>2, <2>1, <3>1
  <2>3. keyTtl' \in 0..Window /\ clock' \in 0..MaxTime
    BY <1>1, <1>3, <1>4
  <2> QED
    BY <1>6, <2>2, <2>3 DEF WindowTypeOK
<1>8. IsFiniteSet(zset')
  BY <1>1, <1>2, FS_AddElement
<1>9. HitsPast'
  BY <1>1, <1>3, <1>6 DEF HitsPast
<1>10. KeyLives'
  <2>1. ASSUME NEW k \in 1..(n + 1)
        PROVE  keyTtl' >= Window - (clock' - admitted'[k])
    BY <1>1, <1>3, <1>4, <1>6
  <2> QED
    BY <1>6, <2>1 DEF KeyLives
<1>11. HitsKept'
  <2>1. ASSUME NEW k \in 1..(n + 1), clock' - admitted'[k] < Window - MaxSkew
        PROVE  \E h \in zset' : h[2] = k - 1 /\ h[1] >= admitted'[k]
    <3>1. CASE k = n + 1
      <4>1. <<now, n>> \in zset' /\ <<now, n>>[2] = k - 1 /\ <<now, n>>[1] >= admitted'[k]
        BY <1>1, <1>3, <1>5, <1>6, <3>1
      <4> QED
        BY <4>1
    <3>2. CASE k \in 1..n
      BY <1>1, <1>2, <1>6, <2>1, <3>2
    <3> QED
      BY <1>3, <3>1, <3>2
  <2> QED
    BY <1>6, <2>1 DEF HitsKept
<1>12. WindowHolds'
  <2> DEFINE Before(t) == {k \in 1..n : t - (Window - MaxSkew) < admitted[k] /\ admitted[k] <= t}
             Now(t) == {k \in 1..(n + 1) :
                          t - (Window - MaxSkew) < admitted'[k] /\ admitted'[k] <= t}
  <2>1. \A i \in 1..n : Cardinality(Before(admitted[i])) <= Rate
    BY <1>3, WindowMeans DEF WindowInv, InWindow
  <2>2. ASSUME NEW t \in 0..MaxTime, t < clock
        PROVE  Now(t) = Before(t)
    <3>1. \A k \in 1..(n + 1) : k \in Now(t) => k \in Before(t)
      BY <1>3, <1>6, <2>2
    <3>2. \A k \in 1..n : k \in Before(t) => k \in Now(t)
      BY <1>3, <1>6
    <3> QED
      BY <3>1, <3>2
  <2>3. Cardinality(Now(clock)) <= Rate
    <3>1. Now(clock) = Before(clock) \cup {n + 1}
      <4>1. n + 1 \in Now(clock)
        BY <1>3, <1>4, <1>6
      <4>2. \A k \in 1..n : k \in Now(clock) <=> k \in Before(clock)
        BY <1>3, <1>6
      <4>3. \A k \in Now(clock) : k \in 1..n \/ k = n + 1
        BY <1>3
      <4>4. Before(clock) \subseteq 1..n
        OBVIOUS
      <4> HIDE DEF Now, Before
      <4> QED
        BY <4>1, <4>2, <4>3, <4>4
    <3>2. \A k \in Before(clock) : \E h \in used : h[2] = k - 1
      <4> SUFFICES ASSUME NEW k \in Before(clock)
                   PROVE  \E h \in used : h[2] = k - 1
        OBVIOUS
      <4>1. k \in 1..n /\ clock - admitted[k] < Window - MaxSkew
        BY <1>3, <1>4
      <4> QED
        BY <1>2, <4>1
    <3>3. Before(clock) \subseteq Int /\ n + 1 \notin Before(clock)
      BY <1>3
    <3> HIDE DEF Now, Before
    <3>4. IsFiniteSet(Before(clock)) /\ Cardinality(Before(clock)) <= Cardinality(used)
      BY <1>2, <3>2, <3>3, HitsCount
    <3>5. Cardinality(Before(clock)) \in Nat
          /\ Cardinality(Before(clock) \cup {n + 1}) = Cardinality(Before(clock)) + 1
      BY <3>3, <3>4, FS_AddElement, FS_CardinalityType
    <3> QED
      BY <1>1, <1>2, <1>4, <3>1, <3>4, <3>5
  <2>4. ASSUME NEW i \in 1..(n + 1)
        PROVE  Cardinality(Now(admitted'[i])) <= Rate
    <3> HIDE DEF Now, Before
    <3>1. CASE admitted'[i] = clock
      BY <2>3, <3>1
    <3>2. CASE admitted'[i] # clock
      <4>1. i \in 1..n /\ admitted'[i] = admitted[i]
        BY <1>3, <1>6, <3>2
      <4>2. admitted[i] \in 0..MaxTime /\ admitted[i] < clock
        BY <1>3, <3>2, <4>1
      <4> QED
        BY <2>1, <2>2, <4>1, <4>2
    <3> QED
      BY <3>1, <3>2
  <2>5. ASSUME NEW i \in 1..(n + 1)
        PROVE  {k \in DOMAIN admitted' :
                  admitted'[k] \in (admitted'[i] - (Window - MaxSkew) + 1)..admitted'[i]}
               = Now(admitted'[i])
    <3>1. \A k \in 1..(n + 1) : admitted'[k] \in 0..MaxTime
      BY <1>3, <1>6
    <3>2. DOMAIN admitted' = 1..(n + 1)
      BY <1>6
    <3> QED
      BY <1>4, <3>1, <3>2
  <2>6. DOMAIN admitted' = 1..(n + 1)
    BY <1>6
  <2> HIDE DEF Now, Before
  <2> QED
    BY <2>4, <2>5, <2>6 DEF WindowHolds
<1> QED
  BY <1>7, <1>8, <1>9, <1>10, <1>11, <1>12 DEF WindowInv

(* A refusal and the passing of time do too.                                *)
LEMMA WindowKeeps == WindowInv /\ [WindowNext]_windowVars => WindowInv'
<1> SUFFICES ASSUME WindowInv, [WindowNext]_windowVars
             PROVE  WindowInv'
  OBVIOUS
<1>0. /\ WindowTypeOK /\ Len(admitted) \in Nat /\ clock \in 0..MaxTime /\ keyTtl \in 0..Window
      /\ \A k \in 1..Len(admitted) : admitted[k] \in 0..MaxTime
  BY WindowMeans DEF WindowInv, WindowTypeOK
<1>1. ASSUME NEW r \in Replica, Hit(r)
      PROVE  WindowInv'
  BY <1>1, HitBounded
<1>2. ASSUME NEW r \in Replica, Refusal(r)
      PROVE  WindowInv'
  <2> DEFINE used == Trimmed(clock + Skew[r])
  <2>1. zset' = used /\ clock' = clock /\ keyTtl' = keyTtl /\ admitted' = admitted
    BY <1>2 DEF Refusal
  <2>2. /\ used \subseteq zset /\ IsFiniteSet(used)
        /\ \A k \in 1..Len(admitted) :
             clock - admitted[k] < Window - MaxSkew =>
                 \E h \in used : h[2] = k - 1 /\ h[1] >= admitted[k]
    BY TrimKeeps
  <2> HIDE DEF used
  <2>3. WindowTypeOK'
    BY <1>0, <2>1, <2>2 DEF WindowTypeOK
  <2>4. HitsKept'
    BY <2>1, <2>2 DEF HitsKept
  <2>5. HitsPast' /\ KeyLives' /\ WindowHolds'
    BY <2>1 DEF WindowInv, HitsPast, KeyLives, WindowHolds
  <2>6. IsFiniteSet(zset')
    BY <2>1, <2>2
  <2> QED
    BY <2>3, <2>4, <2>5, <2>6 DEF WindowInv
<1>3. CASE SecondPasses
  <2>1. /\ clock < MaxTime /\ clock' = clock + 1 /\ admitted' = admitted
        /\ keyTtl' = (IF keyTtl > 0 THEN keyTtl - 1 ELSE 0)
        /\ zset' = (IF keyTtl > 1 THEN zset ELSE {})
    BY <1>3 DEF SecondPasses
  <2>2. WindowTypeOK'
    BY <1>0, <2>1, WindowAssumption DEF WindowTypeOK
  <2>3. IsFiniteSet(zset')
    BY <2>1, FS_EmptySet DEF WindowInv
  <2>4. HitsPast'
    BY <1>0, <2>1 DEF WindowInv, HitsPast
  <2>5. KeyLives'
    BY <1>0, <2>1, WindowAssumption DEF WindowInv, KeyLives
  <2>6. HitsKept'
    <3> SUFFICES ASSUME NEW k \in 1..Len(admitted), clock' - admitted[k] < Window - MaxSkew
                 PROVE  \E h \in zset' : h[2] = k - 1 /\ h[1] >= admitted[k]
      BY <2>1 DEF HitsKept
    <3>1. keyTtl >= Window - (clock - admitted[k])
      BY DEF WindowInv, KeyLives
    <3>2. clock - admitted[k] < Window - MaxSkew /\ keyTtl > 1
      BY <1>0, <2>1, <3>1, SkewBound, WindowAssumption
    <3> QED
      BY <2>1, <3>2 DEF WindowInv, HitsKept
  <2>7. WindowHolds'
    BY <2>1 DEF WindowInv, WindowHolds
  <2> QED
    BY <2>2, <2>3, <2>4, <2>5, <2>6, <2>7 DEF WindowInv
<1>4. CASE UNCHANGED windowVars
  BY <1>4 DEF windowVars, WindowInv, WindowTypeOK, HitsPast, KeyLives, HitsKept, WindowHolds
<1> QED
  BY <1>1, <1>2, <1>3, <1>4 DEF WindowNext

(* The invariant.                                                           *)
THEOREM WindowInvariant == WindowSpec => []WindowInv
BY WindowStarts, WindowKeeps, PTL DEF WindowSpec

(* WindowHolds, for any number of replicas, any differences of their clocks *)
(* below a window, and any limit.                                           *)
THEOREM LimitHolds == WindowSpec => []WindowHolds
<1>1. WindowInv => WindowHolds
  BY DEF WindowInv
<1> QED
  BY <1>1, WindowInvariant, PTL
-----------------------------------------------------------------------------
(* Pages.                                                                   *)

(* The reader's order is one: no key precedes itself, and of two rows of    *)
(* the table one precedes the other.                                        *)
LEMMA StrictOrder ==
    ASSUME order \in Order
    PROVE  /\ \A a \in RowKeys : ~Precedes(a, a)
           /\ \A a, b, c \in RowKeys : (Precedes(a, b) /\ Precedes(b, c)) => Precedes(a, c)
           /\ \A a, b \in RowKeys :
                a[2] # b[2] => (Precedes(a, b) \/ Precedes(b, a))
<1>1. \A a \in RowKeys : a[1] \in Int /\ a[2] \in Int
  BY PageAssumption DEF RowKeys
<1>2. CASE order = "newest"
  <2>1. \A a, b \in RowKeys :
           Precedes(a, b) <=> (a[1] > b[1] \/ (a[1] = b[1] /\ a[2] > b[2]))
    BY <1>2 DEF Precedes
  <2> QED
    BY <1>1, <2>1
<1>3. CASE order = "oldest"
  <2>1. \A a, b \in RowKeys :
           Precedes(a, b) <=> (a[1] < b[1] \/ (a[1] = b[1] /\ a[2] < b[2]))
    BY <1>3 DEF Precedes
  <2> QED
    BY <1>1, <2>1
<1>4. CASE order = "pk"
  <2>1. \A a, b \in RowKeys : Precedes(a, b) <=> a[2] < b[2]
    BY <1>4 DEF Precedes
  <2> QED
    BY <1>1, <2>1
<1> QED
  BY <1>2, <1>3, <1>4 DEF Order

(* So of two rows in a table where ids are unique.                          *)
LEMMA RowsCompare ==
    ASSUME order \in Order, NEW S \in SUBSET RowKeys, OnePerId(S)
    PROVE  \A a, b \in S : a = b \/ Precedes(a, b) \/ Precedes(b, a)
BY StrictOrder DEF OnePerId

(* The table is finite.                                                     *)
LEMMA TableFinite ==
    ASSUME NEW S \in SUBSET RowKeys
    PROVE  IsFiniteSet(S) /\ Cardinality(S) \in Nat
<1>1. IsFiniteSet(RowKeys)
  BY PageAssumption, FS_Product DEF RowKeys
<1> QED
  BY <1>1, FS_Subset, FS_CardinalityType

(* How many rows of S are read before this one.                             *)
Earlier(S, k) == {j \in S : Precedes(j, k)}
RowRank(S, k) == Cardinality(Earlier(S, k))

(* The rows of a set are numbered from zero by their ranks, in order.       *)
LEMMA RanksNumber ==
    ASSUME order \in Order, NEW S \in SUBSET RowKeys, OnePerId(S)
    PROVE  /\ \A k \in S : RowRank(S, k) \in 0..(Cardinality(S) - 1)
           /\ \A j, k \in S : Precedes(j, k) <=> RowRank(S, j) < RowRank(S, k)
           /\ \A n \in 0..(Cardinality(S) - 1) : \E k \in S : RowRank(S, k) = n
<1>1. IsFiniteSet(S) /\ Cardinality(S) \in Nat
  BY TableFinite
<1>2. \A k \in S : IsFiniteSet(Earlier(S, k)) /\ RowRank(S, k) \in Nat
  BY <1>1, FS_Subset, FS_CardinalityType DEF Earlier, RowRank
<1>3. ASSUME NEW k \in S
      PROVE  RowRank(S, k) <= Cardinality(S) - 1
  <2>1. Earlier(S, k) \subseteq S \ {k}
    BY StrictOrder DEF Earlier
  <2>2. IsFiniteSet(S \ {k}) /\ Cardinality(S \ {k}) = Cardinality(S) - 1
    BY <1>1, FS_RemoveElement
  <2> QED
    BY <2>1, <2>2, FS_Subset DEF RowRank
<1>4. ASSUME NEW j \in S, NEW k \in S, Precedes(j, k)
      PROVE  RowRank(S, j) < RowRank(S, k)
  <2>1. Earlier(S, j) \cup {j} \subseteq Earlier(S, k) /\ j \notin Earlier(S, j)
    BY <1>4, StrictOrder DEF Earlier
  <2>2. Cardinality(Earlier(S, j) \cup {j}) = RowRank(S, j) + 1
    BY <1>2, <2>1, FS_AddElement DEF RowRank
  <2>3. Cardinality(Earlier(S, j) \cup {j}) <= RowRank(S, k)
    BY <1>2, <2>1, FS_Subset DEF RowRank
  <2> QED
    BY <1>2, <2>2, <2>3
<1>5. ASSUME NEW j \in S, NEW k \in S, RowRank(S, j) < RowRank(S, k)
      PROVE  Precedes(j, k)
  <2>1. j # k
    BY <1>2, <1>5
  <2>2. ~Precedes(k, j)
    <3>1. Precedes(k, j) => RowRank(S, k) < RowRank(S, j)
      BY <1>4
    <3> QED
      BY <1>2, <1>5, <3>1
  <2> QED
    BY <2>1, <2>2, RowsCompare
<1>6. \A n \in 0..(Cardinality(S) - 1) : \E k \in S : RowRank(S, k) = n
  <2> DEFINE f == [k \in S |-> RowRank(S, k)]
             T == 0..(Cardinality(S) - 1)
  <2>1. f \in [S -> T]
    BY <1>1, <1>2, <1>3
  <2>2. \A j, k \in S : f[j] = f[k] => j = k
    <3> SUFFICES ASSUME NEW j \in S, NEW k \in S, RowRank(S, j) = RowRank(S, k)
                 PROVE  j = k
      OBVIOUS
    <3>1. ~(RowRank(S, j) < RowRank(S, k)) /\ ~(RowRank(S, k) < RowRank(S, j))
      BY <1>2
    <3>2. ~Precedes(j, k) /\ ~Precedes(k, j)
      BY <1>4, <3>1
    <3> QED
      BY <3>2, RowsCompare
  <2>3. IsFiniteSet(T) /\ Cardinality(T) = Cardinality(S)
    BY <1>1, FS_Interval
  <2>4. \A k \in S : f[k] = RowRank(S, k)
    OBVIOUS
  <2> HIDE DEF f, T
  <2>5. f \in Injection(S, T)
    BY <2>1, <2>2 DEF Injection, IsInjective
  <2>6. f \in Surjection(S, T)
    BY <2>3, <2>5, FS_Injection
  <2>7. \A n \in T : \E k \in S : f[k] = n
    BY <2>6 DEF Surjection
  <2> QED
    BY <2>4, <2>7 DEF T
<1> QED
  BY <1>1, <1>2, <1>3, <1>4, <1>5, <1>6

(* The list of a set has every row of it, in order.                         *)
LEMMA ListedSorts ==
    ASSUME order \in Order, NEW S \in SUBSET RowKeys, OnePerId(S)
    PROVE  /\ Listed(S) \in Seq(S) /\ Len(Listed(S)) = Cardinality(S)
           /\ \A i, j \in 1..Cardinality(S) : i < j => Precedes(Listed(S)[i], Listed(S)[j])
           /\ \A k \in S : \E i \in 1..Cardinality(S) : Listed(S)[i] = k
<1> DEFINE c == Cardinality(S)
           Sorted(s) == \A i, j \in 1..c : i < j => Precedes(s[i], s[j])
<1>1. c \in Nat /\ IsFiniteSet(S)
  BY TableFinite
<1>2. \E s \in [1..c -> S] : Sorted(s)
  <2> DEFINE s == [i \in 1..c |-> CHOOSE k \in S : RowRank(S, k) = i - 1]
  <2>1. \A i \in 1..c : s[i] \in S /\ RowRank(S, s[i]) = i - 1
    <3> SUFFICES ASSUME NEW i \in 1..c
                 PROVE  \E k \in S : RowRank(S, k) = i - 1
      OBVIOUS
    <3>1. i - 1 \in 0..(c - 1)
      BY <1>1
    <3> QED
      BY <3>1, RanksNumber
  <2>2. s \in [1..c -> S]
    BY <2>1
  <2> HIDE DEF s
  <2>3. ASSUME NEW i \in 1..c, NEW j \in 1..c, i < j
        PROVE  Precedes(s[i], s[j])
    <3>1. i - 1 < j - 1
      BY <1>1, <2>3
    <3> QED
      BY <2>1, <3>1, RanksNumber
  <2> QED
    BY <2>2, <2>3
<1>3. Listed(S) \in [1..c -> S] /\ Sorted(Listed(S))
  BY <1>2 DEF Listed
<1>4. PICK s : s = Listed(S)
  OBVIOUS
<1>5. s \in [1..c -> S] /\ Sorted(s)
  BY <1>3, <1>4
<1>6. s \in Seq(S) /\ Len(s) = c
  BY <1>1, <1>5
<1>7. \A k \in S : \E i \in 1..c : s[i] = k
  <2>1. \A i, j \in 1..c : s[i] = s[j] => i = j
    <3> SUFFICES ASSUME NEW i \in 1..c, NEW j \in 1..c, s[i] = s[j], i # j
                 PROVE  FALSE
      OBVIOUS
    <3>1. s[i] \in RowKeys /\ s[j] \in RowKeys
      BY <1>5
    <3>2. i < j \/ j < i
      BY <1>1
    <3> QED
      BY <1>5, <3>1, <3>2, StrictOrder
  <2>2. IsFiniteSet(1..c) /\ Cardinality(1..c) = c
    BY <1>1, FS_Interval
  <2>3. s \in Injection(1..c, S)
    BY <1>5, <2>1 DEF Injection, IsInjective
  <2>4. s \in Surjection(1..c, S)
    BY <1>1, <2>2, <2>3, FS_Injection
  <2> QED
    BY <2>4 DEF Surjection
<1> QED
  BY <1>4, <1>5, <1>6, <1>7

(* The first n rows are the start of the order, all if they are no more.    *)
LEMMA FirstIsStart ==
    ASSUME order \in Order, NEW S \in SUBSET RowKeys, OnePerId(S), NEW n \in Nat \ {0}
    PROVE  /\ First(S, n) \subseteq S /\ OnePerId(First(S, n))
           /\ \A k \in S \ First(S, n), f \in First(S, n) : Precedes(f, k)
           /\ First(S, n) = {} => S = {}
           /\ Cardinality(S) <= n => First(S, n) = S
<1>1. First(S, n) = {k \in S : RowRank(S, k) < n}
  BY DEF First, RowRank, Earlier
<1>2. Cardinality(S) \in Nat
  BY TableFinite
<1>3. \A k \in S : RowRank(S, k) \in 0..(Cardinality(S) - 1)
  BY RanksNumber
<1>4. ASSUME NEW k \in S \ First(S, n), NEW f \in First(S, n)
      PROVE  Precedes(f, k)
  <2>1. RowRank(S, f) < RowRank(S, k)
    BY <1>1, <1>2, <1>3
  <2> QED
    BY <1>1, <2>1, RanksNumber
<1>5. ASSUME S # {}
      PROVE  First(S, n) # {}
  <2>1. 0 \in 0..(Cardinality(S) - 1)
    BY <1>2, <1>3, <1>5
  <2>2. PICK k \in S : RowRank(S, k) = 0
    BY <2>1, RanksNumber
  <2> QED
    BY <1>1, <2>2
<1>6. Cardinality(S) <= n => First(S, n) = S
  BY <1>1, <1>2, <1>3
<1>7. First(S, n) \subseteq S /\ OnePerId(First(S, n))
  BY <1>1 DEF OnePerId
<1> QED
  BY <1>4, <1>5, <1>6, <1>7
-----------------------------------------------------------------------------
(* The keys given rise in the reader's order up to the cursor, and a row    *)
(* that was there all along is among them or still to come.                 *)
GivenRise == \A i, j \in 1..Len(given) : i < j => Precedes(given[i], given[j])
CursorIsLast == cursor = IF given = <<>> THEN Start ELSE given[Len(given)]
SteadyAhead ==
    \A k \in steady : \/ \E i \in 1..Len(given) : given[i] = k
                      \/ reading /\ (cursor = Start \/ Precedes(cursor, k))

PageInv ==
    /\ PageTypeOK /\ OnePerId(rows)
    /\ GivenRise /\ CursorIsLast /\ SteadyAhead

(* Before the first page.                                                   *)
LEMMA PagesStart == PageInit => PageInv
<1> SUFFICES ASSUME PageInit
             PROVE  PageInv
  OBVIOUS
<1>1. order \in Order /\ rows \in SUBSET RowKeys /\ OnePerId(rows) /\ cursor = Start
      /\ given = <<>> /\ steady = rows
  BY DEF PageInit
<1>2. reading = TRUE
  BY DEF PageInit
<1>3. given \in Seq(RowKeys) /\ Len(given) = 0
  BY <1>1
<1>4. PageTypeOK
  BY <1>1, <1>2, <1>3, Zenon DEF PageTypeOK
<1>5. GivenRise
  BY <1>3 DEF GivenRise
<1>6. CursorIsLast /\ SteadyAhead
  BY <1>1, <1>2 DEF CursorIsLast, SteadyAhead
<1> QED
  BY <1>1, <1>4, <1>5, <1>6 DEF PageInv

(* Start is not a key.                                                      *)
LEMMA StartIsNoKey == Start \notin RowKeys
BY DEF Start, RowKeys

(* A page goes on where the one before ended.                               *)
LEMMA ReadKeeps ==
    ASSUME PageInv, ReadPage
    PROVE  PageInv'
<1>0. /\ order \in Order /\ rows \in SUBSET RowKeys /\ steady \in SUBSET rows
      /\ cursor \in {Start} \cup RowKeys /\ given \in Seq(RowKeys) /\ OnePerId(rows)
  BY DEF PageInv, PageTypeOK
<1>1. PICK A, F, page : A = After /\ F = First(A, PageSize) /\ page = Listed(F)
  OBVIOUS
<1>2. /\ reading /\ given' = given \o page
      /\ cursor' = (IF page = <<>> THEN cursor ELSE page[Len(page)])
      /\ order' = order /\ rows' = rows /\ steady' = steady
  BY <1>1 DEF ReadPage
<1>3. reading' = (IF order = "pk" THEN page # <<>> ELSE Cardinality(A) > PageSize)
  BY <1>1 DEF ReadPage
<1>4. A \in SUBSET RowKeys /\ A \subseteq rows /\ OnePerId(A)
      /\ \A k \in rows : k \in A <=> (cursor = Start \/ Precedes(cursor, k))
  BY <1>0, <1>1 DEF After, OnePerId
<1>5. /\ F \subseteq A /\ OnePerId(F) /\ F \in SUBSET RowKeys
      /\ \A k \in A \ F, f \in F : Precedes(f, k)
      /\ F = {} => A = {}
      /\ Cardinality(A) <= PageSize => F = A
  BY <1>0, <1>1, <1>4, FirstIsStart, PageAssumption
<1>6. PICK c : c = Cardinality(F)
  OBVIOUS
<1>7. /\ c \in Nat /\ page \in Seq(F) /\ Len(page) = c
      /\ \A i, j \in 1..c : i < j => Precedes(page[i], page[j])
      /\ \A k \in F : \E i \in 1..c : page[i] = k
  <2>1. c \in Nat
    BY <1>5, <1>6, TableFinite
  <2>2. /\ page \in Seq(F) /\ Len(page) = c
        /\ \A i, j \in 1..c : i < j => Precedes(page[i], page[j])
        /\ \A k \in F : \E i \in 1..c : page[i] = k
    <3>1. /\ Listed(F) \in Seq(F) /\ Len(Listed(F)) = Cardinality(F)
          /\ \A i, j \in 1..Cardinality(F) : i < j => Precedes(Listed(F)[i], Listed(F)[j])
          /\ \A k \in F : \E i \in 1..Cardinality(F) : Listed(F)[i] = k
      BY <1>0, <1>5, ListedSorts
    <3> QED
      BY <1>1, <1>6, <3>1, Zenon
  <2> QED
    BY <2>1, <2>2
<1>8. PICK n : n = Len(given)
  OBVIOUS
<1>9. n \in Nat /\ \A i \in 1..n : given[i] \in RowKeys
  BY <1>0, <1>8, LenProperties, ElementOfSeq
<1>10. \A i \in 1..c : page[i] \in F
  BY <1>7, ElementOfSeq
<1>11. page \in Seq(RowKeys)
  BY <1>5, <1>7, SeqMonotonic
<1>12. /\ given' \in Seq(RowKeys) /\ Len(given') = n + c
       /\ \A i \in 1..(n + c) : given'[i] = IF i <= n THEN given[i] ELSE page[i - n]
  <2>1. PICK g : g = given \o page
    OBVIOUS
  <2>2. /\ g \in Seq(RowKeys) /\ Len(g) = Len(given) + Len(page)
        /\ \A i \in 1..(Len(given) + Len(page)) :
             g[i] = IF i <= Len(given) THEN given[i] ELSE page[i - Len(given)]
    BY <1>0, <1>11, <2>1, ConcatProperties, Zenon
  <2>3. given' = g
    BY <1>2, <2>1
  <2> QED
    BY <1>7, <1>8, <2>2, <2>3
<1>13. (page = <<>> <=> c = 0) /\ (given = <<>> <=> n = 0)
  BY <1>0, <1>7, <1>8, EmptySeq
<1>14. \A i \in 1..n, f \in F : Precedes(given[i], f)
  <2> SUFFICES ASSUME NEW i \in 1..n, NEW f \in F
               PROVE  Precedes(given[i], f)
    OBVIOUS
  <2>1. given # <<>> /\ cursor = given[n]
    BY <1>8, <1>9, <1>13 DEF PageInv, CursorIsLast
  <2>2. cursor # Start /\ n \in 1..n
    BY <1>9, <2>1, StartIsNoKey
  <2>3. Precedes(cursor, f)
    BY <1>4, <1>5, <2>2
  <2>4. CASE i = n
    BY <2>1, <2>3, <2>4
  <2>5. CASE i # n
    <3>1. i < n
      BY <1>9, <2>5
    <3>2. Precedes(given[i], given[n])
      BY <1>8, <2>2, <3>1 DEF PageInv, GivenRise
    <3>3. given[i] \in RowKeys /\ given[n] \in RowKeys /\ f \in RowKeys
      BY <1>5, <1>9, <2>2
    <3> QED
      BY <1>0, <2>1, <2>3, <3>2, <3>3, StrictOrder
  <2> QED
    BY <2>4, <2>5
<1>15. PageTypeOK'
  <2>1. cursor' \in {Start} \cup RowKeys
    <3>1. CASE page = <<>>
      BY <1>0, <1>2, <3>1
    <3>2. CASE page # <<>>
      <4>1. c \in 1..c
        BY <1>7, <1>13, <3>2
      <4> QED
        BY <1>2, <1>5, <1>7, <1>10, <3>2, <4>1
    <3> QED
      BY <3>1, <3>2
  <2>2. reading' \in BOOLEAN
    <3>1. CASE order = "pk"
      BY <1>3, <3>1, Zenon
    <3>2. CASE order # "pk"
      <4>1. reading' = (Cardinality(A) > PageSize)
        BY <1>3, <3>2, Zenon
      <4> QED
        BY <4>1
    <3> QED
      BY <3>1, <3>2
  <2> QED
    BY <1>0, <1>2, <1>12, <2>1, <2>2 DEF PageTypeOK
<1>16. OnePerId(rows)'
  BY <1>0, <1>2 DEF OnePerId
<1>17. ASSUME NEW i \in 1..(n + c), NEW j \in 1..(n + c), i < j
       PROVE  Precedes(given'[i], given'[j])
  <2>1. CASE j <= n
    <3>1. given'[i] = given[i] /\ given'[j] = given[j] /\ i \in 1..n /\ j \in 1..n
      BY <1>7, <1>9, <1>12, <1>17, <2>1
    <3> QED
      BY <1>8, <1>17, <3>1 DEF PageInv, GivenRise
  <2>2. CASE i <= n /\ j > n
    <3>1. given'[i] = given[i] /\ given'[j] = page[j - n] /\ i \in 1..n /\ j - n \in 1..c
      BY <1>7, <1>9, <1>12, <2>2
    <3> QED
      BY <1>10, <1>14, <3>1
  <2>3. CASE i > n
    <3>1. given'[i] = page[i - n] /\ given'[j] = page[j - n]
          /\ i - n \in 1..c /\ j - n \in 1..c /\ i - n < j - n
      BY <1>7, <1>9, <1>12, <1>17, <2>3
    <3> QED
      BY <1>7, <3>1
  <2> QED
    BY <1>7, <1>9, <2>1, <2>2, <2>3
<1>18. GivenRise'
  BY <1>2, <1>12, <1>17 DEF GivenRise, Precedes
<1>19. CursorIsLast'
  <2>1. CASE c = 0
    <3>1. page = <<>> /\ given' = given
      BY <1>0, <1>2, <1>13, <2>1, ConcatEmptySeq
    <3> QED
      BY <1>2, <3>1 DEF PageInv, CursorIsLast
  <2>2. CASE c # 0
    <3>1. page # <<>> /\ n + c \in 1..(n + c) /\ ~(n + c <= n) /\ n + c - n = c
      BY <1>7, <1>9, <1>13, <2>2
    <3>2. given'[n + c] = page[c] /\ cursor' = page[c]
      BY <1>2, <1>7, <1>12, <3>1
    <3>3. given' # <<>>
      BY <1>7, <1>9, <1>12, <2>2
    <3> QED
      BY <1>12, <3>2, <3>3 DEF CursorIsLast
  <2> QED
    BY <2>1, <2>2
<1>20. ASSUME NEW k \in steady
       PROVE  \/ \E i \in 1..(n + c) : given'[i] = k
              \/ reading' /\ (cursor' = Start \/ Precedes(cursor', k))
  <2>1. CASE \E i \in 1..n : given[i] = k
    <3>1. PICK i \in 1..n : given[i] = k
      BY <2>1
    <3>2. i \in 1..(n + c) /\ given'[i] = k
      BY <1>7, <1>9, <1>12, <3>1
    <3> QED
      BY <3>2
  <2>2. CASE k \in F
    <3>1. PICK i \in 1..c : page[i] = k
      BY <1>7, <2>2
    <3>2. n + i \in 1..(n + c) /\ given'[n + i] = k
      <4>1. n + i \in 1..(n + c) /\ ~(n + i <= n) /\ n + i - n = i
        BY <1>7, <1>9
      <4>2. PICK m : m = n + i
        OBVIOUS
      <4>3. m \in 1..(n + c) /\ ~(m <= n) /\ m - n = i
        BY <1>7, <1>9, <4>1, <4>2
      <4>4. given'[m] = page[m - n]
        BY <1>12, <4>3
      <4> QED
        BY <3>1, <4>2, <4>3, <4>4
    <3> QED
      BY <3>2
  <2>3. CASE k \in A /\ k \notin F
    <3>1. F # {} /\ ~(Cardinality(A) <= PageSize)
      BY <1>5, <2>3
    <3>2. c # 0 /\ page # <<>>
      BY <1>7, <1>13, <3>1
    <3>3. c \in 1..c /\ cursor' = page[c]
      BY <1>2, <1>7, <3>2
    <3>4. Precedes(cursor', k)
      BY <1>5, <1>10, <2>3, <3>3
    <3>5. Cardinality(A) \in Nat
      BY <1>4, TableFinite
    <3>6. Cardinality(A) > PageSize
      BY <3>1, <3>5, PageAssumption
    <3>7. reading'
      BY <1>3, <3>2, <3>6
    <3> QED
      BY <3>4, <3>7
  <2>4. (\E i \in 1..n : given[i] = k) \/ k \in A
    BY <1>0, <1>4, <1>8 DEF PageInv, SteadyAhead
  <2> QED
    BY <2>1, <2>2, <2>3, <2>4
<1>21. SteadyAhead'
  BY <1>2, <1>12, <1>20 DEF SteadyAhead, Precedes
<1> QED
  BY <1>15, <1>16, <1>18, <1>19, <1>21 DEF PageInv

(* So do rows that come and go between the pages.                           *)
LEMMA PagesKeep == PageInv /\ [PageNext]_pageVars => PageInv'
<1> SUFFICES ASSUME PageInv, [PageNext]_pageVars
             PROVE  PageInv'
  OBVIOUS
<1>1. CASE ReadPage
  BY <1>1, ReadKeeps
<1>2. ASSUME NEW k \in RowKeys, RowAppears(k)
      PROVE  PageInv'
  <2>1. /\ OnePerId(rows \cup {k}) /\ rows' = rows \cup {k} /\ order' = order
        /\ cursor' = cursor /\ given' = given /\ reading' = reading /\ steady' = steady
    BY <1>2 DEF RowAppears
  <2>2. PageTypeOK'
    BY <2>1, Zenon DEF PageInv, PageTypeOK
  <2>3. OnePerId(rows)'
    BY <2>1 DEF OnePerId
  <2>4. GivenRise' /\ CursorIsLast' /\ SteadyAhead'
    BY <2>1 DEF PageInv, GivenRise, CursorIsLast, SteadyAhead, Precedes
  <2> QED
    BY <2>2, <2>3, <2>4 DEF PageInv
<1>3. ASSUME NEW k \in RowKeys, RowVanishes(k)
      PROVE  PageInv'
  <2>1. /\ rows' = rows \ {k} /\ order' = order /\ steady' = steady \ {k}
        /\ cursor' = cursor /\ given' = given /\ reading' = reading
    BY <1>3 DEF RowVanishes
  <2>2. PageTypeOK'
    BY <2>1, Zenon DEF PageInv, PageTypeOK
  <2>3. OnePerId(rows)'
    BY <2>1 DEF PageInv, OnePerId
  <2>4. GivenRise' /\ CursorIsLast' /\ SteadyAhead'
    BY <2>1 DEF PageInv, GivenRise, CursorIsLast, SteadyAhead, Precedes
  <2> QED
    BY <2>2, <2>3, <2>4 DEF PageInv
<1>4. CASE UNCHANGED pageVars
  BY <1>4 DEF pageVars, PageInv, PageTypeOK, OnePerId, GivenRise, CursorIsLast, SteadyAhead,
              Precedes
<1> QED
  BY <1>1, <1>2, <1>3, <1>4 DEF PageNext

(* What rises does not repeat.                                              *)
LEMMA PageInvMeans == PageInv => SeenOnce
<1> SUFFICES ASSUME PageInv
             PROVE  SeenOnce
  OBVIOUS
<1>1. order \in Order /\ given \in Seq(RowKeys)
  BY DEF PageInv, PageTypeOK
<1>2. DOMAIN given = 1..Len(given) /\ Len(given) \in Nat
      /\ \A i \in 1..Len(given) : given[i] \in RowKeys
  BY <1>1, LenProperties, ElementOfSeq
<1>3. ASSUME NEW i \in 1..Len(given), NEW j \in 1..Len(given), given[i] = given[j]
      PROVE  i = j
  <2>1. ~(i < j) /\ ~(j < i)
    BY <1>1, <1>2, <1>3, StrictOrder DEF PageInv, GivenRise
  <2> QED
    BY <1>2, <2>1
<1>4. ~reading => \A k \in steady : \E i \in 1..Len(given) : given[i] = k
  BY DEF PageInv, SteadyAhead
<1> QED
  BY <1>2, <1>3, <1>4 DEF SeenOnce

(* The invariant.                                                           *)
THEOREM PageInvariant == PageSpec => []PageInv
BY PagesStart, PagesKeep, PTL DEF PageSpec

(* SeenOnce, for each reader, any table and any size of page.               *)
THEOREM PagesGiveEachRowOnce == PageSpec => []SeenOnce
<1>1. PageSpec => []PageInv
  BY PageInvariant
<1> QED
  BY <1>1, PageInvMeans, PTL
-----------------------------------------------------------------------------
(* All of them.                                                             *)

(* An empty table is one a reader may start with.                           *)
LEMMA RestingPages == OnePages => PageInit
<1> SUFFICES ASSUME OnePages
             PROVE  PageInit
  OBVIOUS
<1>1. {} \in {S \in SUBSET RowKeys : OnePerId(S)}
  BY DEF OnePerId
<1> QED
  BY <1>1 DEF OnePages, PageInit, Order

(* Side by side, the components behave as they do alone, so what is proved  *)
(* of each holds here too. Groups and watermark rest in a state of their    *)
(* own, and are taken up below.                                             *)
THEOREM PartsBehave ==
    ServicesSpec => /\ HolderSpec /\ BillingSpec /\ CheckoutSpec /\ DarajaSpec
                    /\ RowSpec /\ ObjectsSpec /\ WindowSpec /\ SinkSpec
                    /\ PageSpec /\ BurstSpec /\ LockSpec
<1>1. ServicesInit => /\ HolderInit /\ BillingInit /\ CheckoutInit /\ DarajaInit
                      /\ RowInit /\ ObjectsInit /\ WindowInit /\ SinkInit
                      /\ PageInit /\ BurstInit /\ LockInit
  BY RestingPages, Zenon DEF ServicesInit
<1>2. [ServicesNext]_servicesVars =>
         /\ [HolderNext]_holderVars /\ [BillingNext]_billingVars
         /\ [CheckoutNext]_checkoutVars /\ [DarajaNext]_darajaVars
         /\ [RowNext]_rowVars /\ [ObjectsNext]_objectVars
         /\ [WindowNext]_windowVars /\ [SinkNext]_sinkVars
         /\ [PageNext]_pageVars /\ [BurstNext]_burstVars /\ [LockNext]_lockVars
  <2> SUFFICES ASSUME [ServicesNext]_servicesVars
               PROVE  /\ [HolderNext]_holderVars /\ [BillingNext]_billingVars
                      /\ [CheckoutNext]_checkoutVars /\ [DarajaNext]_darajaVars
                      /\ [RowNext]_rowVars /\ [ObjectsNext]_objectVars
                      /\ [WindowNext]_windowVars /\ [SinkNext]_sinkVars
                      /\ [PageNext]_pageVars /\ [BurstNext]_burstVars /\ [LockNext]_lockVars
    OBVIOUS
  <2>1. CASE UNCHANGED servicesVars
    BY <2>1 DEF servicesVars
  <2>2. CASE ServicesNext
    BY <2>2, Zenon DEF ServicesNext, RestBut
  <2> QED
    BY <2>1, <2>2
<1> QED
  BY <1>1, <1>2, PTL DEF ServicesSpec, HolderSpec, BillingSpec, CheckoutSpec, DarajaSpec,
     RowSpec, ObjectsSpec, WindowSpec, SinkSpec, PageSpec, BurstSpec, LockSpec

(* Groups and watermark keep their invariants when they are at work.        *)
ChosenInv ==
    /\ part \in Part
    /\ part = "groups" => GroupInv
    /\ part = "corner" => CornerInv

(* They do from the start.                                                  *)
LEMMA ChosenHolds == ServicesSpec => []ChosenInv
<1>1. ServicesInit => ChosenInv
  BY GroupStarts, CornerStarts, Zenon DEF ServicesInit, ChosenInv
<1>2. ChosenInv /\ [ServicesNext]_servicesVars => ChosenInv'
  <2> SUFFICES ASSUME ChosenInv, [ServicesNext]_servicesVars
               PROVE  ChosenInv'
    OBVIOUS
  <2>1. part' = part
    BY DEF ServicesNext, RestBut, servicesVars
  <2>2. part = "groups" => [GroupNext]_groupVars
    BY DEF ServicesNext, servicesVars
  <2>3. part = "corner" => [CornerNext]_cornerVars
    BY DEF ServicesNext, servicesVars
  <2>4. part = "groups" => GroupInv'
    BY <2>2, GroupsKeep DEF ChosenInv
  <2>5. part = "corner" => CornerInv'
    BY <2>3, CornerKeeps DEF ChosenInv
  <2> QED
    BY <2>1, <2>4, <2>5 DEF ChosenInv
<1> QED
  BY <1>1, <1>2, PTL DEF ServicesSpec

(* Every component keeps its types: no lease, counter or ledger below zero, *)
(* whatever the constants are.                                              *)
THEOREM ServicesTyped == ServicesSpec => []ServicesTypeOK
<1>1. ASSUME HolderInv, BillingInv, CheckoutInv, DarajaInv, RowTypeOK, ObjectsInv,
             WindowInv, SinkInv, PageInv, BurstInv, LockTypeOK, ChosenInv
      PROVE  ServicesTypeOK
  <2>1. /\ HolderTypeOK /\ BillingTypeOK /\ CheckoutTypeOK /\ DarajaTypeOK /\ RowTypeOK
        /\ ObjectsTypeOK /\ WindowTypeOK /\ SinkTypeOK /\ PageTypeOK /\ BurstTypeOK
        /\ LockTypeOK
    BY <1>1, Zenon DEF HolderInv, BillingInv, CheckoutInv, DarajaInv, ObjectsInv, WindowInv,
       SinkInv, PageInv, BurstInv
  <2>2. part = "groups" => GroupTypeOK
    BY <1>1, GroupsTyped DEF ChosenInv
  <2>3. part = "corner" => CornerTypeOK
    BY <1>1, Zenon DEF ChosenInv, CornerInv
  <2>4. part \in Part
    BY <1>1 DEF ChosenInv
  <2> QED
    BY <2>1, <2>2, <2>3, <2>4 DEF ServicesTypeOK, Part
<1> QED
  BY <1>1, PartsBehave, ChosenHolds, HolderInvariant, BillingInvariant, CheckoutInvariant,
     DarajaInvariant, RowTyped, ObjectsInvariant, WindowInvariant, SinkInvariant,
     PageInvariant, BurstInvariant, LocksTypeCorrect, PTL
==============================================================================
