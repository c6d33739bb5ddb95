------------------------------ MODULE RowLocks ------------------------------
(***************************************************************************)
(* The order in which concurrent transactions lock rows.  PhotoLifecycle    *)
(* takes a locked transaction as one step; here it is the sequence of rows  *)
(* it locks, each kept until it ends, and a transaction may wait for a row  *)
(* that another one holds.  The scene, the event, the workspace, the user   *)
(* and the subscription are one row each: transactions of other tenants     *)
(* never meet.  A transaction that locks a single row holds nothing while   *)
(* it waits and is left out.                                                *)
(*                                                                         *)
(* Modes: "update" is FOR UPDATE or DELETE, "change" an UPDATE that leaves  *)
(* the key alone, "refer" what the foreign key of an inserted row takes.    *)
(***************************************************************************)
EXTENDS Integers, Sequences, FiniteSets

CONSTANTS Txn,     \* concurrent transactions
          Frame    \* photos of the scene

Above == {"link", "scene", "event", "sub", "user", "workspace"}
Row == Frame \cup Above

ASSUME FrameAssumption == Frame \cap Above = {}

VARIABLES deed,    \* what each transaction does
          held     \* how many of its rows it has locked
lockVars == <<deed, held>>

Lock(row, mode) == [row |-> row, mode |-> mode]

(* `patient` is FALSE where a NOWAIT or a lock_timeout ends the wait.       *)
Deed(kind, patient, locks) == [kind |-> kind, patient |-> patient, locks |-> locks]

NoDeed == Deed("idle", TRUE, << >>)

(* select_related joins the parents, and FOR UPDATE locks every table of    *)
(* the join, in the order of the join.                                      *)
Webhook(f) ==
    Deed("lane", TRUE, <<Lock(f, "update"), Lock("scene", "update"),
                         Lock("event", "update"), Lock("workspace", "update")>>)
(* Mutant: the refund is made before the photo is locked.                   *)
FailReleasesFirst(f) ==
    Deed("lane", TRUE, <<Lock("workspace", "change"), Lock(f, "update"),
                         Lock("scene", "update"), Lock("event", "update")>>)
Fail(f) ==
    Deed("lane", TRUE, <<Lock(f, "update"), Lock("scene", "update"),
                         Lock("event", "update"), Lock("workspace", "change")>>)
Destroy(f) ==
    Deed("lane", TRUE, <<Lock(f, "update"), Lock("scene", "update"),
                         Lock("event", "update"), Lock("workspace", "change")>>)
Abandon(f) ==
    Deed("lane", FALSE, <<Lock(f, "update"), Lock("workspace", "change")>>)
Reap(f) ==
    Deed("lane", FALSE, <<Lock(f, "update"), Lock("workspace", "change")>>)

(* Statements over several photos lock them in whatever order they are met. *)
HardDelete(f, g) ==
    Deed("many", TRUE, <<Lock(f, "update"), Lock(g, "update"), Lock("workspace", "change")>>)
Expire(f, g) ==
    Deed("many", TRUE, <<Lock(f, "change"), Lock(g, "change")>>)
Cascade(f, g) ==
    Deed("many", TRUE, <<Lock(f, "update"), Lock(g, "update"),
                         Lock("scene", "update"), Lock("event", "update")>>)

Consume ==
    Deed("link", TRUE, <<Lock("link", "update"), Lock("event", "update"),
                         Lock("workspace", "update")>>)
RenewPlan ==
    Deed("renew", TRUE, <<Lock("sub", "update"), Lock("user", "update"),
                          Lock("workspace", "update")>>)
(* Also how an event finds a subscription whose provider id is not known.   *)
FirstPlan ==
    Deed("subscribe", TRUE, <<Lock("user", "update"), Lock("sub", "update"),
                              Lock("workspace", "update")>>)

(* Uploads hold the workspace when the foreign keys of their rows are       *)
(* checked; a grouping holds the scene when it writes the photos.           *)
Bulk == Deed("upload", FALSE, <<Lock("workspace", "update"), Lock("scene", "refer")>>)
Fast == Deed("upload", TRUE, <<Lock("workspace", "update"), Lock("scene", "refer")>>)
Group(f, g) ==
    Deed("group", TRUE, <<Lock("scene", "update"), Lock(f, "change"), Lock(g, "change")>>)

Deeds ==
    (UNION {{Webhook(f), Fail(f), Destroy(f), Abandon(f), Reap(f)} : f \in Frame})
      \cup (UNION {UNION {{HardDelete(f, g), Expire(f, g), Cascade(f, g), Group(f, g)} :
                             g \in Frame \ {f}} : f \in Frame})
      \cup {Consume, RenewPlan, FirstPlan, Bulk, Fast}

LockInit == deed = [t \in Txn |-> NoDeed] /\ held = [t \in Txn |-> 0]

-----------------------------------------------------------------------------
Clash(a, b) ==
    \/ "update" \in {a, b}
    \/ a = "change" /\ b = "change"

Wanted(t) == deed[t].locks[held[t] + 1]

(* t cannot go on before u ends.                                            *)
WaitsFor(t, u) ==
    /\ t # u
    /\ held[t] < Len(deed[t].locks)
    /\ \E i \in 1..held[u] :
         /\ deed[u].locks[i].row = Wanted(t).row
         /\ Clash(deed[u].locks[i].mode, Wanted(t).mode)

Deadlocked(S) == S # {} /\ \A t \in S : \E u \in S : WaitsFor(t, u)

Begin(t) ==
    /\ deed[t] = NoDeed
    /\ \E d \in Deeds : deed' = [deed EXCEPT ![t] = d]
    /\ UNCHANGED held

Take(t) ==
    /\ held[t] < Len(deed[t].locks)
    /\ \A u \in Txn : ~WaitsFor(t, u)
    /\ held' = [held EXCEPT ![t] = @ + 1]
    /\ UNCHANGED deed

(* Commit or rollback: every lock is let go.                                *)
End(t) == deed' = [deed EXCEPT ![t] = NoDeed] /\ held' = [held EXCEPT ![t] = 0]

Commit(t) ==
    /\ deed[t] # NoDeed /\ held[t] = Len(deed[t].locks)
    /\ End(t)

StopWaiting(t) ==
    /\ ~deed[t].patient
    /\ \E u \in Txn : WaitsFor(t, u)
    /\ End(t)

(* PostgreSQL fails one transaction of a deadlock.                          *)
BreakDeadlock(t) ==
    /\ \E S \in SUBSET Txn : t \in S /\ Deadlocked(S)
    /\ End(t)

LockNext ==
    \E t \in Txn : Begin(t) \/ Take(t) \/ Commit(t) \/ StopWaiting(t) \/ BreakDeadlock(t)

LockSpec == LockInit /\ [][LockNext]_lockVars

-----------------------------------------------------------------------------
(* Types: a transaction has locked a prefix of its rows.                    *)
LockTypeOK ==
    /\ deed \in [Txn -> Deeds \cup {NoDeed}]
    /\ held \in [Txn -> Nat]
    /\ \A t \in Txn : held[t] <= Len(deed[t].locks)

OfKind(t, kinds) == deed[t].kind \in kinds

(* Photos are locked before their parents and the workspace last, by the    *)
(* webhook, the failure path, the owner's delete, the monitor, the reaper,  *)
(* the client's link and a renewal: no set of these waits for itself.  A    *)
(* deadlock needs an upload (which locks the workspace first), a grouping   *)
(* (the scene before its photos), a first subscription (the user before the *)
(* subscription), or two statements over several photos.                    *)
DeadlocksExplained ==
    \A S \in SUBSET Txn : Deadlocked(S) =>
        \/ \E t \in S : OfKind(t, {"upload", "group", "subscribe"})
        \/ \E t, u \in S : t # u /\ OfKind(t, {"many"}) /\ OfKind(u, {"many"})

=============================================================================
