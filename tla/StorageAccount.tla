--------------------------- MODULE StorageAccount ---------------------------
(***************************************************************************)
(* What a workspace's storage ledger promises, whatever happens to photos:  *)
(* each upload holds some bytes, storage_used_bytes is at all times the sum *)
(* of what is held, an upload comes to hold bytes only within the limit in  *)
(* force, and afterwards can only give bytes back.  PhotoLifecycle          *)
(* implements this specification.                                           *)
(***************************************************************************)
EXTENDS QuotaLedger

CONSTANTS Upload, Limits

VARIABLES held, used, limit

vars == <<held, used, limit>>

Init ==
    /\ held = [u \in Upload |-> 0]
    /\ used = 0
    /\ limit \in Limits

Balanced == used' = Total(Upload, held')

(* Uploads that hold nothing are granted bytes, together or not at all.     *)
Hold ==
    /\ held' \in [Upload -> Nat]
    /\ \A u \in Upload : held'[u] = held[u] \/ held[u] = 0
    /\ Balanced
    /\ used' <= limit
    /\ UNCHANGED limit

(* Uploads give back some of what they hold, or all of it.                  *)
GiveBack ==
    /\ held' \in [Upload -> Nat]
    /\ \A u \in Upload : held'[u] <= held[u]
    /\ Balanced
    /\ UNCHANGED limit

(* A plan change moves the limit, below what is held if need be.            *)
SetLimit ==
    /\ limit' \in Limits
    /\ UNCHANGED <<held, used>>

Next == Hold \/ GiveBack \/ SetLimit

Spec == Init /\ [][Next]_vars
=============================================================================
