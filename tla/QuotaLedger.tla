---------------------------- MODULE QuotaLedger ----------------------------
(***************************************************************************)
(* The arithmetic of a workspace's storage ledger (app/core/quota.py): one  *)
(* counter, storage_used_bytes, that an upload is charged against before    *)
(* its row exists and that every refund lowers.  The modules that model     *)
(* uploads, failures and deletions are built from these operators, and      *)
(* QuotaLedgerProofs proves what they compute.                              *)
(***************************************************************************)
EXTENDS Integers, FiniteSets

(* Mutant: asks whether the limit is reached, not whether it will be.       *)
CanReserveUsedOnly(used, limit, n) == n = 0 \/ used <= limit

(* reserve_workspace_bytes under the row lock: zero bytes are waved through *)
(* without looking at the limit; anything else needs headroom.              *)
CanReserve(used, limit, n) == n = 0 \/ used + n <= limit

(* Mutant: the bytes leave the counter twice and nothing stops it at zero.  *)
AfterReleaseTwice(used, n) == IF n <= 0 THEN used ELSE used - 2 * n

(* release_workspace_bytes: Greatest(0, used - n), and a no-op for n <= 0.   *)
AfterRelease(used, n) ==
    IF n <= 0 THEN used ELSE IF used - n >= 0 THEN used - n ELSE 0

BytesOf(S, size) == UNION {{p} \X (1..size[p]) : p \in S}

(* The bytes of the files in S: the sum of size[p].  Written as the size of *)
(* a set of (file, byte) pairs, so that sums over disjoint sets follow from *)
(* the cardinality of a union and no induction is needed.                   *)
Total(S, size) == Cardinality(BytesOf(S, size))
=============================================================================
