------------------------- MODULE QuotaLedgerProofs -------------------------
(***************************************************************************)
(* What Total and the ledger's moves compute, for every finite set of files *)
(* and every assignment of sizes.  Total counts (file, byte) pairs, so sums *)
(* follow from the cardinality of unions and products.                      *)
(***************************************************************************)
EXTENDS QuotaLedger, FiniteSetTheorems, TLAPS

(* A finite set of files of natural sizes has finitely many bytes.          *)
LEMMA BytesFinite ==
    ASSUME NEW S, IsFiniteSet(S), NEW size, \A p \in S : size[p] \in Nat
    PROVE  IsFiniteSet(BytesOf(S, size))
<1> DEFINE file(p) == {p} \X (1..size[p])
           files == {file(p) : p \in S}
           f == [p \in S |-> file(p)]
<1>1. f \in Surjection(S, files)
  BY DEF Surjection
<1>2. IsFiniteSet(files)
  BY <1>1, FS_Surjection
<1>3. \A T \in files : IsFiniteSet(T)
  <2> TAKE T \in files
  <2>1. PICK p \in S : T = file(p)
    OBVIOUS
  <2>2. IsFiniteSet({p})
    BY FS_Singleton
  <2>3. IsFiniteSet(1..size[p])
    BY FS_Interval
  <2> QED
    BY <2>1, <2>2, <2>3, FS_Product
<1>4. BytesOf(S, size) = UNION files
  BY DEF BytesOf
<1> QED
  BY <1>2, <1>3, <1>4, FS_UNION

(* The sum is a natural number.                                             *)
LEMMA TotalType ==
    ASSUME NEW S, IsFiniteSet(S), NEW size, \A p \in S : size[p] \in Nat
    PROVE  Total(S, size) \in Nat
BY BytesFinite, FS_CardinalityType DEF Total

(* Nothing weighs nothing.                                                  *)
LEMMA TotalEmpty ==
    ASSUME NEW size
    PROVE  Total({}, size) = 0
<1>1. BytesOf({}, size) = {}
  BY DEF BytesOf
<1> QED
  BY <1>1, FS_EmptySet DEF Total

(* One file weighs its size.                                                *)
LEMMA TotalSingle ==
    ASSUME NEW p, NEW size, size[p] \in Nat
    PROVE  Total({p}, size) = size[p]
<1>1. BytesOf({p}, size) = {p} \X (1..size[p])
  BY DEF BytesOf
<1>2. IsFiniteSet({p}) /\ Cardinality({p}) = 1
  BY FS_Singleton
<1>3. IsFiniteSet(1..size[p]) /\ Cardinality(1..size[p]) = size[p]
  BY FS_Interval
<1>4. Cardinality({p} \X (1..size[p])) = Cardinality({p}) * Cardinality(1..size[p])
  BY <1>2, <1>3, FS_Product
<1>5. Cardinality(BytesOf({p}, size)) = 1 * size[p]
  BY <1>1, <1>2, <1>3, <1>4
<1>6. 1 * size[p] = size[p]
  OBVIOUS
<1> QED
  BY <1>5, <1>6 DEF Total

(* Disjoint sets of files add up.                                           *)
LEMMA TotalUnion ==
    ASSUME NEW S, IsFiniteSet(S), NEW T, IsFiniteSet(T), S \cap T = {},
           NEW size, \A p \in S \cup T : size[p] \in Nat
    PROVE  Total(S \cup T, size) = Total(S, size) + Total(T, size)
<1>1. IsFiniteSet(BytesOf(S, size)) /\ IsFiniteSet(BytesOf(T, size))
  BY BytesFinite
<1>2. BytesOf(S \cup T, size) = BytesOf(S, size) \cup BytesOf(T, size)
  BY DEF BytesOf
<1>3. BytesOf(S, size) \cap BytesOf(T, size) = {}
  BY DEF BytesOf
<1>4. Cardinality(BytesOf(S, size) \cap BytesOf(T, size)) = 0
  BY <1>3, FS_EmptySet
<1>5. /\ Cardinality(BytesOf(S, size)) \in Nat
      /\ Cardinality(BytesOf(T, size)) \in Nat
  BY <1>1, FS_CardinalityType
<1>6. Cardinality(BytesOf(S, size) \cup BytesOf(T, size))
        = Cardinality(BytesOf(S, size)) + Cardinality(BytesOf(T, size))
            - Cardinality(BytesOf(S, size) \cap BytesOf(T, size))
  BY <1>1, FS_Union
<1>7. Cardinality(BytesOf(S, size) \cup BytesOf(T, size))
        = Cardinality(BytesOf(S, size)) + Cardinality(BytesOf(T, size))
  BY <1>4, <1>5, <1>6
<1> QED
  BY <1>2, <1>7 DEF Total

(* Only the sizes of the files counted matter.                              *)
LEMMA TotalAgree ==
    ASSUME NEW S, NEW size, NEW other, \A p \in S : size[p] = other[p]
    PROVE  Total(S, size) = Total(S, other)
<1>1. BytesOf(S, size) = BytesOf(S, other)
  BY DEF BytesOf
<1> QED
  BY <1>1 DEF Total

(* Taking some of the files away takes exactly their bytes away.            *)
LEMMA TotalMinus ==
    ASSUME NEW S, IsFiniteSet(S), NEW T, T \subseteq S,
           NEW size, \A p \in S : size[p] \in Nat
    PROVE  /\ Total(S \ T, size) = Total(S, size) - Total(T, size)
           /\ Total(T, size) \in Nat
           /\ Total(T, size) <= Total(S, size)
<1>1. IsFiniteSet(T) /\ IsFiniteSet(S \ T)
  BY FS_Subset, FS_Difference
<1>2. S = (S \ T) \cup T /\ (S \ T) \cap T = {}
  OBVIOUS
<1>3. Total(S, size) = Total(S \ T, size) + Total(T, size)
  <2>1. \A p \in (S \ T) \cup T : size[p] \in Nat
    OBVIOUS
  <2>2. Total((S \ T) \cup T, size) = Total(S \ T, size) + Total(T, size)
    BY <1>1, <1>2, <2>1, TotalUnion
  <2> QED
    BY <1>2, <2>2
<1>4. Total(T, size) \in Nat /\ Total(S \ T, size) \in Nat
  BY <1>1, TotalType
<1> QED
  BY <1>3, <1>4

(* Fewer files, none of them longer, weigh no more.                         *)
LEMMA TotalShrinks ==
    ASSUME NEW S, IsFiniteSet(S), NEW size, \A p \in S : size[p] \in Nat,
           NEW T, T \subseteq S,
           NEW other, \A p \in T : other[p] \in Nat /\ other[p] <= size[p]
    PROVE  Total(T, other) <= Total(S, size)
<1>1. BytesOf(T, other) \subseteq BytesOf(S, size)
  BY DEF BytesOf
<1> QED
  BY <1>1, BytesFinite, FS_Subset DEF Total

(* Files of zero bytes do not show in the sum.                              *)
LEMMA TotalHeld ==
    ASSUME NEW S, NEW T, T \subseteq S, NEW size,
           NEW held, \A p \in S : held[p] = IF p \in T THEN size[p] ELSE 0
    PROVE  Total(S, held) = Total(T, size)
<1>1. BytesOf(S, held) = BytesOf(T, size)
  BY DEF BytesOf
<1> QED
  BY <1>1 DEF Total

(* A refund of bytes the counter holds is an exact subtraction: the floor   *)
(* at zero of release_workspace_bytes is never what decides.                *)
LEMMA AfterReleaseExact ==
    ASSUME NEW used \in Nat, NEW n \in Nat, n <= used
    PROVE  AfterRelease(used, n) = used - n
BY DEF AfterRelease

(* Whatever is refunded, the counter stays a natural number.                *)
LEMMA AfterReleaseType ==
    ASSUME NEW used \in Nat, NEW n \in Int
    PROVE  AfterRelease(used, n) \in Nat /\ AfterRelease(used, n) <= used
BY DEF AfterRelease
=============================================================================
