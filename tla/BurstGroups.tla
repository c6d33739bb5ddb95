----------------------------- MODULE BurstGroups -----------------------------
(***************************************************************************)
(* Grouping the hashed photos of a scene (gallery/burst_cluster.py,         *)
(* gallery/phash.py): photos that agree on a band of their hashes are       *)
(* candidates, candidates that are near enough are united, in whatever      *)
(* order the set of pairs comes, by union-find with ranks.                  *)
(***************************************************************************)
EXTENDS Integers, FiniteSets

CONSTANTS
    Image,          \* photos read
    Bands, BandSize,  \* the hash: so many bands of so many bits
    Threshold,      \* PHOTO_PHASH_HAMMING_THRESHOLD
    Instants,       \* uploaded_at
    BurstWindow     \* PHOTO_BURST_TIME_WINDOW_SECONDS

ASSUME GroupAssumption ==
    /\ Bands \in Nat \ {0} /\ BandSize \in Nat \ {0}
    /\ Threshold \in Nat /\ BurstWindow \in Nat
    /\ Image \subseteq Int /\ IsFiniteSet(Image) /\ Instants \subseteq Int

Bits == SUBSET ((1..Bands) \X (1..BandSize))    \* the bits that are set

VARIABLES
    hash, taken,    \* of each photo
    pairs,          \* candidate pairs not looked at yet
    parent, rank,
    compress        \* photos that are still to be put into a group, in order

groupVars == <<hash, taken, pairs, parent, rank, compress>>

Band(a, b) == {bit \in hash[a] : bit[1] = b}
ShareBand(a, b) == \E n \in 1..Bands : Band(a, n) = Band(b, n)
Distance(a, b) == Cardinality((hash[a] \ hash[b]) \cup (hash[b] \ hash[a]))
Apart(a, b) == IF taken[a] > taken[b] THEN taken[a] - taken[b] ELSE taken[b] - taken[a]
Near(a, b) == Distance(a, b) <= Threshold /\ Apart(a, b) <= BurstWindow

GroupTypeOK ==
    /\ hash \in [Image -> Bits] /\ taken \in [Image -> Instants]
    /\ pairs \in SUBSET (Image \X Image)
    /\ parent \in [Image -> Image]
    /\ rank \in [Image -> 0..Cardinality(Image)]
    /\ compress \in SUBSET Image

GroupInit ==
    /\ hash \in [Image -> Bits] /\ taken \in [Image -> Instants]
    /\ pairs = {p \in Image \X Image : p[1] < p[2] /\ ShareBand(p[1], p[2])}
    /\ parent = [i \in Image |-> i]
    /\ rank = [i \in Image |-> 0]
    /\ compress = Image

(* The root of x; the walk is at most as long as the photos are many.       *)
Walk(x) ==
    LET step[n \in 0..Cardinality(Image)] == IF n = 0 THEN x ELSE parent[step[n - 1]]
    IN  step
Root(x) == Walk(x)[Cardinality(Image)]

(* find() leaves every photo on its way below the root.                     *)
Flattened(X) ==
    LET way == UNION {{Walk(x)[n] : n \in 0..Cardinality(Image)} : x \in X}
    IN  [i \in Image |-> IF i \in way THEN Root(i) ELSE parent[i]]

(* Mutant: the photo is hung below the other's root, not its root.          *)
UnitePhotos(a, b) ==
    LET rb == Root(b)
    IN  /\ <<a, b>> \in pairs
        /\ pairs' = pairs \ {<<a, b>>}
        /\ parent' = IF Near(a, b) THEN [Flattened({a, b}) EXCEPT ![a] = rb] ELSE parent
        /\ UNCHANGED <<hash, taken, rank, compress>>

Unite(a, b) ==
    LET ra == Root(a)
        rb == Root(b)
        flat == Flattened({a, b})
    IN  /\ <<a, b>> \in pairs
        /\ pairs' = pairs \ {<<a, b>>}
        /\ IF ~Near(a, b) THEN UNCHANGED <<parent, rank>>
           ELSE IF ra = rb THEN parent' = flat /\ UNCHANGED rank
           ELSE IF rank[ra] < rank[rb] THEN parent' = [flat EXCEPT ![ra] = rb] /\ UNCHANGED rank
           ELSE /\ parent' = [flat EXCEPT ![rb] = ra]
                /\ rank' = IF rank[ra] = rank[rb] THEN [rank EXCEPT ![ra] = @ + 1] ELSE rank
        /\ UNCHANGED <<hash, taken, compress>>

CollectGroup(i) ==
    /\ pairs = {} /\ i \in compress /\ \A k \in compress : i <= k
    /\ parent' = Flattened({i})
    /\ compress' = compress \ {i}
    /\ UNCHANGED <<hash, taken, pairs, rank>>

GroupNext ==
    \/ \E a \in Image, b \in Image : Unite(a, b)
    \/ \E i \in Image : CollectGroup(i)

GroupSpec == GroupInit /\ [][GroupNext]_groupVars
-----------------------------------------------------------------------------
(* The smallest set that holds x and, with a photo, what R relates to it.   *)
Reach(R(_, _), x) ==
    LET grow[n \in 0..Cardinality(Image)] ==
            IF n = 0 THEN {x}
            ELSE {i \in Image : \E k \in grow[n - 1] : i = k \/ R(i, k)}
    IN  grow[Cardinality(Image)]

(* What the grouping ends with, whatever the order of the pairs: photos are *)
(* together only if a chain of near photos joins them, and they are if the  *)
(* photos of the chain differ in fewer bits than there are bands, for then  *)
(* they agree on one (burst_cluster.py:43-77, phash.py:25-68).  Ranks bound *)
(* how far find() recurses.                                                 *)
GroupsAreBursts ==
    /\ compress = {} =>
        \A x \in Image :
            LET group == {i \in Image : parent[i] = parent[x]}
                Surely(a, b) == Near(a, b) /\ Distance(a, b) < Bands
            IN  Reach(Surely, x) \subseteq group /\ group \subseteq Reach(Near, x)
    /\ \A x \in Image : parent[x] # x => rank[x] < rank[parent[x]]
=============================================================================
