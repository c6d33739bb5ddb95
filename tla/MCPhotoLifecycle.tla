------------------------- MODULE MCPhotoLifecycle -------------------------
(***************************************************************************)
(* Instances of PhotoLifecycle for TLC; each .cfg chooses its actors.       *)
(***************************************************************************)
EXTENDS PhotoLifecycle, TLC

CONSTANTS h1, h2, f1, w1, w2, r1, r2, d1, d2

(* Sound where OwnerDeletes holds all heavy photos or none of them.         *)
Symmetry == Permutations(HeavyPhoto) \cup Permutations(Handler)
            \cup Permutations(Reaper) \cup Permutations(HardDeleter)
=============================================================================
