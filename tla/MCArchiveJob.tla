---------------------------- MODULE MCArchiveJob ----------------------------
(***************************************************************************)
(* Instances of ArchiveJob for TLC.                                         *)
(***************************************************************************)
EXTENDS ArchiveJob, TLC

CONSTANTS g1, full1, pick1, r1, r2, c1, c2

(* Everything of one gallery and one guest of it.                           *)
MCGalleryOf == [s \in Scope |-> g1]
=============================================================================
