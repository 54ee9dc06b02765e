-------------------------- MODULE MCGuardedValidation --------------------------
(* The schemas of MCSchemas are ones in which guards, repairs and applications are told apart. *)
EXTENDS MCCanonicalValidation

ASSUME SetsAreWatched == SetsWatched
ASSUME EnumsAreWatched == EnumsWatched
================================================================================
