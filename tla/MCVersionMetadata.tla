-------------------------- MODULE MCVersionMetadata --------------------------
(***************************************************************************)
(* Small instances of VersionMetadata: two threads, and one or two         *)
(* documents whose labels are in one mapping object.                       *)
(***************************************************************************)
EXTENDS VersionMetadata, TLC

CONSTANTS t1, t2, d1, d2, m1

MCMappingOf == [d \in Docs |-> m1]
ThreadSymmetry == Permutations(Threads)

\* The embedded family keeps its version on the first edge and advances on the second.
KeepsThenAdvances == <<1, 1, 2>>

\* Who owns the labels of the family and of the embedded family.
Owns(owner, child, wrapped, collected) ==
  [owner |-> owner, child |-> child, wrapped |-> wrapped, collected |-> collected]
VariousOwners ==
  {Owns("family", "model", TRUE, FALSE), Owns("model", "family", FALSE, FALSE),
   Owns("model", "family", FALSE, TRUE)}
WrappedOwner == {Owns("family", "model", TRUE, FALSE)}
ModelOwnedChild == {Owns("family", "model", FALSE, FALSE)}

SameLabels == <<1, 2>>
=============================================================================
