---------------------------- MODULE MCRuntimeCache ----------------------------
(***************************************************************************)
(* Small instances of RuntimeCache: two threads, or two rebuilds.          *)
(***************************************************************************)
EXTENDS RuntimeCache, TLC

CONSTANTS t1, t2, a1, a2, a3

TwoThreads == {t1, t2}
ThreeAddresses == {a1, a2, a3}
TwoAddresses == {a1, a2}
=============================================================================
