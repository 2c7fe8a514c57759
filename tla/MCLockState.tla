---------------------------- MODULE MCLockState ----------------------------
(* Small instances of LockState for TLC: the names are interchangeable     *)
(* only when none of them is an address or a call.                         *)
EXTENDS LockState, TLC

HandleSymmetry == Permutations(Cell) \cup Permutations(Handle) \cup Permutations(Deferred)
=============================================================================
