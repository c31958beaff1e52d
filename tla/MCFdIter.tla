------------------------------ MODULE MCFdIter ------------------------------
(* Small instances of FdIter for TLC.                                      *)
EXTENDS FdIter

(* sysconf() failing, below the floor, and above the ceiling.              *)
SysconfSome == {-1, 4, 9}

MinFdsSome == {-1, 0, 1}

=============================================================================
