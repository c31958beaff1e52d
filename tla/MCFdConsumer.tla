---------------------------- MODULE MCFdConsumer ----------------------------
(* Small instances of FdConsumer for TLC.                                  *)
EXTENDS FdConsumer

(* sysconf() below the floor, and above the ceiling.                       *)
SysconfSome == {-1, 9}

MinFdsSome == {-1, 1}

=============================================================================
