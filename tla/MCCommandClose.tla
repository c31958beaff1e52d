--------------------------- MODULE MCCommandClose ---------------------------
(* A small instance of CommandClose for TLC.                               *)
EXTENDS CommandClose

(* sysconf() failing, and above the ceiling.                               *)
SysconfSome == {-1, 9}

KeepPairs == Fd \X Fd

=============================================================================
