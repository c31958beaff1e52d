--------------------------- MODULE FeatureCaches ----------------------------
(***************************************************************************)
(* What the crate's caches of kernel features may hold.  CloseFds starts   *)
(* a call from any of these values; Features shows that no interleaving of *)
(* probes and calls makes a thread read another one.                       *)
(***************************************************************************)

(* MAY_HAVE_CLOSE_RANGE and MAY_HAVE_CLOSE_RANGE_CLOEXEC: only Linux       *)
(* writes them, and only when the call is not available.                   *)
MayHaveValues(os, works) == IF os = "linux" /\ ~works THEN BOOLEAN ELSE {TRUE}

(* HAS_CLOSE_RANGE: 1 present, 0 absent or not found out, 2 not known.     *)
HasRangeValues(os, works) ==
  CASE os = "freebsd" /\ works -> {0, 1, 2}
    [] os = "freebsd" /\ ~works -> {0, 2}
    [] OTHER -> {2}

(* IS_WSL1: 1 yes, 0 no, 2 not known.                                      *)
IsWsl1Values(wsl1) == {2, IF wsl1 THEN 1 ELSE 0}

=============================================================================
