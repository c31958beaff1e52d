----------------------------- MODULE MCCloseFds -----------------------------
(* Small instances of CloseFds for TLC.                                    *)
EXTENDS CloseFds

(* Keep lists of every order, with negative, absent and repeated entries.  *)
KeepSmall ==
  {<<>>, <<1>>, <<1, 1>>, <<1, 2>>, <<2, 1>>, <<-1, 2>>, <<1, -1>>}
    \cup {<<1, 5>>, <<5, 2>>}
    \cup {<<1, 3>>, <<0, 2, 3>>, <<0, 0, 3>>, <<1, 3, 0>>}

(* One of each kind: empty, sorted, unsorted, and ending with c_int::MAX.  *)
KeepFew == {<<>>, <<0, 2>>, <<2, 0>>, <<1, IntMax>>}

KeepIntMax == {<<>>, <<IntMax>>, <<1, IntMax>>}

(* Negative, small, and c_int::MAX.                                        *)
MinFdsClose == {-1, 1, IntMax}

(* sysconf() failing, and above the ceiling.                               *)
SysconfSome == {-1, 9}

(* A minfd for which incrementing overflows, and one for which it does not. *)
MinFdsHigh == {1, IntMax}

=============================================================================
