------------------------------ MODULE FdTable ------------------------------
(***************************************************************************)
(* The file-descriptor table of one process, as the crate sees it through  *)
(* system calls.  The kernel is not part of the repository: this module is *)
(* external, modelled from the way src/src uses it.                        *)
(*                                                                         *)
(* A descriptor is its number.  Besides the crate's own calls, the table   *)
(* is changed by the rest of the program (other threads, and the caller    *)
(* between two calls into the crate): OtherOpen and OtherClose.            *)
(***************************************************************************)
EXTENDS Integers

CONSTANTS
  FdMax,   (* the largest descriptor number the kernel hands out          *)
  IntMax,  (* libc::c_int::MAX                                            *)
  Flags    (* whether other code opens without and/or with O_CLOEXEC      *)

ASSUME FdTableAssumption ==
  /\ FdMax \in Nat
  /\ IntMax \in Nat
  /\ FdMax < IntMax
  /\ Flags \subseteq BOOLEAN

VARIABLES
  open,    (* the descriptors that are open                                *)
  cloexec, (* those of them whose FD_CLOEXEC flag is set                   *)
  theirs,  (* history: descriptors held by code other than this crate      *)
  steady   (* history: those of theirs held since the observed call began  *)

tableVars == <<open, cloexec, theirs, steady>>

Fd == 0..FdMax

IntMin == -IntMax - 1

(* libc::c_int arithmetic of a release build: x + 1 wraps.                 *)
Incr(x) == IF x = IntMax THEN IntMin ELSE x + 1

(* The cast "x as libc::c_uint".                                           *)
AsUint(x) == IF x < 0 THEN x + 2 * (IntMax + 1) ELSE x

UintMax == 2 * IntMax + 1

TableTypeOK ==
  /\ open \subseteq Fd
  /\ cloexec \subseteq open
  /\ theirs \subseteq Fd
  /\ steady \subseteq theirs

(* Any table that code using Flags can produce may be in place when the    *)
(* crate is called.                                                        *)
TableInit ==
  /\ open \in SUBSET Fd
  /\ cloexec \in SUBSET open
  /\ TRUE \notin Flags => cloexec = {}
  /\ theirs = open
  /\ steady = open

-----------------------------------------------------------------------------
(* System calls the crate makes.                                           *)

(* open() returns the lowest number that is free.                          *)
LowestFree(d) ==
  /\ d \in Fd \ open
  /\ \A e \in Fd \ open : d <= e

(* close(), closefrom() and close_range() without flags.                   *)
CloseAll(S) ==
  /\ open' = open \ S
  /\ cloexec' = cloexec \ S
  /\ UNCHANGED <<theirs, steady>>

(* fcntl(F_SETFD, FD_CLOEXEC), and close_range() with CLOSE_RANGE_CLOEXEC. *)
MarkAll(S) ==
  /\ cloexec' = cloexec \cup (S \cap open)
  /\ UNCHANGED <<open, theirs, steady>>

(* open(..., O_CLOEXEC) by the crate.                                      *)
OpenCloexec(d) ==
  /\ LowestFree(d)
  /\ open' = open \cup {d}
  /\ cloexec' = cloexec \cup {d}
  /\ UNCHANGED <<theirs, steady>>

-----------------------------------------------------------------------------
(* The rest of the program.                                                *)

(* It opens a descriptor, with or without O_CLOEXEC.                       *)
OtherOpen ==
  \E d \in Fd, flag \in Flags :
    /\ LowestFree(d)
    /\ open' = open \cup {d}
    /\ cloexec' = IF flag THEN cloexec \cup {d} ELSE cloexec
    /\ theirs' = theirs \cup {d}
    /\ UNCHANGED steady

(* It closes a descriptor of its own.                                      *)
OtherClose(f) ==
  /\ f \in theirs
  /\ open' = open \ {f}
  /\ cloexec' = cloexec \ {f}
  /\ theirs' = theirs \ {f}
  /\ steady' = steady \ {f}

=============================================================================
