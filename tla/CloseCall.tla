------------------------------ MODULE CloseCall ------------------------------
(***************************************************************************)
(* What CloseFdsBuilder::closefrom and ::cloexecfrom promise, without a    *)
(* word on how: between the request and the return the call closes (or     *)
(* marks) descriptors that nobody asked to keep, in any portions and any   *)
(* order, and has dealt with all of them when it returns.  Only where it   *)
(* is left with a loop over numbers may something above a limit remain.    *)
(* Descriptors the crate opens for itself do not occur.                    *)
(***************************************************************************)
EXTENDS Integers

CONSTANTS
  Fd,     (* the descriptor numbers                                        *)
  Floor   (* the least limit of a loop over the numbers below a limit      *)

VARIABLES
  phase,      (* "start", "running" or "returned"                          *)
  request,    (* "close" or "cloexec"                                      *)
  kept,       (* the descriptors to leave alone                            *)
  held,       (* the open descriptors of the program                       *)
  marked,     (* those of them with the close-on-exec flag                 *)
  due,        (* those held without interruption since the beginning       *)
  bounded,    (* the call has to loop over the numbers below a limit       *)
  disturbed   (* other code opened a descriptor at a bad moment            *)

promiseVars == <<phase, request, kept, held, marked, due, bounded,
                 disturbed>>

PromiseInit ==
  /\ phase = "start"
  /\ held \subseteq Fd /\ marked \subseteq held
  /\ due = held
  /\ bounded = FALSE /\ disturbed = FALSE

Request ==
  /\ phase = "start"
  /\ phase' = "running"
  /\ request' \in {"close", "cloexec"}
  /\ kept' \subseteq Fd
  /\ UNCHANGED <<held, marked, due, bounded, disturbed>>

(* Descriptors that are not kept are closed, or marked.                    *)
Close ==
  /\ request = "close"
  /\ held' \subseteq held
  /\ held \cap kept \subseteq held'
  /\ marked' = marked \cap held'

Mark ==
  /\ request = "cloexec"
  /\ marked \subseteq marked' /\ marked' \subseteq held
  /\ marked' \cap kept = marked \cap kept
  /\ UNCHANGED held

Settled(f) ==
  IF request = "close" THEN f \notin held ELSE f \in marked

Fulfilled ==
  \A f \in due \ kept : Settled(f) \/ (bounded /\ f >= Floor) \/ disturbed

(* The call goes on, or returns having done everything.                    *)
Proceed ==
  /\ phase = "running"
  /\ Close \/ Mark
  /\ \/ UNCHANGED phase
     \/ phase' = "returned" /\ Fulfilled'
  /\ bounded' \in {bounded, TRUE}
  /\ UNCHANGED <<request, kept, due, disturbed>>

(* Other threads, which keep away from descriptors during closefrom.       *)
OtherOpens ==
  /\ phase # "start" /\ request = "cloexec"
  /\ \E d \in Fd \ held :
       /\ held' = held \cup {d}
       /\ marked' \in {marked, marked \cup {d}}
  /\ disturbed' \in {disturbed, TRUE}
  /\ UNCHANGED <<phase, request, kept, due, bounded>>

OtherCloses ==
  /\ phase # "start" /\ request = "cloexec"
  /\ \E d \in held :
       /\ held' = held \ {d}
       /\ marked' = marked \ {d}
       /\ due' = due \ {d}
  /\ UNCHANGED <<phase, request, kept, bounded, disturbed>>

PromiseNext == Request \/ Proceed \/ OtherOpens \/ OtherCloses

Promised == PromiseInit /\ [][PromiseNext]_promiseVars

=============================================================================
