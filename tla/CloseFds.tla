------------------------------ MODULE CloseFds ------------------------------
(***************************************************************************)
(* One call of CloseFdsBuilder::closefrom or ::cloexecfrom                 *)
(* (src/src/closefds and src/src/util.rs), driving the iterator of FdIter: *)
(* the keep list is inspected and simplified, then the call tries the      *)
(* closefrom()/close_range() shortcut, then iterates.                      *)
(*                                                                         *)
(* A slice &keep_fds[k..] is the index k into the list that was given.     *)
(* For closefrom the caller guarantees that no other thread touches        *)
(* descriptors; during cloexecfrom the rest of the program may run.        *)
(***************************************************************************)
EXTENDS FdIter, FeatureCaches

CONSTANTS
  Ops,           (* the operations considered, among "close" and "cloexec" *)
  KeepLists,     (* the keep lists considered                              *)
  MayRevoke      (* whether close_range() may start to be refused          *)

ASSUME CloseFdsAssumption ==
  /\ Ops \subseteq {"close", "cloexec"}
  /\ KeepLists \subseteq Seq(IntMin..IntMax)
  /\ MayRevoke \in BOOLEAN

VARIABLES
  pc,            (* where the call is                                      *)
  op, keep_fds, threadsafe, allow_fs, arg_minfd,   (* the call's arguments *)
  max_keep_fd, fds_sorted, last_fd,   (* KeepFds; a local of inspect       *)
  minfd,         (* the local minfd of close_fds / set_fds_cloexec         *)
  ki,            (* the slice keep_fds is the list from index ki on        *)
  gi,            (* the position of apply_range in the list                *)
  rest,          (* inside close_rest / set_cloexec_rest                   *)
  may_have,      (* MAY_HAVE_CLOSE_RANGE or MAY_HAVE_CLOSE_RANGE_CLOEXEC   *)
  has_range,     (* FreeBSD's HAS_CLOSE_RANGE: 0, 1, or 2 when not known   *)
  kernel_has     (* whether the kernel accepts the close_range() call      *)

argVars == <<op, keep_fds, threadsafe, allow_fs, arg_minfd>>
keepVars == <<max_keep_fd, fds_sorted, last_fd>>
cacheVars == <<may_have, has_range>>
callVars == <<pc, argVars, keepVars, minfd, ki, gi, rest, cacheVars, kernel_has>>
vars == <<tableVars, iterVars, callVars>>

ClosefromOS == {"freebsd", "netbsd", "openbsd", "dragonfly"}

Pcs == {"start", "inspect", "simplify", "shortcut", "skip", "first", "gap",
        "iter", "loop", "wait", "rest", "restfd", "setfd",
        "closefrom", "drop", "done", "killed"}

(* The elements of the slice keep_fds.                                     *)
Slice == {keep_fds[i] : i \in (ki + 1)..Len(keep_fds)}

KeepSet == Values(keep_fds)

InOrder(s) == \A i, j \in DOMAIN s : i < j => s[i] <= s[j]

-----------------------------------------------------------------------------
(* The builder and KeepFds.                                                *)

(* KeepFds::empty and ::new_sorted know the largest kept descriptor;       *)
(* KeepFds::new lets inspect_keep_fds look for it.                         *)
KeepMax(keep, given) ==
  CASE given = "keep" -> IntMin
    [] given # "keep" /\ keep # <<>> -> keep[Len(keep)]
    [] OTHER -> -1

(* closefrom(m) or cloexecfrom(m) on a builder without a list, with a list *)
(* given by keep_fds(), or with one given by keep_fds_sorted(), which the  *)
(* caller guarantees to be sorted.                                         *)
Call(o, m, keep, given) ==
  /\ pc = "start"
  /\ given = "none" => keep = <<>>
  /\ given = "sorted" => InOrder(keep)
  /\ op' = o
  /\ keep_fds' = keep
  /\ threadsafe' \in BOOLEAN
  /\ allow_fs' \in BOOLEAN
  /\ arg_minfd' = StartFd(m)
  /\ minfd' = arg_minfd'
  /\ fds_sorted' = TRUE
  /\ pc' = IF given = "keep" THEN "inspect" ELSE "simplify"
  /\ max_keep_fd' = KeepMax(keep, given)
  /\ UNCHANGED <<tableVars, iterVars, last_fd, ki, gi, rest, cacheVars, kernel_has>>

(* "Out of order".                                                         *)
OutOfOrder_Never(fd) == FALSE

OutOfOrder(fd) == fd <= max_keep_fd /\ last_fd > fd

(* One iteration of the loop of inspect_keep_fds.                          *)
Inspect ==
  /\ pc = "inspect"
  /\ IF gi < Len(keep_fds)
     THEN LET fd == keep_fds[gi + 1] IN
          /\ max_keep_fd' = IF fd > max_keep_fd THEN fd ELSE max_keep_fd
          /\ fds_sorted' = (fds_sorted /\ ~OutOfOrder(fd))
          /\ last_fd' = fd
          /\ gi' = gi + 1
          /\ UNCHANGED pc
     ELSE /\ pc' = "simplify"
          /\ gi' = 0
          /\ UNCHANGED keepVars
  /\ UNCHANGED <<tableVars, iterVars, argVars, minfd, ki, rest, cacheVars,
                 kernel_has>>

(* minfd when the first element of the list is equal to it, and otherwise. *)
Simplified_Below(first) == IF first <= minfd THEN Incr(minfd) ELSE minfd

Simplified(first) == IF first = minfd THEN Incr(minfd) ELSE minfd

(* One iteration of the loop of simplify_keep_fds.                         *)
Simplify ==
  /\ pc = "simplify"
  /\ IF fds_sorted /\ ki < Len(keep_fds) /\ keep_fds[ki + 1] <= minfd
     THEN /\ minfd' = Simplified(keep_fds[ki + 1])
          /\ ki' = ki + 1
          /\ UNCHANGED pc
     ELSE /\ pc' = "shortcut"
          /\ UNCHANGED <<minfd, ki>>
  /\ UNCHANGED <<tableVars, iterVars, argVars, keepVars, gi, rest, cacheVars,
                 kernel_has>>

-----------------------------------------------------------------------------
(* closefrom() and close_range().                                          *)

Affect(S) == IF op = "close" THEN CloseAll(S) ELSE MarkAll(S)

(* One close_range(low, high) call; an empty range gives EINVAL.  On Linux *)
(* a failure is taken to mean that the call is not available; on FreeBSD a *)
(* call the kernel does not know kills the process.                        *)
CloseRange(low, high, okpc, errpc) ==
  \/ /\ kernel_has
     /\ low <= high
     /\ Affect({f \in Fd : low <= f /\ f <= high})
     /\ pc' = okpc
     /\ UNCHANGED may_have
  \/ /\ ~(kernel_has /\ low <= high)
     /\ pc' = IF os = "freebsd" /\ ~kernel_has THEN "killed" ELSE errpc
     /\ may_have' = (may_have /\ os # "linux")
     /\ UNCHANGED tableVars

(* check_has_close_range; the sysctl may fail.                             *)
CheckHas_Assume == has_range # 0 /\ has_range' = 1

CheckHas ==
  \/ has_range = 1 /\ UNCHANGED has_range
  \/ has_range = 2 /\ kernel_has /\ has_range' = 1

CheckHasNot ==
  \/ has_range = 0 /\ UNCHANGED has_range
  \/ has_range = 2 /\ has_range' = 0

(* All the kept descriptors are below minfd.                               *)
NothingAbove == max_keep_fd < minfd

HasClosefrom == op = "close" /\ os \in ClosefromOS

UsesRange == os = "linux" \/ (os = "freebsd" /\ op = "close")

(* The whole range in one call: closefrom() on the BSDs.                   *)
ShortcutClosefrom ==
  /\ pc = "shortcut"
  /\ HasClosefrom /\ NothingAbove
  /\ CloseAll({f \in Fd : f >= minfd})
  /\ pc' = "done"
  /\ UNCHANGED <<iterVars, argVars, keepVars, minfd, ki, gi, rest, cacheVars,
                 kernel_has>>

(* The whole range in one call: close_range() on Linux.                    *)
ShortcutRange ==
  /\ pc = "shortcut"
  /\ os = "linux" /\ may_have /\ NothingAbove
  /\ CloseRange(AsUint(minfd), UintMax, "done", "iter")
  /\ UNCHANGED <<iterVars, argVars, keepVars, minfd, ki, gi, rest, has_range,
                 kernel_has>>

(* The list is sorted: go through its gaps with apply_range.               *)
ShortcutGaps ==
  /\ pc = "shortcut"
  /\ UsesRange /\ fds_sorted /\ ~NothingAbove
  /\ IF os = "linux" THEN may_have /\ UNCHANGED has_range ELSE CheckHas
  /\ pc' = "skip"
  /\ UNCHANGED <<tableVars, iterVars, argVars, keepVars, minfd, ki, gi, rest,
                 may_have, kernel_has>>

(* Every other case is Err, or there is no shortcut: iterate.              *)
ShortcutNone ==
  /\ pc = "shortcut"
  /\ ~(HasClosefrom /\ NothingAbove)
  /\ \/ os = "linux" /\ ~may_have /\ UNCHANGED has_range
     \/ UsesRange /\ ~NothingAbove /\ ~fds_sorted /\ UNCHANGED has_range
     \/ os = "freebsd" /\ op = "close" /\ fds_sorted /\ CheckHasNot
     \/ ~UsesRange /\ UNCHANGED has_range
  /\ pc' = "iter"
  /\ UNCHANGED <<tableVars, iterVars, argVars, keepVars, minfd, ki, gi, rest,
                 may_have, kernel_has>>

-----------------------------------------------------------------------------
(* apply_range: try_close_range() or set_cloexec_range() on each gap.      *)

applyUnchanged == UNCHANGED <<iterVars, argVars, keepVars, minfd, ki, rest,
                              has_range, kernel_has>>

(* Skip what is below minfd; gi is then the first element that is not.     *)
GapsSkip ==
  /\ pc = "skip"
  /\ LET above == {i \in (ki + 1)..Len(keep_fds) : keep_fds[i] >= minfd} IN
       \/ \E i \in above :
            /\ \A j \in above : i <= j
            /\ gi' = i
            /\ pc' = "first"
            /\ UNCHANGED <<tableVars, may_have>>
       \/ /\ above = {}
          /\ CloseRange(AsUint(minfd), IntMax, "done", "iter")
          /\ UNCHANGED gi
  /\ applyUnchanged

(* The upper end of the gap before the kept descriptor high.               *)
GapEnd(high) == high - 1

GapsFirst ==
  /\ pc = "first"
  /\ IF keep_fds[gi] > minfd
     THEN CloseRange(AsUint(minfd), GapEnd(keep_fds[gi]), "gap", "iter")
     ELSE pc' = "gap" /\ UNCHANGED <<tableVars, may_have>>
  /\ UNCHANGED gi
  /\ applyUnchanged

(* There is something between two kept descriptors.                        *)
IsGap_Adjacent(low, high) == high - low >= 1

IsGap_Wide(low, high) == high - low > 2

IsGap(low, high) == high - low >= 2

GapsNext ==
  /\ pc = "gap"
  /\ gi < Len(keep_fds)
  /\ LET low == keep_fds[gi]
         high == keep_fds[gi + 1]
     IN  IF IsGap(low, high)
         THEN CloseRange(low + 1, GapEnd(high), "gap", "iter")
         ELSE UNCHANGED <<pc, tableVars, may_have>>
  /\ gi' = gi + 1
  /\ applyUnchanged

(* The open end after the last kept descriptor; its + 1 wraps at c_int::MAX. *)
GapsLast ==
  /\ pc = "gap"
  /\ gi = Len(keep_fds)
  /\ CloseRange(AsUint(Incr(keep_fds[gi])), IntMax, "done", "iter")
  /\ UNCHANGED gi
  /\ applyUnchanged

-----------------------------------------------------------------------------
(* The iteration.                                                          *)

localUnchanged == UNCHANGED <<argVars, keepVars, minfd, gi, cacheVars, kernel_has>>

(* closefrom on the BSDs asks for threadsafe(true).                        *)
StartIter ==
  /\ pc = "iter"
  /\ IterFrom(minfd, TRUE, threadsafe \/ HasClosefrom, allow_fs)
  /\ pc' = "loop"
  /\ UNCHANGED <<ki, rest>>
  /\ localUnchanged

AskNext ==
  /\ pc = "loop"
  /\ CallNext
  /\ pc' = "wait"
  /\ UNCHANGED <<ki, rest>>
  /\ localUnchanged

RunIter ==
  /\ IterStep
  /\ UNCHANGED callVars

(* The slice check_should_keep leaves is the list from index k on: the     *)
(* first element not below fd comes first, if there is one.                *)
SkipsTo_Blind(k, fd) ==
  k = IF fds_sorted /\ ki < Len(keep_fds) THEN ki + 1 ELSE ki

SkipsTo(k, fd) ==
  \/ /\ fds_sorted
     /\ k < Len(keep_fds)
     /\ keep_fds[k + 1] >= fd
     /\ \A j \in (ki + 1)..k : keep_fds[j] < fd
  \/ /\ ~fds_sorted \/ \A j \in (ki + 1)..Len(keep_fds) : keep_fds[j] < fd
     /\ k = ki

(* check_should_keep on the slice from index k on.                         *)
ShouldKeep(k, fd) ==
  IF fds_sorted
  THEN k < Len(keep_fds) /\ keep_fds[k + 1] = fd
  ELSE fd \in Slice

(* next() returned None: the loop is over.                                 *)
LoopOver ==
  /\ pc = "wait" /\ itpc = "idle" /\ item = None
  /\ pc' = "drop"
  /\ UNCHANGED <<tableVars, iterVars, ki, rest>>
  /\ localUnchanged

(* close(fd), or the first call of set_cloexec(fd): F_GETFD.               *)
Apply(fd) ==
  IF op = "close"
  THEN CloseAll({fd}) /\ pc' = "loop"
  ELSE /\ pc' = IF fd \in open \ cloexec THEN "setfd" ELSE "loop"
       /\ UNCHANGED tableVars

(* next() returned a descriptor: it starts the rest, or is kept, or not.   *)
GotFd ==
  /\ pc = "wait" /\ itpc = "idle" /\ item # None
  /\ ~rest
  /\ IF item > max_keep_fd
     THEN pc' = "rest" /\ UNCHANGED <<tableVars, ki>>
     ELSE /\ \E k \in ki..Len(keep_fds) : SkipsTo(k, item) /\ ki' = k
          /\ IF ShouldKeep(ki', item)
             THEN pc' = "loop" /\ UNCHANGED tableVars
             ELSE Apply(item)
  /\ UNCHANGED <<iterVars, rest>>
  /\ localUnchanged

(* The second call of set_cloexec, on whatever has that number by now.     *)
SetFd ==
  /\ pc = "setfd"
  /\ MarkAll({item})
  /\ pc' = "loop"
  /\ UNCHANGED <<iterVars, ki, rest>>
  /\ localUnchanged

-----------------------------------------------------------------------------
(* close_rest and set_cloexec_rest, called with the descriptor item.       *)

(* The BSDs drop the iterator, then call closefrom().                      *)
RestDrop ==
  /\ pc = "rest"
  /\ HasClosefrom
  /\ Drop
  /\ pc' = "closefrom"
  /\ UNCHANGED <<ki, rest>>
  /\ localUnchanged

(* Where the closefrom() of close_rest begins.                             *)
RestFrom_Next == item + 1

RestFrom == item

RestClosefrom ==
  /\ pc = "closefrom"
  /\ CloseAll({f \in Fd : f >= RestFrom})
  /\ pc' = "done"
  /\ UNCHANGED <<iterVars, ki, rest>>
  /\ localUnchanged

(* Linux tries close_range() before the iterator is dropped.               *)
RestRange ==
  /\ pc = "rest"
  /\ os = "linux" /\ may_have
  /\ CloseRange(AsUint(item), UintMax, "drop", "restfd")
  /\ UNCHANGED <<iterVars, argVars, keepVars, minfd, ki, gi, rest, has_range,
                 kernel_has>>

(* Neither: item first, then whatever the iterator still returns.          *)
RestLoop ==
  /\ \/ pc = "rest" /\ ~HasClosefrom /\ ~(os = "linux" /\ may_have)
     \/ pc = "restfd"
  /\ Apply(item)
  /\ rest' = TRUE
  /\ UNCHANGED <<iterVars, ki>>
  /\ localUnchanged

GotRest ==
  /\ pc = "wait" /\ itpc = "idle" /\ item # None
  /\ rest
  /\ Apply(item)
  /\ UNCHANGED <<iterVars, ki, rest>>
  /\ localUnchanged

(* The iterator goes out of scope.                                         *)
DropIter ==
  /\ pc = "drop"
  /\ Drop
  /\ pc' = "done"
  /\ UNCHANGED <<ki, rest>>
  /\ localUnchanged

-----------------------------------------------------------------------------
(* The rest of the program, which leaves a closefrom call alone.           *)
Environment ==
  /\ Threads /\ op = "cloexec" /\ pc # "start"
  /\ Others
  /\ UNCHANGED callVars

(* A seccomp filter starts to refuse close_range().                        *)
Revoke ==
  /\ MayRevoke /\ os = "linux" /\ kernel_has
  /\ kernel_has' = FALSE
  /\ UNCHANGED <<tableVars, iterVars, pc, argVars, keepVars, minfd, ki, gi, rest,
                 cacheVars>>

(* The call has returned, or the process is gone.                          *)
Finished ==
  /\ pc \in {"done", "killed"}
  /\ UNCHANGED vars

Step ==
  \/ Inspect \/ Simplify
  \/ ShortcutClosefrom \/ ShortcutRange \/ ShortcutGaps \/ ShortcutNone
  \/ GapsSkip \/ GapsFirst \/ GapsNext \/ GapsLast
  \/ StartIter \/ AskNext \/ RunIter \/ LoopOver \/ GotFd \/ SetFd
  \/ RestDrop \/ RestClosefrom \/ RestRange \/ RestLoop \/ GotRest \/ DropIter

Next ==
  \/ \E o \in Ops, m \in MinFds, keep \in KeepLists,
        given \in {"none", "keep", "sorted"} : Call(o, m, keep, given)
  \/ Step
  \/ Environment
  \/ Revoke
  \/ Finished

(* The caches hold what earlier calls and probes may have found out.       *)
CacheInit ==
  /\ kernel_has \in IF os \in {"linux", "freebsd"} THEN BOOLEAN ELSE {FALSE}
  /\ may_have \in MayHaveValues(os, kernel_has)
  /\ has_range \in HasRangeValues(os, kernel_has)

Init ==
  /\ TableInit /\ IterInit /\ CacheInit
  /\ pc = "start"
  /\ op = "close" /\ keep_fds = <<>> /\ threadsafe = FALSE /\ allow_fs = TRUE
  /\ arg_minfd = 0 /\ minfd = 0
  /\ max_keep_fd = -1 /\ fds_sorted = TRUE /\ last_fd = IntMin
  /\ ki = 0 /\ gi = 0 /\ rest = FALSE

(* A call that has begun keeps running.                                    *)
Spec == Init /\ [][Next]_vars /\ WF_vars(Step)

-----------------------------------------------------------------------------
(* Properties.                                                             *)

CloseTypeOK ==
  /\ IterTypeOK
  /\ pc \in Pcs
  /\ op \in {"close", "cloexec"}
  /\ keep_fds \in Seq(IntMin..IntMax)
  /\ threadsafe \in BOOLEAN /\ allow_fs \in BOOLEAN
  /\ arg_minfd \in 0..IntMax
  /\ max_keep_fd \in IntMin..IntMax
  /\ fds_sorted \in BOOLEAN
  /\ last_fd \in IntMin..IntMax
  /\ minfd \in IntMin..IntMax
  /\ ki \in 0..Len(keep_fds)
  /\ gi \in 0..Len(keep_fds)
  /\ rest \in BOOLEAN
  /\ may_have \in BOOLEAN /\ has_range \in {0, 1, 2} /\ kernel_has \in BOOLEAN

(* The descriptors the caller asked to leave alone.                        *)
Protected(f) == f < arg_minfd \/ f \in KeepSet

(* The crate never closes a descriptor below minfd or in the keep list,    *)
(* nor touches its close-on-exec flag, on any path: shortcut, gaps,        *)
(* iteration, rest, or a shortcut that failed half-way.                    *)
KeepsProtected ==
  [][theirs' = theirs =>
       \A f \in theirs : Protected(f) =>
          /\ f \in open <=> f \in open'
          /\ f \in cloexec <=> f \in cloexec']_vars

Handled(f) == IF op = "close" THEN f \notin open ELSE f \in cloexec

(* When the call returns, every other descriptor that was there all the    *)
(* time is closed (or marked), except beyond the maxfd of sysconf() and    *)
(* after an open() during the nfds scan.                                   *)
TargetsHandled ==
  pc = "done" =>
    \A f \in steady : Protected(f) \/ Handled(f) \/ Excused(f)

(* The directory of the iterator is no descriptor of the program, even     *)
(* where it got the number of one that closefrom has closed.               *)
OfProgram(S) == (S \cap theirs) \ IF op = "close" THEN {dirfd} ELSE {}

(* The promise of CloseCall, for the descriptors of the program.           *)
Promise == INSTANCE CloseCall WITH
  Floor <- OpenMaxFloor,
  phase <- CASE pc = "start" -> "start"
             [] pc = "done" -> "returned"
             [] OTHER -> "running",
  request <- op,
  kept <- {f \in Fd : Protected(f)},
  held <- OfProgram(open),
  marked <- OfProgram(cloexec),
  due <- steady,
  bounded <- how = "sysconf",
  disturbed <- raced

(* The call keeps the promise: no step of any method closes or marks what  *)
(* is to be kept, and it does not return before everything is dealt with.  *)
KeepsPromise == Promise!Promised

(* The directory descriptor is closed when the call returns, by the drop   *)
(* or by close_range() itself.                                             *)
CloseNoLeak == pc = "done" => open \subseteq theirs

(* cloexecfrom never closes a descriptor of other code.                    *)
CloexecClosesNothing == op = "cloexec" => theirs \subseteq open

(* FreeBSD: close_range() is never called on a kernel without it, which    *)
(* would kill the process with SIGSYS.                                     *)
NoSigsys == pc # "killed"

(* The cached "not available" and "available" are right about the kernel:  *)
(* no call with a bad range makes close_range() look unavailable.          *)
CacheTruthful ==
  /\ ~may_have => ~kernel_has
  /\ has_range = 1 => kernel_has

(* inspect_keep_fds finds the maximum, and finds out whether the list is   *)
(* sorted (or the caller's word for it is right).  Only of an empty list   *)
(* is the maximum a number that is not in it, and then it is negative.     *)
InspectCorrect ==
  pc \notin {"start", "inspect"} =>
    /\ fds_sorted <=> InOrder(keep_fds)
    /\ \A f \in KeepSet : f <= max_keep_fd
    /\ \/ max_keep_fd \in KeepSet
       \/ keep_fds = <<>> /\ max_keep_fd \in {-1, IntMin}

(* simplify_keep_fds: the list and minfd it leaves name the same           *)
(* descriptors to close as the ones that were given.                       *)
SimplifyCorrect ==
  pc = "shortcut" =>
    \A f \in 0..IntMax : Protected(f) <=> f < minfd \/ f \in Slice

(* The debug_assert!s of close_fds_shortcut, apply_range and               *)
(* try_close_range.                                                        *)
CloseAsserts ==
  /\ pc = "skip" => Slice # {}
  /\ pc = "gap" /\ gi < Len(keep_fds) => keep_fds[gi] <= keep_fds[gi + 1]
  /\ pc = "gap" /\ gi = Len(keep_fds) => keep_fds[gi] < IntMax
  /\ pc \in {"skip", "first", "gap"} /\ os = "freebsd" => has_range = 1

(* A bound for the steps of the iteration: one round for each item that    *)
(* the iterator may still go through.                                      *)
RoundMost == CallMost + 7

IterationMost == (DirMost + IntMax + 2) * RoundMost

RoundLeft ==
  CASE pc = "loop" -> CallMost + 2 + CallLeft
    [] pc = "setfd" -> CallMost + 3
    [] pc = "restfd" -> CallMost + 4
    [] pc = "rest" -> CallMost + 5
    [] pc = "wait" /\ itpc = "idle" /\ item # None -> CallMost + 6
    [] pc = "wait" /\ ~(itpc = "idle" /\ item # None) -> 2 + CallLeft

(* A bound for the steps of the call that are still to come.               *)
Rank ==
  CASE pc \in {"start", "done", "killed"} -> 0
    [] pc \in {"closefrom", "drop"} -> 1
    [] pc \in {"loop", "wait", "rest", "restfd", "setfd"} ->
         ItemsLeft * RoundMost + RoundLeft
    [] pc = "iter" -> IterationMost
    [] pc = "gap" -> IterationMost + 1 + (Len(keep_fds) - gi)
    [] pc = "first" -> IterationMost + 2 + Len(keep_fds)
    [] pc = "skip" -> IterationMost + 3 + Len(keep_fds)
    [] pc = "shortcut" -> IterationMost + 4 + Len(keep_fds)
    [] pc = "simplify" -> IterationMost + 5 + 2 * Len(keep_fds) - ki
    [] pc = "inspect" -> IterationMost + 6 + 3 * Len(keep_fds) - gi

(* A call takes a bounded number of steps, on every path and whatever the  *)
(* rest of the program does: each step that changes anything lowers Rank,  *)
(* which only the call itself can change.                                  *)
CallVariant ==
  [][pc # "start" =>
       /\ 0 <= Rank'
       /\ \/ Rank' < Rank
          \/ Rank' = Rank /\ (Environment \/ Revoke)
    ]_vars

(* Every call returns.                                                     *)
Terminates == (pc # "start") ~> (pc = "done")

(* What the README says of the sysconf() loop: "it will always work".      *)
AlwaysWorks ==
  pc = "done" => \A f \in steady : Protected(f) \/ Handled(f)

(* What the README says of minfd: lower descriptors are left open.         *)
BelowMinfdOpen == \A f \in steady : f < arg_minfd => f \in open

=============================================================================
