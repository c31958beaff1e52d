-------------------------- MODULE CloseShapeProofs --------------------------
(***************************************************************************)
(* The course of a call, for every value of the constants but one: no keep *)
(* list contains c_int::MAX.  With such a list the "+ 1" of                *)
(* simplify_keep_fds and apply_range overflows, as the runs close_overflow *)
(* and close_cache show.                                                   *)
(***************************************************************************)
EXTENDS CloseFdsProofs

USE ZenonT(30)

BelowIntMax == KeepLists \subseteq Seq(IntMin..(IntMax - 1))

-----------------------------------------------------------------------------
(* simplify_keep_fds.                                                      *)

Before == {"start", "inspect", "simplify", "shortcut", "skip", "first", "gap", "iter"}

(* The kept descriptors are split between minfd and the slice.             *)
MinInv ==
  /\ IntMax \notin KeepSet
  /\ arg_minfd <= minfd
  /\ \A f \in arg_minfd..(minfd - 1) : f \in KeepSet
  /\ pc \in {"start", "inspect"} => minfd = arg_minfd /\ ki = 0
  /\ ~fds_sorted => minfd = arg_minfd /\ ki = 0
  /\ pc \in Before => \A j \in 1..ki : keep_fds[j] < minfd
  /\ pc \in Before \ {"start", "inspect", "simplify"} /\ fds_sorted /\ ki < Len(keep_fds)
       => keep_fds[ki + 1] > minfd

LEMMA CallTypes ==
  ASSUME CallInv
  PROVE  /\ ArgTypeOK
         /\ op \in {"close", "cloexec"}
         /\ arg_minfd \in Int /\ arg_minfd >= 0
         /\ minfd \in Int /\ minfd <= IntMax
         /\ max_keep_fd \in Int /\ fds_sorted \in BOOLEAN
         /\ Len(keep_fds) \in Nat /\ ki \in 0..Len(keep_fds) /\ gi \in 0..Len(keep_fds)
         /\ IterTypeOK /\ pc \in Pcs
         /\ open \subseteq Fd /\ open \subseteq Int
<1>1. CloseTypeOK
  BY DEF CallInv, CloseTypeInv
<1>2. ArgTypeOK /\ IterTypeOK /\ open \subseteq Fd
  BY <1>1 DEF CloseTypeOK, ArgTypeOK, IterTypeOK, TableTypeOK
<1>3. open \subseteq Int
  BY SMTT(30), <1>2, FdTableAssumption DEF Fd
<1>4. arg_minfd \in Int /\ arg_minfd >= 0 /\ minfd \in Int /\ minfd <= IntMax
      /\ max_keep_fd \in Int
  BY SMTT(30), <1>1, FdTableAssumption DEF CloseTypeOK, IntMin
<1>5. Len(keep_fds) \in Nat
  BY <1>2, KeepElements
<1> QED BY <1>1, <1>2, <1>3, <1>4, <1>5 DEF CloseTypeOK

LEMMA EmptyInterval ==
  ASSUME NEW x \in Int
  PROVE  x..(x - 1) = {}
BY SMTT(30)

LEMMA Above ==
  ASSUME NEW a \in Int, NEW b \in Int, NEW c \in Int, a >= b, c <= b
  PROVE  a < a + 1 /\ a >= c
BY SMTT(30)

LEMMA MinCall ==
  ASSUME BelowIntMax, CallInv, CallInv', MinInv, Calls
  PROVE  MinInv'
<1>1. PICK o \in Ops, m \in MinFds, keep \in KeepLists,
           given \in {"none", "keep", "sorted"} : Call(o, m, keep, given)
  BY DEF Calls
<1>2. keep_fds' = keep /\ minfd' = arg_minfd' /\ ki' = 0 /\ pc' \in {"inspect", "simplify"}
      /\ fds_sorted'
  <2>1. pc = "start" /\ keep_fds' = keep /\ minfd' = arg_minfd' /\ ki' = ki
        /\ pc' \in {"inspect", "simplify"} /\ fds_sorted'
    BY <1>1 DEF Call
  <2>2. ki = 0
    BY <2>1 DEF MinInv
  <2> QED BY <2>1, <2>2
<1>3. arg_minfd' \in Int
  BY SMTT(30), FdTableAssumption DEF CallInv, CloseTypeInv, CloseTypeOK
<1>4. IntMax \notin KeepSet'
  <2>1. keep \in Seq(IntMin..(IntMax - 1)) /\ DOMAIN keep = 1..Len(keep)
    BY SMTT(30) DEF BelowIntMax
  <2>2. \A i \in 1..Len(keep) : keep[i] \in IntMin..(IntMax - 1)
    BY <2>1, SeqElement
  <2>3. KeepSet' = {keep[i] : i \in 1..Len(keep)}
    BY <1>2, <2>1 DEF KeepSet, Values
  <2>4. IntMax \notin IntMin..(IntMax - 1)
    BY SMTT(30), FdTableAssumption DEF IntMin
  <2> QED BY <2>2, <2>3, <2>4
<1>5. arg_minfd' <= minfd' /\ \A f \in arg_minfd'..(minfd' - 1) : f \in KeepSet'
  <2>1. minfd' = arg_minfd'
    BY <1>2
  <2>2. arg_minfd' <= minfd'
    BY SMTT(30), <1>3, <2>1
  <2>3. arg_minfd'..(minfd' - 1) = {}
    BY <1>3, <2>1, EmptyInterval
  <2> QED BY <2>2, <2>3
<1>6. \A j \in 1..ki' : keep_fds'[j] < minfd'
  BY SMTT(30), <1>2
<1> QED BY <1>2, <1>4, <1>5, <1>6 DEF MinInv

LEMMA MinSimplify ==
  ASSUME CallInv, MinInv, Simplify
  PROVE  MinInv'
<1>1. ArgTypeOK /\ arg_minfd \in Int /\ arg_minfd >= 0 /\ minfd \in Int /\ minfd <= IntMax
      /\ ki \in 0..Len(keep_fds) /\ Len(keep_fds) \in Nat /\ fds_sorted \in BOOLEAN
  BY CallTypes
<1>2. UNCHANGED <<arg_minfd, keep_fds, fds_sorted, KeepSet>> /\ pc = "simplify"
  BY DEF Simplify, argVars, keepVars, KeepSet
<1>3. CASE fds_sorted /\ ki < Len(keep_fds) /\ keep_fds[ki + 1] <= minfd
  <2>1. minfd' = Simplified(keep_fds[ki + 1]) /\ ki' = ki + 1 /\ pc' = "simplify"
    BY <1>2, <1>3 DEF Simplify
  <2>2. ki + 1 \in 1..Len(keep_fds) /\ keep_fds[ki + 1] \in Int /\ keep_fds[ki + 1] \in KeepSet
    BY SMTT(30), <1>1, <1>3, KeepElements
  <2>3. minfd' = IF keep_fds[ki + 1] = minfd THEN minfd + 1 ELSE minfd
    BY <1>1, <2>1, <2>2 DEF Simplified, Incr, MinInv
  <2>4. minfd' \in Int /\ minfd <= minfd' /\ keep_fds[ki + 1] < minfd'
    BY SMTT(30), <1>1, <1>3, <2>2, <2>3
  <2>5. \A f \in arg_minfd..(minfd' - 1) : f \in KeepSet
    <3> SUFFICES ASSUME NEW f \in arg_minfd..(minfd' - 1) PROVE f \in KeepSet
      OBVIOUS
    <3>1. f \in arg_minfd..(minfd - 1) \/ f = keep_fds[ki + 1]
      BY SMTT(30), <1>1, <2>3, <2>4
    <3> QED BY <2>2, <3>1 DEF MinInv
  <2>6. \A j \in 1..(ki + 1) : keep_fds[j] < minfd'
    <3> SUFFICES ASSUME NEW j \in 1..(ki + 1) PROVE keep_fds[j] < minfd'
      OBVIOUS
    <3>1. CASE j = ki + 1
      BY <2>4, <3>1
    <3>2. CASE j \in 1..ki
      <4>1. keep_fds[j] < minfd /\ keep_fds[j] \in Int
        BY SMTT(30), <1>1, <1>2, <3>2, KeepElements DEF MinInv, Before
      <4> QED BY SMTT(30), <1>1, <2>4, <4>1
    <3> QED BY SMTT(30), <1>1, <3>1, <3>2
  <2>7. arg_minfd <= minfd'
    BY SMTT(30), <1>1, <2>4 DEF MinInv
  <2> QED BY <1>2, <1>3, <2>1, <2>5, <2>6, <2>7 DEF MinInv
<1>4. CASE ~(fds_sorted /\ ki < Len(keep_fds) /\ keep_fds[ki + 1] <= minfd)
  <2>1. pc' = "shortcut" /\ UNCHANGED <<minfd, ki>>
    BY <1>4 DEF Simplify
  <2>2. fds_sorted /\ ki < Len(keep_fds) => keep_fds[ki + 1] > minfd
    <3> SUFFICES ASSUME fds_sorted, ki < Len(keep_fds) PROVE keep_fds[ki + 1] > minfd
      OBVIOUS
    <3>1. keep_fds[ki + 1] \in Int
      BY SMTT(30), <1>1, KeepElements
    <3> QED BY SMTT(30), <1>1, <1>4, <3>1
  <2> QED BY <1>2, <2>1, <2>2 DEF MinInv, Before
<1> QED BY <1>3, <1>4

(* The call does not go back.                                              *)
LEMMA NoWayBack ==
  ASSUME [Next]_vars
  PROVE  /\ pc \notin Before => pc' \notin Before
         /\ pc \notin {"start", "inspect"} => pc' \notin {"start", "inspect"}
         /\ pc \notin {"start", "inspect", "simplify"} => pc' \notin {"start", "inspect", "simplify"}
<1> USE DEF Before
<1>1. CASE Calls \/ Inspect \/ Simplify
  BY <1>1 DEF Calls, Call, Inspect, Simplify
<1>2. CASE ShortcutClosefrom \/ ShortcutRange \/ ShortcutGaps \/ ShortcutNone
  BY <1>2
  DEF ShortcutClosefrom, ShortcutRange, ShortcutGaps, ShortcutNone, CloseRange
<1>3. CASE GapsSkip \/ GapsFirst \/ GapsNext \/ GapsLast
  BY <1>3 DEF GapsSkip, GapsFirst, GapsNext, GapsLast, CloseRange
<1>4. CASE LoopOver \/ GotFd \/ SetFd \/ RestLoop \/ GotRest
  BY <1>4 DEF LoopOver, GotFd, SetFd, RestLoop, GotRest, Apply
<1>5. CASE RestClosefrom \/ RestRange
  BY <1>5 DEF RestClosefrom, RestRange, CloseRange
<1>6. CASE StartIter \/ AskNext \/ RestDrop \/ DropIter
  BY <1>6 DEF StartIter, AskNext, RestDrop, DropIter
<1>7. CASE Aside
  BY <1>7, AsideFrame
<1> QED
  BY <1>1, <1>2, <1>3, <1>4, <1>5, <1>6, <1>7, StepKinds
  DEF Outside, Inside, Aside

LEMMA MinNext ==
  ASSUME BelowIntMax, CallInv, CallInv', MinInv, [Next]_vars
  PROVE  MinInv'
<1>1. CASE pc = "start"
  <2>1. CASE Calls
    BY <2>1, MinCall
  <2>2. CASE Aside
    BY SMTT(30), <2>2, AsideFrame DEF MinInv, KeepSet, argVars, keepVars
  <2> QED BY <1>1, <2>1, <2>2, StepsAt
<1>2. CASE pc = "inspect"
  <2>1. UNCHANGED <<arg_minfd, keep_fds, minfd, KeepSet>>
    BY <1>2, Fixed DEF argVars, KeepSet
  <2>2. UNCHANGED ki /\ pc' \in {"inspect", "simplify"}
    BY <1>2, StepsAt, AsideFrame DEF Inspect
  <2>3. minfd = arg_minfd /\ ki = 0
    BY <1>2 DEF MinInv
  <2>4. arg_minfd \in Int
    BY CallTypes
  <2> QED BY SMTT(30), <2>1, <2>2, <2>3, <2>4 DEF MinInv
<1>3. CASE pc = "simplify"
  <2>1. CASE Simplify
    BY <2>1, MinSimplify
  <2>2. CASE Aside
    BY SMTT(30), <2>2, AsideFrame DEF MinInv, KeepSet, argVars, keepVars
  <2> QED BY <1>3, <2>1, <2>2, StepsAt
<1>4. CASE pc \notin {"start", "inspect", "simplify"}
  <2>1. UNCHANGED <<arg_minfd, keep_fds, minfd, KeepSet, fds_sorted>>
    BY <1>4, Fixed DEF argVars, keepVars, KeepSet
  <2>2. pc' \notin {"start", "inspect", "simplify"} /\ (pc' \in Before => pc \in Before)
    BY <1>4, NoWayBack
  <2>3. CASE pc # "wait"
    <3>1. UNCHANGED ki
      BY <1>4, <2>3, Fixed
    <3> QED BY <1>4, <2>1, <2>2, <3>1 DEF MinInv
  <2>4. CASE pc = "wait"
    <3>1. pc' \notin Before
      BY <2>4, NoWayBack DEF Before
    <3>2. ~fds_sorted => UNCHANGED ki
      <4>1. CASE GotFd
        BY <4>1 DEF GotFd, SkipsTo
      <4>2. CASE LoopOver \/ GotRest
        BY <4>2 DEF LoopOver, GotRest
      <4>3. CASE Aside
        BY <4>3, AsideFrame
      <4> QED BY <2>4, <4>1, <4>2, <4>3, StepsAt
    <3> QED BY <2>1, <2>2, <3>1, <3>2 DEF MinInv
  <2> QED BY <2>3, <2>4
<1> QED BY <1>1, <1>2, <1>3, <1>4

LEMMA MinInit == Init => MinInv
<1> SUFFICES ASSUME Init PROVE MinInv
  OBVIOUS
<1>1. keep_fds = <<>> /\ arg_minfd = 0 /\ minfd = 0 /\ ki = 0 /\ fds_sorted /\ pc = "start"
  BY DEF Init
<1>2. KeepSet = {}
  BY SMTT(30), <1>1 DEF KeepSet, Values
<1> QED BY SMTT(30), <1>1, <1>2 DEF MinInv

(* Below minfd everything is protected; above, the slice decides, as long  *)
(* as the iteration has not begun.                                         *)
LEMMA ProtectedSplit ==
  ASSUME CallInv, MinInv, NEW f \in Int
  PROVE  /\ f < minfd => Protected(f)
         /\ pc \in Before => (Protected(f) <=> f < minfd \/ f \in Slice)
<1>1. ArgTypeOK /\ arg_minfd \in Int /\ minfd \in Int /\ ki \in 0..Len(keep_fds)
      /\ Len(keep_fds) \in Nat
  BY CallTypes
<1>2. f < minfd => Protected(f)
  <2>1. f < arg_minfd \/ f \in arg_minfd..(minfd - 1) \/ ~(f < minfd)
    BY SMTT(30), <1>1
  <2> QED BY <2>1 DEF Protected, MinInv
<1>3. f \in Slice => f \in KeepSet
  BY SMTT(30), <1>1, KeepElements DEF Slice
<1>4. ASSUME pc \in Before, f \in KeepSet PROVE f < minfd \/ f \in Slice
  <2>1. PICK i \in 1..Len(keep_fds) : f = keep_fds[i]
    BY <1>1, <1>4, KeepElements
  <2>2. CASE i \in 1..ki
    BY <1>4, <2>1, <2>2 DEF MinInv
  <2>3. CASE i \in (ki + 1)..Len(keep_fds)
    BY <2>1, <2>3 DEF Slice
  <2> QED BY SMTT(30), <1>1, <2>2, <2>3
<1>5. f < arg_minfd => f < minfd
  BY SMTT(30), <1>1 DEF MinInv
<1> QED BY <1>2, <1>3, <1>4, <1>5 DEF Protected

(* simplify_keep_fds leaves the call with the same descriptors to close:   *)
(* for every minfd and every sorted or unsorted list.                      *)
THEOREM SimplifyKeepsMeaning ==
  ASSUME BelowIntMax
  PROVE  Spec => []SimplifyCorrect
<1> DEFINE I == CallInv /\ MinInv
<1>1. Init => I
  BY CallInvInit, MinInit
<1>2. I /\ [Next]_vars => I'
  BY CallInvNext, MinNext
<1>3. I => SimplifyCorrect
  BY SMTT(30), ProtectedSplit, FdTableAssumption DEF SimplifyCorrect, Before
<1> QED BY <1>1, <1>2, <1>3, PTL DEF Spec

-----------------------------------------------------------------------------
(* What the call knows while it iterates.                                  *)

(* What next() returned last.                                              *)
ItemInv ==
  /\ item # None => item \in yielded /\ item < curfd /\ item >= dir_minfd
  /\ itpc # "none" => dir_minfd = minfd
  /\ pc = "wait" /\ itpc = "idle" /\ item = None => ended

LEMMA ItemTypes ==
  ASSUME CallInv, ItemInv
  PROVE  /\ curfd \in Int /\ dir_minfd \in Int /\ dir_minfd <= curfd
         /\ yielded \subseteq Int
         /\ item # None => item \in Int /\ item >= 0 /\ item <= IntMax
         /\ None \notin Int
<1>1. IterTypeOK /\ Order
  BY DEF CallInv, CloseTypeInv, CloseTypeOK, ItInv
<1>2. curfd \in Int /\ dir_minfd \in Int /\ dir_minfd <= curfd
  BY SMTT(30), <1>1, FdTableAssumption DEF IterTypeOK, FieldTypeOK, Order
<1>3. yielded \subseteq 0..IntMax
  BY <1>1 DEF IterTypeOK, ControlTypeOK
<1>4. \A y \in 0..IntMax : y \in Int /\ y >= 0 /\ y <= IntMax
  BY SMTT(30), FdTableAssumption
<1> QED BY <1>2, <1>3, <1>4, FdIterAssumption DEF ItemInv

LEMMA ItemNext ==
  ASSUME CallInv, MinInv, ItemInv, [Next]_vars
  PROVE  ItemInv'
<1>1. curfd \in Int /\ dir_minfd \in Int /\ dir_minfd <= curfd /\ None \notin Int
      /\ yielded \subseteq Int /\ (item # None => item \in Int)
  BY ItemTypes
<1>2. IterTypeOK /\ DirControl /\ Order /\ PcIter
  BY DEF CallInv, CloseTypeInv, CloseTypeOK, ItInv
<1>3. CASE RunIter
  <2>1. UNCHANGED <<pc, minfd>> /\ itpc \notin {"none", "idle", "gone"}
    BY <1>3, IterStepPc DEF RunIter, callVars
  <2>2. (ItemStep \/ NoneStep \/ QuietStep) /\ UNCHANGED dir_minfd
    BY <1>2, <1>3, IterStepKinds DEF RunIter
  <2>3. CASE ItemStep
    <3>1. item' \in yielded' /\ item' # None
      BY <1>1, <2>3 DEF ItemStep
    <3>2. item' < curfd' /\ item' >= dir_minfd
      <4>1. item' \in Int /\ item' >= curfd /\ curfd' = item' + 1
        BY <2>3 DEF ItemStep
      <4>2. curfd \in Int /\ dir_minfd \in Int /\ dir_minfd <= curfd
        BY <1>1
      <4> QED BY <4>1, <4>2, Above
    <3> QED BY <2>1, <2>2, <3>1, <3>2 DEF ItemInv
  <2>4. CASE NoneStep
    BY <2>1, <2>2, <2>4 DEF ItemInv, NoneStep
  <2>5. CASE QuietStep
    <3>1. pc = "wait" => itpc' # "idle"
      BY <1>2, <2>5 DEF QuietStep, PcIter
    <3>2. item # None => item < curfd'
      BY SMTT(30), <1>1, <2>5 DEF QuietStep, ItemInv
    <3> QED BY <2>1, <2>2, <2>5, <3>1, <3>2 DEF ItemInv, QuietStep
  <2> QED BY <2>2, <2>3, <2>4, <2>5
<1>4. CASE StartIter
  <2>1. itpc = "none" /\ UNCHANGED <<item, yielded, ended, minfd>> /\ pc' = "loop"
        /\ dir_minfd' = StartFd(minfd)
    BY <1>4 DEF StartIter, IterFrom, localUnchanged, outVars
  <2>2. item = None
    BY <1>2, <2>1 DEF Order, ItemInv
  <2>3. StartFd(minfd) = minfd
    <3>1. minfd \in Int /\ minfd >= 0
      BY SMTT(30), CallTypes DEF MinInv
    <3> QED BY SMTT(30), <3>1 DEF StartFd
  <2> QED BY <2>1, <2>2, <2>3 DEF ItemInv
<1>5. CASE AskNext \/ RestDrop \/ DropIter
  <2>1. UNCHANGED <<item, yielded, ended, curfd, dir_minfd, minfd>> /\ itpc # "none"
        /\ itpc' # "idle"
    BY <1>5
    DEF AskNext, RestDrop, DropIter, CallNext, Drop, localUnchanged, outVars,
        fieldVars
  <2> QED BY <2>1 DEF ItemInv
<1>6. CASE Environment
  <2>1. UNCHANGED <<item, yielded, ended, curfd, dir_minfd, minfd, itpc, pc>>
    BY <1>6, OthersFrame DEF Environment, callVars, outVars, fieldVars
  <2> QED BY <2>1 DEF ItemInv
<1>7. CASE Outside
  <2>1. UNCHANGED <<item, yielded, ended, curfd, dir_minfd, itpc>>
    BY <1>7, OutsideFrame
    DEF CallInv, CloseTypeInv, CloseTypeOK, IterTypeOK, PcIter, iterVars,
        outVars, fieldVars
  <2>2. itpc = "none" \/ UNCHANGED minfd
    BY <1>2, Fixed DEF PcIter
  <2>3. pc' = "wait" => pc = "wait"
    <3>1. CASE Calls \/ Inspect \/ Simplify
      BY <3>1 DEF Calls, Call, Inspect, Simplify
    <3>2. CASE ShortcutClosefrom \/ ShortcutRange \/ ShortcutGaps \/ ShortcutNone
      BY <3>2
      DEF ShortcutClosefrom, ShortcutRange, ShortcutGaps, ShortcutNone,
          CloseRange
    <3>3. CASE GapsSkip \/ GapsFirst \/ GapsNext \/ GapsLast
      BY <3>3 DEF GapsSkip, GapsFirst, GapsNext, GapsLast, CloseRange
    <3>4. CASE LoopOver \/ GotFd \/ SetFd \/ RestLoop \/ GotRest
      BY <3>4 DEF LoopOver, GotFd, SetFd, RestLoop, GotRest, Apply
    <3>5. CASE RestClosefrom \/ RestRange
      BY <3>5 DEF RestClosefrom, RestRange, CloseRange
    <3>6. CASE Revoke \/ UNCHANGED vars
      BY <3>6 DEF Revoke, vars, callVars
    <3> QED BY <1>7, <3>1, <3>2, <3>3, <3>4, <3>5, <3>6 DEF Outside
  <2> QED BY <2>1, <2>2, <2>3 DEF ItemInv
<1> QED BY <1>3, <1>4, <1>5, <1>6, <1>7, StepKinds DEF Inside

(* The elements of a sorted list that were dropped are below whatever is   *)
(* to come; close_rest is entered above all of them.                       *)
Looping == {"loop", "wait", "setfd", "rest", "restfd"}

LoopInv ==
  /\ pc \in Before => ~rest
  /\ rest => curfd > max_keep_fd
  /\ pc \in {"rest", "restfd", "closefrom"} => item > max_keep_fd
  /\ pc = "setfd" => item \notin KeepSet
  /\ pc \in Looping /\ fds_sorted => \A j \in 1..ki : keep_fds[j] < curfd
  /\ pc = "wait" /\ itpc = "idle" /\ item # None =>
       /\ rest => item > max_keep_fd
       /\ fds_sorted => \A j \in 1..ki : keep_fds[j] < item

(* check_should_keep is right about a descriptor, although it looks only   *)
(* at the first element of what it leaves of a sorted list.                *)
LEMMA KeepDecision ==
  ASSUME ArgTypeOK, ki \in 0..Len(keep_fds), NEW fd \in Int, NEW k \in ki..Len(keep_fds),
         SkipsTo(k, fd), fds_sorted => InOrder(keep_fds),
         fds_sorted => \A j \in 1..ki : keep_fds[j] < fd,
         ~fds_sorted => ki = 0
  PROVE  /\ ShouldKeep(k, fd) <=> fd \in KeepSet
         /\ fds_sorted => \A j \in 1..k : keep_fds[j] < fd
<1>1. Len(keep_fds) \in Nat /\ ki \in Nat /\ k \in Nat /\ DOMAIN keep_fds = 1..Len(keep_fds)
      /\ \A i \in 1..Len(keep_fds) : keep_fds[i] \in Int /\ keep_fds[i] \in KeepSet
  BY SMTT(30), KeepElements
<1>2. CASE ~fds_sorted
  <2>1. Slice = KeepSet
    BY SMTT(30), <1>1, <1>2 DEF Slice, KeepSet, Values
  <2> QED BY <1>2, <2>1 DEF ShouldKeep
<1>3. CASE fds_sorted /\ k < Len(keep_fds) /\ keep_fds[k + 1] >= fd
           /\ \A j \in (ki + 1)..k : keep_fds[j] < fd
  <2>1. \A j \in 1..k : keep_fds[j] < fd
    <3> SUFFICES ASSUME NEW j \in 1..k PROVE keep_fds[j] < fd
      OBVIOUS
    <3>1. j \in 1..ki \/ j \in (ki + 1)..k
      BY SMTT(30), <1>1
    <3> QED BY <1>3, <3>1
  <2>2. k + 1 \in 1..Len(keep_fds)
    BY SMTT(30), <1>1, <1>3
  <2>3. keep_fds[k + 1] = fd => fd \in KeepSet
    BY <1>1, <2>2
  <2>4. ASSUME fd \in KeepSet PROVE keep_fds[k + 1] = fd
    <3>1. PICK i \in 1..Len(keep_fds) : fd = keep_fds[i]
      BY <2>4, KeepElements
    <3>2. ~(i \in 1..k)
      BY SMTT(30), <1>1, <2>1, <3>1
    <3>3. i = k + 1 \/ k + 1 < i
      BY SMTT(30), <1>1, <3>2
    <3>4. CASE k + 1 < i
      <4>1. keep_fds[k + 1] <= keep_fds[i]
        BY <1>1, <1>3, <2>2, <3>4 DEF InOrder
      <4>2. keep_fds[k + 1] \in Int
        BY <1>1, <2>2
      <4> QED BY SMTT(30), <1>3, <3>1, <4>1, <4>2
    <3> QED BY <3>1, <3>3, <3>4
  <2> QED BY <1>3, <2>1, <2>3, <2>4 DEF ShouldKeep
<1>4. CASE fds_sorted /\ k = ki /\ \A j \in (ki + 1)..Len(keep_fds) : keep_fds[j] < fd
  <2>1. \A j \in 1..Len(keep_fds) : keep_fds[j] < fd
    <3> SUFFICES ASSUME NEW j \in 1..Len(keep_fds) PROVE keep_fds[j] < fd
      OBVIOUS
    <3>1. j \in 1..ki \/ j \in (ki + 1)..Len(keep_fds)
      BY SMTT(30), <1>1
    <3> QED BY <1>4, <3>1
  <2>2. fd \notin KeepSet
    <3> SUFFICES ASSUME fd \in KeepSet PROVE FALSE
      OBVIOUS
    <3>1. PICK i \in 1..Len(keep_fds) : fd = keep_fds[i]
      BY KeepElements
    <3> QED BY SMTT(30), <2>1, <3>1
  <2>3. ~ShouldKeep(k, fd)
    <3> SUFFICES ASSUME k < Len(keep_fds), keep_fds[k + 1] = fd PROVE FALSE
      BY <1>4 DEF ShouldKeep
    <3>1. k + 1 \in 1..Len(keep_fds)
      BY SMTT(30), <1>1
    <3> QED BY SMTT(30), <2>1, <3>1
  <2> QED BY <1>4, <2>2, <2>3
<1> QED BY <1>2, <1>3, <1>4 DEF SkipsTo

LEMMA GotFdKeeps ==
  ASSUME CallInv, MinInv, ItemInv, LoopInv, GotFd, ~(item > max_keep_fd)
  PROVE  /\ ShouldKeep(ki', item) <=> item \in KeepSet
         /\ fds_sorted => \A j \in 1..ki' : keep_fds[j] < item
<1>1. ArgTypeOK /\ ki \in 0..Len(keep_fds) /\ pc = "wait" /\ itpc = "idle" /\ item # None
  BY CallTypes DEF GotFd
<1>2. item \in Int
  BY <1>1, ItemTypes
<1>3. PICK k \in ki..Len(keep_fds) : SkipsTo(k, item) /\ ki' = k
  BY DEF GotFd
<1>4. fds_sorted => InOrder(keep_fds)
  BY <1>1 DEF CallInv, InspectInv, InspectCorrect
<1>5. fds_sorted => \A j \in 1..ki : keep_fds[j] < item
  BY <1>1 DEF LoopInv
<1>6. ~fds_sorted => ki = 0
  BY DEF MinInv
<1> QED BY <1>1, <1>2, <1>3, <1>4, <1>5, <1>6, KeepDecision

(* Above the largest element nothing is kept.                              *)
LEMMA AboveMax ==
  ASSUME CallInv, pc \notin {"start", "inspect"}, NEW f \in Int, f > max_keep_fd
  PROVE  f \notin KeepSet
<1>1. ArgTypeOK /\ max_keep_fd \in Int
  BY CallTypes
<1>2. \A e \in KeepSet : e \in Int /\ e <= max_keep_fd
  BY <1>1, KeepElements DEF CallInv, InspectInv, InspectCorrect
<1> QED BY SMTT(30), <1>1, <1>2

LEMMA LoopBefore ==
  ASSUME CallInv, MinInv, LoopInv, pc \in Before, [Next]_vars
  PROVE  LoopInv'
<1>1. ~rest /\ itpc = "none" /\ pc # "wait" /\ pc \notin {"rest", "restfd"}
  BY DEF LoopInv, Before, CallInv, CloseTypeInv, PcIter
<1>2. ~rest'
  <2>1. CASE pc = "start"
    <3>1. CASE Calls
      BY SMTT(30), <1>1, <3>1 DEF Calls, Call
    <3>2. CASE Aside
      BY <1>1, <3>2, AsideFrame
    <3> QED BY <2>1, <3>1, <3>2, StepsAt
  <2>2. CASE pc # "start"
    BY <1>1, <2>2, Fixed
  <2> QED BY <2>1, <2>2
<1>3. CASE StartIter
  <2>1. UNCHANGED <<ki, keep_fds, fds_sorted>> /\ pc' = "loop" /\ curfd' = StartFd(minfd)
    BY <1>3 DEF StartIter, IterFrom, localUnchanged, argVars, keepVars
  <2>2. minfd \in Int /\ minfd >= 0
    BY SMTT(30), CallTypes DEF MinInv
  <2>3. curfd' = minfd
    BY SMTT(30), <2>1, <2>2 DEF StartFd
  <2>4. \A j \in 1..ki : keep_fds[j] < minfd
    BY DEF MinInv
  <2> QED BY <1>2, <2>1, <2>3, <2>4 DEF LoopInv
<1>4. CASE ~StartIter
  <2>1. pc' \in Before \cup {"done", "killed"}
    <3>1. CASE Calls \/ Inspect \/ Simplify
      BY <3>1 DEF Calls, Call, Inspect, Simplify, Before
    <3>2. CASE ShortcutClosefrom \/ ShortcutRange \/ ShortcutGaps \/ ShortcutNone
      BY <3>2
      DEF ShortcutClosefrom, ShortcutRange, ShortcutGaps, ShortcutNone,
          CloseRange, Before
    <3>3. CASE GapsSkip \/ GapsFirst \/ GapsNext \/ GapsLast
      BY <3>3 DEF GapsSkip, GapsFirst, GapsNext, GapsLast, CloseRange, Before
    <3>4. CASE Aside
      BY <3>4, AsideFrame
    <3> QED BY <1>4, <3>1, <3>2, <3>3, <3>4, StepsAt DEF Before
  <2> QED BY <1>2, <2>1 DEF LoopInv, Looping, Before
<1> QED BY <1>3, <1>4

LEMMA LoopRunIter ==
  ASSUME CallInv, MinInv, ItemInv, LoopInv, RunIter
  PROVE  LoopInv'
<1>1. curfd \in Int /\ max_keep_fd \in Int /\ None \notin Int
  BY CallTypes, ItemTypes
<1>2. UNCHANGED <<pc, rest, max_keep_fd, fds_sorted, ki, keep_fds, KeepSet>>
  BY DEF RunIter, callVars, argVars, keepVars, KeepSet
<1>3. pc \in {"loop", "wait"}
  <2>1. itpc \notin {"none", "idle", "gone"}
    BY IterStepPc DEF RunIter
  <2>2. PcIter /\ pc \in Pcs /\ pc # "killed"
    BY CallTypes DEF CallInv, CloseTypeInv, HasRangeInv
  <2> QED BY <2>1, <2>2 DEF PcIter, Pcs
<1>4. \A j \in 1..ki : keep_fds[j] \in Int
  BY SMTT(30), CallTypes, KeepElements
<1>5. ItemStep \/ NoneStep \/ QuietStep
  BY IterStepKinds DEF RunIter, CallInv, CloseTypeInv, CloseTypeOK, ItInv
<1>6. curfd' \in Int /\ curfd' >= curfd
  <2>1. CASE ItemStep
    <3>1. item' \in Int /\ item' >= curfd /\ curfd' = item' + 1
      BY <2>1 DEF ItemStep
    <3>2. \A x \in Int : x >= curfd => x + 1 \in Int /\ x + 1 >= curfd
      BY SMTT(30), <1>1
    <3> QED BY <3>1, <3>2
  <2>2. CASE NoneStep \/ QuietStep
    BY SMTT(30), <1>1, <2>2 DEF NoneStep, QuietStep
  <2> QED BY <1>5, <2>1, <2>2
<1>7. rest => curfd' > max_keep_fd
  BY SMTT(30), <1>1, <1>6 DEF LoopInv
<1>8. fds_sorted => \A j \in 1..ki : keep_fds[j] < curfd'
  BY SMTT(30), <1>1, <1>3, <1>4, <1>6 DEF LoopInv, Looping
<1>9. ASSUME pc = "wait", itpc' = "idle", item' # None
      PROVE  (rest => item' > max_keep_fd) /\ (fds_sorted => \A j \in 1..ki : keep_fds[j] < item')
  <2>1. ItemStep
    BY <1>5, <1>9 DEF NoneStep, QuietStep, CallInv, CloseTypeInv, PcIter
  <2>2. item' \in Int /\ item' >= curfd
    BY <2>1 DEF ItemStep
  <2>3. rest => item' > max_keep_fd
    BY SMTT(30), <1>1, <2>2 DEF LoopInv
  <2>4. fds_sorted => \A j \in 1..ki : keep_fds[j] < item'
    BY SMTT(30), <1>1, <1>4, <1>9, <2>2 DEF LoopInv, Looping
  <2> QED BY <2>3, <2>4
<1>10. pc \notin Before
  BY <1>3 DEF Before
<1> QED BY <1>2, <1>3, <1>7, <1>8, <1>9, <1>10 DEF LoopInv

LEMMA LoopGot ==
  ASSUME CallInv, MinInv, ItemInv, LoopInv, GotFd \/ GotRest \/ RestLoop
  PROVE  LoopInv'
<1>1. /\ UNCHANGED <<max_keep_fd, fds_sorted, keep_fds, KeepSet, curfd, item, itpc>>
      /\ item # None /\ pc \in {"wait", "rest", "restfd"}
  BY DEF GotFd, GotRest, RestLoop, localUnchanged, argVars, keepVars, KeepSet,
      iterVars, outVars, CallInv, CloseTypeInv, PcIter
<1>2. curfd \in Int /\ max_keep_fd \in Int /\ item \in Int /\ item < curfd
  BY <1>1, CallTypes, ItemTypes DEF ItemInv
<1>3. CASE GotFd /\ item > max_keep_fd
  <2>1. pc' = "rest" /\ UNCHANGED <<ki, rest>> /\ ~rest /\ pc = "wait"
    BY <1>3 DEF GotFd
  <2> QED BY <1>1, <1>3, <2>1 DEF LoopInv, Looping, Before
<1>4. CASE GotFd /\ ~(item > max_keep_fd)
  <2>1. /\ ShouldKeep(ki', item) <=> item \in KeepSet
        /\ fds_sorted => \A j \in 1..ki' : keep_fds[j] < item
    BY <1>4, GotFdKeeps
  <2>2. pc' \in {"loop", "setfd"} /\ ~rest' /\ (pc' = "setfd" => ~ShouldKeep(ki', item))
    BY <1>4 DEF GotFd, Apply
  <2>3. \A j \in 1..ki' : keep_fds[j] \in Int
    <3>1. ki' \in ki..Len(keep_fds) /\ ki \in 0..Len(keep_fds) /\ Len(keep_fds) \in Nat
      BY <1>4, CallTypes DEF GotFd
    <3> QED BY SMTT(30), <3>1, CallTypes, KeepElements
  <2>4. fds_sorted => \A j \in 1..ki' : keep_fds[j] < curfd
    BY SMTT(30), <1>2, <2>1, <2>3
  <2> QED BY <1>1, <2>1, <2>2, <2>4 DEF LoopInv, Looping, Before
<1>5. CASE GotRest \/ RestLoop
  <2>1. item > max_keep_fd /\ item \notin KeepSet
    <3>1. item > max_keep_fd
      BY <1>5 DEF GotRest, RestLoop, LoopInv
    <3> QED BY <1>1, <1>2, <3>1, AboveMax
  <2>2. pc' \in {"loop", "setfd"} /\ UNCHANGED ki
    BY <1>5 DEF GotRest, RestLoop, Apply
  <2>3. fds_sorted => \A j \in 1..ki : keep_fds[j] < curfd
    BY <1>1 DEF LoopInv, Looping
  <2>4. curfd > max_keep_fd
    BY SMTT(30), <1>2, <2>1
  <2> QED BY <1>1, <2>1, <2>2, <2>3, <2>4 DEF LoopInv, Looping, Before
<1> QED BY <1>3, <1>4, <1>5

LEMMA LoopNext ==
  ASSUME CallInv, MinInv, ItemInv, LoopInv, [Next]_vars
  PROVE  LoopInv'
<1>1. CASE pc \in Before
  BY <1>1, LoopBefore
<1>2. CASE RunIter
  BY <1>2, LoopRunIter
<1>3. CASE GotFd \/ GotRest \/ RestLoop
  BY <1>3, LoopGot
<1>4. CASE pc \notin Before /\ (Environment \/ Revoke \/ UNCHANGED vars)
  <2>1. UNCHANGED <<pc, rest, max_keep_fd, fds_sorted, ki, keep_fds, KeepSet>>
    BY <1>4, AsideFrame DEF Aside, argVars, keepVars, KeepSet
  <2>2. UNCHANGED <<curfd, item, itpc>>
    BY <1>4, OthersFrame DEF Environment, Revoke, vars, iterVars, outVars
  <2> QED BY <2>1, <2>2 DEF LoopInv
<1>5. CASE pc \notin Before /\ (AskNext \/ LoopOver \/ SetFd \/ RestDrop \/ RestClosefrom
                                \/ RestRange \/ DropIter)
  <2>1. UNCHANGED <<rest, max_keep_fd, fds_sorted, ki, keep_fds, KeepSet>>
    BY <1>5
    DEF AskNext, LoopOver, SetFd, RestDrop, RestClosefrom, RestRange, DropIter,
        localUnchanged, argVars, keepVars, KeepSet
  <2>2. UNCHANGED <<curfd, item>>
    BY <1>5
    DEF AskNext, LoopOver, SetFd, RestDrop, RestClosefrom, RestRange, DropIter,
        CallNext, Drop, iterVars, outVars
  <2>3. \/ pc' \in {"drop", "done", "killed"}
        \/ pc \in {"loop", "setfd"} /\ pc' \in {"wait", "loop"} /\ (pc' = "wait" => itpc' # "idle")
        \/ pc = "rest" /\ pc' \in {"closefrom", "restfd"}
    BY <1>5
    DEF AskNext, LoopOver, SetFd, RestDrop, RestClosefrom, RestRange, DropIter,
        CallNext, CloseRange
  <2> QED BY <1>5, <2>1, <2>2, <2>3 DEF LoopInv, Looping, Before
<1> QED BY <1>1, <1>2, <1>3, <1>4, <1>5, StepsAt, CallTypes
        DEF Before, Pcs, Aside

-----------------------------------------------------------------------------
(* apply_range.                                                            *)

GapInv ==
  /\ pc \in {"skip", "first", "gap"} => ~NothingAbove /\ fds_sorted
  /\ pc = "first" =>
       /\ gi \in (ki + 1)..Len(keep_fds) /\ keep_fds[gi] >= minfd
       /\ \A j \in 1..(gi - 1) : keep_fds[j] < minfd
  /\ pc = "gap" => gi >= 1 /\ keep_fds[gi] >= minfd

(* apply_range is entered with an element that is not below minfd.         *)
LEMMA SomeAbove ==
  ASSUME CallInv, MinInv, pc \in Before, ~NothingAbove, pc \notin {"start", "inspect"}
  PROVE  \E i \in (ki + 1)..Len(keep_fds) : keep_fds[i] >= minfd
<1>1. ArgTypeOK /\ arg_minfd \in Int /\ arg_minfd >= 0 /\ minfd \in Int /\ max_keep_fd \in Int
      /\ ki \in 0..Len(keep_fds) /\ Len(keep_fds) \in Nat
  BY CallTypes
<1>2. minfd >= 0 /\ max_keep_fd >= minfd
  BY SMTT(30), <1>1 DEF MinInv, NothingAbove
<1>3. max_keep_fd \in KeepSet
  <2>1. max_keep_fd # -1 /\ max_keep_fd # IntMin
    BY SMTT(30), <1>1, <1>2, FdTableAssumption DEF IntMin
  <2> QED BY <2>1 DEF CallInv, InspectInv, InspectCorrect
<1>4. PICK i \in 1..Len(keep_fds) : max_keep_fd = keep_fds[i]
  BY <1>1, <1>3, KeepElements
<1>5. ~(i \in 1..ki)
  BY SMTT(30), <1>1, <1>2, <1>4 DEF MinInv
<1>6. i \in (ki + 1)..Len(keep_fds)
  BY SMTT(30), <1>1, <1>5
<1> QED BY <1>2, <1>4, <1>6

LEMMA GapsFrame ==
  ASSUME GapsSkip \/ GapsFirst \/ GapsNext \/ GapsLast
  PROVE  /\ UNCHANGED <<iterVars, argVars, keepVars, keep_fds, max_keep_fd, fds_sorted, minfd,
                        ki, kernel_has, has_range>>
         /\ pc \in {"skip", "first", "gap"}
BY DEF GapsSkip, GapsFirst, GapsNext, GapsLast, applyUnchanged, argVars,
    keepVars

LEMMA GapsSkipFinds ==
  ASSUME CallInv, MinInv, GapInv, GapsSkip
  PROVE  /\ pc' = "first" /\ UNCHANGED <<tableVars, may_have>>
         /\ gi' \in (ki + 1)..Len(keep_fds) /\ keep_fds[gi'] >= minfd
         /\ \A j \in 1..(gi' - 1) : keep_fds[j] < minfd
<1> DEFINE above == {i \in (ki + 1)..Len(keep_fds) : keep_fds[i] >= minfd}
<1>1. ArgTypeOK /\ minfd \in Int /\ ki \in 0..Len(keep_fds) /\ Len(keep_fds) \in Nat
      /\ pc = "skip"
  BY CallTypes DEF GapsSkip
<1>2. above # {}
  BY <1>1, SomeAbove DEF GapInv, Before
<1>3. PICK i \in above : /\ \A j \in above : i <= j
                         /\ gi' = i
                         /\ pc' = "first"
                         /\ UNCHANGED <<tableVars, may_have>>
  BY <1>2 DEF GapsSkip
<1>4. i \in (ki + 1)..Len(keep_fds) /\ i \in Int /\ keep_fds[i] >= minfd
  BY SMTT(30), <1>1
<1>5. \A j \in (ki + 1)..Len(keep_fds) : keep_fds[j] >= minfd => i <= j
  BY <1>3
<1> HIDE DEF above
<1>6. ASSUME NEW j \in 1..(i - 1) PROVE keep_fds[j] < minfd
  <2>1. CASE j \in 1..ki
    BY <1>1, <2>1 DEF MinInv, Before
  <2>2. CASE j \in (ki + 1)..Len(keep_fds)
    <3>1. keep_fds[j] \in Int
      BY SMTT(30), <1>1, <2>2, KeepElements
    <3>2. ~(i <= j)
      BY SMTT(30), <1>4
    <3> QED BY SMTT(30), <1>1, <1>5, <2>2, <3>1, <3>2
  <2>3. j \in 1..ki \/ j \in (ki + 1)..Len(keep_fds)
    BY SMTT(30), <1>1, <1>4
  <2> QED BY <2>1, <2>2, <2>3
<1> QED BY <1>3, <1>4, <1>6

LEMMA Neighbours ==
  ASSUME CallInv, GapInv, pc = "gap", gi < Len(keep_fds)
  PROVE  /\ gi \in Int /\ gi >= 1
         /\ keep_fds[gi] \in Int /\ keep_fds[gi + 1] \in Int
         /\ keep_fds[gi] \in KeepSet /\ keep_fds[gi + 1] \in KeepSet
         /\ keep_fds[gi] <= keep_fds[gi + 1]
<1>1. ArgTypeOK /\ gi \in 0..Len(keep_fds) /\ Len(keep_fds) \in Nat /\ gi >= 1
  BY CallTypes DEF GapInv
<1>2. gi \in 1..Len(keep_fds) /\ gi + 1 \in 1..Len(keep_fds) /\ gi < gi + 1 /\ gi \in Int
  BY SMTT(30), <1>1
<1>3. InOrder(keep_fds)
  BY DEF GapInv, CallInv, InspectInv, InspectCorrect
<1>4. keep_fds[gi] <= keep_fds[gi + 1]
  BY <1>1, <1>2, <1>3, KeepElements DEF InOrder
<1> QED BY <1>1, <1>2, <1>4, KeepElements

LEMMA GapNext ==
  ASSUME CallInv, MinInv, GapInv, [Next]_vars
  PROVE  GapInv'
<1>1. CASE pc' \notin {"skip", "first", "gap"}
  BY <1>1 DEF GapInv
<1>2. CASE ShortcutGaps
  BY <1>2 DEF ShortcutGaps, NothingAbove, GapInv, keepVars
<1>3. CASE GapsSkip
  BY <1>3, GapsFrame, GapsSkipFinds DEF GapInv, NothingAbove
<1>4. CASE GapsFirst /\ pc' = "gap"
  <2>1. pc = "first" /\ UNCHANGED gi
    BY <1>4 DEF GapsFirst
  <2>2. gi >= 1
    BY SMTT(30), <2>1, CallTypes DEF GapInv
  <2> QED BY <1>4, <2>1, <2>2, GapsFrame DEF GapInv, NothingAbove
<1>5. CASE GapsNext /\ pc' = "gap"
  <2>1. pc = "gap" /\ gi < Len(keep_fds) /\ gi' = gi + 1
    BY <1>5 DEF GapsNext
  <2>2. minfd \in Int /\ keep_fds[gi] >= minfd
    BY <2>1, CallTypes DEF GapInv
  <2>3. gi + 1 >= 1 /\ keep_fds[gi + 1] >= minfd
    BY SMTT(30), <2>1, <2>2, Neighbours
  <2> QED BY <1>5, <2>1, <2>3, GapsFrame DEF GapInv, NothingAbove
<1>6. CASE Aside
  BY <1>6, AsideFrame DEF GapInv, NothingAbove, argVars, keepVars
<1>7. pc' \notin {"skip", "first", "gap"} \/ ShortcutGaps \/ GapsSkip
      \/ (GapsFirst /\ pc' = "gap") \/ (GapsNext /\ pc' = "gap") \/ Aside
  <2>1. CASE Calls \/ Inspect \/ Simplify
    BY <2>1 DEF Calls, Call, Inspect, Simplify
  <2>2. CASE ShortcutClosefrom \/ ShortcutRange \/ ShortcutNone
    BY <2>2 DEF ShortcutClosefrom, ShortcutRange, ShortcutNone, CloseRange
  <2>3. CASE GapsFirst \/ GapsNext \/ GapsLast
    BY <2>3 DEF GapsFirst, GapsNext, GapsLast, CloseRange
  <2>4. CASE LoopOver \/ GotFd \/ SetFd \/ RestLoop \/ GotRest
    BY <2>4 DEF LoopOver, GotFd, SetFd, RestLoop, GotRest, Apply
  <2>5. CASE RestClosefrom \/ RestRange
    BY <2>5 DEF RestClosefrom, RestRange, CloseRange
  <2>6. CASE StartIter \/ AskNext \/ RestDrop \/ DropIter
    BY <2>6 DEF StartIter, AskNext, RestDrop, DropIter
  <2> QED BY <2>1, <2>2, <2>3, <2>4, <2>5, <2>6, StepKinds
          DEF Outside, Inside, Aside
<1> QED BY <1>1, <1>2, <1>3, <1>4, <1>5, <1>6, <1>7

(* The shape of a call: everything but what it does to the table.          *)
ShapeInv == CallInv /\ MinInv /\ ItemInv /\ LoopInv /\ GapInv

LEMMA ShapeInit == Init => ShapeInv
<1> SUFFICES ASSUME Init PROVE ShapeInv
  OBVIOUS
<1>1. CallInv /\ MinInv
  BY CallInvInit, MinInit
<1>2. ItemInv
  BY DEF Init, IterInit, ItemInv
<1>3. LoopInv
  BY DEF Init, LoopInv, Looping
<1>4. GapInv
  BY DEF Init, GapInv
<1> QED BY <1>1, <1>2, <1>3, <1>4 DEF ShapeInv

LEMMA ShapeNext ==
  ASSUME BelowIntMax, ShapeInv, [Next]_vars
  PROVE  ShapeInv'
<1>1. CallInv'
  BY CallInvNext DEF ShapeInv
<1>2. MinInv'
  BY <1>1, MinNext DEF ShapeInv
<1> QED BY <1>1, <1>2, ItemNext, LoopNext, GapNext DEF ShapeInv

(* The debug_assert!s of the shortcuts hold, and so does the safety        *)
(* requirement of try_close_range.                                         *)
THEOREM CloseAssertsHold ==
  ASSUME BelowIntMax
  PROVE  Spec => []CloseAsserts
<1>1. ShapeInv => CloseAsserts
  <2> SUFFICES ASSUME ShapeInv PROVE CloseAsserts
    OBVIOUS
  <2>1. ASSUME pc = "skip" PROVE Slice # {}
    BY <2>1, SomeAbove DEF ShapeInv, GapInv, Before, Slice
  <2>2. ASSUME pc = "gap", gi < Len(keep_fds) PROVE keep_fds[gi] <= keep_fds[gi + 1]
    BY <2>2, Neighbours DEF ShapeInv
  <2>3. ASSUME pc = "gap", gi = Len(keep_fds) PROVE keep_fds[gi] < IntMax
    <3>1. ArgTypeOK /\ gi \in 1..Len(keep_fds)
      BY SMTT(30), <2>3, CallTypes DEF ShapeInv, GapInv
    <3>2. keep_fds[gi] \in IntMin..IntMax /\ keep_fds[gi] # IntMax
      BY <3>1, KeepElements DEF ShapeInv, MinInv
    <3> QED BY SMTT(30), <3>2, FdTableAssumption DEF IntMin
  <2>4. ASSUME pc \in {"skip", "first", "gap"}, os = "freebsd" PROVE has_range = 1
    BY <2>4 DEF ShapeInv, CallInv, HasRangeInv
  <2> QED BY <2>1, <2>2, <2>3, <2>4 DEF CloseAsserts
<1> QED BY <1>1, ShapeInit, ShapeNext, PTL DEF Spec

=============================================================================
