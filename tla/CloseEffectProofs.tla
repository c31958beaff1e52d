-------------------------- MODULE CloseEffectProofs --------------------------
(***************************************************************************)
(* What a call does to the descriptors of the program, for every value of  *)
(* the constants with which no keep list contains c_int::MAX; and that     *)
(* CloseFds implements CloseCall: the initial states are initial states of *)
(* the promise, and every step is a step of the promise or changes nothing *)
(* it speaks of.                                                           *)
(***************************************************************************)
EXTENDS CloseShapeProofs

USE ZenonT(30)

-----------------------------------------------------------------------------
(* What a step does to the table.                                          *)

(* It leaves alone what is protected.                                      *)
Spares ==
  \A f \in Fd : Protected(f) =>
    /\ f \in open <=> f \in open'
    /\ f \in cloexec <=> f \in cloexec'

(* What is still to be closed or marked.                                   *)
Pending == {f \in Held : ~Protected(f) /\ (op = "cloexec" => f \notin cloexec)}

LEMMA PendingType ==
  ASSUME ShapeInv, NEW f \in Pending
  PROVE  f \in Int /\ f \in Fd /\ f >= minfd /\ f \notin KeepSet /\ f \in Held
<1>1. f \in Held /\ f \in open /\ ~Protected(f)
  BY DEF Pending, Held
<1>2. f \in Int /\ f \in Fd /\ minfd \in Int
  BY <1>1, CallTypes DEF ShapeInv
<1>3. ~(f < minfd)
  BY <1>1, <1>2, ProtectedSplit DEF ShapeInv
<1> QED BY SMTT(30), <1>1, <1>2, <1>3 DEF Protected

LEMMA NotProtected ==
  ASSUME ShapeInv, NEW f \in Int, f >= minfd, f \notin KeepSet
  PROVE  ~Protected(f)
<1>1. arg_minfd \in Int /\ minfd \in Int /\ arg_minfd <= minfd
  BY CallTypes DEF ShapeInv, MinInv
<1> QED BY SMTT(30), <1>1 DEF Protected

LEMMA SameSpares ==
  ASSUME UNCHANGED tableVars
  PROVE  Spares
BY DEF tableVars, Spares

LEMMA AffectSpares ==
  ASSUME ShapeInv, NEW S, Affect(S), \A f \in S \cap Fd : ~Protected(f)
  PROVE  Spares
<1> SUFFICES ASSUME NEW f \in Fd, Protected(f)
             PROVE  (f \in open <=> f \in open') /\ (f \in cloexec <=> f \in cloexec')
  BY DEF Spares
<1>1. f \notin S
  OBVIOUS
<1> QED BY <1>1 DEF Affect, CloseAll, MarkAll

LEMMA PendingFrame ==
  ASSUME UNCHANGED <<iterVars, argVars>>, TableFrame
  PROVE  Pending' \subseteq Pending
<1>1. Held' \subseteq Held /\ UNCHANGED <<op, KeepSet, arg_minfd>>
  BY HeldFrame DEF argVars, KeepSet
<1>2. \A f \in Held' : f \in open'
  BY DEF Held
<1>3. cloexec \cap open' \subseteq cloexec'
  BY DEF TableFrame
<1> QED BY <1>1, <1>2, <1>3 DEF Pending, Protected

LEMMA AffectPending ==
  ASSUME ShapeInv, UNCHANGED <<iterVars, argVars>>, NEW S, Affect(S)
  PROVE  TableFrame /\ Pending' \subseteq Pending \ S
<1>1. TableTypeOK /\ op \in {"close", "cloexec"}
  BY CallTypes DEF ShapeInv, IterTypeOK
<1>2. TableFrame
  BY <1>1, AffectFrame
<1>3. Pending' \subseteq Pending
  BY <1>2, PendingFrame
<1>4. ASSUME NEW f \in Pending', f \in S PROVE FALSE
  <2>1. f \in open' /\ (op' = "cloexec" => f \notin cloexec')
    BY <1>4 DEF Pending, Held
  <2>2. op' = op
    BY DEF argVars
  <2>3. CASE op = "close"
    BY <1>4, <2>1, <2>3 DEF Affect, CloseAll
  <2>4. CASE op = "cloexec"
    BY <1>4, <2>1, <2>2, <2>4 DEF Affect, MarkAll
  <2> QED BY <1>1, <2>3, <2>4
<1> QED BY <1>2, <1>3, <1>4

(* A close_range() call on a range without protected descriptors.          *)
LEMMA RangeEffect ==
  ASSUME ShapeInv, UNCHANGED <<iterVars, argVars>>,
         NEW low \in Int, NEW high \in Int, NEW okpc, NEW errpc,
         okpc # errpc, okpc # "killed", CloseRange(low, high, okpc, errpc),
         low <= high, \A f \in Fd : low <= f /\ f <= high => ~Protected(f)
  PROVE  /\ Spares
         /\ Pending' \subseteq Pending
         /\ pc' = okpc => \A f \in Pending' : ~(low <= f /\ f <= high)
         /\ (~may_have => ~kernel_has) => (~may_have' => ~kernel_has)
<1> DEFINE S == {f \in Fd : low <= f /\ f <= high}
<1>1. CASE kernel_has /\ Affect(S) /\ pc' = okpc /\ UNCHANGED may_have
  <2>1. Spares
    BY <1>1, AffectSpares
  <2>2. Pending' \subseteq Pending \ S
    BY <1>1, AffectPending
  <2>3. \A f \in Pending : f \in Fd
    BY PendingType
  <2> QED BY <1>1, <2>1, <2>2, <2>3
<1>2. CASE ~kernel_has /\ UNCHANGED tableVars /\ pc' # okpc
  <2>1. TableFrame
    BY <1>2, SameTable, CallTypes DEF ShapeInv, IterTypeOK
  <2> QED BY <1>2, <2>1, SameSpares, PendingFrame
<1> QED BY <1>1, <1>2 DEF CloseRange

-----------------------------------------------------------------------------
(* How far the work has come.                                              *)

(* The gaps below keep_fds[gi] are done; of what the iterator has returned *)
(* only the last one may wait for its close(); in the end nothing is left  *)
(* but what the iterator may miss.                                         *)
WorkInv ==
  /\ pc = "gap" => \A f \in Pending : f >= keep_fds[gi]
  /\ \A f \in Pending \cap yielded :
       /\ f = item
       /\ \/ pc = "wait" /\ itpc = "idle"
          \/ pc \in {"rest", "restfd", "setfd", "closefrom"}
  /\ pc \in {"drop", "done"} => \A f \in Pending : Excused(f)
  /\ pc = "setfd" => op = "cloexec"

TruthInv == ~may_have => ~kernel_has

LEMMA UintBounds ==
  /\ UintMax \in Int /\ UintMax >= IntMax
  /\ \A f \in Fd : f \in Int /\ f >= 0 /\ f < IntMax
  /\ \A x \in Int : x >= 0 => AsUint(x) = x
BY SMTT(30), FdTableAssumption DEF UintMax, Fd, AsUint

(* A shortcut in one call.                                                 *)
LEMMA ShortcutEffect ==
  ASSUME ShapeInv, TruthInv, ShortcutClosefrom \/ ShortcutRange
  PROVE  /\ Spares /\ TruthInv' /\ Pending' \subseteq Pending
         /\ pc' = "done" => Pending' = {}
         /\ UNCHANGED yielded /\ yielded = {} /\ pc' \in {"done", "iter", "killed"}
<1>1. minfd \in Int /\ minfd >= 0 /\ minfd <= IntMax /\ max_keep_fd \in Int
      /\ max_keep_fd < minfd /\ pc = "shortcut"
  BY SMTT(30), CallTypes
  DEF ShapeInv, MinInv, ShortcutClosefrom, ShortcutRange, NothingAbove
<1>2. UNCHANGED <<iterVars, argVars, kernel_has>>
  BY DEF ShortcutClosefrom, ShortcutRange
<1>3. \A f \in Fd : f >= minfd => ~Protected(f)
  <2> SUFFICES ASSUME NEW f \in Fd, f >= minfd PROVE ~Protected(f)
    OBVIOUS
  <2>1. f \in Int /\ f > max_keep_fd
    BY SMTT(30), <1>1, UintBounds
  <2> QED BY <1>1, <2>1, AboveMax, NotProtected DEF ShapeInv
<1>4. yielded = {} /\ UNCHANGED yielded
  BY <1>1, <1>2
  DEF ShapeInv, CallInv, CloseTypeInv, PcIter, ItInv, Order, iterVars, outVars
<1>5. \A f \in Pending : f \in Fd /\ f >= minfd
  BY PendingType
<1>6. CASE ShortcutClosefrom
  <2> DEFINE S == {f \in Fd : f >= minfd}
  <2>1. Affect(S) /\ pc' = "done" /\ UNCHANGED may_have
    BY <1>6 DEF ShortcutClosefrom, HasClosefrom, Affect, cacheVars
  <2>2. Spares
    BY <1>3, <2>1, AffectSpares
  <2>3. Pending' \subseteq Pending \ S
    BY <1>2, <2>1, AffectPending
  <2> QED BY <1>2, <1>4, <1>5, <2>1, <2>2, <2>3 DEF TruthInv
<1>7. CASE ShortcutRange
  <2>1. CloseRange(minfd, UintMax, "done", "iter")
    BY <1>1, <1>7, UintBounds DEF ShortcutRange
  <2>2. minfd <= UintMax
    BY SMTT(30), <1>1, UintBounds, FdTableAssumption
  <2>3. /\ Spares /\ Pending' \subseteq Pending
        /\ pc' = "done" => \A f \in Pending' : ~(minfd <= f /\ f <= UintMax)
        /\ (~may_have => ~kernel_has) => (~may_have' => ~kernel_has)
    BY <1>1, <1>2, <1>3, <2>1, <2>2, UintBounds, RangeEffect
  <2>4. \A f \in Pending : minfd <= f /\ f <= UintMax
    BY SMTT(30), <1>1, <1>5, UintBounds, FdTableAssumption
  <2>5. pc' \in {"done", "iter", "killed"}
    BY <2>1 DEF CloseRange
  <2> QED BY <1>2, <1>4, <2>3, <2>4, <2>5 DEF TruthInv
<1> QED BY <1>6, <1>7

LEMMA GapSorted ==
  ASSUME ShapeInv, pc \in {"first", "gap"}
  PROVE  /\ ArgTypeOK /\ Len(keep_fds) \in Nat /\ gi \in 1..Len(keep_fds)
         /\ minfd \in Int /\ minfd >= 0 /\ keep_fds[gi] >= minfd
         /\ \A i \in 1..Len(keep_fds) : keep_fds[i] \in Int /\ keep_fds[i] \in KeepSet
         /\ \A i, j \in 1..Len(keep_fds) : i <= j => keep_fds[i] <= keep_fds[j]
         /\ \A f \in KeepSet : \E i \in 1..Len(keep_fds) : f = keep_fds[i]
         /\ yielded = {}
<1>1. ArgTypeOK /\ Len(keep_fds) \in Nat /\ gi \in 0..Len(keep_fds) /\ ki \in 0..Len(keep_fds)
      /\ minfd \in Int /\ minfd >= 0
  BY SMTT(30), CallTypes DEF ShapeInv, MinInv
<1>2. gi \in 1..Len(keep_fds) /\ keep_fds[gi] >= minfd
  BY SMTT(30), <1>1 DEF ShapeInv, GapInv
<1>3. InOrder(keep_fds)
  BY DEF ShapeInv, GapInv, CallInv, InspectInv, InspectCorrect
<1>4. \A i \in 1..Len(keep_fds) : keep_fds[i] \in Int /\ keep_fds[i] \in KeepSet
  BY <1>1, KeepElements
<1>5. \A i, j \in 1..Len(keep_fds) : i <= j => keep_fds[i] <= keep_fds[j]
  <2> SUFFICES ASSUME NEW i \in 1..Len(keep_fds), NEW j \in 1..Len(keep_fds), i <= j
               PROVE  keep_fds[i] <= keep_fds[j]
    OBVIOUS
  <2>1. CASE i < j
    BY <1>1, <1>3, <2>1, KeepElements DEF InOrder
  <2>2. CASE i = j
    BY SMTT(30), <1>4, <2>2
  <2> QED BY SMTT(30), <1>1, <2>1, <2>2
<1>6. yielded = {}
  BY DEF ShapeInv, CallInv, CloseTypeInv, PcIter, ItInv, Order
<1> QED BY <1>1, <1>2, <1>4, <1>5, <1>6, KeepElements

(* What a step of apply_range achieves.                                    *)
GapEffect ==
  /\ Spares /\ TruthInv' /\ Pending' \subseteq Pending
  /\ pc' = "gap" => \A f \in Pending' : f >= keep_fds[gi']
  /\ pc' = "done" => Pending' = {}
  /\ pc' \in {"first", "gap", "done", "iter", "killed"}

LEMMA FirstGapEffect ==
  ASSUME ShapeInv, TruthInv, GapsFirst
  PROVE  GapEffect
<1>1. UNCHANGED <<iterVars, argVars, kernel_has, gi>> /\ pc = "first"
  BY GapsFrame DEF GapsFirst
<1> USE <1>1, GapSorted
<1>2. \A f \in Pending : f \in Int /\ f >= minfd
  BY PendingType
<1>3. CASE keep_fds[gi] > minfd
  <2> DEFINE high == keep_fds[gi] - 1
  <2>1. CloseRange(minfd, high, "gap", "iter")
    BY <1>3, UintBounds DEF GapsFirst, GapEnd
  <2>2. high \in Int /\ minfd <= high
    BY SMTT(30), <1>3
  <2>3. ASSUME NEW f \in Fd, minfd <= f, f <= high PROVE ~Protected(f)
    <3>1. f \in Int
      BY UintBounds
    <3>2. f \notin KeepSet
      <4> SUFFICES ASSUME NEW i \in 1..Len(keep_fds), f = keep_fds[i] PROVE FALSE
        OBVIOUS
      <4>1. CASE i < gi
        <5>1. i \in 1..(gi - 1)
          BY SMTT(30), <4>1
        <5> QED BY SMTT(30), <2>3, <3>1, <5>1 DEF ShapeInv, GapInv
      <4>2. CASE gi <= i
        BY SMTT(30), <2>3, <3>1, <4>2
      <4> QED BY SMTT(30), <4>1, <4>2
    <3> QED BY <2>3, <3>1, <3>2, NotProtected
  <2> HIDE DEF high
  <2>4. /\ Spares /\ Pending' \subseteq Pending
        /\ pc' = "gap" => \A f \in Pending' : ~(minfd <= f /\ f <= high)
        /\ (~may_have => ~kernel_has) => (~may_have' => ~kernel_has)
    BY <2>1, <2>2, <2>3, RangeEffect
  <2>5. \A f \in Int : minfd <= f /\ ~(minfd <= f /\ f <= high) => f >= keep_fds[gi]
    BY SMTT(30) DEF high
  <2>6. pc' \in {"gap", "iter", "killed"}
    BY <2>1 DEF CloseRange
  <2> QED BY <1>2, <2>4, <2>5, <2>6 DEF GapEffect, TruthInv
<1>4. CASE ~(keep_fds[gi] > minfd)
  <2>1. pc' = "gap" /\ UNCHANGED <<tableVars, may_have>>
    BY <1>4 DEF GapsFirst
  <2>2. Spares /\ Pending' \subseteq Pending
    <3>1. TableFrame
      BY <2>1, SameTable, CallTypes DEF ShapeInv, IterTypeOK
    <3> QED BY <2>1, <3>1, SameSpares, PendingFrame
  <2>3. keep_fds[gi] = minfd
    BY SMTT(30), <1>4
  <2> QED BY <1>2, <2>1, <2>2, <2>3 DEF GapEffect, TruthInv
<1> QED BY <1>3, <1>4


LEMMA NextGapEffect ==
  ASSUME ShapeInv, WorkInv, TruthInv, GapsNext
  PROVE  GapEffect
<1>1. UNCHANGED <<iterVars, argVars, kernel_has>> /\ pc = "gap" /\ gi < Len(keep_fds)
      /\ gi' = gi + 1
  BY GapsFrame DEF GapsNext
<1> USE <1>1, GapSorted
<1>2. gi + 1 \in 1..Len(keep_fds) /\ keep_fds[gi + 1] \in Int /\ keep_fds[gi] \in Int
  BY SMTT(30)
<1>3. \A f \in Pending : f \in Int /\ f >= keep_fds[gi] /\ f # keep_fds[gi]
  BY PendingType DEF WorkInv
<1> DEFINE low == keep_fds[gi] + 1
           high == keep_fds[gi + 1] - 1
<1>4. CASE IsGap(keep_fds[gi], keep_fds[gi + 1])
  <2>1. CloseRange(low, high, "gap", "iter")
    BY <1>4 DEF GapsNext, GapEnd
  <2>2. low \in Int /\ high \in Int /\ low <= high
    BY SMTT(30), <1>2, <1>4 DEF IsGap
  <2>3. ASSUME NEW f \in Fd, low <= f, f <= high PROVE ~Protected(f)
    <3>1. f \in Int /\ f >= minfd
      BY SMTT(30), <1>2, <2>3, UintBounds
    <3>2. f \notin KeepSet
      <4> SUFFICES ASSUME NEW i \in 1..Len(keep_fds), f = keep_fds[i] PROVE FALSE
        OBVIOUS
      <4>1. CASE i <= gi
        <5>1. keep_fds[i] <= keep_fds[gi]
          BY <4>1
        <5> QED BY SMTT(30), <1>2, <2>3, <3>1, <5>1
      <4>2. CASE gi + 1 <= i
        <5>1. keep_fds[gi + 1] <= keep_fds[i]
          BY <1>2, <4>2
        <5> QED BY SMTT(30), <1>2, <2>3, <3>1, <5>1
      <4> QED BY SMTT(30), <4>1, <4>2
    <3> QED BY <3>1, <3>2, NotProtected
  <2> HIDE DEF low, high
  <2>4. /\ Spares /\ Pending' \subseteq Pending
        /\ pc' = "gap" => \A f \in Pending' : ~(low <= f /\ f <= high)
        /\ (~may_have => ~kernel_has) => (~may_have' => ~kernel_has)
    BY <2>1, <2>2, <2>3, RangeEffect
  <2>5. \A f \in Int : f >= keep_fds[gi] /\ f # keep_fds[gi] /\ ~(low <= f /\ f <= high)
          => f >= keep_fds[gi + 1]
    BY SMTT(30), <1>2 DEF low, high
  <2>6. pc' \in {"gap", "iter", "killed"}
    BY <2>1 DEF CloseRange
  <2> QED BY <1>3, <2>4, <2>5, <2>6 DEF GapEffect, TruthInv
<1>5. CASE ~IsGap(keep_fds[gi], keep_fds[gi + 1])
  <2>1. pc' = pc /\ UNCHANGED <<tableVars, may_have>>
    BY <1>5 DEF GapsNext
  <2>2. Spares /\ Pending' \subseteq Pending
    <3>1. TableFrame
      BY <2>1, SameTable, CallTypes DEF ShapeInv, IterTypeOK
    <3> QED BY <2>1, <3>1, SameSpares, PendingFrame
  <2>3. \A f \in Int : f >= keep_fds[gi] /\ f # keep_fds[gi] => f >= keep_fds[gi + 1]
    BY SMTT(30), <1>2, <1>5 DEF IsGap
  <2> QED BY <1>3, <2>1, <2>2, <2>3 DEF GapEffect, TruthInv
<1> QED BY <1>4, <1>5

LEMMA LastGapEffect ==
  ASSUME ShapeInv, WorkInv, TruthInv, GapsLast
  PROVE  GapEffect
<1>1. UNCHANGED <<iterVars, argVars, kernel_has>> /\ pc = "gap" /\ gi = Len(keep_fds)
  BY GapsFrame DEF GapsLast
<1> USE <1>1, GapSorted
<1> DEFINE low == keep_fds[gi] + 1
<1>2. keep_fds[gi] \in Int /\ keep_fds[gi] >= minfd /\ keep_fds[gi] < IntMax /\ IntMax \in Int
  <2>1. keep_fds[gi] \in IntMin..IntMax /\ keep_fds[gi] # IntMax
    BY KeepElements DEF ShapeInv, MinInv
  <2> QED BY SMTT(30), <2>1, FdTableAssumption DEF IntMin
<1>3. \A f \in Pending : f \in Int /\ f \in Fd /\ f >= keep_fds[gi] /\ f # keep_fds[gi]
  BY PendingType DEF WorkInv
<1>4. CloseRange(low, IntMax, "done", "iter")
  <2>1. Incr(keep_fds[gi]) = low /\ AsUint(low) = low
    BY SMTT(30), <1>2, UintBounds DEF Incr
  <2> QED BY <2>1 DEF GapsLast
<1>5. low \in Int /\ low <= IntMax
  BY SMTT(30), <1>2
<1>6. ASSUME NEW f \in Fd, low <= f, f <= IntMax PROVE ~Protected(f)
  <2>1. f \in Int /\ f >= minfd
    BY SMTT(30), <1>2, <1>6, UintBounds
  <2>2. f \notin KeepSet
    <3> SUFFICES ASSUME NEW i \in 1..Len(keep_fds), f = keep_fds[i] PROVE FALSE
      OBVIOUS
    <3>1. keep_fds[i] <= keep_fds[gi]
      BY SMTT(30)
    <3> QED BY SMTT(30), <1>2, <1>6, <2>1, <3>1
  <2> QED BY <2>1, <2>2, NotProtected
<1>7. \A f \in Pending : low <= f /\ f <= IntMax
  BY SMTT(30), <1>2, <1>3, UintBounds
<1> HIDE DEF low
<1>8. /\ Spares /\ Pending' \subseteq Pending
      /\ pc' = "done" => \A f \in Pending' : ~(low <= f /\ f <= IntMax)
      /\ (~may_have => ~kernel_has) => (~may_have' => ~kernel_has)
  BY <1>2, <1>4, <1>5, <1>6, RangeEffect
<1>9. pc' \in {"done", "iter", "killed"}
  BY <1>4 DEF CloseRange
<1> QED BY <1>7, <1>8, <1>9 DEF GapEffect, TruthInv

(* Some element is left, so the skip never runs to the end of the list.    *)
LEMMA SkipEffect ==
  ASSUME ShapeInv, TruthInv, GapsSkip
  PROVE  GapEffect
<1>1. UNCHANGED <<iterVars, argVars, kernel_has>> /\ pc = "skip"
  BY GapsFrame DEF GapsSkip
<1>2. pc' = "first" /\ UNCHANGED <<tableVars, may_have>>
  BY <1>1, GapsSkipFinds DEF ShapeInv
<1>3. TableFrame
  BY <1>2, SameTable, CallTypes DEF ShapeInv, IterTypeOK
<1> QED BY <1>1, <1>2, <1>3, SameSpares, PendingFrame DEF GapEffect, TruthInv


-----------------------------------------------------------------------------
(* The steps of the loop and of close_rest.                                *)

LEMMA ItemFacts ==
  ASSUME ShapeInv, item # None, itpc # "none"
  PROVE  /\ item \in Int /\ item >= 0 /\ item <= IntMax
         /\ minfd \in Int /\ dir_minfd = minfd /\ item >= minfd
         /\ curfd \in Int /\ item < curfd /\ max_keep_fd \in Int
<1>1. item \in Int /\ item >= 0 /\ item <= IntMax /\ curfd \in Int
  BY ItemTypes DEF ShapeInv
<1>2. minfd \in Int /\ max_keep_fd \in Int
  BY CallTypes DEF ShapeInv
<1> QED BY <1>1, <1>2 DEF ShapeInv, ItemInv

(* From item on nothing is protected, once it is above max_keep_fd.        *)
LEMMA RestFree ==
  ASSUME ShapeInv, pc \in {"rest", "restfd", "closefrom"}
  PROVE  /\ item # None /\ itpc # "none" /\ item > max_keep_fd
         /\ \A f \in Fd : f >= item => ~Protected(f)
<1>1. item # None /\ itpc # "none" /\ item > max_keep_fd
  BY DEF ShapeInv, CallInv, CloseTypeInv, PcIter, LoopInv
<1>2. ASSUME NEW f \in Fd, f >= item PROVE ~Protected(f)
  <2>1. f \in Int /\ f > max_keep_fd /\ f >= minfd
    BY SMTT(30), <1>1, <1>2, ItemFacts, UintBounds
  <2> QED BY <2>1, AboveMax, NotProtected DEF ShapeInv
<1> QED BY <1>1, <1>2

(* All that is pending is at or above item.                                *)
LEMMA RestPending ==
  ASSUME ShapeInv, WorkInv, pc \in {"rest", "restfd", "closefrom"}
  PROVE  \A f \in Pending : f \in Fd /\ f \in Int /\ f >= item
<1> SUFFICES ASSUME NEW f \in Pending PROVE f \in Fd /\ f \in Int /\ f >= item
  OBVIOUS
<1>1. f \in Int /\ f \in Fd /\ f >= minfd /\ f \in Held
  BY PendingType
<1>2. item \in Int /\ dir_minfd = minfd /\ item < curfd /\ curfd \in Int
  BY RestFree, ItemFacts
<1>3. ASSUME f < item PROVE FALSE
  <2>1. f < curfd /\ dir_minfd <= f
    BY SMTT(30), <1>1, <1>2, <1>3
  <2>2. f \in yielded
    BY <1>1, <2>1 DEF ShapeInv, CallInv, ItInv, Progress
  <2>3. f = item
    BY <2>2 DEF WorkInv
  <2> QED BY SMTT(30), <1>2, <1>3, <2>3
<1> QED BY SMTT(30), <1>1, <1>2, <1>3

(* What a step that applies the operation to item, or to all from item on, *)
(* achieves.                                                               *)
LoopEffect ==
  /\ Spares /\ TruthInv' /\ Pending' \subseteq Pending
  /\ UNCHANGED <<iterVars, argVars>>
  /\ pc' \in {"loop", "setfd", "rest", "restfd", "drop", "done", "killed"}
  /\ pc' = "loop" => item \notin Pending'
  /\ pc' = "setfd" => op = "cloexec"
  /\ pc' \in {"drop", "done"} => Pending' = {}

LEMMA ApplyEffect ==
  ASSUME ShapeInv, UNCHANGED <<iterVars, argVars>>, Apply(item), ~Protected(item)
  PROVE  /\ Spares /\ Pending' \subseteq Pending
         /\ pc' \in {"loop", "setfd"}
         /\ pc' = "loop" => item \notin Pending'
         /\ pc' = "setfd" => op = "cloexec"
<1>1. op \in {"close", "cloexec"} /\ TableTypeOK
  BY CallTypes DEF ShapeInv, IterTypeOK
<1>2. CASE op = "close"
  <2>1. Affect({item}) /\ pc' = "loop"
    BY <1>2 DEF Apply, Affect
  <2>2. Spares
    BY <2>1, AffectSpares
  <2>3. Pending' \subseteq Pending \ {item}
    BY <2>1, AffectPending
  <2> QED BY <2>1, <2>2, <2>3
<1>3. CASE op = "cloexec"
  <2>1. UNCHANGED tableVars /\ pc' \in {"loop", "setfd"}
        /\ (pc' = "loop" => item \notin open \/ item \in cloexec)
    BY <1>3 DEF Apply
  <2>2. TableFrame
    BY <1>1, <2>1, SameTable
  <2>3. Spares /\ Pending' \subseteq Pending
    BY <2>1, <2>2, SameSpares, PendingFrame
  <2>4. item \notin open \/ item \in cloexec => item \notin Pending
    BY <1>3 DEF Pending, Held
  <2> QED BY <1>3, <2>1, <2>3, <2>4
<1> QED BY <1>1, <1>2, <1>3

LEMMA RestLoopEffect ==
  ASSUME ShapeInv, TruthInv, RestLoop \/ GotRest
  PROVE  LoopEffect
<1>1. UNCHANGED <<iterVars, argVars, kernel_has, may_have>> /\ Apply(item)
      /\ \/ pc \in {"rest", "restfd"}
         \/ pc = "wait" /\ itpc = "idle" /\ item # None /\ rest
  <2>1. CASE RestLoop
    BY <2>1 DEF RestLoop, localUnchanged, cacheVars
  <2>2. CASE GotRest
    BY <2>2 DEF GotRest, localUnchanged, cacheVars
  <2> QED BY <2>1, <2>2
<1>2. ~Protected(item)
  <2>1. item # None /\ itpc # "none" /\ item > max_keep_fd
    BY <1>1, RestFree DEF ShapeInv, LoopInv
  <2>2. item \in Int /\ item >= minfd
    BY <2>1, ItemFacts
  <2> QED BY <1>1, <2>1, <2>2, AboveMax, NotProtected DEF ShapeInv
<1> QED BY <1>1, <1>2, ApplyEffect DEF LoopEffect, TruthInv

LEMMA GotFdEffect ==
  ASSUME ShapeInv, TruthInv, GotFd
  PROVE  LoopEffect
<1>1. UNCHANGED <<iterVars, argVars, kernel_has, may_have>>
      /\ pc = "wait" /\ itpc = "idle" /\ item # None
  BY DEF GotFd, localUnchanged, cacheVars
<1>2. TableTypeOK
  BY CallTypes DEF ShapeInv, IterTypeOK
<1>3. CASE UNCHANGED tableVars /\ (pc' = "rest" \/ (pc' = "loop" /\ item \in KeepSet))
  <2>1. Spares /\ Pending' \subseteq Pending
    BY <1>1, <1>2, <1>3, SameTable, SameSpares, PendingFrame
  <2>2. item \in KeepSet => item \notin Pending
    BY PendingType
  <2> QED BY <1>1, <1>3, <2>1, <2>2 DEF LoopEffect, TruthInv
<1>4. CASE Apply(item) /\ item \notin KeepSet
  <2>1. ~Protected(item)
    BY <1>1, <1>4, ItemFacts, NotProtected
  <2> QED BY <1>1, <1>4, <2>1, ApplyEffect DEF LoopEffect, TruthInv
<1>5. CASE item > max_keep_fd
  <2>1. pc' = "rest" /\ UNCHANGED tableVars
    BY <1>5 DEF GotFd
  <2> QED BY <1>3, <2>1
<1>6. CASE ~(item > max_keep_fd)
  <2>1. ShouldKeep(ki', item) <=> item \in KeepSet
    BY <1>6, GotFdKeeps DEF ShapeInv
  <2> QED BY <1>3, <1>4, <1>6, <2>1 DEF GotFd
<1> QED BY <1>5, <1>6

LEMMA SetFdEffect ==
  ASSUME ShapeInv, WorkInv, TruthInv, SetFd
  PROVE  LoopEffect
<1>1. UNCHANGED <<iterVars, argVars, kernel_has, may_have>> /\ pc = "setfd" /\ pc' = "loop"
      /\ MarkAll({item})
  BY DEF SetFd, localUnchanged, cacheVars
<1>2. item # None /\ itpc # "none" /\ item \notin KeepSet
  BY <1>1 DEF ShapeInv, CallInv, CloseTypeInv, PcIter, LoopInv
<1>3. ~Protected(item)
  BY <1>2, ItemFacts, NotProtected
<1>4. TableTypeOK
  BY CallTypes DEF ShapeInv, IterTypeOK
<1>5. TableFrame
  BY <1>1, <1>4 DEF MarkAll, TableTypeOK, TableFrame
<1>6. Pending' \subseteq Pending
  BY <1>1, <1>5, PendingFrame
<1>7. Spares
  BY <1>1, <1>3 DEF MarkAll, Spares
<1>8. item \notin Pending'
  BY <1>1 DEF WorkInv, Pending, Held, MarkAll, argVars
<1> QED BY <1>1, <1>6, <1>7, <1>8 DEF LoopEffect, TruthInv


LEMMA RestClosefromEffect ==
  ASSUME ShapeInv, WorkInv, TruthInv, RestClosefrom
  PROVE  LoopEffect
<1> DEFINE S == {f \in Fd : f >= item}
<1>1. UNCHANGED <<iterVars, argVars, kernel_has, may_have>> /\ pc = "closefrom" /\ pc' = "done"
      /\ CloseAll(S)
  BY DEF RestClosefrom, RestFrom, localUnchanged, cacheVars
<1>2. op = "close"
  BY <1>1 DEF ShapeInv, CallInv, CloseTypeInv, PcIter
<1>3. Affect(S)
  BY <1>1, <1>2 DEF Affect
<1>4. Spares
  BY <1>1, <1>3, RestFree, AffectSpares
<1>5. Pending' \subseteq Pending \ S
  BY <1>1, <1>3, AffectPending
<1>6. Pending \subseteq S
  BY <1>1, RestPending
<1> QED BY <1>1, <1>4, <1>5, <1>6 DEF LoopEffect, TruthInv

LEMMA RestRangeEffect ==
  ASSUME ShapeInv, WorkInv, TruthInv, RestRange
  PROVE  LoopEffect
<1>1. UNCHANGED <<iterVars, argVars, kernel_has>> /\ pc = "rest"
  BY DEF RestRange
<1>2. item \in Int /\ item >= 0 /\ item <= IntMax
  BY <1>1, RestFree, ItemFacts
<1>3. CloseRange(item, UintMax, "drop", "restfd")
  BY <1>2, UintBounds DEF RestRange
<1>4. item <= UintMax
  BY SMTT(30), <1>2, UintBounds, FdTableAssumption
<1>5. /\ Spares /\ Pending' \subseteq Pending
      /\ pc' = "drop" => \A f \in Pending' : ~(item <= f /\ f <= UintMax)
      /\ (~may_have => ~kernel_has) => (~may_have' => ~kernel_has)
  BY <1>1, <1>2, <1>3, <1>4, UintBounds, RestFree, RangeEffect
<1>6. \A f \in Pending : item <= f /\ f <= UintMax
  BY SMTT(30), <1>1, <1>2, RestPending, UintBounds, FdTableAssumption
<1>7. pc' \in {"drop", "restfd", "killed"}
  BY <1>3 DEF CloseRange
<1> QED BY <1>1, <1>5, <1>6, <1>7 DEF LoopEffect, TruthInv

-----------------------------------------------------------------------------
(* The steps that use the iterator, and the rest of the program.           *)

(* What is theirs and protected stays as it is.                            *)
SparesTheirs ==
  \A f \in theirs : Protected(f) =>
    /\ f \in open <=> f \in open'
    /\ f \in cloexec <=> f \in cloexec'

(* What is theirs and protected is open, and the directory has no such     *)
(* number.                                                                 *)
SafeInv ==
  pc # "start" =>
    /\ \A f \in theirs : Protected(f) => f \in open
    /\ dirfd \in theirs => ~Protected(dirfd)

(* What the iterator does to the table: its directory comes and goes.      *)
DirFrame ==
  /\ UNCHANGED <<theirs, steady>>
  /\ \/ UNCHANGED <<open, cloexec, dirfd>>
     \/ /\ dirfd = -1 /\ dirfd' \in Fd \ open
        /\ open' = open \cup {dirfd'} /\ cloexec' = cloexec \cup {dirfd'}
     \/ /\ dirfd' = -1
        /\ open' = open \ {dirfd} /\ cloexec' = cloexec \ {dirfd}

LEMMA DirStep ==
  ASSUME DirControl, IterStep
  PROVE  DirFrame
<1>1. CASE DirOpen
  BY <1>1 DEF DirControl, DirOpen, OpenCloexec, LowestFree, tableVars, DirFrame
<1>2. CASE DirStat
  BY <1>2 DEF DirStat, CloseAll, tableVars, DirFrame
<1>3. CASE DirEof
  BY <1>3 DEF DirEof, EofClose, CloseAll, DirFrame
<1>4. CASE DirErr
  BY <1>4 DEF DirErr, NoDir, CloseAll, DirFrame
<1>5. CASE DirExhausted \/ Getdents \/ DirEntry \/ LoopStep
  BY <1>5
  DEF DirExhausted, Getdents, DirEntry, LoopStep, tableVars, dirVars, DirFrame
<1>6. CASE MaxfdStart \/ GetNfds \/ NfdsScan \/ Sysconf
  BY <1>6, MaxfdFrame DEF tableVars, dirVars, DirFrame
<1> QED BY <1>1, <1>2, <1>3, <1>4, <1>5, <1>6 DEF IterStep

LEMMA DirDrop ==
  ASSUME IterTypeOK, DirControl, Drop
  PROVE  DirFrame
<1>1. CASE dirfd_iter /\ dirfd >= 0
  BY <1>1 DEF Drop, CloseOnDrop, NoDir, CloseAll, DirFrame
<1>2. CASE ~(dirfd_iter /\ dirfd >= 0)
  <2>1. dirfd \in Int /\ dirfd >= -1
    BY SMTT(30), FdTableAssumption DEF IterTypeOK, DirTypeOK
  <2>2. dirfd = -1
    BY SMTT(30), <1>2, <2>1 DEF Drop, DirControl
  <2> QED BY <1>2, <2>2 DEF Drop, CloseOnDrop, NoDir, tableVars, DirFrame
<1> QED BY <1>1, <1>2

LEMMA InsideTable ==
  ASSUME CallInv, Inside
  PROVE  DirFrame /\ Held' \subseteq Held /\ UNCHANGED argVars
<1>1. IterTypeOK /\ DirControl
  BY CallTypes DEF CallInv, ItInv
<1>2. UNCHANGED argVars
  BY InsideFrame
<1>3. CASE RunIter
  BY <1>1, <1>2, <1>3, DirStep, HeldStep DEF RunIter
<1>4. CASE StartIter \/ AskNext
  BY <1>2, <1>4
  DEF StartIter, AskNext, IterFrom, CallNext, tableVars, dirVars, DirFrame,
      Held
<1>5. CASE RestDrop \/ DropIter
  <2>1. Drop
    BY <1>5 DEF RestDrop, DropIter
  <2>2. ~Others
    <3>1. itpc' # itpc
      BY <2>1 DEF Drop
    <3> QED BY <3>1, OthersFrame
  <2> QED BY <1>1, <1>2, <2>1, <2>2, DirDrop, HeldUser
<1> QED BY <1>3, <1>4, <1>5 DEF Inside

LEMMA InsideEffect ==
  ASSUME CallInv, SafeInv, pc # "start", Inside
  PROVE  SparesTheirs /\ Pending' \subseteq Pending
<1>1. DirFrame /\ Held' \subseteq Held /\ UNCHANGED argVars
  BY InsideTable
<1>2. SparesTheirs
  BY <1>1 DEF DirFrame, SafeInv, SparesTheirs
<1>3. cloexec \cap open' \subseteq cloexec' /\ \A f \in Held' : f \in open'
  BY <1>1 DEF DirFrame, Held
<1>4. UNCHANGED <<op, KeepSet, arg_minfd>>
  BY <1>1 DEF argVars, KeepSet
<1> QED BY <1>1, <1>2, <1>3, <1>4 DEF Pending, Protected

LEMMA EnvironmentEffect ==
  ASSUME CallInv, Environment
  PROVE  /\ Pending' \subseteq Pending /\ theirs' # theirs
         /\ UNCHANGED callVars /\ op = "cloexec"
         /\ UNCHANGED <<item, yielded, itpc, how, maxfd, dirfd>> /\ (raced => raced')
<1>1. Others /\ op = "cloexec" /\ UNCHANGED callVars /\ theirs \subseteq open
  BY DEF Environment, CallInv, OwnInv, Ownership
<1>2. UNCHANGED <<item, yielded, itpc, how, maxfd, dirfd>> /\ (raced => raced')
  BY <1>1, OthersFrame DEF outVars, maxVars, dirVars
<1>3. Held' \subseteq Held
  BY <1>1, HeldUser, CallTypes DEF CallInv, ItInv
<1>4. theirs' # theirs
  BY <1>1 DEF Others, OtherOpen, OtherClose, LowestFree
<1>5. cloexec \cap open' \subseteq cloexec' /\ \A f \in Held' : f \in open'
  BY <1>1 DEF Others, OtherOpen, OtherClose, Held
<1>6. UNCHANGED <<op, KeepSet, arg_minfd>>
  BY <1>1 DEF callVars, argVars, KeepSet
<1> QED BY <1>1, <1>2, <1>3, <1>4, <1>5, <1>6 DEF Pending, Protected


-----------------------------------------------------------------------------
(* Every step preserves these invariants.                                  *)

LEMMA NothingYielded ==
  ASSUME ShapeInv, pc \in Before
  PROVE  yielded = {}
BY DEF Before, ShapeInv, CallInv, CloseTypeInv, PcIter, ItInv, Order

LEMMA GapWork ==
  ASSUME ShapeInv, WorkInv, TruthInv, GapsSkip \/ GapsFirst \/ GapsNext \/ GapsLast
  PROVE  WorkInv' /\ TruthInv' /\ Spares
<1>1. GapEffect
  BY SkipEffect, FirstGapEffect, NextGapEffect, LastGapEffect
<1>2. yielded' = {} /\ keep_fds' = keep_fds
  BY GapsFrame, NothingYielded DEF Before, iterVars, outVars
<1> QED BY <1>1, <1>2 DEF GapEffect, WorkInv

LEMMA LoopWork ==
  ASSUME ShapeInv, WorkInv, TruthInv, pc' # "killed",
         GotFd \/ GotRest \/ RestLoop \/ SetFd \/ RestClosefrom \/ RestRange
  PROVE  WorkInv' /\ TruthInv' /\ Spares
<1>1. LoopEffect
  BY GotFdEffect, RestLoopEffect, SetFdEffect, RestClosefromEffect,
     RestRangeEffect
<1>2. UNCHANGED <<item, yielded, op>>
  BY <1>1 DEF LoopEffect, iterVars, outVars, argVars
<1>3. ASSUME NEW f \in Pending' \cap yielded'
      PROVE  f = item' /\ pc' \in {"rest", "restfd", "setfd", "closefrom"}
  <2>1. f \in Pending \cap yielded /\ f = item
    BY <1>1, <1>2, <1>3 DEF LoopEffect, WorkInv
  <2> QED BY <1>1, <1>2, <1>3, <2>1 DEF LoopEffect
<1> QED BY <1>1, <1>2, <1>3 DEF LoopEffect, WorkInv

LEMMA LoopOverWork ==
  ASSUME ShapeInv, WorkInv, LoopOver
  PROVE  WorkInv'
<1>1. UNCHANGED <<iterVars, argVars, tableVars>> /\ pc = "wait" /\ itpc = "idle" /\ item = None
      /\ pc' = "drop"
  BY DEF LoopOver, localUnchanged
<1>2. ended /\ dir_minfd = minfd
  BY <1>1 DEF ShapeInv, ItemInv
<1>3. Pending' = Pending /\ UNCHANGED <<yielded, how, maxfd, raced>>
  BY <1>1
  DEF iterVars, outVars, maxVars, dirVars, argVars, tableVars, Pending, Held,
      Protected, KeepSet
<1>4. Pending \cap yielded = {}
  <2>1. \A f \in Pending : f \in Int
    BY PendingType
  <2> QED BY <1>1, <2>1, FdIterAssumption DEF WorkInv
<1>5. \A f \in Pending : Excused(f)
  <2> SUFFICES ASSUME NEW f \in Pending PROVE Excused(f)
    OBVIOUS
  <2>1. f \in Held /\ f >= dir_minfd
    BY <1>2, PendingType
  <2> QED BY <1>2, <1>4, <2>1 DEF ShapeInv, CallInv, ItInv, AllListed
<1>6. \A f : Excused(f)' <=> Excused(f)
  BY <1>3 DEF Excused
<1> QED BY <1>1, <1>3, <1>4, <1>5, <1>6 DEF WorkInv

LEMMA InsideWork ==
  ASSUME ShapeInv, WorkInv, SafeInv, pc # "start", Inside
  PROVE  WorkInv'
<1>1. Pending' \subseteq Pending /\ op' = op
  BY InsideEffect, InsideFrame DEF ShapeInv, argVars
<1>2. CASE StartIter
  <2>1. yielded' = {} /\ pc' = "loop"
    BY <1>2, NothingYielded DEF Before, StartIter, IterFrom, outVars
  <2> QED BY <2>1 DEF WorkInv
<1>3. CASE AskNext
  <2>1. UNCHANGED yielded /\ pc = "loop" /\ pc' = "wait"
    BY <1>3 DEF AskNext, CallNext, outVars
  <2> QED BY <1>1, <2>1 DEF WorkInv
<1>4. CASE RestDrop
  <2>1. UNCHANGED <<item, yielded>> /\ pc = "rest" /\ pc' = "closefrom"
    BY <1>4 DEF RestDrop, Drop, outVars
  <2> QED BY <1>1, <2>1 DEF WorkInv
<1>5. CASE DropIter
  <2>1. UNCHANGED <<item, yielded, how, maxfd, raced>> /\ pc = "drop" /\ pc' = "done"
    BY <1>5 DEF DropIter, Drop, outVars, maxVars
  <2>2. \A f : Excused(f)' <=> Excused(f)
    BY <2>1 DEF Excused
  <2> QED BY <1>1, <2>1, <2>2 DEF WorkInv
<1>6. CASE RunIter
  <2>1. IterStep /\ UNCHANGED <<pc, gi, keep_fds>>
    BY <1>6 DEF RunIter, callVars, argVars
  <2>2. itpc \notin {"none", "idle", "gone"} /\ pc \notin {"drop", "done", "rest", "restfd", "setfd",
          "closefrom", "gap"}
    BY <2>1, IterStepPc DEF ShapeInv, CallInv, CloseTypeInv, PcIter
  <2>3. Pending \cap yielded = {}
    BY <2>2 DEF WorkInv
  <2>4. ItemStep \/ NoneStep \/ QuietStep
    BY <2>1, IterStepKinds, CallTypes DEF ShapeInv, CallInv, ItInv
  <2>5. \/ yielded' = yielded
        \/ yielded' = yielded \cup {item'} /\ itpc' = "idle" /\ itpc \in {"dir", "loop"}
    BY <2>4 DEF ItemStep, NoneStep, QuietStep
  <2>6. itpc \in {"dir", "loop"} => pc = "wait"
    BY <2>2, CallTypes
    DEF ShapeInv, CallInv, CloseTypeInv, PcIter, HasRangeInv, Pcs
  <2> QED BY <1>1, <2>1, <2>2, <2>3, <2>5, <2>6 DEF WorkInv
<1> QED BY <1>2, <1>3, <1>4, <1>5, <1>6 DEF Inside


LEMMA EnvironmentWork ==
  ASSUME ShapeInv, WorkInv, Environment
  PROVE  WorkInv'
<1>1. /\ Pending' \subseteq Pending
      /\ UNCHANGED <<item, yielded, itpc, how, maxfd>> /\ (raced => raced')
  BY EnvironmentEffect DEF ShapeInv
<1>2. UNCHANGED <<pc, op, keep_fds, gi>>
  BY DEF Environment, callVars, argVars
<1>3. \A f : Excused(f) => Excused(f)'
  BY <1>1 DEF Excused
<1> QED BY <1>1, <1>2, <1>3 DEF WorkInv

(* The steps that touch neither the table nor the iterator.                *)
LEMMA StillWork ==
  ASSUME ShapeInv, WorkInv, TruthInv,
         Calls \/ Inspect \/ Simplify \/ ShortcutGaps \/ ShortcutNone \/ Revoke \/ UNCHANGED vars
  PROVE  WorkInv' /\ TruthInv' /\ UNCHANGED tableVars
<1>1. CASE Calls \/ Inspect \/ Simplify \/ ShortcutGaps \/ ShortcutNone
  <2>1. /\ pc \in Before
        /\ pc' \in {"inspect", "simplify", "shortcut", "skip", "iter"}
        /\ UNCHANGED <<tableVars, iterVars, may_have, kernel_has>>
    BY <1>1
    DEF Calls, Call, Inspect, Simplify, ShortcutGaps, ShortcutNone, Before,
        cacheVars
  <2>2. yielded' = {}
    BY <2>1, NothingYielded DEF iterVars, outVars
  <2> QED BY <2>1, <2>2 DEF WorkInv, TruthInv
<1>2. CASE Revoke \/ UNCHANGED vars
  <2>1. /\ UNCHANGED <<tableVars, iterVars, pc, argVars, gi, may_have>>
        /\ kernel_has' = kernel_has \/ kernel_has' = FALSE
    BY <1>2 DEF Revoke, vars, callVars, cacheVars
  <2>2. /\ Pending' = Pending
        /\ UNCHANGED <<item, yielded, itpc, how, maxfd, raced, op, keep_fds>>
    BY <2>1
    DEF iterVars, outVars, maxVars, dirVars, argVars, tableVars, Pending, Held,
        Protected, KeepSet
  <2>3. \A f : Excused(f) => Excused(f)'
    BY <2>2 DEF Excused
  <2>4. WorkInv'
    BY <2>1, <2>2, <2>3 DEF WorkInv
  <2> QED BY SMTT(30), <2>1, <2>4 DEF TruthInv
<1> QED BY <1>1, <1>2

LEMMA OutsideWork ==
  ASSUME ShapeInv, WorkInv, TruthInv, pc' # "killed", Outside
  PROVE  WorkInv' /\ TruthInv' /\ Spares
<1>1. CASE Calls \/ Inspect \/ Simplify \/ ShortcutGaps \/ ShortcutNone \/ Revoke \/ UNCHANGED vars
  BY <1>1, StillWork, SameSpares
<1>2. CASE ShortcutClosefrom \/ ShortcutRange
  BY <1>2, ShortcutEffect DEF WorkInv
<1>3. CASE GapsSkip \/ GapsFirst \/ GapsNext \/ GapsLast
  BY <1>3, GapWork
<1>4. CASE GotFd \/ GotRest \/ RestLoop \/ SetFd \/ RestClosefrom \/ RestRange
  BY <1>4, LoopWork
<1>5. CASE LoopOver
  <2>1. UNCHANGED <<tableVars, may_have, kernel_has>>
    BY <1>5 DEF LoopOver, localUnchanged, cacheVars
  <2> QED BY <1>5, <2>1, LoopOverWork, SameSpares DEF TruthInv
<1> QED BY <1>1, <1>2, <1>3, <1>4, <1>5 DEF Outside

LEMMA SafeStep ==
  ASSUME ShapeInv, ShapeInv', SafeInv, [Next]_vars, Outside => Spares
  PROVE  SafeInv' /\ (theirs' = theirs => SparesTheirs)
<1>0. IterTypeOK /\ IterTypeOK'
  BY CallTypes DEF ShapeInv, CallInv, CloseTypeInv, CloseTypeOK
<1>1. CASE Outside
  <2>1. UNCHANGED <<iterVars, theirs, dirfd>>
    BY <1>1, OutsideFrame
    DEF TableFrame, iterVars, dirVars, ShapeInv, CallInv, CloseTypeInv,
        CloseTypeOK, IterTypeOK, PcIter
  <2>2. SparesTheirs
    BY <1>0, <1>1 DEF Spares, SparesTheirs, IterTypeOK, TableTypeOK
  <2>3. CASE pc = "start"
    <3>1. Ownership /\ UNCHANGED open
      <4>1. Ownership
        BY <2>3 DEF ShapeInv, CallInv, OwnInv
      <4>2. CASE Calls
        BY <4>1, <4>2 DEF Calls, Call, tableVars
      <4>3. CASE Aside
        BY <2>3, <4>1, <4>3, StartFrame
        DEF ShapeInv, CallInv, CloseTypeInv, PcIter, tableVars
      <4> QED BY <2>3, <4>2, <4>3, StepsAt
    <3> QED BY <2>1, <2>2, <3>1 DEF Ownership, SafeInv
  <2>4. CASE pc # "start"
    <3>1. UNCHANGED <<KeepSet, arg_minfd>>
      BY <2>4, Fixed DEF argVars, KeepSet
    <3>2. \A f : Protected(f)' <=> Protected(f)
      BY <3>1 DEF Protected
    <3> QED BY <2>1, <2>2, <2>4, <3>2 DEF SafeInv, SparesTheirs
  <2> QED BY <2>3, <2>4
<1>2. CASE Inside
  <2>1. pc # "start"
    <3>1. CASE RunIter
      BY <3>1, IterStepPc DEF RunIter, ShapeInv, CallInv, CloseTypeInv, PcIter
    <3>2. CASE ~RunIter
      BY <1>2, <3>2 DEF Inside, StartIter, AskNext, RestDrop, DropIter
    <3> QED BY <3>1, <3>2
  <2>2. DirFrame /\ SparesTheirs
    BY <1>2, <2>1, InsideTable, InsideEffect DEF ShapeInv
  <2>3. UNCHANGED <<KeepSet, arg_minfd>>
    BY <2>1, Fixed DEF argVars, KeepSet
  <2>4. \A f : Protected(f)' <=> Protected(f)
    BY <2>3 DEF Protected
  <2>5. -1 \notin theirs
    BY SMTT(30), <1>0, FdTableAssumption DEF IterTypeOK, TableTypeOK, Fd
  <2>6. UNCHANGED theirs
    BY <2>2 DEF DirFrame
  <2>7. dirfd' \in theirs => ~Protected(dirfd')
    BY <2>1, <2>2, <2>5 DEF DirFrame, SafeInv
  <2> QED BY <2>1, <2>2, <2>4, <2>6, <2>7 DEF SafeInv, SparesTheirs
<1>3. CASE Environment
  <2>1. op = "cloexec" /\ UNCHANGED callVars /\ theirs' # theirs
    BY <1>3, EnvironmentEffect DEF ShapeInv
  <2>2. op' = "cloexec"
    BY <2>1 DEF callVars, argVars
  <2>3. Ownership'
    BY <2>2 DEF ShapeInv, CallInv, OwnInv
  <2> QED BY <2>1, <2>3 DEF Ownership, SafeInv
<1> QED BY <1>1, <1>2, <1>3, StepKinds


-----------------------------------------------------------------------------
(* The theorems.                                                           *)

EffectInv == ShapeInv /\ WorkInv /\ TruthInv /\ SafeInv

LEMMA EffectInit == Init => EffectInv
<1> SUFFICES ASSUME Init PROVE EffectInv
  OBVIOUS
<1>1. ShapeInv
  BY ShapeInit
<1>2. WorkInv /\ SafeInv
  BY DEF Init, IterInit, WorkInv, SafeInv
<1>3. TruthInv
  BY DEF Init, CacheInit, MayHaveValues, TruthInv
<1> QED BY <1>1, <1>2, <1>3 DEF EffectInv

LEMMA EffectNext ==
  ASSUME BelowIntMax, EffectInv, [Next]_vars
  PROVE  EffectInv' /\ (theirs' = theirs => SparesTheirs)
<1> USE DEF EffectInv
<1>1. ShapeInv'
  BY ShapeNext
<1>2. pc' # "killed"
  BY <1>1 DEF ShapeInv, CallInv, HasRangeInv
<1>3. Outside => WorkInv' /\ TruthInv' /\ Spares
  BY <1>2, OutsideWork
<1>4. SafeInv' /\ (theirs' = theirs => SparesTheirs)
  BY <1>1, <1>3, SafeStep
<1>5. CASE Inside
  <2>1. pc # "start"
    <3>1. CASE RunIter
      BY <3>1, IterStepPc DEF RunIter, ShapeInv, CallInv, CloseTypeInv, PcIter
    <3>2. CASE ~RunIter
      BY <1>5, <3>2 DEF Inside, StartIter, AskNext, RestDrop, DropIter
    <3> QED BY <3>1, <3>2
  <2>2. WorkInv'
    BY <1>5, <2>1, InsideWork
  <2>3. TruthInv'
    BY <1>5, InsideFrame DEF TruthInv, cacheVars
  <2> QED BY <1>1, <1>4, <2>2, <2>3
<1>6. CASE Environment
  <2>1. TruthInv'
    BY <1>6 DEF Environment, callVars, cacheVars, TruthInv
  <2> QED BY <1>1, <1>4, <1>6, <2>1, EnvironmentWork
<1> QED BY <1>1, <1>3, <1>4, <1>5, <1>6, StepKinds

(* The caches are right about the kernel: no call with a bad range ever    *)
(* makes close_range() look unavailable.                                   *)
THEOREM CachesAreRight ==
  ASSUME BelowIntMax
  PROVE  Spec => []CacheTruthful
<1>1. EffectInv => CacheTruthful
  BY DEF EffectInv, TruthInv, ShapeInv, CallInv, HasRangeInv, CacheTruthful
<1>2. EffectInv /\ [Next]_vars => EffectInv'
  BY EffectNext
<1> QED BY <1>1, <1>2, EffectInit, PTL DEF Spec

(* No step of any method closes or marks a descriptor below minfd or in    *)
(* the keep list.                                                          *)
THEOREM ProtectedStaysAsItIs ==
  ASSUME BelowIntMax
  PROVE  Spec => KeepsProtected
<1> DEFINE Keeps ==
      theirs' = theirs =>
        \A f \in theirs : Protected(f) =>
          /\ f \in open <=> f \in open'
          /\ f \in cloexec <=> f \in cloexec'
<1>1. EffectInv /\ [Next]_vars => EffectInv'
  BY EffectNext
<1>2. EffectInv /\ [Next]_vars => [Keeps]_vars
  BY EffectNext DEF SparesTheirs
<1>3. Init => EffectInv
  BY EffectInit
<1>4. Spec => [][Keeps]_vars
  BY <1>1, <1>2, <1>3, PTL DEF Spec
<1> QED BY <1>4 DEF KeepsProtected

LEMMA EffectHandled == EffectInv => TargetsHandled
<1> SUFFICES ASSUME EffectInv, pc = "done", NEW f \in steady,
                    ~Protected(f), ~Handled(f)
             PROVE  Excused(f)
  BY DEF TargetsHandled
<1>1. ShapeInv /\ CallInv /\ IterTypeOK /\ op \in {"close", "cloexec"}
  BY CallTypes DEF EffectInv, ShapeInv
<1>2. dirfd = -1
  BY <1>1 DEF CallInv, CloseTypeInv, PcIter, ItInv, DirControl
<1>3. f \in theirs /\ f # -1
  BY SMTT(30), <1>1, FdTableAssumption DEF IterTypeOK, TableTypeOK, Fd
<1>4. f \in open
  BY <1>1, <1>3 DEF Handled, CallInv, OwnInv, Ownership
<1>5. f \in Pending
  BY <1>1, <1>2, <1>3, <1>4 DEF Handled, Pending, Held
<1> QED BY <1>5 DEF EffectInv, WorkInv

(* When the call returns, every other descriptor that was there all the    *)
(* time is closed (or marked), but for what the sysconf() limit and a      *)
(* disturbed nfds scan excuse.                                             *)
THEOREM AllTargetsHandled ==
  ASSUME BelowIntMax
  PROVE  Spec => []TargetsHandled
<1>1. EffectInv /\ [Next]_vars => EffectInv'
  BY EffectNext
<1> QED BY <1>1, EffectHandled, EffectInit, PTL DEF Spec

-----------------------------------------------------------------------------
(* What the iterator says of its limit and of disturbances.                *)

(* A disturbance is remembered only once the scan has begun, and a limit   *)
(* of sysconf() is at least the floor.                                     *)
LimitInv ==
  /\ raced => itpc \in {"scan", "sysconf"} \/ maxfd # None
  /\ how = "sysconf" => maxfd \in Int /\ maxfd >= OpenMaxFloor - 1

(* What a step does to them: the method is chosen once, and only other     *)
(* code disturbs.                                                          *)
LimitStep == UNCHANGED raced /\ (how = "sysconf" => UNCHANGED how)

LEMMA ClampFloor ==
  ASSUME NEW v \in SysconfValues
  PROVE  Clamp(v) - 1 \in Int /\ Clamp(v) - 1 >= OpenMaxFloor - 1
BY SMTT(30), FdIterAssumption DEF Clamp

LEMMA LimitIter ==
  ASSUME IterTypeOK, MaxControl, LimitInv, IterStep
  PROVE  LimitInv' /\ LimitStep
<1> USE DEF LimitInv, LimitStep
<1>1. CASE DirOpen \/ DirStat \/ DirExhausted \/ Getdents \/ DirEntry
  <2>1. UNCHANGED <<maxfd, how, raced>> /\ itpc \notin {"scan", "sysconf"}
    BY <1>1 DEF DirOpen, DirStat, DirExhausted, Getdents, DirEntry, maxVars
  <2> QED BY <2>1
<1>2. CASE DirEof \/ DirErr \/ LoopStep
  <2>1. UNCHANGED <<maxfd, how, raced>> /\ itpc \notin {"scan", "sysconf"}
    BY <1>2 DEF DirEof, DirErr, LoopStep, maxVars
  <2> QED BY <2>1
<1>3. CASE MaxfdStart
  <2>1. UNCHANGED raced /\ itpc = "maxfd" /\ maxfd = None /\ how = "unset"
    BY <1>3 DEF MaxfdStart, MaxControl
  <2>2. how' # "sysconf"
    BY <1>3, <2>1 DEF MaxfdStart, SetMaxfd, maxVars
  <2> QED BY <2>1, <2>2
<1>4. CASE GetNfds
  <2>1. itpc = "maxfd" /\ maxfd = None /\ how = "unset" /\ ~raced /\ raced \in BOOLEAN
    BY <1>4 DEF GetNfds, MaxControl, IterTypeOK, ControlTypeOK
  <2>2. how' # "sysconf" /\ raced' = raced
    BY <1>4, <2>1 DEF GetNfds, SetMaxfd, maxVars
  <2> QED BY <2>1, <2>2
<1>5. CASE NfdsScan
  <2>1. itpc = "scan" /\ maxfd = None /\ how = "unset" /\ UNCHANGED raced
    BY <1>5 DEF NfdsScan, MaxControl
  <2>2. how' # "sysconf"
    BY <1>5, <2>1 DEF NfdsScan, SetMaxfd, maxVars
  <2>3. itpc' \in {"scan", "sysconf"} \/ (itpc' = "loop" /\ maxfd' = scanfd)
    BY <1>5, <2>1 DEF NfdsScan, SetMaxfd
  <2>4. scanfd # None
    BY SMTT(30), FdIterAssumption DEF IterTypeOK, ControlTypeOK
  <2> QED BY <2>1, <2>2, <2>3, <2>4
<1>6. CASE Sysconf
  <2>1. PICK v \in SysconfValues : SetMaxfd(Clamp(v) - 1, "sysconf")
    BY <1>6 DEF Sysconf
  <2>2. UNCHANGED raced /\ how = "unset"
    BY <1>6 DEF Sysconf, MaxControl
  <2>3. maxfd' = Clamp(v) - 1
    BY <2>1 DEF SetMaxfd
  <2>4. maxfd' \in Int /\ maxfd' >= OpenMaxFloor - 1
    BY <2>3, ClampFloor
  <2>5. maxfd' # None
    BY <2>4, FdIterAssumption
  <2> QED BY <2>2, <2>4, <2>5
<1> QED BY <1>1, <1>2, <1>3, <1>4, <1>5, <1>6 DEF IterStep

LEMMA LimitNext ==
  ASSUME CallInv, LimitInv, [Next]_vars
  PROVE  LimitInv' /\ (~Environment => LimitStep)
<1>1. IterTypeOK /\ MaxControl
  BY CallTypes DEF CallInv, ItInv
<1>2. CASE Outside
  <2>1. UNCHANGED iterVars
    BY <1>2, OutsideFrame
    DEF CallInv, CloseTypeInv, CloseTypeOK, IterTypeOK, PcIter
  <2> QED BY <2>1 DEF LimitInv, LimitStep, iterVars, maxVars
<1>3. CASE RunIter
  BY <1>1, <1>3, LimitIter DEF RunIter
<1>4. CASE StartIter \/ AskNext \/ RestDrop \/ DropIter
  <2>1. UNCHANGED <<raced, how, maxfd>> /\ itpc \notin {"scan", "sysconf"}
    BY <1>4
    DEF StartIter, AskNext, RestDrop, DropIter, IterFrom, CallNext, Drop,
        maxVars
  <2> QED BY <2>1 DEF LimitInv, LimitStep
<1>5. CASE Environment
  <2>1. UNCHANGED <<maxfd, how, itpc>>
    BY <1>5, OthersFrame DEF Environment, maxVars
  <2>2. raced' => raced \/ itpc = "scan"
    BY <1>5 DEF Environment, Others, iterVars
  <2> QED BY <1>5, <2>1, <2>2 DEF LimitInv
<1> QED BY <1>2, <1>3, <1>4, <1>5, StepKinds DEF Inside

-----------------------------------------------------------------------------
(* The descriptors of the program, as the promise sees them.               *)

LEMMA MarkedHeld ==
  ASSUME CallInv
  PROVE  OfProgram(cloexec) \subseteq OfProgram(open) /\ OfProgram(open) \subseteq Fd
<1>1. cloexec \subseteq open /\ open \subseteq Fd
  BY CallTypes DEF IterTypeOK, TableTypeOK
<1> QED BY <1>1 DEF OfProgram

(* The directory comes and goes unseen.                                    *)
LEMMA DirUnseen ==
  ASSUME CallInv, CallInv', op' = op, DirFrame
  PROVE  UNCHANGED <<OfProgram(open), OfProgram(cloexec)>>
<1>1. -1 \notin open /\ cloexec \subseteq open
  BY SMTT(30), CallTypes, FdTableAssumption DEF IterTypeOK, TableTypeOK, Fd
<1>2. op \in {"close", "cloexec"}
  BY CallTypes
<1>3. CASE op = "close"
  <2>1. OfProgram(open) = (open \cap theirs) \ {dirfd}
        /\ OfProgram(cloexec) = (cloexec \cap theirs) \ {dirfd}
    BY <1>3 DEF OfProgram
  <2>2. OfProgram(open)' = (open' \cap theirs') \ {dirfd'}
        /\ OfProgram(cloexec)' = (cloexec' \cap theirs') \ {dirfd'}
    BY <1>3 DEF OfProgram
  <2> QED BY SMTT(30), <1>1, <2>1, <2>2 DEF DirFrame
<1>4. CASE op = "cloexec"
  <2>1. dirfd \notin theirs /\ dirfd' \notin theirs'
    BY <1>4 DEF CallInv, OwnInv, Ownership
  <2>2. OfProgram(open) = open \cap theirs /\ OfProgram(cloexec) = cloexec \cap theirs
    BY <1>4 DEF OfProgram
  <2>3. OfProgram(open)' = open' \cap theirs' /\ OfProgram(cloexec)' = cloexec' \cap theirs'
    BY <1>4 DEF OfProgram
  <2> QED BY SMTT(30), <2>1, <2>2, <2>3 DEF DirFrame
<1> QED BY <1>2, <1>3, <1>4

(* closefrom marks nothing.                                                *)
LEMMA CloseRangeMarks ==
  ASSUME op = "close", NEW low, NEW high, NEW okpc, NEW errpc, CloseRange(low, high, okpc, errpc)
  PROVE  cloexec' \subseteq cloexec
BY DEF CloseRange, Affect, CloseAll, tableVars

LEMMA CloseMarksNothing ==
  ASSUME WorkInv, op = "close", Outside
  PROVE  cloexec' \subseteq cloexec
<1>1. CASE Calls \/ Inspect \/ Simplify \/ ShortcutGaps \/ ShortcutNone \/ LoopOver \/ Revoke
           \/ UNCHANGED vars
  BY <1>1
  DEF Calls, Call, Inspect, Simplify, ShortcutGaps, ShortcutNone, LoopOver,
      Revoke, vars, tableVars
<1>2. CASE ShortcutClosefrom \/ RestClosefrom
  BY <1>2 DEF ShortcutClosefrom, RestClosefrom, CloseAll
<1>3. CASE ShortcutRange \/ RestRange
  BY <1>3, CloseRangeMarks DEF ShortcutRange, RestRange
<1>4. CASE GapsSkip \/ GapsFirst
  BY <1>4, CloseRangeMarks DEF GapsSkip, GapsFirst, tableVars
<1>5. CASE GapsNext \/ GapsLast
  BY <1>5, CloseRangeMarks DEF GapsNext, GapsLast, tableVars
<1>6. CASE GotFd \/ RestLoop \/ GotRest
  BY <1>6 DEF GotFd, RestLoop, GotRest, Apply, CloseAll, tableVars
<1>7. CASE SetFd
  BY <1>7 DEF SetFd, WorkInv
<1> QED BY <1>1, <1>2, <1>3, <1>4, <1>5, <1>6, <1>7 DEF Outside

(* A step of the running call closes or marks what is not kept.            *)
LEMMA OutsideClosesOrMarks ==
  ASSUME EffectInv, SparesTheirs, pc # "start", Outside, [Next]_vars
  PROVE  Promise!Close \/ Promise!Mark
<1>1. CallInv /\ op \in {"close", "cloexec"} /\ cloexec \subseteq open
  BY CallTypes DEF EffectInv, ShapeInv, IterTypeOK, TableTypeOK
<1>2. TableFrame /\ UNCHANGED dirfd
  BY <1>1, OutsideFrame, CallTypes
  DEF iterVars, dirVars, CallInv, CloseTypeInv, CloseTypeOK, IterTypeOK, PcIter
<1>3. UNCHANGED <<op, theirs>>
  BY <1>2, Fixed DEF argVars, TableFrame
<1>4. CASE op = "close"
  <2>1. OfProgram(open) = (open \cap theirs) \ {dirfd}
        /\ OfProgram(cloexec) = (cloexec \cap theirs) \ {dirfd}
    BY <1>4 DEF OfProgram
  <2>2. OfProgram(open)' = (open' \cap theirs) \ {dirfd}
        /\ OfProgram(cloexec)' = (cloexec' \cap theirs) \ {dirfd}
    BY <1>2, <1>3, <1>4 DEF OfProgram
  <2>3. open' \subseteq open /\ cloexec' = cloexec \cap open'
    BY <1>2, <1>4, CloseMarksNothing DEF TableFrame, EffectInv
  <2>4. OfProgram(open)' \subseteq OfProgram(open)
    BY <2>1, <2>2, <2>3
  <2>5. OfProgram(open) \cap {f \in Fd : Protected(f)} \subseteq OfProgram(open)'
    BY <2>1, <2>2 DEF SparesTheirs
  <2>6. OfProgram(cloexec)' = OfProgram(cloexec) \cap OfProgram(open)'
    BY <2>1, <2>2, <2>3
  <2> QED BY <1>4, <2>4, <2>5, <2>6 DEF Promise!Close
<1>5. CASE op = "cloexec"
  <2>1. OfProgram(open) = open \cap theirs /\ OfProgram(cloexec) = cloexec \cap theirs
    BY <1>5 DEF OfProgram
  <2>2. OfProgram(open)' = open' \cap theirs /\ OfProgram(cloexec)' = cloexec' \cap theirs
    BY <1>3, <1>5 DEF OfProgram
  <2>3. open' = open /\ cloexec' \subseteq open /\ cloexec \subseteq cloexec'
    BY <1>1, <1>2, <1>5 DEF TableFrame
  <2>4. OfProgram(cloexec) \subseteq OfProgram(cloexec)' /\ OfProgram(cloexec)' \subseteq OfProgram(open)
        /\ OfProgram(open)' = OfProgram(open)
    BY <2>1, <2>2, <2>3
  <2>5. OfProgram(cloexec)' \cap {f \in Fd : Protected(f)}
          = OfProgram(cloexec) \cap {f \in Fd : Protected(f)}
    BY <2>1, <2>2 DEF SparesTheirs
  <2> QED BY <1>5, <2>4, <2>5 DEF Promise!Mark
<1> QED BY <1>1, <1>4, <1>5

LEMMA InsideClosesOrMarks ==
  ASSUME CallInv, CallInv', pc # "start", Inside
  PROVE  Promise!Close \/ Promise!Mark
<1>1. DirFrame /\ op' = op /\ op \in {"close", "cloexec"}
  BY InsideTable, CallTypes DEF argVars
<1>2. UNCHANGED <<OfProgram(open), OfProgram(cloexec)>>
  BY <1>1, DirUnseen
<1>3. OfProgram(cloexec) \subseteq OfProgram(open)
  BY MarkedHeld
<1>4. CASE op = "close"
  BY <1>2, <1>3, <1>4 DEF Promise!Close
<1>5. CASE op = "cloexec"
  BY <1>2, <1>3, <1>5 DEF Promise!Mark
<1> QED BY <1>1, <1>4, <1>5


-----------------------------------------------------------------------------
(* The steps of the promise.                                               *)

Kept == {f \in Fd : Protected(f)}

LEMMA StartsAsPromised ==
  ASSUME Init
  PROVE  Promise!PromiseInit
<1>1. pc = "start" /\ op = "close" /\ dirfd = -1 /\ theirs = open /\ steady = open
      /\ how = "unset" /\ raced = FALSE
  BY DEF Init, TableInit, IterInit
<1>2. open \subseteq Fd /\ cloexec \subseteq open /\ -1 \notin open
  BY SMTT(30), FdTableAssumption DEF Init, TableInit, Fd
<1>3. OfProgram(open) = open /\ OfProgram(cloexec) = cloexec
  BY <1>1, <1>2 DEF OfProgram
<1> QED BY <1>1, <1>2, <1>3 DEF Promise!PromiseInit

LEMMA CallIsRequest ==
  ASSUME CallInv, CallInv', Calls
  PROVE  Promise!Request
<1>1. pc = "start" /\ pc' \in {"inspect", "simplify"} /\ UNCHANGED <<tableVars, iterVars>>
  BY DEF Calls, Call
<1>2. op' \in {"close", "cloexec"}
  BY DEF CallInv, CloseTypeInv, CloseTypeOK
<1>3. dirfd = -1 /\ -1 \notin open /\ cloexec \subseteq open
  BY SMTT(30), <1>1, CallTypes, FdTableAssumption
  DEF CallInv, CloseTypeInv, PcIter, ItInv, DirControl,
     IterTypeOK, TableTypeOK, Fd
<1>4. UNCHANGED <<open, cloexec, theirs, steady, dirfd, how, raced>>
  BY <1>1 DEF tableVars, iterVars, dirVars, maxVars
<1>5. UNCHANGED <<OfProgram(open), OfProgram(cloexec)>>
  BY <1>3, <1>4 DEF OfProgram
<1>6. Kept' \subseteq Fd
  BY DEF Kept
<1> QED BY <1>1, <1>2, <1>4, <1>5, <1>6 DEF Promise!Request, Kept

(* What remains when the call returns is above the floor of the limit, or  *)
(* the scan was disturbed.                                                 *)
LEMMA ReturnsFulfilled ==
  ASSUME EffectInv, LimitInv, pc = "done"
  PROVE  Promise!Fulfilled
<1>1. ShapeInv /\ CallInv /\ IterTypeOK /\ op \in {"close", "cloexec"}
  BY CallTypes DEF EffectInv, ShapeInv
<1>2. dirfd = -1
  BY <1>1 DEF CallInv, CloseTypeInv, PcIter, ItInv, DirControl
<1> SUFFICES ASSUME NEW f \in steady, f \notin Kept, ~(how = "sysconf" /\ f >= OpenMaxFloor), ~raced
             PROVE  Promise!Settled(f)
  BY DEF Promise!Fulfilled, Kept
<1>3. f \in theirs /\ f \in Fd /\ f \in Int /\ f # -1
  BY SMTT(30), <1>1, FdTableAssumption DEF IterTypeOK, TableTypeOK, Fd
<1>4. ~Excused(f)
  BY SMTT(30), <1>3, FdIterAssumption DEF LimitInv, Excused
<1>5. f \notin Pending
  BY <1>4 DEF EffectInv, WorkInv
<1>6. CASE op = "close"
  <2>1. f \notin open
    BY <1>2, <1>3, <1>5, <1>6 DEF Pending, Held, Kept
  <2>2. f \notin OfProgram(open)
    BY <2>1 DEF OfProgram
  <2> QED BY <1>6, <2>2 DEF Promise!Settled
<1>7. CASE op = "cloexec"
  <2>1. f \in open
    BY <1>1, <1>3, <1>7 DEF CallInv, OwnInv, Ownership
  <2>2. f \in cloexec
    BY <1>2, <1>3, <1>5, <1>7, <2>1 DEF Pending, Held, Kept
  <2>3. f \in OfProgram(cloexec)
    BY <1>3, <1>7, <2>2 DEF OfProgram
  <2> QED BY <1>7, <2>3 DEF Promise!Settled
<1> QED BY <1>1, <1>6, <1>7

LEMMA StepIsProceed ==
  ASSUME pc \notin {"start", "done"}, pc' # "start", Promise!Close \/ Promise!Mark,
         pc' = "done" => Promise!Fulfilled', UNCHANGED <<argVars, steady>>, LimitStep
  PROVE  Promise!Proceed
<1>1. UNCHANGED <<op, steady, raced>> /\ Kept' = Kept
  BY DEF argVars, LimitStep, Kept, Protected, KeepSet
<1>2. (how = "sysconf")' \in {how = "sysconf", TRUE}
  BY DEF LimitStep
<1> HIDE DEF Kept
<1>3. \/ pc' # "done"
      \/ pc' = "done" /\ Promise!Fulfilled'
  OBVIOUS
<1> QED BY <1>1, <1>2, <1>3 DEF Promise!Proceed, Kept

LEMMA EnvironmentIsOther ==
  ASSUME CallInv, Environment
  PROVE  Promise!OtherOpens \/ Promise!OtherCloses
<1>1. Others /\ op = "cloexec" /\ op' = op /\ UNCHANGED pc /\ pc # "start" /\ Kept' = Kept
  BY DEF Environment, callVars, argVars, Kept, Protected, KeepSet
<1>2. theirs \subseteq open /\ cloexec \subseteq open /\ open \subseteq Fd /\ raced \in BOOLEAN
  BY <1>1, CallTypes
  DEF CallInv, OwnInv, Ownership, IterTypeOK, TableTypeOK, ControlTypeOK
<1>3. UNCHANGED how
  BY <1>1, OthersFrame DEF maxVars
<1>4. OfProgram(open) = open \cap theirs /\ OfProgram(cloexec) = cloexec \cap theirs
  BY <1>1 DEF OfProgram
<1>5. OfProgram(open)' = open' \cap theirs' /\ OfProgram(cloexec)' = cloexec' \cap theirs'
  BY <1>1 DEF OfProgram
<1>6. CASE OtherOpen /\ raced' = (raced \/ itpc = "scan")
  <2>1. PICK d \in Fd, flag \in Flags :
          /\ LowestFree(d)
          /\ open' = open \cup {d}
          /\ cloexec' = IF flag THEN cloexec \cup {d} ELSE cloexec
          /\ theirs' = theirs \cup {d}
          /\ UNCHANGED steady
    BY <1>6 DEF OtherOpen
  <2>2. d \notin open
    BY <2>1 DEF LowestFree
  <2>3. d \in Fd \ OfProgram(open) /\ OfProgram(open)' = OfProgram(open) \cup {d}
    BY <1>2, <1>4, <1>5, <2>1, <2>2
  <2>4. OfProgram(cloexec)' \in {OfProgram(cloexec), OfProgram(cloexec) \cup {d}}
    BY SMTT(30), <1>2, <1>4, <1>5, <2>1, <2>2
  <2>5. raced' \in {raced, TRUE}
    BY <1>2, <1>6
  <2> QED BY <1>1, <1>3, <2>1, <2>3, <2>4, <2>5 DEF Promise!OtherOpens, Kept
<1>7. CASE (\E f \in Fd : OtherClose(f)) /\ UNCHANGED iterVars
  <2>1. PICK f \in Fd : OtherClose(f)
    BY <1>7
  <2>2. f \in OfProgram(open)
    BY <1>2, <1>4, <2>1 DEF OtherClose
  <2>3. OfProgram(open)' = OfProgram(open) \ {f} /\ OfProgram(cloexec)' = OfProgram(cloexec) \ {f}
        /\ steady' = steady \ {f}
    BY <1>4, <1>5, <2>1 DEF OtherClose
  <2>4. UNCHANGED raced
    BY <1>7 DEF iterVars
  <2> QED BY <1>1, <1>3, <2>2, <2>3, <2>4 DEF Promise!OtherCloses, Kept
<1> QED BY <1>1, <1>6, <1>7 DEF Others


(* What the promise speaks of is unchanged by a step that touches none of  *)
(* these.                                                                  *)
LEMMA StillPromised ==
  ASSUME UNCHANGED <<tableVars, iterVars, pc, argVars>>
  PROVE  UNCHANGED Promise!promiseVars
<1>1. UNCHANGED <<open, cloexec, theirs, steady, dirfd, how, raced, op>> /\ Kept' = Kept
  BY DEF tableVars, iterVars, dirVars, maxVars, argVars, Kept, Protected,
      KeepSet
<1>2. UNCHANGED <<OfProgram(open), OfProgram(cloexec)>>
  BY <1>1 DEF OfProgram
<1> QED BY <1>1, <1>2 DEF Promise!promiseVars, Kept

PromiseInv == EffectInv /\ LimitInv

LEMMA PromiseInvNext ==
  ASSUME BelowIntMax, PromiseInv, [Next]_vars
  PROVE  PromiseInv'
BY EffectNext, LimitNext DEF PromiseInv, EffectInv, ShapeInv

LEMMA StepKeepsPromise ==
  ASSUME BelowIntMax, PromiseInv, PromiseInv', [Next]_vars
  PROVE  [Promise!PromiseNext]_(Promise!promiseVars)
<1>1. CallInv /\ CallInv' /\ EffectInv /\ LimitInv
  BY DEF PromiseInv, EffectInv, ShapeInv
<1>2. CASE Calls
  BY <1>1, <1>2, CallIsRequest DEF Promise!PromiseNext
<1>3. CASE Environment
  BY <1>1, <1>3, EnvironmentIsOther DEF Promise!PromiseNext
<1>4. CASE Revoke \/ UNCHANGED vars
  <2>1. UNCHANGED <<tableVars, iterVars, pc, argVars>>
    BY <1>4 DEF Revoke, vars, callVars
  <2> QED BY <2>1, StillPromised
<1>5. CASE ~Calls /\ ~Environment /\ ~Revoke /\ ~UNCHANGED vars
  <2>1. (Outside \/ Inside) /\ pc \notin {"start", "done"}
    <3>1. Outside \/ Inside
      BY <1>5, StepKinds
    <3>2. RunIter => pc \notin {"start", "done"}
      BY <1>1, IterStepPc DEF RunIter, CallInv, CloseTypeInv, PcIter
    <3> QED BY <1>5, <3>1, <3>2, StepsAt DEF Aside
  <2>2. pc' # "start" /\ UNCHANGED argVars
    BY <2>1, Fixed
  <2>3. LimitStep
    BY <1>1, <1>5, LimitNext
  <2>4. Promise!Close \/ Promise!Mark
    <3>1. CASE Outside
      <4>1. theirs' = theirs
        BY <1>1, <3>1, OutsideFrame, CallTypes
        DEF TableFrame, CallInv, CloseTypeInv, CloseTypeOK, IterTypeOK, PcIter
      <4>2. SparesTheirs
        BY <1>1, <4>1, EffectNext
      <4> QED BY <1>1, <2>1, <3>1, <4>2, OutsideClosesOrMarks
    <3>2. CASE Inside
      BY <1>1, <2>1, <3>2, InsideClosesOrMarks
    <3> QED BY <2>1, <3>1, <3>2
  <2>5. UNCHANGED steady
    <3>1. CASE Outside
      BY <1>1, <3>1, OutsideFrame, CallTypes
      DEF TableFrame, CallInv, CloseTypeInv, CloseTypeOK, IterTypeOK, PcIter
    <3>2. CASE Inside
      BY <1>1, <3>2, InsideTable DEF DirFrame
    <3> QED BY <2>1, <3>1, <3>2
  <2>6. (PromiseInv => (pc = "done" => Promise!Fulfilled))'
    BY ReturnsFulfilled, PTL DEF PromiseInv
  <2>7. Promise!Proceed
    BY <2>1, <2>2, <2>3, <2>4, <2>5, <2>6, StepIsProceed
  <2> QED BY <2>7 DEF Promise!PromiseNext
<1> QED BY <1>2, <1>3, <1>4, <1>5

(* closefrom and cloexecfrom keep the promise of CloseCall: on every       *)
(* platform and path, with any interleaving of the rest of the program,    *)
(* no step closes or marks what is to be kept, and the call does not       *)
(* return before everything else is dealt with.                            *)
THEOREM PromiseKept ==
  ASSUME BelowIntMax
  PROVE  Spec => KeepsPromise
<1>1. Init => PromiseInv
  <2>1. Init => LimitInv
    BY DEF Init, IterInit, LimitInv
  <2> QED BY <2>1, EffectInit DEF PromiseInv
<1>2. PromiseInv /\ [Next]_vars => PromiseInv'
  BY PromiseInvNext
<1>3. PromiseInv /\ PromiseInv' /\ [Next]_vars => [Promise!PromiseNext]_(Promise!promiseVars)
  BY StepKeepsPromise
<1>4. Init => Promise!PromiseInit
  BY StartsAsPromised
<1> QED BY <1>1, <1>2, <1>3, <1>4, PTL DEF Spec, KeepsPromise, Promise!Promised

=============================================================================
