-------------------------- MODULE FdConsumerProofs --------------------------
(***************************************************************************)
(* FdIter::min, FdIter::max and size_hint() are right, for every value of  *)
(* the constants.  The iterator's invariants are those of FdIterProofs:    *)
(* all the consumer does to it is a step of IterNext.                      *)
(***************************************************************************)
EXTENDS FdConsumer, FdIterProofs

USE ZenonT(30)

(* What the consumer has been given, without what next() has just returned *)
(* and the consumer has not yet looked at.                                 *)
Given == upc = "wait" /\ itpc = "idle" /\ item # None

Taken == IF Given THEN yielded \ {item} ELSE yielded

(* Where the iterator is, seen from the consumer.                          *)
WhereInv ==
  /\ upc \in {"start", "hint", "next", "wait", "end", "gone"}
  /\ upc = "start" => itpc = "none"
  /\ upc = "hint" => itpc \in {"open", "stat", "idle"}
  /\ upc \in {"start", "hint"} => i = 0 /\ yielded = {}
  /\ upc \in {"next", "end"} => itpc = "idle"
  /\ upc = "wait" => itpc \notin {"none", "open", "stat", "gone"}
  /\ upc = "gone" => itpc = "gone"
  /\ upc = "wait" /\ itpc = "idle" /\ item = None => ended
  /\ upc = "end" => ended

(* What it has been given lies between the first and the last of it.       *)
BetweenInv ==
  /\ i \in Nat
  /\ Given => item \in yielded /\ \A y \in yielded : y <= item
  /\ i = 0 => Taken = {}
  /\ i > 0 =>
       /\ first \in yielded /\ last \in yielded
       /\ \A y \in Taken : first <= y /\ y <= last

ConInv == IterInv /\ WhereInv /\ BetweenInv

LEMMA ConTypes ==
  ASSUME IterInv
  PROVE  yielded \subseteq Int /\ curfd \in Int /\ dir_minfd \in Int
BY SMTT(30), FdTableAssumption
   DEF IterInv, IterOwnInv, IterTypeOK, FieldTypeOK, ControlTypeOK, Fd

LEMMA ConInvInit == ConInit => ConInv
<1> SUFFICES ASSUME ConInit PROVE ConInv
  OBVIOUS
<1>1. IterInv
  BY IterInvInit DEF ConInit
<1> QED
  BY SMTT(30), <1>1
  DEF ConInit, IterInit, ConInv, WhereInv, BetweenInv, Given, Taken

(* The iterator takes a step of its own.                                   *)
LEMMA ConIterStep ==
  ASSUME ConInv, IterInv', IterStep, UNCHANGED consumerVars
  PROVE  WhereInv' /\ BetweenInv'
<1>1. (ItemStep \/ NoneStep \/ QuietStep) /\ UNCHANGED dir_minfd
  BY IterStepKinds DEF ConInv, IterInv, IterOwnInv
<1>2. /\ upc' = upc /\ i' = i /\ first' = first /\ last' = last
      /\ upc \in {"hint", "wait"}
      /\ itpc # "idle"
  BY IterStepPc DEF consumerVars, ConInv, WhereInv
<1>3. Taken = yielded
  BY <1>2 DEF Taken, Given
<1>4. CASE upc = "hint"
  <2>1. itpc \in {"open", "stat"} /\ itpc' \in {"stat", "idle"} /\ i = 0 /\ yielded = {}
    BY <1>2, <1>4, IterStepPc DEF ConInv, WhereInv
  <2>2. yielded' = {}
    <3>1. ~ItemStep
      BY <2>1 DEF ItemStep
    <3> QED BY <1>1, <2>1, <3>1 DEF NoneStep, QuietStep
  <2> QED BY SMTT(30), <1>2, <1>4, <2>1, <2>2
          DEF WhereInv, BetweenInv, Given, Taken
<1>5. CASE upc = "wait"
  <2>1. itpc \notin {"none", "open", "stat", "gone"}
        /\ itpc' \notin {"none", "open", "stat", "gone"}
    BY <1>2, <1>5, IterStepPc DEF ConInv, WhereInv
  <2>2. CASE ItemStep
    <3>1. item' \in yielded' /\ \A y \in yielded' : y <= item'
      BY SMTT(30), <2>2, ConTypes DEF ItemStep, ConInv, IterInv, Order
    <3>2. yielded \subseteq Int /\ item' \in Int /\ \A y \in yielded : y < item'
      BY SMTT(30), <2>2, ConTypes DEF ItemStep, ConInv, IterInv, Order
    <3>3. item' # None
      BY <2>2, FdIterAssumption DEF ItemStep
    <3>4. Taken' = yielded
      BY SMTT(30), <1>2, <1>5, <2>2, <3>2, <3>3 DEF Taken, Given, ItemStep
    <3>5. WhereInv'
      BY <1>2, <1>5, <2>1, <3>3 DEF WhereInv
    <3>6. yielded \subseteq yielded'
      BY <2>2 DEF ItemStep
    <3> QED BY <1>2, <1>3, <3>1, <3>4, <3>5, <3>6 DEF BetweenInv, ConInv
  <2>3. CASE NoneStep
    BY <1>2, <1>3, <1>5, <2>1, <2>3
       DEF NoneStep, WhereInv, BetweenInv, ConInv, Given, Taken
  <2>4. CASE QuietStep
    <3>1. itpc' # "idle"
      BY <2>1, <2>4 DEF QuietStep
    <3> QED
      BY <1>2, <1>3, <1>5, <2>1, <2>4, <3>1
         DEF QuietStep, WhereInv, BetweenInv, ConInv, Given, Taken
  <2> QED BY <1>1, <2>2, <2>3, <2>4
<1> QED BY <1>2, <1>4, <1>5

LEMMA ConInvNext ==
  ASSUME ConInv, [ConNext]_conVars
  PROVE  ConInv'
<1> USE DEF ConInv
<1>1. [IterNext]_iterSpecVars
  BY DEF ConNext, MakeIter, FirstHint, AskFd, TakeFd, Extremes, TakeNone, Discard,
      conVars, IterNext, IterUser, iterSpecVars
<1>2. IterInv'
  BY <1>1, IterInvNext
<1>3. CASE MakeIter
  BY <1>2, <1>3
     DEF MakeIter, IterFrom, WhereInv, BetweenInv, Given, Taken, outVars
<1>4. CASE FirstHint
  BY <1>2, <1>4
     DEF FirstHint, WhereInv, BetweenInv, Given, Taken, iterVars, outVars
<1>5. CASE AskFd
  <2>1. itpc' \in {"dir", "maxfd", "loop"} /\ UNCHANGED outVars
    BY <1>5 DEF AskFd, CallNext
  <2> QED
    BY <1>2, <1>5, <2>1 DEF AskFd, WhereInv, BetweenInv, Given, Taken, outVars
<1>6. CASE TakeFd
  <2>1. Given /\ Taken' = yielded /\ i' = i + 1 /\ last' = item
        /\ first' = IF i = 0 THEN item ELSE first
    BY <1>6 DEF TakeFd, Extremes, Given, Taken, iterVars, outVars
  <2>2. item \in yielded /\ yielded \subseteq Int /\ \A y \in yielded : y <= item
    BY <2>1, ConTypes DEF BetweenInv
  <2>3. Taken = yielded \ {item} /\ i \in Nat /\ i' > 0 /\ yielded' = yielded
    BY SMTT(30), <1>6, <2>1 DEF TakeFd, Extremes, Taken, BetweenInv, iterVars, outVars
  <2>4. WhereInv' /\ ~Given'
    BY <1>6 DEF TakeFd, Extremes, WhereInv, Given, iterVars
  <2>5. first' \in yielded /\ \A y \in yielded : first' <= y
    <3>1. CASE i = 0
      BY <2>1, <2>2, <2>3, <3>1 DEF BetweenInv
    <3>2. CASE i # 0
      <4>1. first \in yielded /\ \A y \in yielded \ {item} : first <= y
        BY SMTT(30), <2>3, <3>2 DEF BetweenInv
      <4> QED BY <2>1, <2>2, <3>2, <4>1
    <3> QED BY <3>1, <3>2
  <2> QED BY SMTT(30), <1>2, <2>1, <2>2, <2>3, <2>4, <2>5 DEF BetweenInv
<1>7. CASE TakeNone
  BY <1>2, <1>7
  DEF TakeNone, WhereInv, BetweenInv, Given, Taken, iterVars, outVars
<1>8. CASE Discard
  BY <1>2, <1>8 DEF Discard, Drop, WhereInv, BetweenInv, Given, Taken, outVars
<1>9. CASE IterStep /\ UNCHANGED consumerVars
  BY <1>2, <1>9, ConIterStep
<1>10. CASE Others /\ UNCHANGED consumerVars
  BY <1>2, <1>10, OthersFrame
     DEF WhereInv, BetweenInv, Given, Taken, outVars, consumerVars
<1>11. CASE UNCHANGED conVars
  BY <1>2, <1>11
  DEF WhereInv, BetweenInv, Given, Taken, outVars, consumerVars, iterVars,
      conVars
<1> QED BY <1>3, <1>4, <1>5, <1>6, <1>7, <1>8, <1>9, <1>10, <1>11 DEF ConNext

(* FdIter::min and FdIter::max (MinMaxRight): for every table, platform    *)
(* and minfd, with other threads at work, the first descriptor of the      *)
(* iteration is the least and the last one the greatest of all that were   *)
(* open throughout, unless the method could miss it.                       *)
THEOREM MinAndMaxRight == ConSpec => []MinMaxRight
<1>1. ConInv => MinMaxRight
  <2> SUFFICES ASSUME ConInv, upc = "end",
                      NEW f \in steady, f >= dir_minfd, ~Excused(f)
               PROVE  i > 0 /\ first <= f /\ f <= last
    BY DEF MinMaxRight
  <2>1. f \in Held
    BY DEF ConInv, IterInv, IterOwnInv, Ownership, Held, IterTypeOK,
        TableTypeOK
  <2>2. f \in yielded
    BY <2>1 DEF ConInv, IterInv, AllListed, WhereInv
  <2>3. Taken = yielded
    BY DEF Taken, Given
  <2> QED BY SMTT(30), <2>2, <2>3 DEF ConInv, BetweenInv
<1> QED BY <1>1, ConInvInit, ConInvNext, PTL DEF ConSpec

-----------------------------------------------------------------------------
(* size_hint() and the number of descriptors.                              *)

(* How many have been returned.                                            *)
Count == IF Given THEN i + 1 ELSE i

(* Before the first next() nothing is buffered and no maxfd is known.      *)
FreshInv ==
  upc = "hint" => item = None /\ Remaining = {} /\ maxfd = None /\ ~ended

(* The bounds, against what has been returned and what is hinted now.      *)
LowInv ==
  upc \in {"next", "wait", "end"} =>
    /\ init_low \in Int
    /\ init_low <= Count \/ (item # None /\ init_low <= Count + HintLow)

HighInv ==
  upc \in {"next", "wait", "end"} =>
    /\ init_high \in Int
    /\ init_high >= IntMax \/ (HintHigh < IntMax /\ Count + HintHigh <= init_high)

(* They ascend from 0.                                                     *)
FitInv == Count <= curfd

CountInv == ConInv /\ HintInv /\ FreshInv /\ LowInv /\ HighInv /\ FitInv

LEMMA CountTypes ==
  ASSUME ConInv
  PROVE  /\ IterTypeOK /\ Order /\ Count \in Nat /\ i \in Nat
         /\ curfd \in Nat /\ curfd <= IntMax /\ IntMax \in Nat
         /\ HintLow \in Nat /\ HintHigh \in Nat
<1>1. IterTypeOK /\ Order /\ i \in Nat
  BY DEF ConInv, IterInv, IterOwnInv, BetweenInv
<1>2. curfd \in Nat /\ curfd <= IntMax /\ IntMax \in Nat
  BY SMTT(30), <1>1, FdTableAssumption DEF IterTypeOK, FieldTypeOK
<1> QED BY SMTT(30), <1>1, <1>2, HintTypes DEF Count

(* After None the hint is 0.                                               *)
LEMMA EndedHint ==
  ASSUME ConInv, ended, itpc = "idle"
  PROVE  HintLow = 0
<1>1. \/ dirfd_iter /\ dirfd < 0
      \/ ~dirfd_iter /\ maxfd # None /\ curfd > maxfd
  BY SMTT(30) DEF ConInv, IterInv, AfterNone
<1>2. IterTypeOK /\ curfd \in Int
  BY SMTT(30), CountTypes
<1>3. maxfd # None => maxfd \in Int
  BY SMTT(30), <1>2, FdTableAssumption DEF IterTypeOK, FieldTypeOK
<1> QED BY SMTT(30), <1>1, <1>2, <1>3, HintValues DEF HintValue, LoopLeft

LEMMA CountInit == ConInit => CountInv
<1> SUFFICES ASSUME ConInit PROVE CountInv
  OBVIOUS
<1>1. ConInv
  BY ConInvInit
<1>2. HintInv
  BY DEF ConInit, IterInit, HintInv
<1> QED
  BY SMTT(30), <1>1, <1>2
  DEF ConInit, IterInit, CountInv, FreshInv, LowInv, HighInv, FitInv, Count,
      Given

(* A step of the iterator that neither returns nor raises the upper bound  *)
(* nor lowers the lower one.                                               *)
LEMMA CountIterStep ==
  ASSUME CountInv, ConInv', HintStep, IterStep, UNCHANGED consumerVars
  PROVE  LowInv' /\ HighInv' /\ FitInv'
<1>1. ItemStep \/ NoneStep \/ QuietStep
  BY IterStepKinds DEF CountInv, ConInv, IterInv, IterOwnInv
<1>2. /\ UNCHANGED <<upc, i, init_low, init_high>>
      /\ upc \in {"hint", "wait"} /\ itpc # "idle" /\ itpc' # "gone"
      /\ upc = "wait" => itpc \notin {"open", "stat"}
      /\ upc = "hint" => itpc \in {"open", "stat"}
  BY IterStepPc DEF consumerVars, boundVars, CountInv, ConInv, WhereInv
<1>3. Count = i /\ i \in Nat /\ curfd \in Nat /\ HintLow \in Nat /\ HintHigh \in Nat
      /\ IntMax \in Nat
  BY <1>2, CountTypes DEF Count, Given, CountInv
<1>4. Count' \in Nat /\ curfd' \in Nat /\ HintLow' \in Nat /\ HintHigh' \in Nat
  <2>1. IterTypeOK' /\ i' \in Nat
    BY DEF ConInv, IterInv, IterOwnInv, BetweenInv
  <2>2. curfd' \in Nat
    BY SMTT(30), <2>1, FdTableAssumption DEF IterTypeOK, FieldTypeOK
  <2>3. Count' \in Nat
    <3>1. Count' = i' \/ Count' = i' + 1
      BY DEF Count
    <3> QED BY SMTT(30), <2>1, <3>1
  <2> QED BY <2>1, <2>2, <2>3, HintsNext DEF HintValue
<1>5. CASE ItemStep
  <2>1. item' # None /\ GivesFd /\ upc = "wait"
    BY <1>2, <1>5, FdIterAssumption DEF ItemStep, GivesFd
  <2>2. Count' = Count + 1
    BY <1>2, <1>3, <1>5, <2>1 DEF ItemStep, Count, Given
  <2>3. /\ item # None => HintLow' >= HintLow - 1
        /\ HintHigh < IntMax => HintHigh' <= HintHigh - 1
    BY <1>2, <2>1 DEF HintStep
  <2>4. LowInv'
    BY SMTT(30), <1>2, <1>3, <1>4, <2>1, <2>2, <2>3 DEF CountInv, LowInv
  <2>5. HighInv'
    BY SMTT(30), <1>2, <1>3, <1>4, <2>1, <2>2, <2>3 DEF CountInv, HighInv
  <2>6. FitInv'
    <3>1. item' \in Int /\ item' >= curfd /\ curfd' = item' + 1
      BY <1>5 DEF ItemStep
    <3>2. Count <= curfd
      BY DEF CountInv, FitInv
    <3>3. Count' <= curfd'
      <4>1. \A c, d, e \in Int : c <= d /\ e >= d => c + 1 <= e + 1
        BY SMTT(30)
      <4>2. Count \in Int /\ curfd \in Int
        BY SMTT(30), <1>3
      <4> QED BY <2>2, <3>1, <3>2, <4>1, <4>2
    <3> QED BY <3>3 DEF FitInv
  <2> QED BY <2>4, <2>5, <2>6
<1>6. CASE NoneStep \/ QuietStep
  <2>1. ~GivesFd
    BY <1>2, <1>6 DEF NoneStep, QuietStep, GivesFd
  <2>2. Count' = Count
    <3>1. CASE upc = "hint"
      BY <1>2, <1>3, <3>1 DEF Count, Given
    <3>2. CASE upc = "wait"
      BY <1>2, <1>3, <1>6, <3>2 DEF NoneStep, QuietStep, Count, Given
    <3> QED BY <1>2, <3>1, <3>2
  <2>3. /\ item # None => HintLow' >= HintLow
        /\ HintHigh < IntMax => HintHigh' <= HintHigh
        /\ GivesNone => HintLow = 0
    BY SMTT(30), <1>2, <1>3, <2>1 DEF HintStep
  <2>4. LowInv'
    <3>1. CASE NoneStep
      <4>1. HintLow = 0
        BY <2>3, <3>1 DEF NoneStep, GivesNone
      <4> QED BY SMTT(30), <1>2, <1>3, <1>4, <2>2, <4>1 DEF CountInv, LowInv
    <3>2. CASE QuietStep
      BY SMTT(30), <1>2, <1>3, <1>4, <2>2, <2>3, <3>2
      DEF CountInv, LowInv, QuietStep
    <3> QED BY <1>6, <3>1, <3>2
  <2>5. HighInv'
    BY SMTT(30), <1>2, <1>3, <1>4, <2>2, <2>3 DEF CountInv, HighInv
  <2>6. curfd' >= curfd
    BY SMTT(30), <1>3, <1>6 DEF NoneStep, QuietStep
  <2>7. FitInv'
    BY SMTT(30), <1>3, <1>4, <2>2, <2>6 DEF CountInv, FitInv
  <2> QED BY <2>4, <2>5, <2>7
<1> QED BY <1>1, <1>5, <1>6

(* A step that leaves the iterator's answers alone.                        *)
LEMMA SameCount ==
  ASSUME CountInv, UNCHANGED <<dirVars, fieldVars, curfd, maxVars, item, i, boundVars>>,
         Count' = Count, upc' \in {"next", "wait", "end"} => upc \in {"next", "wait", "end"}
  PROVE  LowInv' /\ HighInv' /\ FitInv'
<1>1. HintLow' = HintLow
  BY DEF HintLow, Remaining, Hinted, LoopLeft, dirVars, fieldVars, maxVars
<1>2. HintHigh' = HintHigh
  BY DEF HintHigh, LoopLeft, dirVars, fieldVars, maxVars
<1> QED BY <1>1, <1>2 DEF CountInv, LowInv, HighInv, FitInv, boundVars

LEMMA CountNext ==
  ASSUME CountInv, [ConNext]_conVars
  PROVE  CountInv'
<1>1. [IterNext]_iterSpecVars
  BY DEF ConNext, MakeIter, FirstHint, AskFd, TakeFd, Extremes, TakeNone, Discard,
      conVars, IterNext, IterUser, iterSpecVars
<1>2. ConInv' /\ IterOwnInv /\ IterOwnInv' /\ IterOrderInv
  BY ConInvNext DEF CountInv, ConInv, IterInv, IterOrderInv
<1>3. HintInv' /\ HintStep
  BY <1>1, <1>2, HintInvNext, HintNext DEF CountInv
<1>4. Count \in Nat /\ i \in Nat /\ HintLow \in Nat /\ HintHigh \in Nat /\ IntMax \in Nat
      /\ curfd \in Nat /\ IterTypeOK
  BY CountTypes DEF CountInv
<1> SUFFICES FreshInv' /\ LowInv' /\ HighInv' /\ FitInv'
  BY <1>2, <1>3 DEF CountInv
<1>5. CASE MakeIter
  <2>1. itpc = "none" /\ i = 0 /\ i' = 0 /\ upc' = "hint" /\ upc = "start"
        /\ UNCHANGED <<dirVars, maxVars, outVars>>
    BY <1>5 DEF MakeIter, IterFrom, CountInv, ConInv, WhereInv
  <2>2. Remaining = {} /\ maxfd = None /\ item = None /\ ~ended
    <3>1. dirent_buf = <<>> /\ dirent_offset = 0 /\ maxfd = None
      BY <1>2, <2>1 DEF IterOwnInv, DirControl, MaxControl
    <3>2. Remaining = {}
      BY SMTT(30), <3>1 DEF Remaining
    <3> QED BY <2>1, <3>1, <3>2
            DEF CountInv, HintInv, ConInv, IterInv, AfterNone
  <2>3. FreshInv'
    BY <2>1, <2>2 DEF FreshInv, Remaining, dirVars, maxVars, outVars
  <2>4. Count' = 0 /\ curfd' >= 0
    <3>1. curfd' \in Nat
      BY SMTT(30), <1>2, FdTableAssumption
      DEF IterOwnInv, IterTypeOK, FieldTypeOK
    <3> QED BY SMTT(30), <2>1, <3>1 DEF Count, Given
  <2> QED BY <2>1, <2>3, <2>4 DEF LowInv, HighInv, FitInv
<1>6. CASE FirstHint
  <2>1. /\ upc = "hint" /\ upc' = "next" /\ i' = i
        /\ init_low' = HintLow /\ init_high' = HintHigh
        /\ UNCHANGED <<curfd, item>>
    BY <1>6 DEF FirstHint, iterVars, outVars
  <2>2. Count = i /\ Count' = i
    BY <2>1 DEF Count, Given
  <2>3. HintLow = 0 /\ HintHigh = IntMax
    <3>1. Remaining = {} /\ maxfd = None /\ ~ended
      BY <2>1 DEF CountInv, FreshInv
    <3>2. dirfd_iter => dirfd >= 0
      BY SMTT(30), <1>4, <3>1, FdTableAssumption
         DEF CountInv, ConInv, IterInv, AfterNone, IterTypeOK, DirTypeOK
    <3> QED BY <1>4, <3>1, <3>2, HintValues DEF HintValue
  <2> QED
    BY SMTT(30), <1>4, <2>1, <2>2, <2>3
    DEF CountInv, FreshInv, LowInv, HighInv, FitInv
<1>7. CASE AskFd
  <2>1. /\ upc = "next" /\ upc' = "wait" /\ itpc' # "idle"
        /\ UNCHANGED <<dirVars, fieldVars, curfd, maxVars, item, i, boundVars>>
    BY <1>7 DEF AskFd, CallNext, outVars
  <2>2. Count' = Count
    BY <2>1 DEF Count, Given
  <2> QED BY <2>1, <2>2, SameCount DEF FreshInv
<1>8. CASE TakeFd
  <2>1. /\ Given /\ upc' = "next" /\ i' = i + 1 /\ item # None
        /\ init_low' = IF HintLow + i + 1 > init_low THEN HintLow + i + 1 ELSE init_low
        /\ init_high' = IF HintHigh + i + 1 < init_high THEN HintHigh + i + 1 ELSE init_high
        /\ UNCHANGED <<tableVars, iterVars>>
    BY <1>8 DEF TakeFd, Extremes, Given
  <2>2. Count = i + 1 /\ Count' = i + 1
    BY <2>1 DEF Count, Given
  <2>3. UNCHANGED <<HintLow, HintHigh, curfd, item>>
    BY <2>1
    DEF HintLow, HintHigh, Remaining, Hinted, LoopLeft, iterVars, dirVars,
        fieldVars, maxVars, outVars
  <2>4. init_low \in Int /\ init_high \in Int
    BY <2>1 DEF CountInv, LowInv, HighInv, Given
  <2>5. LowInv'
    <3>1. init_low <= Count + HintLow
      <4>1. init_low <= Count \/ init_low <= Count + HintLow
        BY <2>1 DEF CountInv, LowInv, Given
      <4> QED BY SMTT(30), <1>4, <2>4, <4>1
    <3>2. init_low' \in Int /\ init_low' <= i + 1 + HintLow
      BY SMTT(30), <1>4, <2>1, <2>2, <2>4, <3>1
    <3> QED BY <2>1, <2>2, <2>3, <3>2 DEF LowInv
  <2>6. HighInv'
    <3>1. init_high >= IntMax \/ (HintHigh < IntMax /\ Count + HintHigh <= init_high)
      BY <2>1 DEF CountInv, HighInv, Given
    <3>2. init_high' \in Int
      BY SMTT(30), <1>4, <2>1, <2>4
    <3>3. init_high' >= IntMax \/ (HintHigh < IntMax /\ i + 1 + HintHigh <= init_high')
      BY SMTT(30), <1>4, <2>1, <2>2, <2>4, <3>1
    <3> QED BY <2>2, <2>3, <3>2, <3>3 DEF HighInv
  <2> QED BY <2>1, <2>2, <2>3, <2>5, <2>6 DEF FreshInv, FitInv, CountInv
<1>9. CASE TakeNone
  <2>1. /\ upc = "wait" /\ upc' = "end" /\ item = None
        /\ UNCHANGED <<dirVars, fieldVars, curfd, maxVars, item, i, boundVars>>
    BY <1>9 DEF TakeNone, iterVars, outVars
  <2>2. Count' = Count
    BY <2>1 DEF Count, Given
  <2> QED BY <2>1, <2>2, SameCount DEF FreshInv
<1>10. CASE Discard
  <2>1. upc = "end" /\ upc' = "gone" /\ UNCHANGED <<curfd, i>>
    BY <1>10 DEF Discard, Drop
  <2> QED BY <2>1 DEF FreshInv, LowInv, HighInv, FitInv, CountInv, Count, Given
<1>11. CASE IterStep /\ UNCHANGED consumerVars
  <2>1. FreshInv'
    <3> SUFFICES ASSUME upc' = "hint"
                 PROVE  item' = None /\ Remaining' = {} /\ maxfd' = None /\ ~ended'
      BY DEF FreshInv
    <3>1. upc = "hint" /\ itpc \in {"open", "stat"}
      BY <1>11, IterStepPc DEF consumerVars, CountInv, ConInv, WhereInv
    <3>2. DirOpen \/ DirStat
      BY <1>11, <3>1, MaxfdFrame
      DEF IterStep, DirExhausted, Getdents, DirEntry, DirEof, DirErr, LoopStep
    <3> QED
      BY SMTT(30), <3>1, <3>2
      DEF DirOpen, DirStat, CountInv, FreshInv, Remaining, outVars, maxVars
  <2> QED BY <1>2, <1>3, <1>11, <2>1, CountIterStep
<1>12. CASE Others /\ UNCHANGED consumerVars
  <2>1. /\ UNCHANGED <<dirVars, fieldVars, curfd, maxVars, item, i, boundVars>>
        /\ UNCHANGED <<upc, itpc, ended>>
    BY <1>12, OthersFrame DEF consumerVars, outVars
  <2>2. Count' = Count
    BY <2>1 DEF Count, Given
  <2> QED
    BY <2>1, <2>2, SameCount
    DEF CountInv, FreshInv, Remaining, dirVars, maxVars
<1>13. CASE UNCHANGED conVars
  <2>1. /\ UNCHANGED <<dirVars, fieldVars, curfd, maxVars, item, i, boundVars>>
        /\ UNCHANGED <<upc, itpc, ended>>
    BY <1>13 DEF conVars, iterVars, consumerVars, outVars
  <2>2. Count' = Count
    BY <2>1 DEF Count, Given
  <2> QED
    BY <2>1, <2>2, SameCount
    DEF CountInv, FreshInv, Remaining, dirVars, maxVars
<1> QED
  BY <1>5, <1>6, <1>7, <1>8, <1>9, <1>10, <1>11, <1>12, <1>13 DEF ConNext

(* No bound that size_hint() gave at any point of an iteration turns out   *)
(* wrong (CountWithinHints), whatever other threads open and close.        *)
THEOREM CountStaysWithinHints == ConSpec => []CountWithinHints
<1>1. CountInv => CountWithinHints
  <2> SUFFICES ASSUME CountInv PROVE CountWithinHints
    OBVIOUS
  <2>1. HintLow <= HintHigh
    BY CountTypes, HintOrder DEF CountInv
  <2>2. ASSUME upc = "end" PROVE HintLow = 0 /\ init_low <= i /\ i <= init_high
    <3>1. HintLow = 0
      BY <2>2, EndedHint DEF CountInv, ConInv, WhereInv
    <3>2. Count = i /\ i \in Nat /\ HintHigh \in Nat /\ curfd \in Nat /\ curfd <= IntMax
          /\ IntMax \in Nat
      BY <2>2, CountTypes DEF CountInv, Count, Given
    <3> QED BY SMTT(30), <2>2, <3>1, <3>2 DEF CountInv, LowInv, HighInv, FitInv
  <2> QED BY <2>1, <2>2 DEF CountWithinHints
<1>2. CountInv /\ [ConNext]_conVars => CountInv'
  BY CountNext
<1> QED BY <1>1, <1>2, CountInit, PTL DEF ConSpec

=============================================================================
