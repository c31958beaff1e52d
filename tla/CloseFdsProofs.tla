--------------------------- MODULE CloseFdsProofs ---------------------------
(***************************************************************************)
(* Proofs about CloseFds, for every value of the constants.  They rest on  *)
(* the invariants of the iterator in FdIterProofs, which do not depend on  *)
(* who uses it.                                                            *)
(***************************************************************************)
EXTENDS CloseFds, FdIterProofs

USE ZenonT(30)

-----------------------------------------------------------------------------
(* What the system calls of a call do to the table.                        *)

(* Outside the iterator a call only closes or marks.                       *)
TableFrame ==
  /\ UNCHANGED <<theirs, steady>>
  /\ open' \subseteq open
  /\ cloexec' \subseteq open'
  /\ cloexec \cap open' \subseteq cloexec'
  /\ op = "cloexec" => open' = open

LEMMA AffectFrame ==
  ASSUME TableTypeOK, NEW S, Affect(S)
  PROVE  TableFrame
BY DEF TableTypeOK, Affect, CloseAll, MarkAll, TableFrame

LEMMA SameTable ==
  ASSUME TableTypeOK, UNCHANGED tableVars
  PROVE  TableFrame
BY DEF TableTypeOK, tableVars, TableFrame

LEMMA CloseRangeFrame ==
  ASSUME TableTypeOK, may_have \in BOOLEAN,
         NEW low, NEW high, NEW okpc, NEW errpc, CloseRange(low, high, okpc, errpc)
  PROVE  /\ TableFrame
         /\ pc' \in {okpc, errpc, "killed"}
         /\ may_have' \in BOOLEAN
<1>1. TableFrame
  BY AffectFrame, SameTable DEF CloseRange
<1>2. pc' \in {okpc, errpc, "killed"}
  BY DEF CloseRange
<1>3. may_have' \in BOOLEAN
  BY DEF CloseRange
<1> QED BY <1>1, <1>2, <1>3

LEMMA ApplyFrame ==
  ASSUME TableTypeOK, NEW fd, Apply(fd)
  PROVE  TableFrame /\ pc' \in {"loop", "setfd"}
<1>1. CASE op = "close"
  <2>1. Affect({fd})
    BY <1>1 DEF Apply, Affect
  <2> QED BY <1>1, <2>1, AffectFrame DEF Apply
<1>2. CASE op # "close"
  BY <1>2, SameTable DEF Apply
<1> QED BY <1>1, <1>2

Calls ==
  \E o \in Ops, m \in MinFds, keep \in KeepLists,
     given \in {"none", "keep", "sorted"} : Call(o, m, keep, given)

(* The steps of the call that leave the iterator alone.                    *)
Outside ==
  \/ Calls
  \/ Inspect \/ Simplify
  \/ ShortcutClosefrom \/ ShortcutRange \/ ShortcutGaps \/ ShortcutNone
  \/ GapsSkip \/ GapsFirst \/ GapsNext \/ GapsLast
  \/ LoopOver \/ GotFd \/ SetFd
  \/ RestClosefrom \/ RestRange \/ RestLoop \/ GotRest
  \/ Revoke \/ UNCHANGED vars

(* The steps that use it.                                                  *)
Inside == StartIter \/ AskNext \/ RestDrop \/ DropIter \/ RunIter

LEMMA StepKinds ==
  ASSUME [Next]_vars
  PROVE  Outside \/ Inside \/ Environment
BY DEF Next, Step, Calls, Outside, Inside, Finished

LEMMA OutsideFrame ==
  ASSUME TableTypeOK, may_have \in BOOLEAN, pc = "closefrom" => op = "close", Outside
  PROVE  UNCHANGED iterVars /\ TableFrame
<1>1. CASE Calls
  BY <1>1, SameTable DEF Calls, Call
<1>2. CASE Inspect \/ Simplify
  BY <1>2, SameTable DEF Inspect, Simplify
<1>3. CASE ShortcutClosefrom
  <2>1. Affect({f \in Fd : f >= minfd})
    BY <1>3 DEF ShortcutClosefrom, HasClosefrom, Affect
  <2> QED BY <1>3, <2>1, AffectFrame DEF ShortcutClosefrom
<1>4. CASE ShortcutRange
  BY <1>4, CloseRangeFrame DEF ShortcutRange
<1>5. CASE ShortcutGaps \/ ShortcutNone
  BY <1>5, SameTable DEF ShortcutGaps, ShortcutNone
<1>6. CASE GapsSkip
  <2>1. TableFrame
    BY <1>6, CloseRangeFrame, SameTable DEF GapsSkip
  <2> QED BY <1>6, <2>1 DEF GapsSkip, applyUnchanged
<1>7. CASE GapsFirst
  <2>1. TableFrame
    BY <1>7, CloseRangeFrame, SameTable DEF GapsFirst
  <2> QED BY <1>7, <2>1 DEF GapsFirst, applyUnchanged
<1>8. CASE GapsNext
  <2>1. TableFrame
    BY <1>8, CloseRangeFrame, SameTable DEF GapsNext
  <2> QED BY <1>8, <2>1 DEF GapsNext, applyUnchanged
<1>9. CASE GapsLast
  BY <1>9, CloseRangeFrame DEF GapsLast, applyUnchanged
<1>10. CASE LoopOver
  BY <1>10, SameTable DEF LoopOver
<1>11. CASE GotFd
  BY <1>11, SameTable, ApplyFrame DEF GotFd
<1>12. CASE SetFd
  <2>1. TableFrame
    BY <1>12 DEF SetFd, MarkAll, TableTypeOK, TableFrame
  <2> QED BY <1>12, <2>1 DEF SetFd
<1>13. CASE RestClosefrom
  <2>1. Affect({f \in Fd : f >= RestFrom})
    BY <1>13 DEF RestClosefrom, Affect
  <2> QED BY <1>13, <2>1, AffectFrame DEF RestClosefrom
<1>14. CASE RestRange
  BY <1>14, CloseRangeFrame DEF RestRange
<1>15. CASE RestLoop \/ GotRest
  BY <1>15, ApplyFrame DEF RestLoop, GotRest
<1>16. CASE Revoke \/ UNCHANGED vars
  BY <1>16, SameTable DEF Revoke, vars
<1> QED
  BY <1>1, <1>2, <1>3, <1>4, <1>5, <1>6, <1>7, <1>8, <1>9, <1>10, <1>11, <1>12,
     <1>13, 
     <1>14, <1>15, <1>16 DEF Outside

(* What the steps that use the iterator leave alone.                       *)
LEMMA InsideFrame ==
  ASSUME Inside
  PROVE  UNCHANGED <<argVars, keepVars, minfd, ki, gi, rest, cacheVars, kernel_has>>
<1>1. CASE StartIter \/ AskNext
  BY <1>1 DEF StartIter, AskNext, localUnchanged
<1>2. CASE RestDrop \/ DropIter
  BY <1>2 DEF RestDrop, DropIter, localUnchanged
<1>3. CASE RunIter
  BY <1>3 DEF RunIter, callVars
<1> QED BY <1>1, <1>2, <1>3 DEF Inside

-----------------------------------------------------------------------------
(* Type correctness.                                                       *)

ArgTypeOK ==
  /\ op \in {"close", "cloexec"}
  /\ keep_fds \in Seq(IntMin..IntMax)
  /\ threadsafe \in BOOLEAN /\ allow_fs \in BOOLEAN
  /\ arg_minfd \in 0..IntMax

KeepTypeOK ==
  /\ max_keep_fd \in IntMin..IntMax
  /\ fds_sorted \in BOOLEAN
  /\ last_fd \in IntMin..IntMax

LocalTypeOK ==
  /\ pc \in Pcs
  /\ minfd \in IntMin..IntMax
  /\ ki \in 0..Len(keep_fds)
  /\ gi \in 0..Len(keep_fds)
  /\ rest \in BOOLEAN

CacheTypeOK ==
  may_have \in BOOLEAN /\ has_range \in {0, 1, 2} /\ kernel_has \in BOOLEAN

LEMMA TypeParts ==
  CloseTypeOK <=> IterTypeOK /\ ArgTypeOK /\ KeepTypeOK /\ LocalTypeOK /\ CacheTypeOK
BY DEF CloseTypeOK, ArgTypeOK, KeepTypeOK, LocalTypeOK, CacheTypeOK

(* Before the call nothing has moved.                                      *)
StartInv ==
  pc = "start" => ki = 0 /\ gi = 0 /\ rest = FALSE /\ last_fd = IntMin

LEMMA SeqAt ==
  ASSUME NEW s \in Seq(IntMin..IntMax), NEW k \in 1..Len(s)
  PROVE  s[k] \in IntMin..IntMax /\ s[k] \in Int
<1>1. s[k] \in IntMin..IntMax
  BY SeqElement
<1> QED BY SMTT(30), <1>1, FdTableAssumption DEF IntMin

LEMMA IncrType ==
  ASSUME NEW x \in IntMin..IntMax
  PROVE  Incr(x) \in IntMin..IntMax
BY SMTT(30), FdTableAssumption DEF Incr, IntMin

LEMMA CallType ==
  ASSUME CloseTypeOK, StartInv,
         NEW o \in Ops, NEW m \in MinFds, NEW keep \in KeepLists,
         NEW given \in {"none", "keep", "sorted"}, Call(o, m, keep, given)
  PROVE  ArgTypeOK' /\ KeepTypeOK' /\ LocalTypeOK' /\ CacheTypeOK'
<1>1. keep \in Seq(IntMin..IntMax) /\ Len(keep) \in Nat
  BY SMTT(30), CloseFdsAssumption
<1>2. StartFd(m) \in 0..IntMax /\ StartFd(m) \in IntMin..IntMax
  BY SMTT(30), FdIterAssumption, FdTableAssumption DEF StartFd, IntMin
<1>3. KeepMax(keep, given) \in IntMin..IntMax
  <2>1. keep # <<>> => keep[Len(keep)] \in IntMin..IntMax
    BY SMTT(30), <1>1, SeqAt
  <2> QED BY SMTT(30), <2>1, FdTableAssumption DEF KeepMax, IntMin
<1>4. ArgTypeOK'
  BY <1>1, <1>2, CloseFdsAssumption DEF Call, ArgTypeOK
<1>5. KeepTypeOK'
  BY <1>3 DEF Call, KeepTypeOK, CloseTypeOK
<1>6. LocalTypeOK'
  <2>1. pc' \in Pcs
    BY DEF Call, Pcs
  <2>2. ki' \in 0..Len(keep_fds') /\ gi' \in 0..Len(keep_fds')
    BY SMTT(30), <1>1 DEF Call, StartInv
  <2> QED BY <1>2, <2>1, <2>2 DEF Call, LocalTypeOK, CloseTypeOK
<1>7. CacheTypeOK'
  BY DEF Call, CacheTypeOK, CloseTypeOK, cacheVars
<1> QED BY <1>4, <1>5, <1>6, <1>7

(* The steps that leave the call where it is.                              *)
Aside == RunIter \/ Environment \/ Revoke \/ UNCHANGED vars

LEMMA AsideFrame ==
  ASSUME Aside
  PROVE  UNCHANGED <<pc, argVars, keepVars, minfd, ki, gi, rest, cacheVars>>
BY DEF Aside, RunIter, Environment, Revoke, vars, callVars

(* Which steps are possible at each point of the call.                     *)
LEMMA StepsAt ==
  ASSUME [Next]_vars
  PROVE  /\ pc = "start" => Calls \/ Aside
         /\ pc = "inspect" => Inspect \/ Aside
         /\ pc = "simplify" => Simplify \/ Aside
         /\ pc = "shortcut" => ShortcutClosefrom \/ ShortcutRange \/ ShortcutGaps \/ ShortcutNone \/ Aside
         /\ pc = "skip" => GapsSkip \/ Aside
         /\ pc = "first" => GapsFirst \/ Aside
         /\ pc = "gap" => GapsNext \/ GapsLast \/ Aside
         /\ pc = "iter" => StartIter \/ Aside
         /\ pc = "loop" => AskNext \/ Aside
         /\ pc = "wait" => LoopOver \/ GotFd \/ GotRest \/ Aside
         /\ pc = "rest" => RestDrop \/ RestRange \/ RestLoop \/ Aside
         /\ pc = "restfd" => RestLoop \/ Aside
         /\ pc = "setfd" => SetFd \/ Aside
         /\ pc = "closefrom" => RestClosefrom \/ Aside
         /\ pc = "drop" => DropIter \/ Aside
         /\ pc \in {"done", "killed"} => Aside
<1>0. Calls => pc = "start"
  BY DEF Calls, Call
<1>1. Inspect => pc = "inspect"
  BY DEF Inspect
<1>2. Simplify => pc = "simplify"
  BY DEF Simplify
<1>3. ShortcutClosefrom \/ ShortcutRange \/ ShortcutGaps \/ ShortcutNone => pc = "shortcut"
  BY DEF ShortcutClosefrom, ShortcutRange, ShortcutGaps, ShortcutNone
<1>4. GapsSkip => pc = "skip"
  BY DEF GapsSkip
<1>5. GapsFirst => pc = "first"
  BY DEF GapsFirst
<1>6. GapsNext \/ GapsLast => pc = "gap"
  BY DEF GapsNext, GapsLast
<1>7. StartIter => pc = "iter"
  BY DEF StartIter
<1>8. AskNext => pc = "loop"
  BY DEF AskNext
<1>9. LoopOver \/ GotFd \/ GotRest => pc = "wait"
  BY DEF LoopOver, GotFd, GotRest
<1>10. SetFd => pc = "setfd"
  BY DEF SetFd
<1>11. RestClosefrom => pc = "closefrom"
  BY DEF RestClosefrom
<1>12. DropIter => pc = "drop"
  BY DEF DropIter
<1>13. RestDrop \/ RestRange => pc = "rest"
  BY DEF RestDrop, RestRange
<1>14. RestLoop => pc \in {"rest", "restfd"}
  BY DEF RestLoop
<1> QED
  BY <1>0, <1>1, <1>2, <1>3, <1>4, <1>5, <1>6, <1>7, <1>8, <1>9, <1>10, <1>11,
     <1>12, <1>13, <1>14
  DEF Next, Step, Finished, Aside, Calls

(* What the steps of a call leave alone.                                   *)
LEMMA Fixed ==
  ASSUME [Next]_vars, pc # "start"
  PROVE  /\ pc' # "start"
         /\ UNCHANGED argVars
         /\ pc # "inspect" => UNCHANGED keepVars
         /\ pc # "simplify" => UNCHANGED minfd
         /\ pc \notin {"simplify", "wait"} => UNCHANGED ki
         /\ pc \notin {"inspect", "skip", "gap"} => UNCHANGED gi
         /\ pc \notin {"rest", "restfd"} => UNCHANGED rest
         /\ pc # "shortcut" => UNCHANGED has_range
<1>1. CASE Inspect \/ Simplify
  BY <1>1 DEF Inspect, Simplify, cacheVars
<1>2. CASE ShortcutClosefrom \/ ShortcutRange \/ ShortcutGaps \/ ShortcutNone
  BY <1>2
  DEF ShortcutClosefrom, ShortcutRange, ShortcutGaps, ShortcutNone, CloseRange
<1>3. CASE GapsSkip \/ GapsFirst \/ GapsNext \/ GapsLast
  BY <1>3
  DEF GapsSkip, GapsFirst, GapsNext, GapsLast, applyUnchanged, CloseRange
<1>4. CASE LoopOver \/ GotFd \/ SetFd
  BY <1>4 DEF LoopOver, GotFd, SetFd, localUnchanged, Apply, cacheVars
<1>5. CASE RestClosefrom \/ RestRange \/ RestLoop \/ GotRest
  BY <1>5
  DEF RestClosefrom, RestRange, RestLoop, GotRest, localUnchanged, Apply,
      CloseRange, cacheVars
<1>6. CASE Revoke \/ UNCHANGED vars \/ Environment
  BY <1>6 DEF Revoke, vars, callVars, Environment, cacheVars
<1>7. CASE Inside
  <2>1. pc' # "start"
    BY <1>7
    DEF Inside, StartIter, AskNext, RestDrop, DropIter, RunIter, callVars
  <2> QED BY <1>7, <2>1, InsideFrame DEF cacheVars
<1>8. ~Calls
  BY DEF Calls, Call
<1> QED
  BY <1>1, <1>2, <1>3, <1>4, <1>5, <1>6, <1>7, <1>8, StepKinds DEF Outside

(* Before the call only the kernel changes.                                *)
LEMMA StartFrame ==
  ASSUME Aside, pc = "start", itpc = "none"
  PROVE  /\ UNCHANGED <<tableVars, iterVars, argVars>>
         /\ kernel_has' \in {kernel_has, FALSE}
         /\ kernel_has' # kernel_has => os = "linux"
<1>1. ~Environment
  BY DEF Environment
<1>2. ~RunIter
  BY DEF RunIter, IterStep, DirOpen, DirStat, DirExhausted, Getdents, DirEntry,
      DirEof, DirErr, MaxfdStart, GetNfds, NfdsScan, Sysconf, LoopStep
<1>3. CASE Revoke \/ UNCHANGED vars
  BY <1>3 DEF Revoke, vars, callVars
<1> QED BY <1>1, <1>2, <1>3 DEF Aside

LEMMA KeepTypeStep ==
  ASSUME ArgTypeOK, KeepTypeOK, LocalTypeOK, pc # "start", [Next]_vars
  PROVE  KeepTypeOK'
<1>1. CASE pc # "inspect"
  BY <1>1, Fixed DEF KeepTypeOK, keepVars
<1>2. CASE pc = "inspect" /\ Inspect
  <2>1. CASE gi < Len(keep_fds)
    <3>1. keep_fds[gi + 1] \in IntMin..IntMax
      BY SMTT(30), <2>1, SeqAt DEF ArgTypeOK, LocalTypeOK
    <3>2. fds_sorted' \in BOOLEAN
      BY <1>2, <2>1 DEF Inspect
    <3> QED BY <1>2, <2>1, <3>1, <3>2 DEF Inspect, KeepTypeOK
  <2>2. CASE ~(gi < Len(keep_fds))
    BY <1>2, <2>2 DEF Inspect, KeepTypeOK, keepVars
  <2> QED BY <2>1, <2>2
<1>3. CASE Aside
  BY <1>3, AsideFrame DEF KeepTypeOK, keepVars
<1> QED BY <1>1, <1>2, <1>3, StepsAt

LEMMA LocalTypeStep ==
  ASSUME ArgTypeOK, LocalTypeOK, pc # "start", [Next]_vars
  PROVE  LocalTypeOK'
<1> USE DEF LocalTypeOK
<1>1. UNCHANGED <<keep_fds, argVars>> /\ Len(keep_fds) \in Nat
  BY SMTT(30), Fixed DEF argVars, ArgTypeOK
<1>2. pc' \in Pcs
  <2>1. CASE Inspect \/ Simplify
    BY <2>1 DEF Inspect, Simplify, Pcs
  <2>2. CASE ShortcutClosefrom \/ ShortcutRange \/ ShortcutGaps \/ ShortcutNone
    BY <2>2
    DEF ShortcutClosefrom, ShortcutRange, ShortcutGaps, ShortcutNone,
        CloseRange, Pcs
  <2>3. CASE GapsSkip \/ GapsFirst \/ GapsNext \/ GapsLast
    BY <2>3 DEF GapsSkip, GapsFirst, GapsNext, GapsLast, CloseRange, Pcs
  <2>4. CASE LoopOver \/ GotFd \/ SetFd \/ RestLoop \/ GotRest
    BY <2>4 DEF LoopOver, GotFd, SetFd, RestLoop, GotRest, Apply, Pcs
  <2>5. CASE RestClosefrom \/ RestRange \/ Inside
    BY <2>5
    DEF RestClosefrom, RestRange, CloseRange, Inside, StartIter, AskNext,
        RestDrop, DropIter, RunIter, callVars, Pcs
  <2>6. CASE Revoke \/ UNCHANGED vars \/ Environment
    BY <2>6 DEF Revoke, vars, callVars, Environment
  <2>7. ~Calls
    BY DEF Calls, Call
  <2> QED BY <2>1, <2>2, <2>3, <2>4, <2>5, <2>6, <2>7, StepKinds DEF Outside
<1>3. minfd' \in IntMin..IntMax
  <2>1. CASE pc # "simplify"
    BY <2>1, Fixed
  <2>2. CASE pc = "simplify"
    <3>1. CASE Simplify
      BY <3>1, IncrType DEF Simplify, Simplified
    <3>2. CASE Aside
      BY <3>2, AsideFrame
    <3> QED BY <2>2, <3>1, <3>2, StepsAt
  <2> QED BY <2>1, <2>2
<1>4. ki' \in 0..Len(keep_fds)
  <2>1. CASE pc \notin {"simplify", "wait"}
    BY <2>1, Fixed
  <2>2. CASE pc = "simplify"
    BY SMTT(30), <2>2, <1>1, StepsAt, AsideFrame DEF Simplify
  <2>3. CASE pc = "wait"
    <3>1. UNCHANGED ki \/ ki' \in ki..Len(keep_fds)
      BY <2>3, StepsAt, AsideFrame DEF GotFd, LoopOver, GotRest
    <3> QED BY SMTT(30), <3>1, <1>1
  <2> QED BY <2>1, <2>2, <2>3
<1>5. gi' \in 0..Len(keep_fds)
  <2>1. CASE pc \notin {"inspect", "skip", "gap"}
    BY <2>1, Fixed
  <2>2. CASE pc = "inspect"
    BY SMTT(30), <2>2, <1>1, StepsAt, AsideFrame DEF Inspect
  <2>3. CASE pc = "skip"
    <3>1. UNCHANGED gi \/ gi' \in (ki + 1)..Len(keep_fds)
      BY <2>3, StepsAt, AsideFrame DEF GapsSkip
    <3> QED BY SMTT(30), <3>1, <1>1
  <2>4. CASE pc = "gap"
    BY SMTT(30), <2>4, <1>1, StepsAt, AsideFrame DEF GapsNext, GapsLast
  <2> QED BY <2>1, <2>2, <2>3, <2>4
<1>6. rest' \in BOOLEAN
  <2>1. CASE pc \notin {"rest", "restfd"}
    BY <2>1, Fixed
  <2>2. CASE pc \in {"rest", "restfd"}
    BY <2>2, StepsAt, AsideFrame DEF RestDrop, RestRange, RestLoop
  <2> QED BY <2>1, <2>2
<1> QED BY <1>1, <1>2, <1>3, <1>4, <1>5, <1>6

LEMMA CacheTypeStep ==
  ASSUME TableTypeOK, CacheTypeOK, pc # "start", [Next]_vars
  PROVE  CacheTypeOK'
<1> USE DEF CacheTypeOK
<1>1. CASE Inspect \/ Simplify \/ LoopOver \/ GotFd \/ SetFd \/ RestClosefrom \/ RestLoop \/ GotRest
  BY <1>1
  DEF Inspect, Simplify, LoopOver, GotFd, SetFd, RestClosefrom, RestLoop,
      GotRest, localUnchanged, cacheVars
<1>2. CASE ShortcutClosefrom \/ ShortcutGaps \/ ShortcutNone
  BY <1>2
  DEF ShortcutClosefrom, ShortcutGaps, ShortcutNone, CheckHas, CheckHasNot,
      cacheVars
<1>3. CASE ShortcutRange \/ RestRange
  BY <1>3, CloseRangeFrame DEF ShortcutRange, RestRange
<1>4. CASE GapsSkip
  <2>1. may_have' \in BOOLEAN
    BY <1>4, CloseRangeFrame DEF GapsSkip
  <2> QED BY <1>4, <2>1 DEF GapsSkip, applyUnchanged
<1>5. CASE GapsFirst
  <2>1. may_have' \in BOOLEAN
    BY <1>5, CloseRangeFrame DEF GapsFirst
  <2> QED BY <1>5, <2>1 DEF GapsFirst, applyUnchanged
<1>6. CASE GapsNext
  <2>1. may_have' \in BOOLEAN
    BY <1>6, CloseRangeFrame DEF GapsNext
  <2> QED BY <1>6, <2>1 DEF GapsNext, applyUnchanged
<1>7. CASE GapsLast
  BY <1>7, CloseRangeFrame DEF GapsLast, applyUnchanged
<1>8. CASE Inside
  BY <1>8, InsideFrame DEF cacheVars
<1>9. CASE Revoke \/ Environment \/ UNCHANGED vars
  BY <1>9 DEF Revoke, Environment, vars, callVars, cacheVars
<1>10. ~Calls
  BY DEF Calls, Call
<1> QED
  BY <1>1, <1>2, <1>3, <1>4, <1>5, <1>6, <1>7, <1>8, <1>9, <1>10, StepKinds
     DEF Outside

-----------------------------------------------------------------------------
(* Where the iterator is while the call is at pc.                          *)

PcIter ==
  /\ pc \in {"start", "inspect", "simplify", "shortcut", "skip", "first", "gap", "iter"}
       => itpc = "none"
  /\ pc = "loop" => itpc \in {"open", "stat", "idle"}
  /\ pc = "wait" => itpc \notin {"none", "open", "stat", "gone"}
  /\ pc \in {"rest", "restfd", "setfd", "drop"} => itpc = "idle"
  /\ pc = "closefrom" => itpc = "gone" /\ op = "close"
  /\ pc = "done" => itpc \in {"none", "gone"}
  /\ pc \in {"rest", "restfd", "setfd", "closefrom"} => item # None

LEMMA PcIterStep ==
  ASSUME PcIter, LocalTypeOK, [Next]_vars
  PROVE  PcIter'
<1> USE DEF PcIter
<1>1. CASE RunIter
  <2>1. pc' = pc /\ op' = op
    BY <1>1 DEF RunIter, callVars, argVars
  <2>2. pc \in {"loop", "wait", "killed"}
    BY <1>1, IterStepPc DEF RunIter, LocalTypeOK, Pcs
  <2> QED BY <1>1, <2>1, <2>2, IterStepPc DEF RunIter
<1>2. CASE Revoke \/ UNCHANGED vars \/ Environment
  <2>1. UNCHANGED <<pc, op, itpc, item>>
    BY <1>2, OthersFrame
    DEF Revoke, vars, callVars, argVars, iterVars, outVars, Environment
  <2> QED BY <2>1
<1>3. CASE Calls \/ Inspect \/ Simplify
  BY <1>3 DEF Calls, Call, Inspect, Simplify, iterVars
<1>4. CASE ShortcutClosefrom \/ ShortcutRange \/ ShortcutGaps \/ ShortcutNone
  BY <1>4
  DEF ShortcutClosefrom, ShortcutRange, ShortcutGaps, ShortcutNone, CloseRange,
      iterVars
<1>5. CASE GapsSkip \/ GapsFirst \/ GapsNext \/ GapsLast
  BY <1>5
  DEF GapsSkip, GapsFirst, GapsNext, GapsLast, CloseRange, applyUnchanged,
      iterVars
<1>6. CASE LoopOver \/ SetFd
  BY <1>6 DEF LoopOver, SetFd, iterVars
<1>7. CASE GotFd \/ GotRest \/ RestLoop
  <2>1. itpc = "idle" /\ item # None /\ UNCHANGED iterVars /\ pc' \in {"rest", "loop", "setfd"}
    BY <1>7 DEF GotFd, GotRest, RestLoop, Apply
  <2> QED BY <2>1 DEF iterVars, outVars
<1>8. CASE RestClosefrom \/ RestRange
  <2>1. UNCHANGED iterVars /\ pc' \in {"done", "drop", "restfd", "killed"}
        /\ (pc' = "done" => pc = "closefrom")
        /\ (pc' # "done" => pc = "rest")
    BY <1>8 DEF RestClosefrom, RestRange, CloseRange
  <2> QED BY <2>1 DEF iterVars, outVars
<1>9. CASE StartIter \/ AskNext
  BY <1>9 DEF StartIter, AskNext, IterFrom, CallNext
<1>10. CASE RestDrop
  BY <1>10 DEF RestDrop, Drop, HasClosefrom, localUnchanged, argVars, outVars
<1>11. CASE DropIter
  BY <1>11 DEF DropIter, Drop
<1> QED
  BY <1>1, <1>2, <1>3, <1>4, <1>5, <1>6, <1>7, <1>8, <1>9, <1>10, <1>11,
     StepKinds
  DEF Outside, Inside

LEMMA IterTypeFrame ==
  ASSUME IterTypeOK, UNCHANGED iterVars, TableFrame
  PROVE  IterTypeOK'
<1>1. TableTypeOK'
  BY DEF IterTypeOK, TableTypeOK, TableFrame
<1>2. FieldTypeOK' /\ DirTypeOK' /\ ControlTypeOK'
  BY SMTT(30)
  DEF IterTypeOK, FieldTypeOK, DirTypeOK, ControlTypeOK, iterVars, platVars,
      fieldVars, dirVars, scanVars, maxVars, outVars
<1> QED BY <1>1, <1>2 DEF IterTypeOK

LEMMA IterTypeStepOfCall ==
  ASSUME CloseTypeOK, PcIter, [Next]_vars
  PROVE  IterTypeOK'
<1>1. CASE Outside
  <2>1. UNCHANGED iterVars /\ TableFrame
    BY <1>1, OutsideFrame DEF CloseTypeOK, IterTypeOK, PcIter
  <2> QED BY <2>1, IterTypeFrame DEF CloseTypeOK
<1>2. CASE StartIter
  <2>1. (threadsafe \/ HasClosefrom) \in BOOLEAN
    BY DEF CloseTypeOK, HasClosefrom
  <2> QED BY <1>2, <2>1, IterFromType DEF StartIter, CloseTypeOK
<1>3. CASE AskNext \/ RestDrop \/ DropIter
  BY <1>3, CallNextType, DropType DEF AskNext, RestDrop, DropIter, CloseTypeOK
<1>4. CASE RunIter \/ Environment
  BY <1>4, IterStepType, OthersType DEF RunIter, Environment, CloseTypeOK
<1> QED BY <1>1, <1>2, <1>3, <1>4, StepKinds DEF Inside

LEMMA CloseTypeInit == Init => CloseTypeOK /\ StartInv /\ PcIter
<1> SUFFICES ASSUME Init PROVE CloseTypeOK /\ StartInv /\ PcIter
  OBVIOUS
<1>1. IterTypeOK
  BY IterInitType DEF Init
<1>2. ArgTypeOK
  <2>1. <<>> \in Seq(IntMin..IntMax)
    BY SMTT(30)
  <2>2. threadsafe \in BOOLEAN /\ allow_fs \in BOOLEAN
    BY DEF Init
  <2>3. arg_minfd \in 0..IntMax
    BY SMTT(30), FdTableAssumption DEF Init
  <2> QED BY <2>1, <2>2, <2>3 DEF Init, ArgTypeOK
<1>3. KeepTypeOK
  BY SMTT(30), FdTableAssumption DEF Init, KeepTypeOK, IntMin
<1>4. LocalTypeOK
  <2>1. Len(<<>>) = 0
    OBVIOUS
  <2>2. ki \in 0..Len(keep_fds) /\ gi \in 0..Len(keep_fds)
    BY SMTT(30), <2>1 DEF Init
  <2>3. minfd \in IntMin..IntMax
    BY SMTT(30), FdTableAssumption DEF Init, IntMin
  <2>4. pc \in Pcs /\ rest \in BOOLEAN
    BY DEF Init, Pcs
  <2> QED BY <2>2, <2>3, <2>4 DEF LocalTypeOK
<1>5. CacheTypeOK
  BY DEF Init, CacheInit, CacheTypeOK, MayHaveValues, HasRangeValues
<1>6. StartInv /\ PcIter
  BY DEF Init, IterInit, StartInv, PcIter
<1> QED BY <1>1, <1>2, <1>3, <1>4, <1>5, <1>6, TypeParts

CloseTypeInv == CloseTypeOK /\ StartInv /\ PcIter

LEMMA StartTypeStep ==
  ASSUME CloseTypeInv, pc = "start", [Next]_vars
  PROVE  ArgTypeOK' /\ KeepTypeOK' /\ LocalTypeOK' /\ CacheTypeOK' /\ StartInv'
<1>1. CASE Calls
  <2>1. ArgTypeOK' /\ KeepTypeOK' /\ LocalTypeOK' /\ CacheTypeOK'
    BY <1>1, CallType DEF Calls, CloseTypeInv
  <2>2. pc' # "start"
    BY <1>1 DEF Calls, Call
  <2> QED BY <2>1, <2>2 DEF StartInv
<1>2. CASE Aside
  <2>1. UNCHANGED <<pc, argVars, keepVars, minfd, ki, gi, rest, cacheVars>>
    BY <1>2, AsideFrame
  <2>2. ArgTypeOK /\ KeepTypeOK /\ LocalTypeOK /\ CacheTypeOK /\ StartInv
    BY TypeParts DEF CloseTypeInv
  <2>3. kernel_has' \in BOOLEAN
    BY <1>2, <2>2, StartFrame DEF CloseTypeInv, PcIter, CacheTypeOK
  <2>4. ArgTypeOK' /\ KeepTypeOK'
    BY <2>1, <2>2 DEF ArgTypeOK, KeepTypeOK, argVars, keepVars
  <2>5. LocalTypeOK' /\ StartInv'
    BY <2>1, <2>2 DEF LocalTypeOK, StartInv, argVars, keepVars
  <2>6. CacheTypeOK'
    BY <2>1, <2>2, <2>3 DEF CacheTypeOK, cacheVars
  <2> QED BY <2>4, <2>5, <2>6
<1> QED BY <1>1, <1>2, StepsAt

LEMMA CloseTypeNext ==
  ASSUME CloseTypeInv, [Next]_vars
  PROVE  CloseTypeInv'
<1>1. IterTypeOK /\ ArgTypeOK /\ KeepTypeOK /\ LocalTypeOK /\ CacheTypeOK
  BY TypeParts DEF CloseTypeInv
<1>2. IterTypeOK'
  BY IterTypeStepOfCall DEF CloseTypeInv
<1>3. PcIter'
  BY <1>1, PcIterStep DEF CloseTypeInv
<1>4. CASE pc = "start"
  <2>1. CloseTypeOK'
    BY <1>2, <1>4, StartTypeStep
       DEF CloseTypeOK, ArgTypeOK, KeepTypeOK, LocalTypeOK, CacheTypeOK
  <2> QED BY <1>3, <1>4, <2>1, StartTypeStep DEF CloseTypeInv
<1>5. CASE pc # "start"
  <2>1. ArgTypeOK'
    BY <1>1, <1>5, Fixed DEF ArgTypeOK, argVars
  <2>2. KeepTypeOK' /\ LocalTypeOK'
    BY <1>1, <1>5, KeepTypeStep, LocalTypeStep
  <2>3. CacheTypeOK'
    BY <1>1, <1>5, CacheTypeStep DEF IterTypeOK
  <2>4. CloseTypeOK'
    BY <1>2, <2>1, <2>2, <2>3
       DEF CloseTypeOK, ArgTypeOK, KeepTypeOK, LocalTypeOK, CacheTypeOK
  <2>5. StartInv'
    BY <1>5, Fixed DEF StartInv
  <2> QED BY <1>3, <2>4, <2>5 DEF CloseTypeInv
<1> QED BY <1>4, <1>5

(* The type invariant of a call, for every platform, operation, keep list  *)
(* and minfd, and for every state of the caches it may start from.         *)
THEOREM CloseTypeCorrect == Spec => []CloseTypeOK
<1>1. Init => CloseTypeInv
  BY CloseTypeInit DEF CloseTypeInv
<1>2. CloseTypeInv /\ [Next]_vars => CloseTypeInv'
  BY CloseTypeNext
<1>3. CloseTypeInv => CloseTypeOK
  BY DEF CloseTypeInv
<1> QED BY <1>1, <1>2, <1>3, PTL DEF Spec

-----------------------------------------------------------------------------
(* inspect_keep_fds.                                                       *)

SortedUpTo(n) == \A i, j \in 1..n : i < j => keep_fds[i] <= keep_fds[j]

(* What inspect_keep_fds knows after gi elements, and in the end.          *)
InspectInv ==
  /\ pc = "inspect" =>
       /\ \A i \in 1..gi : keep_fds[i] <= max_keep_fd
       /\ fds_sorted <=> SortedUpTo(gi)
       /\ gi = 0 => max_keep_fd = IntMin /\ last_fd = IntMin
       /\ gi > 0 => max_keep_fd \in KeepSet /\ last_fd = keep_fds[gi]
  /\ InspectCorrect

LEMMA KeepElements ==
  ASSUME ArgTypeOK
  PROVE  /\ Len(keep_fds) \in Nat
         /\ DOMAIN keep_fds = 1..Len(keep_fds)
         /\ \A i \in 1..Len(keep_fds) :
              keep_fds[i] \in IntMin..IntMax /\ keep_fds[i] \in Int /\ keep_fds[i] \in KeepSet
         /\ \A f \in KeepSet : \E i \in 1..Len(keep_fds) : f = keep_fds[i]
<1>1. Len(keep_fds) \in Nat /\ DOMAIN keep_fds = 1..Len(keep_fds)
  BY SMTT(30) DEF ArgTypeOK
<1>2. \A i \in 1..Len(keep_fds) : keep_fds[i] \in IntMin..IntMax /\ keep_fds[i] \in Int
  BY SeqAt DEF ArgTypeOK
<1> QED BY <1>1, <1>2 DEF KeepSet, Values

LEMMA InspectCall ==
  ASSUME CloseTypeInv, CloseTypeInv', NEW o \in Ops, NEW m \in MinFds, NEW keep \in KeepLists,
         NEW given \in {"none", "keep", "sorted"}, Call(o, m, keep, given)
  PROVE  InspectInv'
<1>1. ArgTypeOK'
  BY DEF CloseTypeInv, CloseTypeOK, ArgTypeOK
<1>2. keep_fds' = keep /\ fds_sorted' = TRUE /\ max_keep_fd' = KeepMax(keep, given) /\ gi' = 0
      /\ last_fd' = IntMin
  BY DEF Call, CloseTypeInv, StartInv
<1>3. Len(keep) \in Nat /\ DOMAIN keep = 1..Len(keep)
      /\ \A i \in 1..Len(keep) : keep[i] \in Int
  BY SMTT(30), <1>1, <1>2, SeqAt DEF ArgTypeOK
<1>4. CASE given = "keep"
  <2>1. pc' = "inspect" /\ max_keep_fd' = IntMin
    BY <1>2, <1>4 DEF Call, KeepMax
  <2>2. SortedUpTo(gi)'
    BY SMTT(30), <1>2 DEF SortedUpTo
  <2> QED BY SMTT(30), <1>2, <2>1, <2>2 DEF InspectInv, InspectCorrect
<1>5. CASE given # "keep"
  <2>1. pc' = "simplify"
    BY <1>5 DEF Call
  <2>2. InOrder(keep)
    <3>1. CASE given = "none"
      BY SMTT(30), <3>1 DEF Call, InOrder
    <3>2. CASE given = "sorted"
      BY <3>2 DEF Call
    <3> QED BY <1>5, <3>1, <3>2
  <2>3. CASE keep = <<>>
    <3>1. KeepSet' = {} /\ max_keep_fd' = -1
      BY SMTT(30), <1>2, <1>3, <1>5, <2>3 DEF KeepSet, Values, KeepMax
    <3> QED BY <1>2, <2>1, <2>2, <2>3, <3>1 DEF InspectInv, InspectCorrect
  <2>4. CASE keep # <<>>
    <3>1. Len(keep) \in 1..Len(keep) /\ max_keep_fd' = keep[Len(keep)]
      BY SMTT(30), <1>1, <1>2, <1>5, <2>4 DEF ArgTypeOK, KeepMax
    <3>2. \A i \in 1..Len(keep) : keep[i] <= keep[Len(keep)]
      BY SMTT(30), <1>3, <2>2, <3>1 DEF InOrder
    <3>3. KeepSet' = {keep[i] : i \in 1..Len(keep)}
      BY <1>2, <1>3 DEF KeepSet, Values
    <3>4. max_keep_fd' \in KeepSet' /\ \A f \in KeepSet' : f <= max_keep_fd'
      BY <3>1, <3>2, <3>3
    <3> QED BY <1>2, <2>1, <2>2, <3>4 DEF InspectInv, InspectCorrect
  <2> QED BY <2>3, <2>4
<1> QED BY <1>4, <1>5

LEMMA InspectElement ==
  ASSUME CloseTypeInv, InspectInv, Inspect, gi < Len(keep_fds)
  PROVE  InspectInv'
<1>1. ArgTypeOK /\ gi \in Nat /\ max_keep_fd \in Int /\ last_fd \in Int /\ fds_sorted \in BOOLEAN
  BY SMTT(30), FdTableAssumption
  DEF CloseTypeInv, CloseTypeOK, ArgTypeOK, IntMin
<1> DEFINE fd == keep_fds[gi + 1]
<1>2. gi + 1 \in 1..Len(keep_fds) /\ fd \in Int /\ fd \in KeepSet /\ fd >= IntMin
  BY SMTT(30), <1>1, KeepElements, FdTableAssumption DEF IntMin
<1>3. \A i \in 1..gi : keep_fds[i] \in Int
  BY SMTT(30), <1>1, KeepElements
<1>4. /\ \A i \in 1..gi : keep_fds[i] <= max_keep_fd
      /\ fds_sorted <=> SortedUpTo(gi)
      /\ gi = 0 => max_keep_fd = IntMin /\ last_fd = IntMin
      /\ gi > 0 => max_keep_fd \in KeepSet /\ last_fd = keep_fds[gi]
  BY DEF Inspect, InspectInv
<1>5. /\ pc' = "inspect" /\ gi' = gi + 1 /\ last_fd' = fd /\ keep_fds' = keep_fds
      /\ max_keep_fd' = (IF fd > max_keep_fd THEN fd ELSE max_keep_fd)
      /\ fds_sorted' = (fds_sorted /\ ~OutOfOrder(fd))
  BY DEF Inspect, argVars
<1>6. \A i \in 1..(gi + 1) : keep_fds[i] <= max_keep_fd'
  BY SMTT(30), <1>1, <1>2, <1>3, <1>4, <1>5
<1>7. max_keep_fd' \in KeepSet
  <2>1. CASE fd > max_keep_fd
    BY <1>2, <1>5, <2>1
  <2>2. CASE ~(fd > max_keep_fd)
    <3>1. CASE gi = 0
      BY SMTT(30), <1>1, <1>2, <1>4, <1>5, <2>2, <3>1, FdTableAssumption
      DEF IntMin
    <3>2. CASE gi > 0
      BY <1>4, <1>5, <2>2, <3>2
    <3> QED BY SMTT(30), <1>1, <3>1, <3>2
  <2> QED BY <2>1, <2>2
<1>8. OutOfOrder(fd) <=> gi > 0 /\ last_fd > fd
  <2>1. CASE gi = 0
    BY SMTT(30), <1>1, <1>2, <1>4, <2>1, FdTableAssumption
    DEF OutOfOrder, IntMin
  <2>2. CASE gi > 0
    <3>1. last_fd <= max_keep_fd
      BY SMTT(30), <1>1, <1>4, <2>2
    <3> QED BY SMTT(30), <1>1, <1>2, <2>2, <3>1 DEF OutOfOrder
  <2> QED BY SMTT(30), <1>1, <2>1, <2>2
<1>9. SortedUpTo(gi + 1) <=> SortedUpTo(gi) /\ ~(gi > 0 /\ last_fd > fd)
  <2>1. ASSUME SortedUpTo(gi + 1) PROVE SortedUpTo(gi)
    BY SMTT(30), <1>1, <2>1 DEF SortedUpTo
  <2>2. ASSUME SortedUpTo(gi + 1), gi > 0 PROVE ~(last_fd > fd)
    BY SMTT(30), <1>1, <1>2, <1>4, <2>2 DEF SortedUpTo
  <2>3. ASSUME SortedUpTo(gi), ~(gi > 0 /\ last_fd > fd) PROVE SortedUpTo(gi + 1)
    <3> SUFFICES ASSUME NEW i \in 1..(gi + 1), NEW j \in 1..(gi + 1), i < j
                 PROVE  keep_fds[i] <= keep_fds[j]
      BY DEF SortedUpTo
    <3>1. CASE j \in 1..gi
      BY SMTT(30), <1>1, <2>3, <3>1 DEF SortedUpTo
    <3>2. CASE j = gi + 1
      <4>1. gi > 0 /\ i \in 1..gi /\ keep_fds[gi] <= fd
        BY SMTT(30), <1>1, <1>2, <1>4, <2>3, <3>2
      <4>2. i = gi \/ keep_fds[i] <= keep_fds[gi]
        BY SMTT(30), <1>1, <2>3, <4>1 DEF SortedUpTo
      <4>3. keep_fds[i] \in Int /\ keep_fds[gi] \in Int
        BY SMTT(30), <1>1, <1>3, <4>1
      <4> QED BY SMTT(30), <1>2, <3>2, <4>1, <4>2, <4>3
    <3> QED BY SMTT(30), <1>1, <3>1, <3>2
  <2> QED BY <2>1, <2>2, <2>3
<1>10. fds_sorted' <=> SortedUpTo(gi + 1)
  BY <1>4, <1>5, <1>8, <1>9
<1>11. SortedUpTo(gi)' <=> SortedUpTo(gi + 1)
  BY <1>5 DEF SortedUpTo
<1>12. KeepSet' = KeepSet
  BY <1>5 DEF KeepSet, Values
<1>13. gi' > 0 /\ ~(gi' = 0)
  BY SMTT(30), <1>1, <1>5
<1> QED BY <1>5, <1>6, <1>7, <1>10, <1>11, <1>12, <1>13
        DEF InspectInv, InspectCorrect

LEMMA InspectNext ==
  ASSUME CloseTypeInv, CloseTypeInv', InspectInv, [Next]_vars
  PROVE  InspectInv'
<1>1. ArgTypeOK /\ gi \in 0..Len(keep_fds) /\ Len(keep_fds) \in Nat
  BY SMTT(30) DEF CloseTypeInv, CloseTypeOK, ArgTypeOK
<1>2. CASE Calls
  BY <1>2, InspectCall DEF Calls
<1>3. CASE Inspect
  <2>1. CASE gi < Len(keep_fds)
    BY <1>3, <2>1, InspectElement
  <2>2. CASE ~(gi < Len(keep_fds))
    <3>1. gi = Len(keep_fds)
      BY SMTT(30), <1>1, <2>2
    <3>2. pc' = "simplify" /\ UNCHANGED <<keep_fds, max_keep_fd, fds_sorted>>
      BY <1>3, <2>2 DEF Inspect, argVars, keepVars
    <3>3. SortedUpTo(gi) <=> InOrder(keep_fds)
      BY <1>1, <3>1, KeepElements DEF SortedUpTo, InOrder
    <3>4. \A f \in KeepSet : f <= max_keep_fd
      BY <1>1, <1>3, <3>1, KeepElements DEF Inspect, InspectInv
    <3>5. \/ max_keep_fd \in KeepSet
          \/ keep_fds = <<>> /\ max_keep_fd \in {-1, IntMin}
      <4>1. gi > 0 \/ (gi = 0 /\ keep_fds = <<>>)
        BY SMTT(30), <1>1, <3>1 DEF ArgTypeOK
      <4> QED BY <1>3, <4>1 DEF Inspect, InspectInv
    <3>6. fds_sorted <=> InOrder(keep_fds)
      BY <1>3, <3>3 DEF Inspect, InspectInv
    <3> QED BY <3>2, <3>4, <3>5, <3>6 DEF InspectInv, InspectCorrect, KeepSet
  <2> QED BY <2>1, <2>2
<1>4. CASE Aside
  BY SMTT(30), <1>4, AsideFrame
     DEF InspectInv, InspectCorrect, SortedUpTo, KeepSet, argVars, keepVars
<1>5. CASE pc \notin {"start", "inspect"}
  <2>1. UNCHANGED <<argVars, keepVars>>
    BY <1>5, Fixed
  <2>2. pc' # "inspect"
    <3>1. CASE Outside
      BY <1>5, <3>1
      DEF Outside, Calls, Call, Inspect, Simplify, ShortcutClosefrom,
          ShortcutRange, ShortcutGaps, ShortcutNone, GapsSkip, GapsFirst,
          GapsNext, GapsLast, LoopOver, GotFd, SetFd, RestClosefrom, RestRange,
          RestLoop, GotRest, CloseRange, Apply, Revoke, vars, callVars
    <3>2. CASE Inside \/ Environment
      BY <1>5, <3>2
      DEF Inside, StartIter, AskNext, RestDrop, DropIter, RunIter, Environment,
          callVars
    <3> QED BY <3>1, <3>2, StepKinds
  <2> QED BY <1>5, <2>1, <2>2
          DEF InspectInv, InspectCorrect, KeepSet, argVars, keepVars
<1> QED BY <1>2, <1>3, <1>4, <1>5, StepsAt

(* inspect_keep_fds is correct on every list of c_ints: it finds the       *)
(* maximum, and it finds out whether the list is sorted although it        *)
(* compares each element only with its neighbour and with the maximum.     *)
THEOREM InspectFindsOut == Spec => []InspectCorrect
<1> DEFINE I == CloseTypeInv /\ InspectInv
<1>1. Init => I
  BY CloseTypeInit DEF CloseTypeInv, Init, InspectInv, InspectCorrect
<1>2. I /\ [Next]_vars => I'
  BY CloseTypeNext, InspectNext
<1>3. I => InspectCorrect
  BY DEF InspectInv
<1> QED BY <1>1, <1>2, <1>3, PTL DEF Spec

-----------------------------------------------------------------------------
(* HAS_CLOSE_RANGE.                                                        *)

(* The FreeBSD cache says "present" only if it is, and apply_range is only *)
(* entered with that answer.                                               *)
HasRangeInv ==
  /\ has_range = 1 => kernel_has /\ os = "freebsd"
  /\ pc \in {"skip", "first", "gap"} => UsesRange /\ (os = "freebsd" => has_range = 1)
  /\ pc # "killed"

LEMMA RangeNotFatal ==
  ASSUME HasRangeInv, pc \in {"skip", "first", "gap"} \/ os = "linux",
         NEW low, NEW high, NEW okpc, NEW errpc, CloseRange(low, high, okpc, errpc)
  PROVE  pc' \in {okpc, errpc}
<1>1. ~(os = "freebsd" /\ ~kernel_has)
  BY DEF HasRangeInv
<1> QED BY <1>1 DEF CloseRange

LEMMA OsFixed ==
  ASSUME [Next]_vars, CloseTypeInv
  PROVE  UNCHANGED <<os, wsl1>>
<1>1. CASE Outside
  <2>1. UNCHANGED iterVars
    BY <1>1, OutsideFrame DEF CloseTypeInv, CloseTypeOK, IterTypeOK, PcIter
  <2> QED BY <2>1 DEF iterVars, platVars
<1>2. CASE StartIter \/ AskNext \/ RestDrop \/ DropIter
  BY <1>2
  DEF StartIter, AskNext, RestDrop, DropIter, IterFrom, CallNext, Drop,
      platVars
<1>3. CASE Environment
  BY <1>3, OthersFrame DEF Environment, platVars
<1>4. CASE RunIter
  <2>1. CASE DirOpen \/ DirStat \/ DirEof \/ DirErr
    BY <2>1 DEF DirOpen, DirStat, DirEof, DirErr, platVars
  <2>2. CASE DirExhausted \/ Getdents \/ DirEntry \/ LoopStep
    BY <2>2 DEF DirExhausted, Getdents, DirEntry, LoopStep, platVars
  <2>3. CASE MaxfdStart \/ GetNfds \/ NfdsScan \/ Sysconf
    BY <2>3, MaxfdFrame DEF platVars
  <2> QED BY <1>4, <2>1, <2>2, <2>3 DEF RunIter, IterStep
<1> QED BY <1>1, <1>2, <1>3, <1>4, StepKinds DEF Inside

LEMMA HasRangeNext ==
  ASSUME CloseTypeInv, HasRangeInv, [Next]_vars
  PROVE  HasRangeInv'
<1> USE DEF HasRangeInv
<1>1. UNCHANGED os
  BY OsFixed
<1>2. CASE Calls \/ Inspect \/ Simplify
  <2>1. UNCHANGED <<has_range, kernel_has>> /\ pc' \in {"inspect", "simplify", "shortcut"}
    BY <1>2 DEF Calls, Call, Inspect, Simplify, cacheVars
  <2> QED BY <1>1, <2>1
<1>3. CASE Aside
  <2>1. UNCHANGED <<pc, has_range, op>>
    BY <1>3, AsideFrame DEF cacheVars, argVars
  <2>2. UNCHANGED kernel_has \/ os = "linux"
    BY <1>3 DEF Aside, RunIter, Environment, Revoke, vars, callVars
  <2> QED BY <1>1, <2>1, <2>2 DEF UsesRange
<1>4. CASE ShortcutClosefrom \/ ShortcutRange
  <2>1. UNCHANGED <<has_range, kernel_has>> /\ pc' \in {"done", "iter"}
    <3>1. CASE ShortcutClosefrom
      BY <3>1 DEF ShortcutClosefrom, cacheVars
    <3>2. CASE ShortcutRange
      BY <3>2, RangeNotFatal DEF ShortcutRange
    <3> QED BY <1>4, <3>1, <3>2
  <2> QED BY <1>1, <2>1
<1>5. CASE ShortcutGaps
  <2>1. UsesRange /\ UNCHANGED <<op, kernel_has>> /\ pc' = "skip"
    BY <1>5 DEF ShortcutGaps, argVars
  <2>2. os = "linux" => UNCHANGED has_range
    BY <1>5 DEF ShortcutGaps
  <2>3. os = "freebsd" => has_range' = 1 /\ kernel_has
    BY <1>5 DEF ShortcutGaps, CheckHas
  <2> QED BY <1>1, <2>1, <2>2, <2>3 DEF UsesRange
<1>6. CASE ShortcutNone
  <2>1. UNCHANGED kernel_has /\ pc' = "iter" /\ (UNCHANGED has_range \/ has_range' = 0)
    BY <1>6 DEF ShortcutNone, CheckHasNot
  <2> QED BY SMTT(30), <1>1, <2>1
<1>7. CASE GapsSkip \/ GapsFirst \/ GapsNext \/ GapsLast
  <2>1. UNCHANGED <<has_range, kernel_has, op>>
    BY <1>7
    DEF GapsSkip, GapsFirst, GapsNext, GapsLast, applyUnchanged, argVars
  <2>2. pc \in {"skip", "first", "gap"}
    BY <1>7 DEF GapsSkip, GapsFirst, GapsNext, GapsLast
  <2>3. pc' # "killed"
    BY SMTT(30), <1>7, <2>2, RangeNotFatal
    DEF GapsSkip, GapsFirst, GapsNext, GapsLast
  <2> QED BY <1>1, <2>1, <2>2, <2>3 DEF UsesRange
<1>8. CASE LoopOver \/ GotFd \/ SetFd \/ RestClosefrom \/ RestLoop \/ GotRest
  <2>1. UNCHANGED <<has_range, kernel_has>> /\ pc' \in {"drop", "rest", "loop", "setfd", "done"}
    BY <1>8
    DEF LoopOver, GotFd, SetFd, RestClosefrom, RestLoop, GotRest, Apply,
        localUnchanged, cacheVars
  <2> QED BY <1>1, <2>1
<1>9. CASE RestRange
  <2>1. UNCHANGED <<has_range, kernel_has>> /\ pc' \in {"drop", "restfd"}
    BY <1>9, RangeNotFatal DEF RestRange
  <2> QED BY <1>1, <2>1
<1>10. CASE StartIter \/ AskNext \/ RestDrop \/ DropIter
  <2>1. UNCHANGED <<has_range, kernel_has>> /\ pc' \in {"loop", "wait", "closefrom", "done"}
    BY <1>10
    DEF StartIter, AskNext, RestDrop, DropIter, localUnchanged, cacheVars
  <2> QED BY <1>1, <2>1
<1> QED
  BY <1>2, <1>3, <1>4, <1>5, <1>6, <1>7, <1>8, <1>9, <1>10, StepKinds
     DEF Outside, Inside, Aside

(* A call of closefrom on FreeBSD never dies of SIGSYS, whatever           *)
(* check_has_close_range found out earlier and whatever the kernel has.    *)
THEOREM NeverKilled == Spec => []NoSigsys
<1> DEFINE I == CloseTypeInv /\ HasRangeInv
<1>1. Init => I
  <2> SUFFICES ASSUME Init PROVE HasRangeInv
    BY CloseTypeInit DEF CloseTypeInv
  <2> QED BY SMTT(30) DEF Init, CacheInit, HasRangeValues, HasRangeInv
<1>2. I /\ [Next]_vars => I'
  BY CloseTypeNext, HasRangeNext
<1>3. I => NoSigsys
  BY DEF HasRangeInv, NoSigsys
<1> QED BY <1>1, <1>2, <1>3, PTL DEF Spec

-----------------------------------------------------------------------------
(* Who owns what.                                                          *)

(* Nothing is open that is neither theirs nor the directory; and           *)
(* cloexecfrom leaves all that is theirs open.                             *)
OwnInv ==
  /\ open \subseteq theirs \cup {dirfd}
  /\ pc = "start" \/ op = "cloexec" => Ownership

LEMMA OwnedStep ==
  ASSUME IterTypeOK, DirControl, open \subseteq theirs \cup {dirfd}, IterStep
  PROVE  open' \subseteq theirs' \cup {dirfd'}
<1>1. -1 \notin open
  BY SMTT(30), FdTableAssumption DEF IterTypeOK, TableTypeOK, Fd
<1>2. CASE DirOpen
  <2>1. dirfd = -1
    BY <1>2 DEF DirOpen, DirControl
  <2> QED BY <1>1, <1>2, <2>1 DEF DirOpen, OpenCloexec, tableVars
<1>3. CASE DirStat
  BY <1>3 DEF DirStat, CloseAll, tableVars
<1>4. CASE DirEof \/ DirErr
  BY <1>4 DEF DirEof, EofClose, DirErr, NoDir, CloseAll
<1>5. CASE DirExhausted \/ Getdents \/ DirEntry \/ LoopStep
  BY <1>5 DEF DirExhausted, Getdents, DirEntry, LoopStep, tableVars, dirVars
<1>6. CASE MaxfdStart \/ GetNfds \/ NfdsScan \/ Sysconf
  BY <1>6, MaxfdFrame DEF tableVars, dirVars
<1> QED BY <1>2, <1>3, <1>4, <1>5, <1>6 DEF IterStep

LEMMA OwnedDrop ==
  ASSUME IterTypeOK, DirControl, open \subseteq theirs \cup {dirfd}, Drop
  PROVE  open' \subseteq theirs'
<1>1. -1 \notin open /\ dirfd \in Int /\ dirfd >= -1
  BY SMTT(30), FdTableAssumption DEF IterTypeOK, TableTypeOK, Fd, DirTypeOK
<1>2. CASE dirfd_iter /\ dirfd >= 0
  BY <1>2 DEF Drop, CloseOnDrop, CloseAll
<1>3. CASE ~(dirfd_iter /\ dirfd >= 0)
  <2>1. dirfd = -1
    BY SMTT(30), <1>1, <1>3 DEF Drop, DirControl
  <2> QED BY SMTT(30), <1>1, <1>3, <2>1 DEF Drop, CloseOnDrop, tableVars
<1> QED BY <1>2, <1>3

-----------------------------------------------------------------------------
(* The invariants of the iterator hold also when a call drives it.         *)

ItInv ==
  /\ DirControl /\ MaxControl /\ Order /\ AfterNone
  /\ Progress /\ ScanCount /\ MaxBound /\ AllListed

LEMMA HeldFrame ==
  ASSUME UNCHANGED iterVars, TableFrame
  PROVE  Held' \subseteq Held
BY DEF Held, TableFrame, iterVars, dirVars

LEMMA ItFrame ==
  ASSUME IterTypeOK, ItInv, UNCHANGED iterVars, TableFrame
  PROVE  ItInv'
<1> USE DEF ItInv
<1>1. DirControl' /\ MaxControl'
  BY DEF DirControl, MaxControl, iterVars, platVars, dirVars, maxVars
<1>2. Order' /\ AfterNone'
  BY DEF Order, AfterNone, Remaining, iterVars, dirVars, fieldVars, maxVars,
      outVars
<1>3. Progress' /\ MaxBound' /\ AllListed'
  BY HeldFrame
  DEF Progress, MaxBound, AllListed, Excused, Remaining, iterVars, dirVars,
      fieldVars, maxVars, outVars
<1>4. ScanCount'
  <2>1. UNCHANGED <<itpc, raced, nfds, nfds_found, scanfd>>
    BY DEF iterVars, scanVars
  <2>2. Ahead' \subseteq Ahead
    BY <2>1 DEF TableFrame, Ahead
  <2>3. IsFiniteSet(Ahead) /\ Cardinality(Ahead) \in Nat
    BY AheadFinite
  <2>4. Cardinality(Ahead') \in Nat /\ Cardinality(Ahead') <= Cardinality(Ahead)
    BY <2>2, <2>3, FS_Subset, FS_CardinalityType
  <2>5. nfds \in Nat /\ nfds_found \in Nat
    BY DEF IterTypeOK, ControlTypeOK
  <2> QED BY SMTT(30), <2>1, <2>3, <2>4, <2>5 DEF ScanCount
<1> QED BY <1>1, <1>2, <1>3, <1>4

LEMMA ItNext ==
  ASSUME CloseTypeInv, OwnInv, ItInv, [Next]_vars
  PROVE  ItInv'
<1>1. IterTypeOK /\ minfd \in Int
  BY SMTT(30), FdTableAssumption DEF CloseTypeInv, CloseTypeOK, IntMin
<1>2. CASE Outside
  <2>1. UNCHANGED iterVars /\ TableFrame
    BY <1>2, OutsideFrame DEF CloseTypeInv, CloseTypeOK, IterTypeOK, PcIter
  <2> QED BY <1>1, <2>1, ItFrame
<1>3. CASE RunIter
  BY <1>1, <1>3, DirControlStep, MaxControlStep, OrderStep, AfterNoneStep,
     ProgressStep, ScanCountStep, MaxBoundStep, AllListedStep
  DEF RunIter, ItInv
<1>4. CASE Environment
  <2>1. Others /\ theirs \subseteq open
    BY <1>4 DEF Environment, OwnInv, Ownership
  <2> QED
    BY <1>1, <2>1, ControlUser, OrderUser, AfterNoneUser, ProgressUser,
       ScanCountUser, MaxBoundUser, AllListedUser
    DEF ItInv
<1>5. CASE AskNext \/ RestDrop \/ DropIter
  <2>1. (CallNext \/ Drop) /\ ~Others
    <3>1. CallNext \/ Drop
      BY <1>5 DEF AskNext, RestDrop, DropIter
    <3>2. itpc' # itpc
      BY <3>1 DEF CallNext, Drop
    <3> QED BY <3>1, <3>2, OthersFrame
  <2> QED
    BY <1>1, <2>1, ControlUser, OrderUser, AfterNoneUser, ProgressUser,
       ScanCountUser, MaxBoundUser, AllListedUser
    DEF ItInv
<1>6. CASE StartIter
  <2> DEFINE ts == threadsafe \/ HasClosefrom
  <2>1. IterFrom(minfd, TRUE, ts, allow_fs)
    BY <1>6 DEF StartIter
  <2>2. ~Others
    <3>1. itpc' # itpc
      BY <2>1 DEF IterFrom
    <3> QED BY <3>1, OthersFrame
  <2> HIDE DEF ts
  <2>3. DirControl' /\ MaxControl' /\ Order' /\ AfterNone'
    BY <1>1, <2>1, ControlUser, OrderUser, AfterNoneUser DEF ItInv
  <2>4. Progress' /\ ScanCount' /\ MaxBound' /\ AllListed'
    BY <1>1, <2>1, <2>2, ProgressUser, ScanCountUser, MaxBoundUser,
       AllListedUser
    DEF ItInv
  <2> QED BY <2>3, <2>4 DEF ItInv
<1> QED BY <1>2, <1>3, <1>4, <1>5, <1>6, StepKinds DEF Inside

LEMMA OwnNext ==
  ASSUME CloseTypeInv, OwnInv, ItInv, [Next]_vars
  PROVE  OwnInv'
<1>1. IterTypeOK /\ DirControl
  BY DEF CloseTypeInv, CloseTypeOK, ItInv
<1>2. CASE Outside
  <2>1. UNCHANGED iterVars /\ TableFrame
    BY <1>2, OutsideFrame DEF CloseTypeInv, CloseTypeOK, IterTypeOK, PcIter
  <2>2. open' \subseteq theirs' \cup {dirfd'}
    BY <2>1 DEF OwnInv, TableFrame, iterVars, dirVars
  <2>3. CASE pc = "start"
    <3>1. UNCHANGED tableVars
      <4>1. CASE Calls
        BY <4>1 DEF Calls, Call
      <4>2. CASE Aside
        BY <2>3, <4>2, StartFrame DEF CloseTypeInv, PcIter
      <4> QED BY <2>3, <4>1, <4>2, StepsAt
    <3> QED BY <2>1, <2>2, <2>3, <3>1
            DEF OwnInv, Ownership, tableVars, iterVars, dirVars
  <2>4. CASE pc # "start"
    <3>1. pc' # "start" /\ op' = op
      BY <2>4, Fixed DEF argVars
    <3> QED BY <2>1, <2>2, <3>1
            DEF OwnInv, Ownership, TableFrame, iterVars, dirVars
  <2> QED BY <2>3, <2>4
<1>3. CASE Inside \/ Environment
  <2>1. pc # "start"
    <3>1. CASE RunIter
      BY <3>1, IterStepPc DEF RunIter, CloseTypeInv, PcIter
    <3>2. CASE ~RunIter
      BY <1>3, <3>2
      DEF Inside, StartIter, AskNext, RestDrop, DropIter, Environment
    <3> QED BY <3>1, <3>2
  <2>2. pc' # "start" /\ op' = op
    BY <2>1, Fixed DEF argVars
  <2>3. Ownership => Ownership'
    <3>1. CASE RunIter
      BY <1>1, <3>1, OwnershipStep DEF RunIter
    <3>2. CASE ~RunIter
      BY <1>1, <1>3, <3>2, OwnershipUser
         DEF Inside, StartIter, AskNext, RestDrop, DropIter, Environment
    <3> QED BY <3>1, <3>2
  <2>4. open' \subseteq theirs' \cup {dirfd'}
    <3>1. CASE RunIter
      BY <1>1, <3>1, OwnedStep DEF RunIter, OwnInv
    <3>2. CASE StartIter \/ AskNext
      BY <3>2
      DEF StartIter, AskNext, IterFrom, CallNext, tableVars, dirVars, OwnInv
    <3>3. CASE RestDrop \/ DropIter
      BY <1>1, <3>3, OwnedDrop DEF RestDrop, DropIter, OwnInv
    <3>4. CASE Environment
      BY <2>3, <3>4 DEF Environment, OwnInv, Ownership
    <3> QED BY <1>3, <3>1, <3>2, <3>3, <3>4 DEF Inside
  <2> QED BY <2>2, <2>3, <2>4 DEF OwnInv
<1> QED BY <1>2, <1>3, StepKinds

(* What the proofs below build on.                                         *)
CallInv == CloseTypeInv /\ OwnInv /\ ItInv /\ InspectInv /\ HasRangeInv

LEMMA CallInvInit == Init => CallInv
<1> SUFFICES ASSUME Init PROVE CallInv
  OBVIOUS
<1>1. CloseTypeInv
  BY CloseTypeInit DEF CloseTypeInv
<1>2. IterInv
  BY IterInvInit DEF Init
<1>3. OwnInv /\ ItInv
  BY <1>2 DEF IterInv, IterOwnInv, OwnInv, ItInv, Ownership
<1>4. InspectInv
  BY DEF Init, InspectInv, InspectCorrect
<1>5. HasRangeInv
  BY SMTT(30) DEF Init, CacheInit, HasRangeValues, HasRangeInv
<1> QED BY <1>1, <1>3, <1>4, <1>5 DEF CallInv

LEMMA CallInvNext ==
  ASSUME CallInv, [Next]_vars
  PROVE  CallInv'
BY CloseTypeNext, OwnNext, ItNext, InspectNext, HasRangeNext DEF CallInv

LEMMA CallInvariant == Spec => []CallInv
BY CallInvInit, CallInvNext, PTL DEF Spec

(* cloexecfrom closes nothing (CloexecClosesNothing), on any path and with *)
(* any interleaving of the rest of the program.                            *)
THEOREM CloexecLosesNothing == Spec => []CloexecClosesNothing
<1>1. CallInv => CloexecClosesNothing
  BY DEF CallInv, OwnInv, Ownership, CloexecClosesNothing
<1> QED BY <1>1, CallInvariant, PTL

(* closefrom and cloexecfrom return without leaving the directory of the   *)
(* iterator open (CloseNoLeak), whichever error ended its use.             *)
THEOREM CallLeaksNothing == Spec => []CloseNoLeak
<1>1. CallInv => CloseNoLeak
  <2> SUFFICES ASSUME CallInv PROVE CloseNoLeak
    OBVIOUS
  <2>1. pc = "done" => dirfd = -1
    BY DEF CallInv, CloseTypeInv, PcIter, ItInv, DirControl
  <2>2. -1 \notin open
    BY SMTT(30), FdTableAssumption
    DEF CallInv, CloseTypeInv, CloseTypeOK, IterTypeOK, TableTypeOK, Fd
  <2> QED BY <2>1, <2>2 DEF CallInv, OwnInv, CloseNoLeak
<1> QED BY <1>1, CallInvariant, PTL

-----------------------------------------------------------------------------
(* A call takes a bounded number of steps.                                 *)

Iterating == {"loop", "wait", "rest", "restfd", "setfd"}

(* Rank and RoundLeft, point by point.                                     *)
RankValue ==
  /\ pc \in {"start", "done", "killed"} => Rank = 0
  /\ pc \in {"closefrom", "drop"} => Rank = 1
  /\ pc \in Iterating => Rank = ItemsLeft * RoundMost + RoundLeft
  /\ pc = "iter" => Rank = IterationMost
  /\ pc = "gap" => Rank = IterationMost + 1 + (Len(keep_fds) - gi)
  /\ pc = "first" => Rank = IterationMost + 2 + Len(keep_fds)
  /\ pc = "skip" => Rank = IterationMost + 3 + Len(keep_fds)
  /\ pc = "shortcut" => Rank = IterationMost + 4 + Len(keep_fds)
  /\ pc = "simplify" => Rank = IterationMost + 5 + 2 * Len(keep_fds) - ki
  /\ pc = "inspect" => Rank = IterationMost + 6 + 3 * Len(keep_fds) - gi

RoundValue ==
  /\ pc = "loop" => RoundLeft = CallMost + 2 + CallLeft
  /\ pc = "setfd" => RoundLeft = CallMost + 3
  /\ pc = "restfd" => RoundLeft = CallMost + 4
  /\ pc = "rest" => RoundLeft = CallMost + 5
  /\ pc = "wait" /\ itpc = "idle" /\ item # None => RoundLeft = CallMost + 6
  /\ pc = "wait" /\ ~(itpc = "idle" /\ item # None) => RoundLeft = 2 + CallLeft

LEMMA RankValues == RankValue /\ RoundValue
<1>1. RankValue
  BY SMTT(30) DEF RankValue, Rank, Iterating
<1>2. RoundValue
  BY SMTT(30) DEF RoundValue, RoundLeft
<1> QED BY <1>1, <1>2

LEMMA RankValuesNext == RankValue' /\ RoundValue'
BY RankValues, PTL

(* They, and the numbers they are made of, are natural numbers.            *)
RankParts ==
  /\ Rank \in Nat
  /\ CallMost \in Nat /\ RoundMost \in Nat /\ IterationMost \in Nat
  /\ RoundMost = CallMost + 7
  /\ ItemsLeft \in Nat /\ CallLeft \in Nat
  /\ pc \in Iterating => RoundLeft \in Nat /\ ItemsLeft * RoundMost \in Nat
  /\ Len(keep_fds) \in Nat /\ ki \in Nat /\ ki <= Len(keep_fds)
  /\ gi \in Nat /\ gi <= Len(keep_fds)

LEMMA RankTypes == CloseTypeOK => RankParts
<1> SUFFICES ASSUME CloseTypeOK PROVE RankParts
  OBVIOUS
<1>1. ItemsLeft \in Nat /\ CallLeft \in Nat
  BY LeftValues DEF CloseTypeOK, LeftValue
<1>2. CallMost \in Nat /\ RoundMost \in Nat /\ RoundMost = CallMost + 7
  BY SMTT(30), FdIterAssumption DEF CallMost, RoundMost
<1>3. IterationMost \in Nat
  <2>1. DirMost \in Nat
    BY DirLeftType DEF CloseTypeOK
  <2>2. DirMost + IntMax + 2 \in Nat
    BY SMTT(30), <2>1, FdTableAssumption
  <2> QED BY <1>2, <2>2, Product DEF IterationMost
<1>4. pc \in Iterating => RoundLeft \in Nat
  <2>1. /\ CallMost + 2 + CallLeft \in Nat /\ CallMost + 3 \in Nat
        /\ CallMost + 4 \in Nat /\ CallMost + 5 \in Nat /\ CallMost + 6 \in Nat
        /\ 2 + CallLeft \in Nat
    BY SMTT(30), <1>1, <1>2
  <2> QED BY <2>1, RankValues DEF RoundValue, Iterating
<1>5. ItemsLeft * RoundMost \in Nat
  BY <1>1, <1>2, Product
<1>6. /\ Len(keep_fds) \in Nat /\ ki \in Nat /\ ki <= Len(keep_fds)
      /\ gi \in Nat /\ gi <= Len(keep_fds)
  BY SMTT(30) DEF CloseTypeOK
<1>7. Rank \in Nat
  <2> DEFINE M == IterationMost
             L == Len(keep_fds)
  <2>1. /\ M + 1 + (L - gi) \in Nat /\ M + 2 + L \in Nat /\ M + 3 + L \in Nat
        /\ M + 4 + L \in Nat /\ M + 5 + 2 * L - ki \in Nat
        /\ M + 6 + 3 * L - gi \in Nat /\ 0 \in Nat /\ 1 \in Nat
    BY SMTT(30), <1>3, <1>6
  <2>2. \A a, b \in Nat : a + b \in Nat
    BY SMTT(30)
  <2>3. pc \in Iterating => ItemsLeft * RoundMost + RoundLeft \in Nat
    BY <1>4, <1>5, <2>2
  <2>4. pc \in Pcs
    BY DEF CloseTypeOK
  <2> QED BY <1>3, <2>1, <2>3, <2>4, RankValues DEF RankValue, Pcs, Iterating
<1> QED BY <1>1, <1>2, <1>3, <1>4, <1>5, <1>6, <1>7 DEF RankParts

LEMMA RankTypesNext == CloseTypeOK' => RankParts'
BY RankTypes, PTL

(* Before the iteration.                                                   *)
LEMMA RankInspect ==
  ASSUME CloseTypeOK, CloseTypeOK', Inspect \/ Simplify
  PROVE  Rank' < Rank
<1>1. RankParts /\ RankParts' /\ RankValue /\ RankValue'
  BY RankTypes, RankTypesNext, RankValues, RankValuesNext
<1>2. keep_fds' = keep_fds /\ IterationMost' = IterationMost
  BY DEF Inspect, Simplify, argVars, IterationMost
<1>3. CASE Inspect
  <2>1. /\ pc = "inspect"
        /\ \/ gi' = gi + 1 /\ pc' = "inspect"
           \/ pc' = "simplify"
    BY <1>3 DEF Inspect
  <2>3. CASE pc' = "inspect"
    <3>1. gi' = gi + 1
      BY <2>1, <2>3
    <3>2. /\ Rank = IterationMost + 6 + 3 * Len(keep_fds) - gi
          /\ Rank' = IterationMost + 6 + 3 * Len(keep_fds) - (gi + 1)
      BY <1>1, <1>2, <2>1, <2>3, <3>1 DEF RankValue
    <3> QED BY SMTT(30), <1>1, <3>2 DEF RankParts
  <2>4. CASE pc' = "simplify"
    <3>1. /\ Rank = IterationMost + 6 + 3 * Len(keep_fds) - gi
          /\ Rank' = IterationMost + 5 + 2 * Len(keep_fds) - ki'
      BY <1>1, <1>2, <2>1, <2>4 DEF RankValue
    <3>2. /\ IterationMost \in Nat /\ Len(keep_fds) \in Nat /\ gi \in Nat
          /\ gi <= Len(keep_fds) /\ ki' \in Nat
      BY <1>1 DEF RankParts
    <3> QED BY SMTT(30), <3>1, <3>2
  <2> QED BY <2>1, <2>3, <2>4
<1>4. CASE Simplify
  <2>1. /\ pc = "simplify"
        /\ \/ ki' = ki + 1 /\ pc' = "simplify"
           \/ pc' = "shortcut"
    BY <1>4 DEF Simplify
  <2>2. /\ IterationMost \in Nat /\ Len(keep_fds) \in Nat /\ ki \in Nat
        /\ ki <= Len(keep_fds)
    BY <1>1 DEF RankParts
  <2>3. Rank = IterationMost + 5 + 2 * Len(keep_fds) - ki
    BY <1>1, <2>1 DEF RankValue
  <2>4. CASE pc' = "simplify"
    <3>1. Rank' = IterationMost + 5 + 2 * Len(keep_fds) - (ki + 1)
      BY <1>1, <1>2, <2>1, <2>4 DEF RankValue
    <3> QED BY SMTT(30), <2>2, <2>3, <3>1
  <2>5. CASE pc' = "shortcut"
    <3>1. Rank' = IterationMost + 4 + Len(keep_fds)
      BY <1>1, <1>2, <2>5 DEF RankValue
    <3> QED BY SMTT(30), <2>2, <2>3, <3>1
  <2> QED BY <2>1, <2>4, <2>5
<1> QED BY <1>3, <1>4

LEMMA RankShortcut ==
  ASSUME CloseTypeOK, CloseTypeOK',
         \/ ShortcutClosefrom \/ ShortcutRange \/ ShortcutGaps \/ ShortcutNone
         \/ GapsSkip \/ GapsFirst \/ GapsNext \/ GapsLast
  PROVE  Rank' < Rank
<1>1. RankParts /\ RankParts' /\ RankValue /\ RankValue'
  BY RankTypes, RankTypesNext, RankValues, RankValuesNext
<1>2. keep_fds' = keep_fds /\ IterationMost' = IterationMost
  BY DEF ShortcutClosefrom, ShortcutRange, ShortcutGaps, ShortcutNone,
     GapsSkip, GapsFirst, GapsNext, GapsLast, applyUnchanged, argVars,
     IterationMost
<1>3. /\ IterationMost \in Nat /\ Len(keep_fds) \in Nat /\ gi \in Nat
      /\ gi <= Len(keep_fds) /\ gi' \in Nat /\ gi' <= Len(keep_fds)
  BY <1>1, <1>2 DEF RankParts
<1>4. \/ pc = "shortcut" /\ pc' \in {"done", "iter", "killed", "skip"}
      \/ pc = "skip" /\ pc' \in {"done", "iter", "killed", "first"}
      \/ pc = "first" /\ pc' \in {"gap", "iter", "killed"}
      \/ pc = "gap" /\ pc' \in {"done", "iter", "killed"}
      \/ pc = "gap" /\ pc' = "gap" /\ gi' = gi + 1
  <2>1. CASE ShortcutClosefrom \/ ShortcutRange \/ ShortcutGaps \/ ShortcutNone
    BY <2>1
    DEF ShortcutClosefrom, ShortcutRange, ShortcutGaps, ShortcutNone,
        CloseRange
  <2>2. CASE GapsSkip \/ GapsFirst
    BY <2>2 DEF GapsSkip, GapsFirst, CloseRange
  <2>3. CASE GapsNext
    BY <2>3 DEF GapsNext, CloseRange
  <2>4. CASE GapsLast
    BY <2>4 DEF GapsLast, CloseRange
  <2> QED BY <2>1, <2>2, <2>3, <2>4
<1>5. /\ pc = "shortcut" => Rank = IterationMost + 4 + Len(keep_fds)
      /\ pc = "skip" => Rank = IterationMost + 3 + Len(keep_fds)
      /\ pc = "first" => Rank = IterationMost + 2 + Len(keep_fds)
      /\ pc = "gap" => Rank = IterationMost + 1 + (Len(keep_fds) - gi)
  BY <1>1 DEF RankValue
<1>6. /\ pc' \in {"done", "killed"} => Rank' = 0
      /\ pc' = "iter" => Rank' = IterationMost
      /\ pc' = "skip" => Rank' = IterationMost + 3 + Len(keep_fds)
      /\ pc' = "first" => Rank' = IterationMost + 2 + Len(keep_fds)
      /\ pc' = "gap" => Rank' = IterationMost + 1 + (Len(keep_fds) - gi')
  BY <1>1, <1>2 DEF RankValue
<1> QED BY SMTT(30), <1>3, <1>4, <1>5, <1>6

(* The iteration: what is left of it after a step is less, one way or the  *)
(* other.                                                                  *)
LEMMA RankRound ==
  ASSUME CloseTypeOK, CloseTypeOK', pc \in Iterating, pc' \in Iterating,
         \/ ItemsLeft' < ItemsLeft /\ RoundLeft' < RoundMost + RoundLeft
         \/ ItemsLeft' <= ItemsLeft /\ RoundLeft' < RoundLeft
  PROVE  Rank' < Rank
<1>1. RankParts /\ RankParts' /\ RankValue /\ RankValue'
  BY RankTypes, RankTypesNext, RankValues, RankValuesNext
<1>2. RoundMost' = RoundMost
  BY DEF RoundMost, CallMost
<1>3. /\ ItemsLeft \in Nat /\ ItemsLeft' \in Nat /\ RoundLeft \in Nat
      /\ RoundLeft' \in Nat /\ RoundMost \in Nat
  BY <1>1 DEF RankParts
<1>4. /\ Rank = ItemsLeft * RoundMost + RoundLeft
      /\ Rank' = ItemsLeft' * RoundMost + RoundLeft'
  BY <1>1, <1>2 DEF RankValue
<1> QED BY <1>3, <1>4, Lexicographic

LEMMA RankStartIter ==
  ASSUME CloseTypeOK, CloseTypeOK', DirControl, MaxControl, StartIter
  PROVE  Rank' < Rank
<1>1. RankParts /\ RankParts' /\ RankValue /\ RankValue' /\ RoundValue'
  BY RankTypes, RankTypesNext, RankValues, RankValuesNext
<1>2. /\ pc = "iter" /\ pc' = "loop" /\ itpc = "none" /\ itpc' \in {"open", "idle"}
      /\ UNCHANGED <<dirVars, maxVars>>
  BY DEF StartIter, IterFrom
<1>3. ~dirfd_iter' /\ maxfd' = None
  BY <1>2 DEF DirControl, MaxControl, dirVars, maxVars
<1>4. LeftValue'
  BY LeftNext DEF CloseTypeOK
<1>5. /\ ItemsLeft' = DirMost + IntMax + 1 \/ ItemsLeft' = IntMax + 1
      /\ CallLeft' = 2 \/ CallLeft' = 0
  BY <1>2, <1>3, <1>4 DEF LeftValue, Opening
<1>6. DirMost \in Nat /\ IntMax \in Nat
  BY DirLeftType, FdTableAssumption DEF CloseTypeOK
<1>7. CallMost' = CallMost /\ RoundMost' = RoundMost
  BY DEF RoundMost, CallMost
<1>8. /\ CallMost \in Nat /\ RoundMost \in Nat /\ RoundMost = CallMost + 7
      /\ RoundLeft' = CallMost + 2 + CallLeft' /\ RoundLeft' \in Nat
      /\ ItemsLeft' \in Nat
  BY <1>1, <1>2, <1>7 DEF RankParts, RoundValue, Iterating
<1>9. /\ DirMost + IntMax + 2 \in Nat /\ ItemsLeft' < DirMost + IntMax + 2
      /\ RoundLeft' < RoundMost + 0 /\ 0 \in Nat
  BY SMTT(30), <1>5, <1>6, <1>8
<1>10. ItemsLeft' * RoundMost + RoundLeft' < (DirMost + IntMax + 2) * RoundMost + 0
  BY <1>8, <1>9, Lexicographic
<1>11. (DirMost + IntMax + 2) * RoundMost + 0 = IterationMost
  <2>1. \A a \in Nat : a + 0 = a
    BY SMTT(30)
  <2> QED BY <1>1, <2>1 DEF IterationMost, RankParts
<1> QED BY <1>1, <1>2, <1>7, <1>10, <1>11 DEF RankValue, Iterating

(* What the call does with an item, and its next() call.                   *)
LEMMA RankItem ==
  ASSUME CloseTypeOK, CloseTypeOK', PcIter,
         AskNext \/ GotFd \/ GotRest \/ SetFd \/ RestLoop
                 \/ (RestRange /\ pc' \notin {"drop", "killed"})
  PROVE  Rank' < Rank
<1>1. RankParts /\ RoundValue /\ RoundValue'
  BY RankTypes, RankValues, RankValuesNext
<1>2. LeftValue /\ LeftValue'
  BY LeftValues, LeftNext DEF CloseTypeOK
<1>3. CallMost' = CallMost /\ CallMost = 2 * NfdsCutoff + 7 /\ NfdsCutoff \in Nat
  BY FdIterAssumption DEF CallMost
<1>4. ItemsLeft \in Nat
  BY <1>1 DEF RankParts
<1>5. CASE AskNext
  <2>1. /\ pc = "loop" /\ pc' = "wait" /\ itpc = "idle" /\ itpc' \in {"dir", "maxfd", "loop"}
        /\ UNCHANGED <<curfd, dirVars, scanVars, maxVars>>
    BY <1>5 DEF AskNext, CallNext
  <2>2. RoundLeft = CallMost + 2 + CallLeft /\ RoundLeft' = 2 + CallLeft'
    BY <1>1, <1>3, <2>1 DEF RoundValue
  <2>3. /\ CallLeft = 0
        /\ \/ CallLeft' = 2 * NfdsCutoff + 6 \/ CallLeft' = 2 * NfdsCutoff + 4
           \/ CallLeft' = 1
    BY <1>2, <2>1 DEF LeftValue
  <2>4. RoundLeft' < RoundLeft
    BY SMTT(30), <1>3, <2>2, <2>3
  <2>5. ItemsLeft' = ItemsLeft
    <3>1. UNCHANGED <<dirfd_iter, dirfd, dirent_buf, dirent_offset, dirpos, maxfd>>
      BY <2>1 DEF dirVars, maxVars
    <3>2. DirLeft' = DirLeft /\ LoopLeft' = LoopLeft
      BY <2>1, <3>1 DEF DirLeft, LoopLeft
    <3>3. itpc \notin Opening /\ itpc' \notin Opening
      BY <2>1 DEF Opening
    <3>4. dirfd \in Int /\ dirfd_iter \in BOOLEAN
      BY SMTT(30), FdTableAssumption DEF CloseTypeOK, IterTypeOK, DirTypeOK
    <3>5. dirfd < 0 \/ dirfd >= 0
      BY SMTT(30), <3>4
    <3>6. CASE dirfd_iter
      BY <1>2, <3>1, <3>2, <3>3, <3>5, <3>6 DEF LeftValue
    <3>7. CASE ~dirfd_iter
      BY <1>2, <3>1, <3>2, <3>3, <3>7 DEF LeftValue
    <3> QED BY <3>6, <3>7
  <2>6. ItemsLeft' <= ItemsLeft
    BY SMTT(30), <1>4, <2>5
  <2> QED BY <2>1, <2>4, <2>6, RankRound DEF Iterating
<1>6. CASE ~AskNext
  <2>1. UNCHANGED iterVars
    BY <1>6 DEF GotFd, GotRest, SetFd, RestLoop, RestRange
  <2>2. /\ itpc = "idle" /\ itpc' = "idle"
        /\ \/ pc = "wait" /\ item # None /\ pc' \in {"rest", "loop", "setfd"}
           \/ pc = "setfd" /\ pc' = "loop"
           \/ pc = "rest" /\ pc' = "restfd"
           \/ pc \in {"rest", "restfd"} /\ pc' \in {"loop", "setfd"}
    <3>1. itpc = "idle" /\ itpc' = itpc
      BY <1>6, <2>1
      DEF GotFd, GotRest, SetFd, RestLoop, RestRange, PcIter, iterVars
    <3>2. CASE GotFd \/ GotRest
      BY <3>1, <3>2 DEF GotFd, GotRest, Apply
    <3>3. CASE SetFd
      BY <3>1, <3>3 DEF SetFd
    <3>4. CASE RestLoop
      BY <3>1, <3>4 DEF RestLoop, Apply
    <3>5. CASE RestRange /\ pc' \notin {"drop", "killed"}
      BY <3>1, <3>5 DEF RestRange, CloseRange
    <3> QED BY <1>6, <3>2, <3>3, <3>4, <3>5
  <2>3. CallLeft' = 0
    BY <1>2, <2>2 DEF LeftValue
  <2>4. /\ pc = "wait" => RoundLeft = CallMost + 6 \/ item = None
        /\ pc = "setfd" => RoundLeft = CallMost + 3
        /\ pc = "restfd" => RoundLeft = CallMost + 4
        /\ pc = "rest" => RoundLeft = CallMost + 5
        /\ pc' = "loop" => RoundLeft' = CallMost + 2 + CallLeft'
        /\ pc' = "setfd" => RoundLeft' = CallMost + 3
        /\ pc' = "restfd" => RoundLeft' = CallMost + 4
        /\ pc' = "rest" => RoundLeft' = CallMost + 5
    BY <1>1, <1>3, <2>2 DEF RoundValue
  <2>5. CallMost \in Int
    BY SMTT(30), <1>3
  <2>6. RoundLeft' < RoundLeft
    BY SMTT(30), <2>2, <2>3, <2>4, <2>5
  <2>7. ItemsLeft' <= ItemsLeft
    <3>1. ItemsLeft' = ItemsLeft
      BY <2>1, SameLeft DEF iterVars
    <3> QED BY SMTT(30), <1>4, <3>1
  <2> QED BY <2>2, <2>6, <2>7, RankRound DEF Iterating
<1> QED BY <1>5, <1>6

(* The iteration is over, and with it the call.                            *)
LEMMA RankLast ==
  ASSUME CloseTypeOK, CloseTypeOK',
         \/ LoopOver \/ RestDrop \/ RestClosefrom \/ DropIter
         \/ RestRange /\ pc' \in {"drop", "killed"}
  PROVE  Rank' < Rank
<1>1. RankParts /\ RankValue /\ RankValue' /\ RoundValue
  BY RankTypes, RankValues, RankValuesNext
<1>2. CASE RestClosefrom \/ DropIter
  <2>1. pc \in {"closefrom", "drop"} /\ pc' = "done"
    BY <1>2 DEF RestClosefrom, DropIter
  <2>2. Rank = 1 /\ Rank' = 0
    BY <1>1, <2>1 DEF RankValue
  <2> QED BY SMTT(30), <2>2
<1>3. CASE LoopOver \/ RestDrop \/ (RestRange /\ pc' \in {"drop", "killed"})
  <2>1. /\ pc' \in {"drop", "closefrom", "killed"}
        /\ pc \in {"wait", "rest"} /\ (pc = "wait" => item = None)
    BY <1>3 DEF LoopOver, RestDrop, RestRange
  <2>2. /\ Rank' = 1 \/ Rank' = 0
        /\ Rank = ItemsLeft * RoundMost + RoundLeft
        /\ RoundLeft = 2 + CallLeft \/ RoundLeft = CallMost + 5
    BY <1>1, <2>1 DEF RankValue, RoundValue, Iterating
  <2>3. ItemsLeft * RoundMost \in Nat /\ CallLeft \in Nat /\ CallMost \in Nat
    BY <1>1, <2>1 DEF RankParts, Iterating
  <2>4. \A a, b \in Nat : /\ 0 < a + (2 + b) /\ 1 < a + (2 + b)
                          /\ 0 < a + (b + 5) /\ 1 < a + (b + 5)
    BY SMTT(30)
  <2> QED BY <2>2, <2>3, <2>4
<1> QED BY <1>2, <1>3

(* A step inside iter_from() or next(): a descriptor costs an item.        *)
LEMMA RankRunIter ==
  ASSUME CloseTypeOK, CloseTypeOK', PcIter, DirControl, MaxControl, pc # "killed",
         RunIter
  PROVE  Rank' < Rank
<1>1. RankParts /\ RankParts' /\ RoundValue /\ RoundValue'
  BY RankTypes, RankTypesNext, RankValues, RankValuesNext
<1>2. IterTypeOK /\ IterTypeOK' /\ IterStep /\ pc' = pc
  BY DEF CloseTypeOK, RunIter, callVars
<1>3. StepLowers /\ (GivesFd => ItemsLeft' < ItemsLeft)
  BY <1>2, IterStepLowers
<1>4. itpc \notin {"none", "idle", "gone"} /\ pc \in {"loop", "wait"}
  <2>1. itpc \notin {"none", "idle", "gone"}
    BY <1>2, IterStepPc
  <2>2. pc \in Pcs
    BY DEF CloseTypeOK
  <2> QED BY <2>1, <2>2 DEF PcIter, Pcs
<1>5. /\ CallMost' = CallMost /\ CallMost = 2 * NfdsCutoff + 7 /\ NfdsCutoff \in Nat
      /\ RoundMost = CallMost + 7
  BY FdIterAssumption DEF CallMost, RoundMost
<1>6. /\ ItemsLeft \in Nat /\ ItemsLeft' \in Nat /\ CallLeft \in Nat /\ CallLeft' \in Nat
      /\ CallMost \in Nat
  BY <1>1, <1>5 DEF RankParts
<1>0. \A n, c, d \in Nat :
        LET m == 2 * n + 7 IN
          /\ d <= 2 * n + 6 => m + 2 + d < (m + 7) + (m + 2 + c)
          /\ d < c => m + 2 + d < m + 2 + c
          /\ d <= 2 * n + 6 => 2 + d < (m + 7) + (2 + c)
          /\ d < c => 2 + d < 2 + c
          /\ m + 6 < (m + 7) + (2 + c)
  BY SMTT(30)
<1>7. CASE pc = "loop"
  <2>1. RoundLeft = CallMost + 2 + CallLeft /\ RoundLeft' = CallMost + 2 + CallLeft'
    BY <1>1, <1>2, <1>5, <1>7 DEF RoundValue
  <2>2. \/ ItemsLeft' < ItemsLeft /\ RoundLeft' < RoundMost + RoundLeft
        \/ ItemsLeft' <= ItemsLeft /\ RoundLeft' < RoundLeft
    <3>1. CallLeft' <= 2 * NfdsCutoff + 6 => RoundLeft' < RoundMost + RoundLeft
      BY <1>0, <1>5, <1>6, <2>1
    <3>2. CallLeft' < CallLeft => RoundLeft' < RoundLeft
      BY <1>0, <1>5, <1>6, <2>1
    <3> QED BY <1>3, <3>1, <3>2 DEF StepLowers
  <2> QED BY <1>2, <1>7, <2>2, RankRound DEF Iterating
<1>8. CASE pc = "wait"
  <2>1. RoundLeft = 2 + CallLeft
    BY <1>1, <1>4, <1>8 DEF RoundValue
  <2>2. CASE itpc' = "idle" /\ item' # None
    <3>1. GivesFd
      <4>1. itpc \notin {"open", "stat"}
        BY <1>8 DEF PcIter
      <4>2. ~(DirOpen \/ DirStat)
        BY <4>1 DEF DirOpen, DirStat
      <4>3. ~(DirExhausted \/ Getdents \/ DirEof \/ DirErr)
        BY <2>2 DEF DirExhausted, Getdents, DirEof, DirErr, ReturnNone
      <4>4. ~(MaxfdStart \/ GetNfds \/ NfdsScan \/ Sysconf)
        BY <2>2, MaxfdFrame
      <4> QED BY <1>2, <2>2, <4>2, <4>3, <4>4
              DEF IterStep, DirEntry, LoopStep, GivesFd
    <3>2. RoundLeft' = CallMost + 6
      BY <1>1, <1>2, <1>5, <1>8, <2>2 DEF RoundValue
    <3>3. RoundLeft' < RoundMost + RoundLeft
      BY <1>0, <1>5, <1>6, <2>1, <3>2
    <3> QED BY <1>2, <1>3, <1>8, <3>1, <3>3, RankRound DEF Iterating
  <2>3. CASE ~(itpc' = "idle" /\ item' # None)
    <3>1. RoundLeft' = 2 + CallLeft'
      BY <1>1, <1>2, <1>8, <2>3 DEF RoundValue
    <3>2. CallLeft' <= 2 * NfdsCutoff + 6 => RoundLeft' < RoundMost + RoundLeft
      BY <1>0, <1>5, <1>6, <2>1, <3>1
    <3>3. CallLeft' < CallLeft => RoundLeft' < RoundLeft
      BY <1>0, <1>5, <1>6, <2>1, <3>1
    <3>4. \/ ItemsLeft' < ItemsLeft /\ RoundLeft' < RoundMost + RoundLeft
          \/ ItemsLeft' <= ItemsLeft /\ RoundLeft' < RoundLeft
      BY <1>3, <3>2, <3>3 DEF StepLowers
    <3> QED BY <1>2, <1>8, <3>4, RankRound DEF Iterating
  <2> QED BY <2>2, <2>3
<1> QED BY <1>4, <1>7, <1>8

(* The rest of the program and a filter that refuses close_range().        *)
LEMMA RankSame ==
  ASSUME Environment \/ Revoke
  PROVE  Rank' = Rank
<1>1. UNCHANGED <<pc, keep_fds, ki, gi, item, itpc, curfd, dirVars, scanVars, maxVars>>
  <2>1. CASE Environment
    BY <2>1, OthersFrame DEF Environment, callVars, argVars, outVars
  <2>2. CASE Revoke
    BY <2>2 DEF Revoke, iterVars, argVars, outVars
  <2> QED BY <2>1, <2>2
<1>2. ItemsLeft' = ItemsLeft /\ CallLeft' = CallLeft
  BY <1>1, SameLeft
<1>3. RoundLeft' = RoundLeft
  BY <1>1, <1>2 DEF RoundLeft, CallMost
<1> QED BY <1>1, <1>2, <1>3
        DEF Rank, RoundMost, IterationMost, CallMost, DirMost

(* What CallVariant says of one step.                                      *)
CallVariantStep ==
  pc # "start" =>
    /\ 0 <= Rank'
    /\ \/ Rank' < Rank
       \/ Rank' = Rank /\ (Environment \/ Revoke)

LEMMA CallVariantNext ==
  ASSUME CallInv, CallInv', [Next]_vars
  PROVE  [CallVariantStep]_vars
<1> SUFFICES ASSUME Next, ~UNCHANGED vars, pc # "start" PROVE CallVariantStep
  BY DEF CallVariantStep
<1>1. /\ CloseTypeOK /\ CloseTypeOK' /\ PcIter /\ DirControl /\ MaxControl
      /\ pc # "killed"
  BY DEF CallInv, CloseTypeInv, ItInv, HasRangeInv
<1>2. 0 <= Rank'
  <2>1. Rank' \in Nat
    BY <1>1, RankTypesNext DEF RankParts
  <2> QED BY SMTT(30), <2>1
<1>3. CASE Environment \/ Revoke
  BY <1>2, <1>3, RankSame DEF CallVariantStep
<1>4. ASSUME Step PROVE Rank' < Rank
  <2>1. CASE Inspect \/ Simplify
    BY <1>1, <2>1, RankInspect
  <2>2. CASE ShortcutClosefrom \/ ShortcutRange \/ ShortcutGaps \/ ShortcutNone
    BY <1>1, <2>2, RankShortcut
  <2>3. CASE GapsSkip \/ GapsFirst \/ GapsNext \/ GapsLast
    BY <1>1, <2>3, RankShortcut
  <2>4. CASE StartIter
    BY <1>1, <2>4, RankStartIter
  <2>5. CASE AskNext \/ GotFd \/ GotRest \/ SetFd \/ RestLoop
    BY <1>1, <2>5, RankItem
  <2>6. CASE RestRange
    BY <1>1, <2>6, RankItem, RankLast
  <2>7. CASE LoopOver \/ RestDrop \/ RestClosefrom \/ DropIter
    BY <1>1, <2>7, RankLast
  <2>8. CASE RunIter
    BY <1>1, <2>8, RankRunIter
  <2> QED
    BY <1>4, <2>1, <2>2, <2>3, <2>4, <2>5, <2>6, <2>7, <2>8 DEF Step
<1>5. ~Calls /\ ~Finished
  BY DEF Calls, Call, Finished
<1> QED BY <1>2, <1>3, <1>4, <1>5 DEF Next, Calls, CallVariantStep

(* closefrom and cloexecfrom take a bounded number of steps (CallVariant), *)
(* whichever method they end up with, with any keep list, any size of the  *)
(* table and of the directory buffer, and whatever the rest of the program *)
(* opens and closes meanwhile.                                             *)
THEOREM CallsAreBounded == Spec => CallVariant
<1>1. Spec => [][CallVariantStep]_vars
  BY CallVariantNext, CallInvariant, PTL DEF Spec
<1> QED BY <1>1 DEF CallVariant, CallVariantStep

=============================================================================
