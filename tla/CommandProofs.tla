---------------------------- MODULE CommandProofs ----------------------------
(***************************************************************************)
(* The command of CommandClose inherits what it should, for every value of *)
(* the constants.  Up to the fork the program is in an initial state of    *)
(* CloseFds; from then on the child takes steps of CloseFds, whose         *)
(* invariants are those of CloseEffectProofs.                              *)
(***************************************************************************)
EXTENDS CommandClose, CloseEffectProofs

USE ZenonT(30)

Parent == {"open", "unset", "fork", "panicked"}

(* The three files are opened one by one, then made inheritable.           *)
FilesInv ==
  /\ files \in Seq(Fd)
  /\ stage = "open" => Len(files) <= 2 /\ unset = 0
  /\ stage \in {"unset", "fork", "child", "execed"} => Len(files) = 3
  /\ stage = "unset" => unset \in 0..2
  /\ stage = "fork" => unset = 3

(* Before the fork.                                                        *)
ParentInv ==
  stage \in Parent =>
    /\ Init
    /\ \A k \in 1..Len(files) : files[k] \in open
    /\ stage \in {"unset", "fork"} => \A k \in 1..unset : files[k] \notin cloexec

(* In the child: the call protects the standard streams and the two files, *)
(* which keep the flag they had at the fork, and nothing else loses its    *)
(* flag.                                                                   *)
ChildInv ==
  stage = "child" =>
    /\ EffectInv /\ pc # "start" /\ steady = theirs
    /\ arg_minfd = StdFds /\ KeepSet = {files[1], files[3]}
    /\ inherited \subseteq theirs /\ {files[1], files[3]} \subseteq inherited
    /\ \A f \in theirs : Protected(f) => (f \in cloexec <=> f \notin inherited)
    /\ open \ cloexec \subseteq inherited

CommandInv ==
  /\ stage \in Parent \cup {"child", "execed", "lost"}
  /\ FilesInv /\ ParentInv /\ ChildInv /\ InheritsExactly

LEMMA CommandLists == BelowIntMax
<1> SUFFICES ASSUME NEW s \in KeepLists
             PROVE  s \in Seq(IntMin..(IntMax - 1))
  BY DEF BelowIntMax
<1>1. PICK a \in Fd, b \in Fd : s = <<a, b>>
  BY SMTT(30), CommandAssumption
<1>2. a \in IntMin..(IntMax - 1) /\ b \in IntMin..(IntMax - 1)
  BY SMTT(30), FdTableAssumption DEF Fd, IntMin
<1> QED BY SMTT(30), <1>1, <1>2

LEMMA CommandInvInit == CommandInit => CommandInv
<1> SUFFICES ASSUME CommandInit PROVE CommandInv
  OBVIOUS
<1>1. files = <<>> /\ files \in Seq(Fd) /\ Len(files) = 0 /\ stage = "open" /\ unset = 0
  BY SMTT(30) DEF CommandInit
<1>2. FilesInv
  BY SMTT(30), <1>1 DEF FilesInv
<1>3. ParentInv
  BY SMTT(30), <1>1 DEF ParentInv, CommandInit
<1> QED BY <1>1, <1>2, <1>3 DEF CommandInv, ChildInv, InheritsExactly, Parent

(* What the call's variables say of an initial state.                      *)
LEMMA InitFrame ==
  ASSUME Init, UNCHANGED <<iterVars, callVars>>, TableInit'
  PROVE  Init'
<1>1. IterInit'
  BY DEF Init, IterInit, iterVars, platVars, fieldVars, dirVars, scanVars,
      maxVars, outVars
<1>2. CacheInit'
  BY DEF Init, CacheInit, callVars, cacheVars, iterVars, platVars
<1> QED BY <1>1, <1>2 DEF Init, callVars, argVars, keepVars

LEMMA OpenFileStep ==
  ASSUME CommandInv, OpenFile
  PROVE  CommandInv'
<1>0. stage = "open" /\ UNCHANGED <<iterVars, callVars, unset, inherited>>
  BY DEF OpenFile
<1>1. Init /\ files \in Seq(Fd) /\ Len(files) \in 0..2 /\ unset = 0
  <2>1. Init
    BY <1>0 DEF CommandInv, ParentInv, Parent
  <2>2. files \in Seq(Fd)
    BY DEF CommandInv, FilesInv
  <2>3. Len(files) <= 2 /\ unset = 0
    BY <1>0 DEF CommandInv, FilesInv
  <2>4. Len(files) \in Nat
    BY SMTT(30), <2>2
  <2>5. Len(files) \in 0..2
    <3>1. \A n \in Nat : n <= 2 => n \in 0..2
      BY SMTT(30)
    <3> QED BY <2>3, <2>4, <3>1
  <2> QED BY <2>1, <2>2, <2>3, <2>5
<1>2. CASE open = Fd /\ stage' = "panicked" /\ UNCHANGED <<tableVars, files>>
  <2>1. TableInit'
    BY <1>0, <1>1, <1>2 DEF Init, TableInit, tableVars
  <2>2. Init'
    BY <1>0, <1>1, <2>1, InitFrame
  <2> QED
    BY <1>0, <1>1, <1>2, <2>2
    DEF CommandInv, FilesInv, ParentInv, ChildInv, InheritsExactly, Parent,
        tableVars
<1>3. ASSUME NEW d \in Fd, LowestFree(d),
             open' = open \cup {d}, cloexec' = cloexec \cup {d},
             theirs' = theirs \cup {d}, steady' = steady \cup {d},
             files' = Append(files, d),
             stage' = IF Len(files) = 2 THEN "unset" ELSE "open"
      PROVE  CommandInv'
  <2>1. TableInit'
    BY <1>0, <1>1, <1>3, CommandAssumption DEF Init, TableInit
  <2>2. Init'
    BY <1>0, <1>1, <2>1, InitFrame
  <2>3. files' \in Seq(Fd) /\ Len(files') = Len(files) + 1
        /\ \A k \in 1..Len(files') : files'[k] = IF k = Len(files) + 1 THEN d ELSE files[k]
    BY SMTT(30), <1>0, <1>1, <1>3
  <2>4. \A k \in 1..Len(files') : files'[k] \in open'
    <3>1. \A k \in 1..Len(files) : files[k] \in open
      BY <1>0, <1>1 DEF CommandInv, ParentInv, Parent
    <3> QED BY SMTT(30), <1>0, <1>1, <1>3, <2>3, <3>1
  <2>5. FilesInv'
    BY SMTT(30), <1>0, <1>1, <1>3, <2>3 DEF FilesInv
  <2>6. ParentInv'
    BY SMTT(30), <1>0, <1>1, <2>2, <2>4 DEF ParentInv
  <2> QED BY <1>3, <2>5, <2>6 DEF CommandInv, ChildInv, InheritsExactly, Parent
<1> QED BY <1>2, <1>3 DEF OpenFile

LEMMA UnsetCloexecStep ==
  ASSUME CommandInv, UnsetCloexec
  PROVE  CommandInv'
<1>1. /\ stage = "unset" /\ Init /\ unset \in 0..2 /\ Len(files) = 3
      /\ unset' = unset + 1 /\ cloexec' = cloexec \ {files[unset + 1]}
      /\ stage' = IF unset = 2 THEN "fork" ELSE "unset"
      /\ UNCHANGED <<open, theirs, steady, iterVars, callVars, files, inherited>>
  BY DEF UnsetCloexec, Inheritable, CommandInv, FilesInv, ParentInv, Parent
<1>2. TableInit'
  BY <1>1 DEF Init, TableInit
<1>3. Init'
  BY <1>1, <1>2, InitFrame
<1>4. FilesInv'
  BY SMTT(30), <1>1 DEF CommandInv, FilesInv
<1>5. ParentInv'
  <2>1. \A k \in 1..unset : files[k] \notin cloexec
    BY <1>1 DEF CommandInv, ParentInv, Parent
  <2>2. \A k \in 1..unset' : k = unset + 1 \/ k \in 1..unset
    BY SMTT(30), <1>1
  <2>3. \A k \in 1..unset' : files'[k] \notin cloexec'
    BY <1>1, <2>1, <2>2
  <2> QED BY <1>1, <1>3, <2>3 DEF CommandInv, ParentInv, Parent
<1> QED BY <1>1, <1>4, <1>5 DEF CommandInv, ChildInv, InheritsExactly, Parent

(* The call is one that CloseFds considers.                                *)
LEMMA ForkStep ==
  ASSUME CommandInv, Fork
  PROVE  CommandInv'
<1>1. /\ stage = "fork" /\ stage' = "child"
      /\ UNCHANGED <<tableVars, iterVars, files, unset>>
      /\ inherited' = open \ cloexec
      /\ keep_fds' = Sorted(files[1], files[3]) /\ arg_minfd' = StartFd(StdFds)
      /\ pc' = "inspect"
  BY DEF Fork, Call
<1>2. /\ Init /\ Len(files) = 3 /\ files \in Seq(Fd)
      /\ \A k \in 1..3 : files[k] \in open \ cloexec
  <2>1. Len(files) = 3 /\ unset = 3 /\ files \in Seq(Fd)
    BY <1>1 DEF CommandInv, FilesInv
  <2> QED BY <1>1, <2>1 DEF CommandInv, ParentInv, Parent
<1>3. files[1] \in Fd /\ files[3] \in Fd
  BY SMTT(30), <1>2, SeqElement
<1>4. Sorted(files[1], files[3]) \in KeepLists
  BY <1>3, CommandAssumption DEF Sorted
<1>5. KeepSet' = {files'[1], files'[3]}
  <2>1. keep_fds' = <<files[1], files[3]>> \/ keep_fds' = <<files[3], files[1]>>
    BY <1>1 DEF Sorted
  <2>2. \A a, b : Values(<<a, b>>) = {a, b}
    BY SMTT(30) DEF Values
  <2> QED BY SMTT(30), <1>1, <2>1, <2>2 DEF KeepSet
<1>6. Next
  <2>1. ClosureOp \in Ops /\ StdFds \in MinFds
    BY CommandAssumption DEF ClosureOp
  <2> QED BY <1>4, <2>1 DEF Fork, Next
<1>7. EffectInv'
  <2>1. EffectInv
    BY <1>2, EffectInit
  <2> QED BY <1>6, <2>1, EffectNext, CommandLists
<1>8. arg_minfd' = StdFds
  BY SMTT(30), <1>1, CommandAssumption, FdTableAssumption DEF StartFd
<1>9. /\ steady = theirs /\ theirs = open /\ cloexec \subseteq open
  BY <1>2 DEF Init, TableInit
<1>10. ChildInv'
  BY SMTT(30), <1>1, <1>2, <1>5, <1>7, <1>8, <1>9 DEF ChildInv, tableVars
<1>11. FilesInv'
  BY <1>1, <1>2 DEF FilesInv
<1> QED BY <1>1, <1>10, <1>11
        DEF CommandInv, ParentInv, InheritsExactly, Parent

LEMMA ChildStep ==
  ASSUME CommandInv, Child
  PROVE  CommandInv'
<1>1. stage = "child" /\ Step /\ UNCHANGED cmdVars /\ Next
  BY DEF Child, Next
<1>2. EffectInv /\ pc # "start"
  BY <1>1 DEF CommandInv, ChildInv
<1>3. EffectInv' /\ (theirs' = theirs => SparesTheirs)
  BY <1>1, <1>2, EffectNext, CommandLists
<1>4. pc' # "start" /\ UNCHANGED argVars
  BY <1>1, <1>2, Fixed
<1>5. Outside \/ Inside
  BY <1>1 DEF Step, Outside, Inside
<1>6. UNCHANGED <<theirs, steady>> /\ open' \ cloexec' \subseteq open \ cloexec
  <2>1. CallInv /\ CloseTypeInv
    BY <1>2 DEF EffectInv, ShapeInv, CallInv
  <2>2. CASE Outside
    <3>1. TableFrame
      BY <2>1, <2>2, OutsideFrame
      DEF CloseTypeInv, CloseTypeOK, IterTypeOK, PcIter
    <3> QED BY <3>1 DEF TableFrame
  <2>3. CASE Inside
    <3>1. DirFrame
      BY <2>1, <2>3, InsideTable
    <3> QED BY <3>1 DEF DirFrame
  <2> QED BY <1>5, <2>2, <2>3
<1>7. UNCHANGED <<arg_minfd, KeepSet>> /\ \A f : Protected(f)' <=> Protected(f)
  BY <1>4 DEF argVars, KeepSet, Protected
<1>8. UNCHANGED <<stage, files, unset, inherited>>
  BY <1>1 DEF cmdVars
<1>9. \A f \in theirs' : Protected(f)' => (f \in cloexec' <=> f \notin inherited')
  BY <1>1, <1>3, <1>6, <1>7, <1>8 DEF SparesTheirs, CommandInv, ChildInv
<1>10. ChildInv'
  BY <1>1, <1>3, <1>4, <1>6, <1>7, <1>8, <1>9 DEF CommandInv, ChildInv
<1>11. FilesInv'
  BY <1>8 DEF CommandInv, FilesInv
<1> QED BY <1>1, <1>8, <1>10, <1>11
        DEF CommandInv, ParentInv, InheritsExactly, Parent

(* A command that is not spawned leaves the parent's table as it was.      *)
LEMMA SpawnFailsStep ==
  ASSUME CommandInv, SpawnFails
  PROVE  CommandInv'
<1>1. /\ stage = "fork" /\ stage' = "panicked"
      /\ UNCHANGED <<vars, files, unset, inherited>>
  BY DEF SpawnFails
<1>2. UNCHANGED <<open, cloexec, theirs, steady, iterVars, callVars>>
  BY <1>1 DEF vars, tableVars
<1>3. Init
  BY <1>1 DEF CommandInv, ParentInv, Parent
<1>4. TableInit'
  BY <1>2, <1>3 DEF Init, TableInit
<1>5. Init'
  BY <1>2, <1>3, <1>4, InitFrame
<1>6. FilesInv' /\ ParentInv'
  BY <1>1, <1>2, <1>5 DEF CommandInv, FilesInv, ParentInv, Parent
<1> QED BY <1>1, <1>6 DEF CommandInv, ChildInv, InheritsExactly, Parent

(* Nothing is claimed of a child that does not become the command.         *)
LEMMA ExecFailsStep ==
  ASSUME CommandInv, ExecFails
  PROVE  CommandInv'
<1>1. stage' = "lost" /\ UNCHANGED files
  BY DEF ExecFails
<1> QED BY <1>1 DEF CommandInv, FilesInv, ParentInv, ChildInv,
               InheritsExactly, Parent

(* What the call leaves to exec() is what the command should inherit.      *)
LEMMA ExecStep ==
  ASSUME CommandInv, Exec
  PROVE  CommandInv'
<1> DEFINE wanted == {f \in inherited : f < StdFds} \cup {files[1], files[3]}
<1>1. /\ stage = "child" /\ pc = "done" /\ stage' = "execed"
      /\ open' = open \ cloexec
      /\ UNCHANGED <<iterVars, callVars, files, unset, inherited>>
  BY DEF Exec
<1>2. /\ EffectInv /\ steady = theirs
      /\ inherited \subseteq theirs /\ {files[1], files[3]} \subseteq inherited
      /\ \A f \in theirs : Protected(f) => (f \in cloexec <=> f \notin inherited)
      /\ open \ cloexec \subseteq inherited
      /\ \A f : Protected(f) <=> f < StdFds \/ f \in {files[1], files[3]}
  BY <1>1 DEF CommandInv, ChildInv, Protected
<1>3. wanted \subseteq open \ cloexec
  BY <1>1, <1>2 DEF EffectInv, SafeInv
<1>4. ASSUME NEW f \in (open \ cloexec) \ wanted
      PROVE  f \in inherited /\ Excused(f)
  <2>1. f \in inherited /\ f \in steady /\ ~Protected(f)
    BY <1>2, <1>4
  <2>2. ~Handled(f)
    BY <1>4 DEF Handled
  <2> QED BY <1>1, <1>2, <2>1, <2>2, EffectHandled DEF TargetsHandled
<1>5. \A f : Excused(f)' <=> Excused(f)
  BY <1>1 DEF Excused, iterVars, maxVars
<1>6. InheritsExactly'
  BY <1>1, <1>3, <1>4, <1>5 DEF InheritsExactly
<1>7. FilesInv'
  BY <1>1 DEF CommandInv, FilesInv
<1> QED BY <1>1, <1>6, <1>7 DEF CommandInv, ParentInv, ChildInv, Parent

LEMMA CommandInvNext ==
  ASSUME CommandInv, [CommandNext]_allVars
  PROVE  CommandInv'
<1>1. CASE UNCHANGED allVars
  <2>1. UNCHANGED vars /\ UNCHANGED <<stage, files, unset, inherited>>
    BY <1>1 DEF allVars, cmdVars
  <2>2. UNCHANGED <<open, cloexec, theirs, steady, iterVars, callVars, arg_minfd, KeepSet>>
    BY <2>1 DEF vars, tableVars, callVars, argVars, KeepSet
  <2>3. stage = "child" => EffectInv'
    BY <2>1, EffectNext, CommandLists DEF CommandInv, ChildInv
  <2>4. stage \in Parent => Init'
    <3>1. ASSUME stage \in Parent PROVE TableInit'
      BY <2>2, <3>1 DEF CommandInv, ParentInv, Init, TableInit
    <3> QED BY <2>2, <3>1, InitFrame DEF CommandInv, ParentInv
  <2>5. /\ UNCHANGED pc
        /\ \A f : Protected(f)' <=> Protected(f)
        /\ \A f : Excused(f)' <=> Excused(f)
    BY <2>2 DEF Protected, Excused, iterVars, maxVars, callVars
  <2>6. FilesInv' /\ InheritsExactly'
    BY <2>1, <2>2, <2>5 DEF CommandInv, FilesInv, InheritsExactly
  <2>7. ParentInv'
    BY <2>1, <2>2, <2>4 DEF CommandInv, ParentInv
  <2>8. ChildInv'
    BY <2>1, <2>2, <2>3, <2>5 DEF CommandInv, ChildInv
  <2> QED BY <2>1, <2>6, <2>7, <2>8 DEF CommandInv
<1> QED
  BY <1>1, OpenFileStep, UnsetCloexecStep, ForkStep, SpawnFailsStep,
     ChildStep, ExecStep, ExecFailsStep
  DEF CommandNext

(* The command inherits the standard streams and the two files, and        *)
(* nothing else that the method could see (InheritsExactly): for every     *)
(* table, platform and kernel, and whichever numbers the files get.        *)
THEOREM CommandInheritsExactly == CommandSpec => []InheritsExactly
<1>1. CommandInv => InheritsExactly
  BY DEF CommandInv
<1> QED BY <1>1, CommandInvInit, CommandInvNext, PTL DEF CommandSpec

=============================================================================
