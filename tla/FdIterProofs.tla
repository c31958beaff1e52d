---------------------------- MODULE FdIterProofs ----------------------------
(***************************************************************************)
(* Proofs about FdIter, for every value of the constants.                  *)
(***************************************************************************)
EXTENDS FdIter, FiniteSetTheorems, TLAPS

USE ZenonT(30)

-----------------------------------------------------------------------------
(* What a getdents() call returns.                                         *)

(* A non-empty sequence of entries.                                        *)
LEMMA SeqsType ==
  ASSUME NEW S, NEW s \in Seqs(S)
  PROVE  /\ s \in Seq(S)
         /\ Len(s) \in Nat
         /\ Len(s) >= 1
         /\ DOMAIN s = 1..Len(s)
         /\ s[Len(s)] \in S
<1>1. PICK n \in 1..BufCap : s \in [1..n -> S]
  BY DEF Seqs
<1>2. n \in Nat /\ n >= 1
  BY SMTT(30), FdIterAssumption
<1> QED
  BY SMTT(30), <1>1, <1>2

LEMMA SeqElement ==
  ASSUME NEW S, NEW s \in Seq(S), NEW i \in 1..Len(s)
  PROVE  s[i] \in S
BY SMTT(30)

(* On every kernel the entries are descriptors or ".": the type of the     *)
(* buffer.                                                                 *)
LEMMA ListingType ==
  ASSUME TableTypeOK, NEW s \in Listing
  PROVE  /\ s \in Seq(-1..FdMax)
         /\ Len(s) \in Nat
         /\ Len(s) >= 1
         /\ s[Len(s)] \in -1..FdMax
<1>1. DirEntries \subseteq -1..FdMax
  BY SMTT(30), FdTableAssumption DEF TableTypeOK, DirEntries, NotFd, Fd
<1>2. CASE wsl1
  <2>1. s \in Seqs(DirEntries)
    BY <1>2 DEF Listing
  <2>2. s \in Seqs(-1..FdMax)
    <3>1. PICK n \in 1..BufCap : s \in [1..n -> DirEntries]
      BY <2>1 DEF Seqs
    <3>2. s \in [1..n -> -1..FdMax]
      BY <3>1, <1>1
    <3> QED BY <3>2 DEF Seqs
  <2> QED BY <2>2, SeqsType
<1>3. CASE ~wsl1
  <2>1. s \in Seqs(-1..FdMax)
    BY <1>3 DEF Listing, AscendingSeqs
  <2> QED BY <2>1, SeqsType
<1> QED BY <1>2, <1>3

-----------------------------------------------------------------------------
(* Type correctness.                                                       *)

LEMMA EmptyBuf == <<>> \in Seq(-1..FdMax) /\ Len(<<>>) = 0
BY SMTT(30)

LEMMA OpenFinite ==
  ASSUME TableTypeOK
  PROVE  IsFiniteSet(open)
<1>1. IsFiniteSet(Fd)
  BY SMTT(30), FS_Interval, FdTableAssumption DEF Fd
<1> QED BY <1>1, FS_Subset DEF TableTypeOK

LEMMA ClampBounds ==
  ASSUME NEW v \in SysconfValues
  PROVE  Clamp(v) \in 1..IntMax
BY SMTT(30), FdIterAssumption, FdTableAssumption DEF Clamp

LEMMA IterInitType == TableInit /\ IterInit => IterTypeOK
<1> SUFFICES ASSUME TableInit, IterInit PROVE IterTypeOK
  OBVIOUS
<1>1. TableTypeOK
  BY DEF TableInit, TableTypeOK
<1>2. FieldTypeOK
  <2>1. wsl1 \in BOOLEAN
    BY DEF IterInit
  <2>2. 0 \in 0..IntMax
    BY SMTT(30), FdTableAssumption
  <2> QED BY <2>1, <2>2 DEF IterInit, FieldTypeOK
<1>3. DirTypeOK
  <2>1. dirfd_iter \in BOOLEAN
    BY DEF IterInit
  <2>2. dirfd \in -1..FdMax /\ dirpos \in -1..(FdMax + 1)
    BY SMTT(30), FdTableAssumption DEF IterInit, NotFd
  <2>3. dirent_buf \in Seq(-1..FdMax)
    BY EmptyBuf DEF IterInit
  <2>4. dirent_offset \in 0..Len(dirent_buf)
    BY SMTT(30), EmptyBuf DEF IterInit
  <2> QED BY <2>1, <2>2, <2>3, <2>4 DEF DirTypeOK
<1>4. ControlTypeOK
  BY DEF IterInit, ControlTypeOK, ItPc
<1> QED
  BY <1>1, <1>2, <1>3, <1>4 DEF IterTypeOK

LEMMA IterFromType ==
  ASSUME IterTypeOK,
         NEW m \in IntMin..IntMax, NEW poss \in BOOLEAN, NEW skip \in BOOLEAN,
         NEW fs \in BOOLEAN, IterFrom(m, poss, skip, fs)
  PROVE  IterTypeOK'
<1> USE FdTableAssumption DEF IterTypeOK, IterFrom
<1>1. TableTypeOK'
  BY DEF TableTypeOK, tableVars
<1>2. FieldTypeOK'
  BY SMTT(30) DEF FieldTypeOK, StartFd, IntMin, platVars, maxVars
<1>3. DirTypeOK'
  BY DEF DirTypeOK, dirVars
<1>4. ControlTypeOK'
  BY DEF ControlTypeOK, ItPc, scanVars, outVars, maxVars
<1> QED
  BY <1>1, <1>2, <1>3, <1>4

LEMMA CallNextType ==
  ASSUME IterTypeOK, CallNext
  PROVE  IterTypeOK'
<1> USE DEF IterTypeOK, CallNext
<1>1. TableTypeOK'
  BY DEF TableTypeOK, tableVars
<1>2. FieldTypeOK'
  BY DEF FieldTypeOK, platVars, fieldVars, maxVars
<1>3. DirTypeOK'
  BY DEF DirTypeOK, dirVars
<1>4. ControlTypeOK'
  <2>1. itpc' \in {"dir", "maxfd", "loop"} /\ (itpc' = "loop" => maxfd # None)
    BY DEF KnowsMaxfd
  <2> QED BY <2>1 DEF ControlTypeOK, ItPc, scanVars, outVars, maxVars
<1> QED
  BY <1>1, <1>2, <1>3, <1>4

LEMMA NoDirType ==
  ASSUME NoDir
  PROVE  DirTypeOK'
<1>1. dirfd_iter' \in BOOLEAN
  BY DEF NoDir
<1>2. dirfd' \in -1..FdMax /\ dirpos' \in -1..(FdMax + 1)
  BY SMTT(30), FdTableAssumption DEF NoDir, NotFd
<1>3. dirent_buf' \in Seq(-1..FdMax)
  BY EmptyBuf DEF NoDir
<1>4. dirent_offset' \in 0..Len(dirent_buf')
  BY SMTT(30), EmptyBuf DEF NoDir
<1> QED BY <1>1, <1>2, <1>3, <1>4 DEF DirTypeOK

LEMMA DropType ==
  ASSUME IterTypeOK, Drop
  PROVE  IterTypeOK'
<1> USE FdTableAssumption DEF IterTypeOK, Drop
<1>1. TableTypeOK'
  BY DEF TableTypeOK, CloseOnDrop, CloseAll, tableVars
<1>2. FieldTypeOK'
  BY DEF FieldTypeOK, platVars, fieldVars, maxVars
<1>3. DirTypeOK'
  BY NoDirType
<1>4. ControlTypeOK'
  BY DEF ControlTypeOK, ItPc, scanVars, outVars, maxVars
<1> QED
  BY <1>1, <1>2, <1>3, <1>4

LEMMA ReturnFdType ==
  ASSUME ControlTypeOK, NEW e \in 0..IntMax, ReturnFd(e),
         UNCHANGED <<scanVars, maxVars, raced>>
  PROVE  ControlTypeOK'
BY SMTT(30) DEF ControlTypeOK, ItPc, ReturnFd, scanVars, maxVars

(* The steps inside iter_from() and next(), one by one.                    *)
LEMMA IterStepType ==
  ASSUME IterTypeOK, IterStep
  PROVE  IterTypeOK'
<1> USE FdTableAssumption DEF IterTypeOK
<1>1. CASE DirOpen
  <2> USE <1>1 DEF DirOpen
  <2>1. TableTypeOK'
    BY DEF TableTypeOK, tableVars, OpenCloexec, LowestFree, Fd
  <2>2. FieldTypeOK'
    BY DEF FieldTypeOK, platVars, fieldVars, maxVars
  <2>3. DirTypeOK'
    <3>1. dirfd' \in -1..FdMax
      BY SMTT(30) DEF DirTypeOK, Fd
    <3>2. dirfd_iter' \in BOOLEAN
      BY DEF DirTypeOK
    <3> QED BY <3>1, <3>2 DEF DirTypeOK
  <2>4. ControlTypeOK'
    BY DEF ControlTypeOK, ItPc, scanVars, outVars, maxVars
  <2> QED BY <2>1, <2>2, <2>3, <2>4
<1>2. CASE DirStat
  <2> USE <1>2 DEF DirStat
  <2>1. TableTypeOK'
    BY DEF TableTypeOK, tableVars, CloseAll
  <2>2. FieldTypeOK'
    BY DEF FieldTypeOK, platVars, fieldVars, maxVars
  <2>3. DirTypeOK'
    <3>1. dirfd' \in -1..FdMax
      BY SMTT(30) DEF DirTypeOK, Fd
    <3>2. dirfd_iter' \in BOOLEAN
      BY DEF DirTypeOK
    <3> QED BY <3>1, <3>2 DEF DirTypeOK
  <2>4. ControlTypeOK'
    BY DEF ControlTypeOK, ItPc, scanVars, outVars, maxVars
  <2> QED BY <2>1, <2>2, <2>3, <2>4
<1>3. CASE DirExhausted
  <2> USE <1>3 DEF DirExhausted
  <2>1. TableTypeOK'
    BY DEF TableTypeOK, tableVars
  <2>2. FieldTypeOK'
    BY DEF FieldTypeOK, platVars, fieldVars, maxVars
  <2>3. DirTypeOK'
    BY DEF DirTypeOK, dirVars
  <2>4. ControlTypeOK'
    BY DEF ControlTypeOK, ItPc, scanVars, outVars, maxVars, ReturnNone
  <2> QED BY <2>1, <2>2, <2>3, <2>4
<1>4. CASE Getdents
  <2> USE <1>4 DEF Getdents
  <2>1. TableTypeOK'
    BY DEF TableTypeOK, tableVars
  <2>2. FieldTypeOK'
    BY DEF FieldTypeOK, platVars, fieldVars, maxVars
  <2>3. DirTypeOK'
    <3>1. CASE UNCHANGED <<dirent_buf, dirent_offset, dirpos>>
      BY <3>1 DEF DirTypeOK
    <3>2. ASSUME NEW s \in Listing, dirent_buf' = s, dirent_offset' = 0,
                 dirpos' = s[Len(s)] + 1
          PROVE  DirTypeOK'
      <4>1. /\ s \in Seq(-1..FdMax)
            /\ Len(s) \in Nat
            /\ s[Len(s)] \in -1..FdMax
        BY ListingType
      <4> QED BY SMTT(30), <3>2, <4>1 DEF DirTypeOK
    <3> QED BY <3>1, <3>2
  <2>4. ControlTypeOK'
    BY DEF ControlTypeOK, ItPc, scanVars, outVars, maxVars
  <2> QED BY <2>1, <2>2, <2>3, <2>4
<1>5. CASE DirEntry
  <2> USE <1>5 DEF DirEntry
  <2>1. TableTypeOK'
    BY DEF TableTypeOK, tableVars
  <2>2. FieldTypeOK'
    <3>1. curfd' \in 0..IntMax
      BY SMTT(30) DEF FieldTypeOK, DirTypeOK, Entry, After, Eligible, outVars
    <3> QED BY <3>1 DEF FieldTypeOK, platVars, fieldVars, maxVars
  <2>3. DirTypeOK'
    BY SMTT(30) DEF DirTypeOK, NextOffset
  <2>4. ControlTypeOK'
    <3>1. Entry \in -1..FdMax
      BY SMTT(30) DEF DirTypeOK, Entry
    <3>2. CASE Eligible(Entry)
      <4>1. Entry \in 0..IntMax
        BY SMTT(30), <3>1, <3>2 DEF Eligible, FieldTypeOK
      <4> QED BY <3>2, <4>1, ReturnFdType
    <3>3. CASE ~Eligible(Entry)
      BY <3>3 DEF ControlTypeOK, ItPc, scanVars, maxVars, outVars
    <3> QED BY <3>2, <3>3
  <2> QED BY <2>1, <2>2, <2>3, <2>4
<1>6. CASE DirEof
  <2> USE <1>6 DEF DirEof
  <2>1. TableTypeOK'
    BY DEF TableTypeOK, EofClose, CloseAll
  <2>2. FieldTypeOK'
    BY DEF FieldTypeOK, platVars, fieldVars, maxVars
  <2>3. DirTypeOK'
    BY SMTT(30) DEF DirTypeOK, EofClose
  <2>4. ControlTypeOK'
    BY DEF ControlTypeOK, ItPc, scanVars, outVars, maxVars, ReturnNone
  <2> QED BY <2>1, <2>2, <2>3, <2>4
<1>7. CASE DirErr
  <2> USE <1>7 DEF DirErr
  <2>1. TableTypeOK'
    BY DEF TableTypeOK, CloseAll
  <2>2. FieldTypeOK'
    BY DEF FieldTypeOK, platVars, fieldVars, maxVars
  <2>3. DirTypeOK'
    BY NoDirType
  <2>4. ControlTypeOK'
    BY DEF ControlTypeOK, ItPc, scanVars, outVars, maxVars, KnowsMaxfd
  <2> QED BY <2>1, <2>2, <2>3, <2>4
<1>8. CASE MaxfdStart
  <2> USE <1>8 DEF MaxfdStart
  <2>1. TableTypeOK'
    BY DEF TableTypeOK, tableVars
  <2>2. FieldTypeOK'
    <3>1. maxfd' \in -1..(IntMax - 1) \cup {None}
      BY SMTT(30) DEF FieldTypeOK, TableTypeOK, Fd, SetMaxfd, maxVars
    <3> QED BY <3>1 DEF FieldTypeOK, platVars, fieldVars
  <2>3. DirTypeOK'
    BY DEF DirTypeOK, dirVars
  <2>4. ControlTypeOK'
    <3>1. CASE itpc' = "sysconf" /\ UNCHANGED maxVars
      BY <3>1 DEF ControlTypeOK, ItPc, scanVars, outVars, maxVars
    <3>2. ASSUME NEW m \in open \cup {-1}, SetMaxfd(m, "fmaxfd")
          PROVE  ControlTypeOK'
      <4>1. m \in Int
        BY SMTT(30) DEF TableTypeOK, Fd
      <4>2. m # None
        BY <4>1, FdIterAssumption
      <4> QED BY <3>2, <4>2
              DEF ControlTypeOK, ItPc, scanVars, outVars, SetMaxfd
    <3> QED BY <3>1, <3>2
  <2> QED BY <2>1, <2>2, <2>3, <2>4
<1>9. CASE GetNfds
  <2> USE <1>9 DEF GetNfds
  <2>1. TableTypeOK'
    BY DEF TableTypeOK, tableVars
  <2>2. FieldTypeOK'
    <3>1. maxfd' \in -1..(IntMax - 1) \cup {None}
      BY SMTT(30) DEF FieldTypeOK, SetMaxfd, maxVars
    <3> QED BY <3>1 DEF FieldTypeOK, platVars, fieldVars
  <2>3. DirTypeOK'
    BY DEF DirTypeOK, dirVars
  <2>4. ControlTypeOK'
    <3>1. Cardinality(open) \in Nat
      BY OpenFinite, FS_CardinalityType
    <3>2. -1 # None
      BY SMTT(30), FdIterAssumption
    <3>3. CASE SetMaxfd(-1, "nfds") /\ UNCHANGED <<scanVars, raced>>
      BY <3>2, <3>3 DEF ControlTypeOK, ItPc, scanVars, outVars, SetMaxfd
    <3>4. CASE /\ itpc' = "scan" /\ nfds' = Cardinality(open)
               /\ nfds_found' = 0 /\ scanfd' = 0 /\ raced' = FALSE
               /\ UNCHANGED maxVars
      BY <3>1, <3>4 DEF ControlTypeOK, ItPc, outVars, maxVars
    <3>5. CASE itpc' = "sysconf" /\ UNCHANGED <<maxVars, scanVars, raced>>
      BY <3>5 DEF ControlTypeOK, ItPc, scanVars, outVars, maxVars
    <3> QED BY <3>3, <3>4, <3>5
  <2> QED BY <2>1, <2>2, <2>3, <2>4
<1>10. CASE NfdsScan
  <2> USE <1>10 DEF NfdsScan
  <2>1. TableTypeOK'
    BY DEF TableTypeOK, tableVars
  <2>2. FieldTypeOK'
    <3>1. CASE UNCHANGED maxVars
      BY <3>1 DEF FieldTypeOK, platVars, fieldVars, maxVars
    <3>2. CASE scanfd \in open /\ SetMaxfd(scanfd, "nfds")
      BY SMTT(30), <3>2
      DEF FieldTypeOK, platVars, fieldVars, TableTypeOK, Fd, SetMaxfd
    <3> QED BY <3>1, <3>2
  <2>3. DirTypeOK'
    BY DEF DirTypeOK, dirVars
  <2>4. ControlTypeOK'
    <3>1. scanfd # None
      BY SMTT(30), FdIterAssumption DEF ControlTypeOK
    <3> QED
      BY SMTT(30), <3>1
      DEF ControlTypeOK, ItPc, scanVars, outVars, maxVars, SetMaxfd, EndScan
  <2> QED BY <2>1, <2>2, <2>3, <2>4
<1>11. CASE Sysconf
  <2> USE <1>11 DEF Sysconf
  <2>1. TableTypeOK'
    BY DEF TableTypeOK, tableVars
  <2>2. FieldTypeOK'
    <3>1. maxfd' \in -1..(IntMax - 1) \cup {None}
      BY SMTT(30), FdIterAssumption, ClampBounds DEF SetMaxfd
    <3> QED BY <3>1 DEF FieldTypeOK, platVars, fieldVars
  <2>3. DirTypeOK'
    BY DEF DirTypeOK, dirVars
  <2>4. ControlTypeOK'
    <3>1. maxfd' # None
      BY SMTT(30), FdIterAssumption, ClampBounds DEF SetMaxfd
    <3> QED
      BY <3>1 DEF ControlTypeOK, ItPc, scanVars, outVars, SetMaxfd
  <2> QED BY <2>1, <2>2, <2>3, <2>4
<1>12. CASE LoopStep
  <2> USE <1>12 DEF LoopStep
  <2>1. TableTypeOK'
    BY DEF TableTypeOK, tableVars
  <2>2. FieldTypeOK'
    <3>1. maxfd \in -1..(IntMax - 1)
      BY DEF FieldTypeOK, ControlTypeOK
    <3>2. curfd' \in 0..IntMax
      BY SMTT(30), <3>1 DEF FieldTypeOK
    <3> QED BY <3>2 DEF FieldTypeOK, platVars, fieldVars, maxVars
  <2>3. DirTypeOK'
    BY DEF DirTypeOK, dirVars
  <2>4. ControlTypeOK'
    <3>1. curfd \in 0..IntMax
      BY DEF FieldTypeOK
    <3>2. CASE ReturnFd(curfd)
      BY <3>1, <3>2, ReturnFdType
    <3>3. CASE UNCHANGED <<itpc, outVars>>
      BY <3>3 DEF ControlTypeOK, ItPc, scanVars, maxVars, outVars
    <3>4. CASE ReturnNone
      BY <3>4 DEF ControlTypeOK, ItPc, scanVars, maxVars, ReturnNone
    <3> QED BY <3>2, <3>3, <3>4
  <2> QED BY <2>1, <2>2, <2>3, <2>4
<1> QED
  BY <1>1, <1>2, <1>3, <1>4, <1>5, <1>6, <1>7, <1>8, <1>9, <1>10, <1>11, <1>12
  DEF IterStep

LEMMA OthersType ==
  ASSUME IterTypeOK, Others
  PROVE  IterTypeOK'
<1> USE FdTableAssumption DEF IterTypeOK, Others
<1>1. TableTypeOK'
  BY DEF TableTypeOK, OtherOpen, OtherClose, LowestFree, Fd
<1>2. FieldTypeOK'
  BY DEF FieldTypeOK, iterVars, platVars, fieldVars, maxVars
<1>3. DirTypeOK'
  BY DEF DirTypeOK, iterVars, dirVars
<1>4. ControlTypeOK'
  BY DEF ControlTypeOK, iterVars, scanVars, outVars, maxVars
<1> QED
  BY <1>1, <1>2, <1>3, <1>4

(* Whatever a step of the specification does, the types stay right.        *)
LEMMA IterNextType ==
  ASSUME IterTypeOK, [IterNext]_iterSpecVars
  PROVE  IterTypeOK'
<1>1. CASE IterUser
  <2>1. ASSUME NEW m \in MinFds, NEW poss \in BOOLEAN, NEW skip \in BOOLEAN,
               NEW fs \in BOOLEAN, IterFrom(m, poss, skip, fs)
        PROVE  IterTypeOK'
    BY <2>1, IterFromType, FdIterAssumption
  <2> QED BY <1>1, <2>1, CallNextType, DropType DEF IterUser
<1>2. CASE UNCHANGED iterSpecVars
  BY SMTT(30), <1>2
  DEF IterTypeOK, TableTypeOK, FieldTypeOK, DirTypeOK, ControlTypeOK,
     iterSpecVars, tableVars, iterVars, platVars, fieldVars, dirVars, scanVars,
     maxVars, outVars
<1> QED
  BY <1>1, <1>2, IterStepType, OthersType DEF IterNext

(* The type invariant of the iterator, for every platform, descriptor      *)
(* range, buffer size and result of sysconf().                             *)
THEOREM IterTypeCorrect == IterSpec => []IterTypeOK
<1>1. TableInit /\ IterInit => IterTypeOK
  BY IterInitType
<1>2. IterTypeOK /\ [IterNext]_iterSpecVars => IterTypeOK'
  BY IterNextType
<1> QED BY <1>1, <1>2, PTL DEF IterSpec, IterSpecInit

-----------------------------------------------------------------------------
(* The inductive invariant, in parts.                                      *)

(* What the control point says of the directory and of maxfd.              *)
DirControl ==
  /\ itpc \in {"none", "open", "stat", "maxfd", "scan", "sysconf", "loop", "gone"}
       => ~dirfd_iter
  /\ itpc \in {"none", "open", "maxfd", "scan", "sysconf", "loop", "gone"}
       => dirfd = -1
  /\ itpc \in {"stat", "eof", "err"} => dirfd >= 0
  /\ itpc \in {"dir", "eof", "err"} => dirfd_iter
  /\ itpc = "idle" /\ ~dirfd_iter => dirfd = -1
  /\ ~dirfd_iter => dirent_buf = <<>> /\ dirent_offset = 0 /\ dirpos = NotFd
  /\ dirfd_iter \/ itpc \in {"open", "stat"} => ~wsl1

MaxControl ==
  /\ dirfd_iter \/ itpc \in {"none", "open", "stat", "maxfd", "scan", "sysconf"}
       => maxfd = None
  /\ maxfd = None <=> how = "unset"

(* The only open descriptor that is not theirs is the directory.           *)
Ownership ==
  /\ theirs \subseteq open
  /\ open \subseteq theirs \cup {dirfd}
  /\ dirfd \notin theirs
  /\ dirfd >= 0 => dirfd \in open

(* What was returned is below curfd, what is in the buffer is not.         *)
Order ==
  /\ dir_minfd <= curfd
  /\ itpc \in {"none", "open", "stat"} => yielded = {} /\ curfd = dir_minfd
  /\ \A y \in yielded : y < curfd
  /\ dirfd_iter =>
       /\ IsAscending(dirent_buf)
       /\ \A i \in DOMAIN dirent_buf : dirent_buf[i] < dirpos
       /\ \A j \in Remaining :
            dirent_buf[j] >= dir_minfd => dirent_buf[j] >= curfd
       /\ curfd = dir_minfd \/ curfd <= dirpos

(* Descriptors that have been there all the time, the directory excluded.  *)
Held == (steady \cap open) \ {dirfd}

(* Nothing held has been passed over.                                      *)
Progress ==
  /\ \A f \in Held : dir_minfd <= f /\ f < curfd => f \in yielded
  /\ dirfd_iter =>
       \A f \in Held : dir_minfd <= f /\ f < dirpos =>
         f \in yielded \/ \E j \in Remaining : dirent_buf[j] = f
  /\ itpc = "eof" => Remaining = {} /\ \A f \in Held : f < dirpos

(* The nfds scan: what it has found and what is still ahead of it are no   *)
(* more than were counted.                                                 *)
Ahead == {e \in open : e >= scanfd}

ScanCount ==
  itpc = "scan" /\ ~raced => nfds_found + Cardinality(Ahead) <= nfds

(* maxfd is an upper bound, or there is an excuse.                         *)
MaxBound ==
  maxfd # None => \A f \in Held : f <= maxfd \/ Excused(f)

(* After None: the directory is exhausted, or curfd is past maxfd.         *)
AfterNone ==
  /\ dirfd_iter /\ dirfd = -1 => ended
  /\ ended =>
       \/ itpc = "gone"
       \/ itpc \in {"idle", "dir"} /\ dirfd_iter /\ dirfd = -1
       \/ itpc \in {"idle", "loop"} /\ ~dirfd_iter /\ maxfd # None /\ curfd > maxfd

(* IterComplete, without reference to who owns what.                       *)
AllListed ==
  ended => \A f \in Held : f >= dir_minfd => f \in yielded \/ Excused(f)

-----------------------------------------------------------------------------
(* The control invariants.                                                 *)

(* What determining maxfd leaves alone.                                    *)
LEMMA MaxfdFrame ==
  ASSUME MaxfdStart \/ GetNfds \/ NfdsScan \/ Sysconf
  PROVE  /\ itpc \in {"maxfd", "scan", "sysconf"}
         /\ itpc' \in {"scan", "sysconf", "loop"}
         /\ UNCHANGED <<tableVars, platVars, fieldVars, curfd, dirVars, outVars>>
<1>1. CASE MaxfdStart
  BY <1>1 DEF MaxfdStart, SetMaxfd
<1>2. CASE GetNfds
  BY <1>2 DEF GetNfds, SetMaxfd
<1>3. CASE NfdsScan
  BY <1>3 DEF NfdsScan, SetMaxfd
<1>4. CASE Sysconf
  BY <1>4 DEF Sysconf, SetMaxfd
<1> QED BY <1>1, <1>2, <1>3, <1>4

(* What the rest of the program leaves alone.                              *)
LEMMA OthersFrame ==
  ASSUME Others
  PROVE  /\ UNCHANGED <<platVars, fieldVars, curfd, dirVars, scanVars, maxVars, itpc,
                        outVars>>
         /\ raced => raced'
<1>1. CASE UNCHANGED iterVars
  BY <1>1 DEF iterVars
<1>2. CASE ~UNCHANGED iterVars
  BY <1>2 DEF Others
<1> QED BY <1>1, <1>2

LEMMA ControlInit == IterInit => DirControl /\ MaxControl
BY DEF IterInit, DirControl, MaxControl

LEMMA DirControlStep ==
  ASSUME IterTypeOK, DirControl, IterStep
  PROVE  DirControl'
<1> USE DEF DirControl, dirVars, platVars, outVars
<1>1. CASE DirOpen
  <2>1. CASE itpc' = "stat"
    <3>1. dirfd' >= 0
      BY SMTT(30), <1>1, <2>1, FdTableAssumption DEF DirOpen, Fd
    <3>2. ~dirfd_iter' /\ ~wsl1'
      BY <1>1, <2>1 DEF DirOpen
    <3>3. UNCHANGED <<dirent_buf, dirent_offset, dirpos>> /\ ~dirfd_iter
      BY <1>1 DEF DirOpen
    <3> QED BY <2>1, <3>1, <3>2, <3>3
  <2>2. CASE itpc' = "idle"
    BY <1>1, <2>2, FdTableAssumption DEF DirOpen, Fd
  <2> QED BY <1>1, <2>1, <2>2 DEF DirOpen
<1>2. CASE DirStat
  BY <1>2 DEF DirStat
<1>3. CASE DirExhausted
  BY <1>3 DEF DirExhausted, ReturnNone
<1>4. CASE Getdents
  BY <1>4 DEF Getdents
<1>5. CASE DirEntry
  BY <1>5 DEF DirEntry, ReturnFd
<1>6. CASE DirEof
  BY <1>6 DEF DirEof, EofClose, ReturnNone
<1>7. CASE DirErr
  BY <1>7 DEF DirErr, NoDir
<1>8. CASE MaxfdStart \/ GetNfds \/ NfdsScan \/ Sysconf
  BY SMTT(30), <1>8, MaxfdFrame
<1>9. CASE LoopStep
  BY <1>9 DEF LoopStep, ReturnFd, ReturnNone
<1> QED
  BY <1>1, <1>2, <1>3, <1>4, <1>5, <1>6, <1>7, <1>8, <1>9 DEF IterStep

LEMMA MaxControlStep ==
  ASSUME IterTypeOK, DirControl, MaxControl, IterStep
  PROVE  MaxControl'
<1> USE DEF DirControl, MaxControl, dirVars, maxVars
<1>1. itpc' = "loop" => maxfd' # None
  BY IterStepType DEF IterTypeOK, ControlTypeOK
<1>2. CASE DirOpen \/ DirStat
  BY <1>2 DEF DirOpen, DirStat
<1>3. CASE DirExhausted \/ Getdents \/ DirEntry
  BY <1>3 DEF DirExhausted, Getdents, DirEntry, ReturnNone, ReturnFd
<1>4. CASE DirEof \/ DirErr
  BY <1>4 DEF DirEof, DirErr, EofClose, NoDir, ReturnNone
<1>5. CASE MaxfdStart
  BY <1>1, <1>5 DEF MaxfdStart, SetMaxfd
<1>6. CASE GetNfds
  BY <1>1, <1>6 DEF GetNfds, SetMaxfd
<1>7. CASE NfdsScan
  BY <1>1, <1>7 DEF NfdsScan, SetMaxfd
<1>8. CASE Sysconf
  BY <1>1, <1>8 DEF Sysconf, SetMaxfd
<1>9. CASE LoopStep
  BY <1>9 DEF LoopStep, ReturnFd, ReturnNone
<1> QED
  BY <1>2, <1>3, <1>4, <1>5, <1>6, <1>7, <1>8, <1>9 DEF IterStep

(* iter_from(), a call of next(), a drop, and what others do.              *)
LEMMA ControlUser ==
  ASSUME IterTypeOK, DirControl, MaxControl
  PROVE  /\ \A m, poss, skip, fs :
              IterFrom(m, poss, skip, fs) => DirControl' /\ MaxControl'
         /\ CallNext => DirControl' /\ MaxControl'
         /\ Drop => DirControl' /\ MaxControl'
         /\ Others => DirControl' /\ MaxControl'
<1> USE DEF DirControl, MaxControl, dirVars, maxVars, platVars
<1>1. ASSUME NEW m, NEW poss, NEW skip, NEW fs, IterFrom(m, poss, skip, fs)
      PROVE  DirControl' /\ MaxControl'
  <2>1. DirControl'
    <3>1. itpc' = "open" => ~wsl1
      BY <1>1 DEF IterFrom, MayOpenDir
    <3>2. itpc' \in {"open", "idle"}
      BY <1>1 DEF IterFrom
    <3> QED BY <1>1, <3>1, <3>2 DEF IterFrom
  <2>2. MaxControl'
    BY <1>1 DEF IterFrom
  <2> QED BY <2>1, <2>2
<1>2. ASSUME CallNext PROVE DirControl' /\ MaxControl'
  <2>1. CASE dirfd_iter
    BY <1>2, <2>1 DEF CallNext
  <2>2. CASE ~dirfd_iter
    BY <1>2, <2>2 DEF CallNext, KnowsMaxfd
  <2> QED BY <2>1, <2>2
<1>3. ASSUME Drop PROVE DirControl' /\ MaxControl'
  BY <1>3 DEF Drop, NoDir
<1>4. ASSUME Others PROVE DirControl' /\ MaxControl'
  BY SMTT(30), <1>4, OthersFrame
<1> QED BY <1>1, <1>2, <1>3, <1>4

-----------------------------------------------------------------------------
(* The iterator closes its own directory and nothing else.                 *)

LEMMA CloseOwn ==
  ASSUME IterTypeOK, Ownership, CloseAll({dirfd}), dirfd' = -1
  PROVE  Ownership'
<1>1. -1 \notin theirs
  BY SMTT(30) DEF IterTypeOK, TableTypeOK, Fd
<1>2. theirs' \subseteq open' /\ open' \subseteq theirs'
  BY DEF Ownership, CloseAll
<1> QED BY SMTT(30), <1>1, <1>2 DEF Ownership, CloseAll

LEMMA OwnershipStep ==
  ASSUME IterTypeOK, DirControl, Ownership, IterStep
  PROVE  Ownership'
<1> USE FdTableAssumption DEF Ownership, DirControl, tableVars, dirVars
<1>1. open \subseteq Fd /\ theirs \subseteq Fd /\ dirfd \in Int
  BY SMTT(30) DEF IterTypeOK, TableTypeOK, DirTypeOK
<1>2. CASE DirOpen
  <2>1. ASSUME NEW d \in Fd, OpenCloexec(d), dirfd' = d
        PROVE  Ownership'
    <3>1. d \notin open /\ open' = open \cup {d} /\ theirs' = theirs
      BY <2>1 DEF OpenCloexec, LowestFree
    <3>2. dirfd = -1 /\ -1 \notin open
      BY SMTT(30), <1>1, <1>2 DEF DirOpen, Fd
    <3>3. open \subseteq theirs
      BY <3>2
    <3> QED BY <2>1, <3>1, <3>3
  <2> QED BY <1>2, <2>1 DEF DirOpen
<1>3. CASE DirStat \/ DirEof \/ DirErr
  BY <1>3, CloseOwn DEF DirStat, DirEof, DirErr, EofClose, NoDir
<1>4. CASE DirExhausted \/ Getdents \/ DirEntry
  BY <1>4 DEF DirExhausted, Getdents, DirEntry
<1>5. CASE MaxfdStart \/ GetNfds \/ NfdsScan \/ Sysconf \/ LoopStep
  BY <1>5 DEF MaxfdStart, GetNfds, NfdsScan, Sysconf, LoopStep
<1> QED
  BY <1>2, <1>3, <1>4, <1>5 DEF IterStep

LEMMA OwnershipUser ==
  ASSUME IterTypeOK, DirControl, Ownership
  PROVE  /\ \A m, poss, skip, fs : IterFrom(m, poss, skip, fs) => Ownership'
         /\ CallNext => Ownership'
         /\ Drop => Ownership'
         /\ Others => Ownership'
<1> USE FdTableAssumption DEF Ownership, DirControl, tableVars, dirVars
<1>1. open \subseteq Fd /\ theirs \subseteq Fd /\ dirfd \in Int
  BY SMTT(30) DEF IterTypeOK, TableTypeOK, DirTypeOK
<1>2. ASSUME NEW m, NEW poss, NEW skip, NEW fs, IterFrom(m, poss, skip, fs)
      PROVE  Ownership'
  BY <1>2 DEF IterFrom
<1>3. ASSUME CallNext PROVE Ownership'
  BY <1>3 DEF CallNext
<1>4. ASSUME Drop PROVE Ownership'
  <2>1. CASE dirfd_iter /\ dirfd >= 0
    BY <1>4, <2>1, CloseOwn DEF Drop, CloseOnDrop, NoDir
  <2>2. CASE ~(dirfd_iter /\ dirfd >= 0)
    <3>1. dirfd < 0 /\ dirfd' = -1 /\ UNCHANGED tableVars
      BY SMTT(30), <1>1, <1>4, <2>2 DEF Drop, CloseOnDrop, NoDir
    <3>2. dirfd \notin open /\ -1 \notin theirs
      BY SMTT(30), <1>1, <3>1 DEF Fd
    <3> QED BY SMTT(30), <3>1, <3>2
  <2> QED BY <2>1, <2>2
<1>5. ASSUME Others PROVE Ownership'
  <2>1. UNCHANGED dirfd
    BY <1>5, OthersFrame
  <2>2. CASE OtherOpen
    <3>1. PICK d \in Fd : d \notin open /\ open' = open \cup {d}
                           /\ theirs' = theirs \cup {d}
      BY <2>2 DEF OtherOpen, LowestFree
    <3>2. d # dirfd
      BY SMTT(30), <1>1, <3>1 DEF Fd
    <3> QED BY <2>1, <3>1, <3>2
  <2>3. CASE \E f \in Fd : OtherClose(f)
    BY <2>1, <2>3 DEF OtherClose
  <2> QED BY <1>5, <2>2, <2>3 DEF Others
<1> QED BY <1>2, <1>3, <1>4, <1>5

(* The invariants of this specification so far.                            *)
IterOwnInv == IterTypeOK /\ DirControl /\ MaxControl /\ Ownership

LEMMA IterOwnInit == TableInit /\ IterInit => IterOwnInv
<1> SUFFICES ASSUME TableInit, IterInit PROVE Ownership
  BY IterInitType, ControlInit DEF IterOwnInv
<1> QED BY SMTT(30) DEF Ownership, TableInit, IterInit, Fd

LEMMA IterOwnNext ==
  ASSUME IterOwnInv, [IterNext]_iterSpecVars
  PROVE  IterOwnInv'
<1> USE DEF IterOwnInv
<1>1. IterTypeOK'
  BY IterNextType
<1>2. CASE IterStep
  BY <1>1, <1>2, DirControlStep, MaxControlStep, OwnershipStep
<1>3. CASE IterUser \/ Others
  BY <1>1, <1>3, ControlUser, OwnershipUser DEF IterUser
<1>4. CASE UNCHANGED iterSpecVars
  BY <1>1, <1>4 DEF DirControl, MaxControl, Ownership, iterSpecVars, tableVars,
     iterVars, platVars, dirVars, maxVars
<1> QED BY <1>2, <1>3, <1>4 DEF IterNext

LEMMA IterOwnInvariant == IterSpec => []IterOwnInv
BY IterOwnInit, IterOwnNext, PTL DEF IterSpec, IterSpecInit

(* Opening, exhausting, abandoning and dropping the directory never close  *)
(* a descriptor of other code (NoForeignClose), however other threads      *)
(* reuse its number.                                                       *)
THEOREM IterClosesOnlyItsOwn == IterSpec => []NoForeignClose
<1>1. IterOwnInv => NoForeignClose
  BY SMTT(30) DEF IterOwnInv, Ownership, NoForeignClose
<1> QED BY <1>1, IterOwnInvariant, PTL

(* Nothing the iterator opened survives it (IterNoLeak): whether it is     *)
(* exhausted, fails in between or is dropped early, its directory is       *)
(* closed with it.                                                         *)
THEOREM IterLeaksNothing == IterSpec => []IterNoLeak
<1>1. IterOwnInv => IterNoLeak
  BY SMTT(30) DEF IterOwnInv, Ownership, DirControl, IterNoLeak, IterTypeOK,
     TableTypeOK, Fd
<1> QED BY <1>1, IterOwnInvariant, PTL

-----------------------------------------------------------------------------
(* The order of what next() returns.                                       *)

(* A listing that can be relied on: ascending, from dirpos on, complete.   *)
LEMMA ListingOrder ==
  ASSUME TableTypeOK, ~wsl1, NEW s \in Listing
  PROVE  /\ IsAscending(s)
         /\ \A i \in 1..Len(s) : s[i] \in DirEntries /\ dirpos <= s[i]
                                 /\ s[i] <= s[Len(s)]
         /\ \A e \in DirEntries : dirpos <= e /\ e <= s[Len(s)]
              => \E j \in 1..Len(s) : s[j] = e
<1>1. s \in AscendingSeqs
      /\ Values(s) = {e \in DirEntries : dirpos <= e /\ e <= s[Len(s)]}
  BY DEF Listing
<1>2. IsAscending(s) /\ DOMAIN s = 1..Len(s)
  BY <1>1, SeqsType DEF AscendingSeqs
<1> QED BY <1>1, <1>2 DEF Values

LEMMA OrderInit == IterInit => Order
BY SMTT(30) DEF IterInit, Order

LEMMA OrderGetdents ==
  ASSUME IterTypeOK, DirControl, Order, Getdents
  PROVE  Order'
<1> USE DEF IterTypeOK, DirControl
<1>1. CASE UNCHANGED <<dirent_buf, dirent_offset, dirpos>>
  BY <1>1 DEF Getdents, Order, Remaining, fieldVars, outVars
<1>2. ASSUME NEW s \in Listing, dirent_buf' = s, dirent_offset' = 0,
             dirpos' = s[Len(s)] + 1, UNCHANGED itpc
      PROVE  Order'
  <2>1. dirfd_iter /\ ~wsl1
    BY DEF Getdents
  <2>2. /\ s \in Seq(-1..FdMax) /\ Len(s) \in Nat /\ Len(s) >= 1
        /\ s[Len(s)] \in -1..FdMax
    BY ListingType
  <2>3. /\ IsAscending(s)
        /\ \A i \in 1..Len(s) : dirpos <= s[i] /\ s[i] <= s[Len(s)]
    BY <2>1, ListingOrder
  <2>4. \A i \in 1..Len(s) : s[i] \in -1..FdMax
    BY <2>2, SeqElement
  <2>5. dirpos \in Int /\ curfd \in Int /\ dir_minfd \in Int
    BY SMTT(30), FdTableAssumption DEF DirTypeOK, FieldTypeOK
  <2>6. UNCHANGED <<curfd, dir_minfd, yielded, dirfd_iter>>
    BY DEF Getdents, fieldVars, outVars
  <2>7. Remaining' = 1..Len(s) /\ DOMAIN s = 1..Len(s)
    BY SMTT(30), <1>2, <2>2 DEF Remaining
  <2>8. curfd = dir_minfd \/ curfd <= dirpos
    BY <2>1 DEF Order
  <2>9. dirpos <= s[Len(s)]
    BY SMTT(30), <2>2, <2>3
  <2>10. \A i \in 1..Len(s) : s[i] < dirpos'
    BY SMTT(30), <1>2, <2>2, <2>3, <2>4
  <2>11. \A j \in 1..Len(s) : s[j] >= dir_minfd => s[j] >= curfd
    BY SMTT(30), <2>3, <2>4, <2>5, <2>8
  <2>12. curfd = dir_minfd \/ curfd <= dirpos'
    BY SMTT(30), <1>2, <2>2, <2>5, <2>8, <2>9
  <2> QED
    BY <1>2, <2>3, <2>6, <2>7, <2>10, <2>11, <2>12 DEF Order
<1> QED BY <1>1, <1>2 DEF Getdents

LEMMA OrderDirEntry ==
  ASSUME IterTypeOK, DirControl, Order, DirEntry
  PROVE  Order' /\ (Eligible(Entry) => Entry >= curfd)
<1> USE DEF IterTypeOK, DirControl
<1>1. /\ dirent_buf \in Seq(-1..FdMax) /\ dirent_offset \in 0..Len(dirent_buf)
      /\ dirfd_iter /\ dirent_offset < Len(dirent_buf)
      /\ dirpos \in Int /\ curfd \in Int /\ dir_minfd \in Int
  BY SMTT(30), FdTableAssumption DEF DirEntry, DirTypeOK, FieldTypeOK
<1>2. /\ UNCHANGED <<dirent_buf, dirpos, dirfd_iter, dir_minfd>>
      /\ dirent_offset' = dirent_offset + 1
  BY DEF DirEntry, NextOffset, fieldVars
<1>3. dirent_offset + 1 \in Remaining /\ Remaining' \subseteq Remaining
  BY SMTT(30), <1>1, <1>2 DEF Remaining
<1>4. \A i \in 1..Len(dirent_buf) : dirent_buf[i] \in -1..FdMax
  BY <1>1, SeqElement
<1>5. Entry \in -1..FdMax /\ Entry < dirpos
  BY SMTT(30), <1>1, <1>4 DEF Entry, Order
<1>6. Eligible(Entry) => Entry >= curfd
  BY <1>1, <1>3 DEF Entry, Order, Eligible
<1>7. CASE Eligible(Entry)
  <2>1. curfd' = Entry + 1 /\ yielded' = yielded \cup {Entry} /\ itpc' = "idle"
    BY <1>7 DEF DirEntry, ReturnFd, After
  <2>2. \A j \in Remaining' : dirent_buf[j] > Entry
    BY SMTT(30), <1>1, <1>2, <1>4 DEF Remaining, Entry, Order, IsAscending
  <2>3. \A j \in Remaining' : dirent_buf[j] >= curfd'
    BY SMTT(30), <1>1, <1>2, <1>4, <1>5, <2>1, <2>2 DEF Remaining
  <2>4. \A y \in yielded' : y < curfd'
    <3>1. \A y \in yielded : y \in Int /\ y < curfd
      BY SMTT(30), FdTableAssumption DEF Order, ControlTypeOK
    <3> QED BY SMTT(30), <1>1, <1>5, <1>6, <1>7, <2>1, <3>1
  <2>5. dir_minfd <= curfd' /\ curfd' <= dirpos
    BY SMTT(30), <1>1, <1>5, <1>6, <1>7, <2>1 DEF Order
  <2>6. \A i \in DOMAIN dirent_buf : dirent_buf[i] < dirpos
    BY <1>1 DEF Order
  <2>7. IsAscending(dirent_buf)
    BY <1>1 DEF Order
  <2>8. Order'
    BY <1>2, <2>1, <2>3, <2>4, <2>5, <2>6, <2>7 DEF Order
  <2> QED BY <1>6, <2>8
<1>8. CASE ~Eligible(Entry)
  BY <1>2, <1>3, <1>8 DEF DirEntry, Order, outVars
<1> QED BY <1>6, <1>7, <1>8

LEMMA OrderLoopStep ==
  ASSUME IterTypeOK, DirControl, Order, LoopStep
  PROVE  Order'
<1>1. /\ curfd \in Int /\ dir_minfd \in Int /\ \A y \in yielded : y \in Int
      /\ ~dirfd_iter /\ UNCHANGED <<dirfd_iter, dir_minfd>>
  BY SMTT(30), FdTableAssumption
  DEF IterTypeOK, FieldTypeOK, ControlTypeOK, DirControl,
     LoopStep, dirVars, fieldVars
<1>2. curfd' \in {curfd, curfd + 1} /\ itpc' \in {"loop", "idle"}
  BY DEF LoopStep, ReturnFd, ReturnNone
<1>3. \A y \in yielded' : y < curfd'
  BY SMTT(30), <1>1 DEF LoopStep, ReturnFd, ReturnNone, outVars, Order
<1> QED BY SMTT(30), <1>1, <1>2, <1>3 DEF Order

LEMMA OrderStep ==
  ASSUME IterTypeOK, DirControl, Order, IterStep
  PROVE  Order'
<1> USE DEF Order, dirVars, fieldVars, outVars, Remaining
<1>1. CASE DirOpen \/ DirStat
  BY SMTT(30), <1>1, FdTableAssumption
     DEF DirOpen, DirStat, DirControl, IterTypeOK, DirTypeOK, IsAscending
<1>2. CASE DirExhausted \/ DirEof
  BY SMTT(30), <1>2 DEF DirExhausted, DirEof, EofClose, ReturnNone
<1>3. CASE DirErr
  BY <1>3 DEF DirErr, NoDir
<1>4. CASE MaxfdStart \/ GetNfds \/ NfdsScan \/ Sysconf
  BY SMTT(30), <1>4, MaxfdFrame
<1> QED
  BY <1>1, <1>2, <1>3, <1>4, OrderGetdents, OrderDirEntry, OrderLoopStep
     DEF IterStep

LEMMA OrderUser ==
  ASSUME IterTypeOK, DirControl, Order
  PROVE  /\ \A m, poss, skip, fs : m \in Int /\ IterFrom(m, poss, skip, fs) => Order'
         /\ CallNext => Order'
         /\ Drop => Order'
         /\ Others => Order'
<1> USE DEF Order, dirVars, fieldVars, outVars, Remaining
<1>1. ASSUME NEW m \in Int, NEW poss, NEW skip, NEW fs, IterFrom(m, poss, skip, fs)
      PROVE  Order'
  <2>1. ~dirfd_iter' /\ yielded' = {}
    BY <1>1 DEF IterFrom, DirControl
  <2>2. curfd' \in Int /\ curfd' = dir_minfd'
    BY SMTT(30), <1>1 DEF IterFrom, StartFd
  <2> QED BY SMTT(30), <2>1, <2>2
<1>2. ASSUME CallNext PROVE Order'
  BY <1>2 DEF CallNext
<1>3. ASSUME Drop PROVE Order'
  BY <1>3 DEF Drop, NoDir
<1>4. ASSUME Others PROVE Order'
  BY SMTT(30), <1>4, OthersFrame
<1> QED BY <1>1, <1>2, <1>3, <1>4

(* A step that returns a descriptor returns one above all earlier ones,    *)
(* and never the directory, and leaves the table alone.                    *)
LEMMA YieldStep ==
  ASSUME IterTypeOK, DirControl, Order, IterStep, GivesFd
  PROVE  /\ item' \notin yielded
         /\ \A y \in yielded : y < item'
         /\ dirfd = -1 \/ item' # dirfd
         /\ UNCHANGED <<open, theirs>>
<1>1. DirEntry \/ LoopStep
  <2>1. ~DirOpen /\ ~DirStat /\ ~DirEof /\ ~DirErr
    BY DEF GivesFd, DirOpen, DirStat, DirEof, DirErr
  <2>2. ~DirExhausted /\ ~Getdents
    BY DEF GivesFd, DirExhausted, Getdents, ReturnNone
  <2>3. ~MaxfdStart /\ ~GetNfds /\ ~NfdsScan /\ ~Sysconf
    BY DEF GivesFd, MaxfdStart, GetNfds, NfdsScan, Sysconf
  <2> QED BY <2>1, <2>2, <2>3 DEF IterStep
<1>2. curfd \in Int /\ \A y \in yielded : y \in Int /\ y < curfd
  BY SMTT(30), FdTableAssumption
  DEF IterTypeOK, FieldTypeOK, ControlTypeOK, Order
<1>3. CASE DirEntry
  <2>1. Eligible(Entry) /\ item' = Entry
    BY <1>3 DEF GivesFd, DirEntry, ReturnFd, outVars
  <2>2. Entry >= curfd /\ Entry # dirfd
    BY <1>3, <2>1, OrderDirEntry DEF Eligible
  <2>3. Entry \in Int
    BY SMTT(30), <1>3, SeqElement, FdTableAssumption
    DEF DirEntry, Entry, IterTypeOK, DirTypeOK
  <2>4. UNCHANGED <<open, theirs>>
    BY <1>3 DEF DirEntry, tableVars
  <2> QED BY SMTT(30), <1>2, <2>1, <2>2, <2>3, <2>4
<1>4. CASE LoopStep
  <2>1. item' = curfd /\ dirfd = -1 /\ UNCHANGED <<open, theirs>>
    BY <1>4 DEF GivesFd, LoopStep, ReturnFd, ReturnNone, outVars, DirControl,
        tableVars
  <2> QED BY SMTT(30), <1>2, <2>1
<1> QED BY <1>1, <1>3, <1>4

IterOrderInv == IterOwnInv /\ Order

LEMMA IterOrderNext ==
  ASSUME IterOrderInv, [IterNext]_iterSpecVars
  PROVE  IterOrderInv'
<1> USE DEF IterOrderInv, IterOwnInv
<1>1. IterOwnInv'
  BY IterOwnNext
<1>2. CASE IterStep
  BY <1>1, <1>2, OrderStep
<1>3. CASE IterUser \/ Others
  <2>1. MinFds \subseteq Int
    BY SMTT(30), FdIterAssumption, FdTableAssumption DEF IntMin
  <2> QED BY <1>1, <1>3, <2>1, OrderUser DEF IterUser
<1>4. CASE UNCHANGED iterSpecVars
  BY <1>1, <1>4
  DEF Order, Remaining, iterSpecVars, iterVars, fieldVars, dirVars, outVars
<1> QED BY <1>2, <1>3, <1>4 DEF IterNext

(* Only the steps inside next() return anything.                           *)
LEMMA GivenByStep ==
  ASSUME [IterNext]_iterSpecVars, GivesFd
  PROVE  IterStep
<1>1. ~IterUser
  BY DEF GivesFd, IterUser, IterFrom, CallNext, Drop
<1>2. ~Others
  BY OthersFrame DEF GivesFd
<1>3. ~UNCHANGED iterSpecVars
  BY DEF GivesFd, iterSpecVars, iterVars
<1> QED BY <1>1, <1>2, <1>3 DEF IterNext

LEMMA IterOrderInvariant == IterSpec => []IterOrderInv
<1>1. TableInit /\ IterInit => IterOrderInv
  BY IterOwnInit, OrderInit DEF IterOrderInv
<1>2. IterOrderInv /\ [IterNext]_iterSpecVars => IterOrderInv'
  BY IterOrderNext
<1> QED BY <1>1, <1>2, PTL DEF IterSpec, IterSpecInit

(* next() returns descriptors in strictly ascending order, across refills  *)
(* of the directory buffer, a change to the maxfd loop after an error, and *)
(* whatever other threads open and close (YieldedInOrder).                 *)
THEOREM IterAscending == IterSpec => YieldedInOrder
<1>1. IterOrderInv /\ [IterNext]_iterSpecVars =>
        [GivesFd =>
           item' \notin yielded /\ \A y \in yielded : y < item']_iterSpecVars
  BY GivenByStep, YieldStep DEF IterOrderInv, IterOwnInv
<1> QED BY <1>1, IterOrderInvariant, PTL DEF IterSpec, YieldedInOrder

(* An open descriptor that next() returns belongs to other code and is     *)
(* never the iterator's own directory (OwnDirfdHidden), whatever           *)
(* getdents() lists, after whichever error, and in the maxfd loop too: by  *)
(* Ownership the directory is the only open descriptor that is not         *)
(* theirs, and by DirControl it is closed before the loop begins.          *)
THEOREM IterHidesItsDirectory == IterSpec => OwnDirfdHidden
<1>1. ASSUME IterOrderInv, [IterNext]_iterSpecVars, GivesFd, item' \in open'
      PROVE  item' \in theirs'
  <2>1. IterStep
    BY <1>1, GivenByStep
  <2>2. UNCHANGED <<open, theirs>> /\ (dirfd = -1 \/ item' # dirfd)
    BY <1>1, <2>1, YieldStep DEF IterOrderInv, IterOwnInv
  <2>3. open \subseteq theirs \cup {dirfd} /\ -1 \notin open
    BY SMTT(30), <1>1
    DEF IterOrderInv, IterOwnInv, Ownership, IterTypeOK, TableTypeOK, Fd
  <2> QED BY <1>1, <2>2, <2>3
<1>2. IterOrderInv /\ [IterNext]_iterSpecVars =>
        [GivesFd /\ item' \in open' => item' \in theirs']_iterSpecVars
  BY <1>1
<1> QED BY <1>2, IterOrderInvariant, PTL DEF IterSpec, OwnDirfdHidden

-----------------------------------------------------------------------------
(* What holds after next() has returned None.                              *)

LEMMA AfterNoneStep ==
  ASSUME IterTypeOK, DirControl, AfterNone, IterStep
  PROVE  AfterNone'
<1> USE DEF AfterNone, DirControl, dirVars, maxVars, outVars
<1>1. dirfd \in -1..FdMax /\ FdMax \in Nat
  BY FdTableAssumption DEF IterTypeOK, DirTypeOK
<1>2. CASE DirOpen
  <2>1. ~ended /\ UNCHANGED ended
    BY <1>2 DEF DirOpen
  <2>2. ~(dirfd_iter' /\ dirfd' = -1)
    BY SMTT(30), <1>1, <1>2 DEF DirOpen, Fd
  <2> QED BY <2>1, <2>2
<1>3. CASE DirStat
  BY SMTT(30), <1>1, <1>3 DEF DirStat
<1>4. CASE DirExhausted
  BY SMTT(30), <1>1, <1>4 DEF DirExhausted, ReturnNone
<1>5. CASE Getdents
  BY SMTT(30), <1>1, <1>5 DEF Getdents
<1>6. CASE DirEntry
  BY <1>1, <1>6 DEF DirEntry, ReturnFd
<1>7. CASE DirEof
  BY <1>7 DEF DirEof, EofClose, ReturnNone
<1>8. CASE DirErr
  BY <1>1, <1>8 DEF DirErr, NoDir
<1>9. CASE MaxfdStart \/ GetNfds \/ NfdsScan \/ Sysconf
  BY SMTT(30), <1>9, MaxfdFrame
<1>10. CASE LoopStep
  <2>1. maxfd \in Int /\ maxfd # None /\ curfd \in Int
    BY SMTT(30), <1>10, FdTableAssumption
    DEF LoopStep, IterTypeOK, FieldTypeOK, ControlTypeOK
  <2> QED BY SMTT(30), <1>10, <2>1 DEF LoopStep, ReturnFd, ReturnNone
<1> QED
  BY <1>2, <1>3, <1>4, <1>5, <1>6, <1>7, <1>8, <1>9, <1>10 DEF IterStep

LEMMA AfterNoneUser ==
  ASSUME IterTypeOK, DirControl, AfterNone
  PROVE  /\ \A m, poss, skip, fs : IterFrom(m, poss, skip, fs) => AfterNone'
         /\ CallNext => AfterNone'
         /\ Drop => AfterNone'
         /\ Others => AfterNone'
<1> USE DEF AfterNone, dirVars, maxVars, outVars
<1>1. ASSUME NEW m, NEW poss, NEW skip, NEW fs, IterFrom(m, poss, skip, fs)
      PROVE  AfterNone'
  BY <1>1 DEF IterFrom, DirControl
<1>2. ASSUME CallNext PROVE AfterNone'
  <2>1. CASE dirfd_iter
    BY <1>2, <2>1 DEF CallNext
  <2>2. CASE ~dirfd_iter
    BY <1>2, <2>2 DEF CallNext, KnowsMaxfd
  <2> QED BY <2>1, <2>2
<1>3. ASSUME Drop PROVE AfterNone'
  BY <1>3 DEF Drop, NoDir
<1>4. ASSUME Others PROVE AfterNone'
  BY SMTT(30), <1>4, OthersFrame
<1> QED BY <1>1, <1>2, <1>3, <1>4

(* Nothing is returned any more.                                           *)
LEMMA NothingAfterNone ==
  ASSUME IterTypeOK, DirControl, AfterNone, ended, IterStep
  PROVE  ~GivesFd /\ yielded' = yielded
<1>1. itpc \in {"dir", "loop"}
  BY DEF AfterNone, IterStep, DirOpen, DirStat, DirExhausted, Getdents,
      DirEntry, DirEof, DirErr, MaxfdStart, GetNfds, NfdsScan, Sysconf,
      LoopStep
<1>2. CASE itpc = "dir"
  <2>1. dirfd = -1
    BY <1>2 DEF AfterNone, DirControl
  <2>2. ~Getdents /\ ~DirEntry
    BY SMTT(30), <2>1 DEF Getdents, DirEntry
  <2>3. ~DirOpen /\ ~DirStat /\ ~DirEof /\ ~DirErr
    BY <1>2 DEF DirOpen, DirStat, DirEof, DirErr
  <2>4. ~MaxfdStart /\ ~GetNfds /\ ~NfdsScan /\ ~Sysconf /\ ~LoopStep
    BY <1>2 DEF MaxfdStart, GetNfds, NfdsScan, Sysconf, LoopStep
  <2>5. DirExhausted
    BY <2>2, <2>3, <2>4 DEF IterStep
  <2> QED BY <2>5 DEF GivesFd, DirExhausted, ReturnNone
<1>3. CASE itpc = "loop"
  <2>1. curfd > maxfd /\ curfd \in Int /\ maxfd \in Int
    BY SMTT(30), <1>3, FdTableAssumption
       DEF AfterNone, IterTypeOK, FieldTypeOK, ControlTypeOK
  <2>2. LoopStep
    BY <1>3
    DEF IterStep, DirOpen, DirStat, DirExhausted, Getdents, DirEntry, DirEof,
        DirErr, MaxfdStart, GetNfds, NfdsScan, Sysconf
  <2> QED BY SMTT(30), <2>1, <2>2 DEF GivesFd, LoopStep, ReturnNone
<1> QED BY <1>1, <1>2, <1>3

IterFusedInv == IterOwnInv /\ AfterNone

LEMMA IterFusedNext ==
  ASSUME IterFusedInv, [IterNext]_iterSpecVars
  PROVE  IterFusedInv'
<1> USE DEF IterFusedInv, IterOwnInv
<1>1. IterOwnInv'
  BY IterOwnNext
<1>2. CASE IterStep
  BY <1>1, <1>2, AfterNoneStep
<1>3. CASE IterUser \/ Others
  BY <1>1, <1>3, AfterNoneUser DEF IterUser
<1>4. CASE UNCHANGED iterSpecVars
  BY <1>1, <1>4
  DEF AfterNone, iterSpecVars, iterVars, fieldVars, dirVars, maxVars, outVars
<1> QED BY <1>2, <1>3, <1>4 DEF IterNext

(* The promise of "impl FusedIterator for FdIter" (Fused): once next() has *)
(* returned None it returns nothing more, whatever is opened afterwards,   *)
(* because an exhausted directory is remembered as dirfd = -1 and maxfd is *)
(* never asked for again.                                                  *)
THEOREM IterFused == IterSpec => Fused
<1>1. TableInit /\ IterInit => IterFusedInv
  <2>1. IterInit => AfterNone
    BY DEF AfterNone, IterInit
  <2> QED BY <2>1, IterOwnInit DEF IterFusedInv
<1>2. IterFusedInv /\ [IterNext]_iterSpecVars => IterFusedInv'
  BY IterFusedNext
<1>3. IterFusedInv /\ [IterNext]_iterSpecVars =>
        [ended => ~GivesFd]_iterSpecVars
  BY GivenByStep, NothingAfterNone DEF IterFusedInv, IterOwnInv
<1> QED BY <1>1, <1>2, <1>3, PTL DEF IterSpec, IterSpecInit, Fused

-----------------------------------------------------------------------------
(* Nothing that is held is passed over.                                    *)

(* A descriptor is held from the start or never.                           *)
LEMMA HeldStep ==
  ASSUME IterTypeOK, DirControl, IterStep
  PROVE  Held' \subseteq Held
<1> USE DEF Held
<1>1. steady' = steady
  <2>1. CASE DirOpen \/ DirStat \/ DirEof \/ DirErr
    BY <2>1
    DEF DirOpen, DirStat, DirEof, DirErr, EofClose, OpenCloexec, CloseAll,
        tableVars
  <2>2. CASE DirExhausted \/ Getdents \/ DirEntry \/ LoopStep
    BY <2>2 DEF DirExhausted, Getdents, DirEntry, LoopStep, tableVars
  <2>3. CASE MaxfdStart \/ GetNfds \/ NfdsScan \/ Sysconf
    BY <2>3, MaxfdFrame DEF tableVars
  <2> QED BY <2>1, <2>2, <2>3 DEF IterStep
<1>2. CASE DirOpen
  <2>1. dirfd = -1 /\ -1 \notin open
    BY SMTT(30), <1>2, FdTableAssumption
    DEF DirOpen, DirControl, IterTypeOK, TableTypeOK, Fd
  <2>2. \/ open' = open /\ dirfd' = dirfd
        \/ \E d \in Fd : open' = open \cup {d} /\ dirfd' = d
    BY <1>2 DEF DirOpen, OpenCloexec, tableVars
  <2> QED BY <1>1, <2>1, <2>2
<1>3. CASE DirStat \/ DirEof \/ DirErr
  <2>1. \/ open' = open /\ dirfd' = dirfd
        \/ open' = open \ {dirfd}
    BY <1>3 DEF DirStat, DirEof, DirErr, EofClose, CloseAll, tableVars
  <2> QED BY <1>1, <2>1
<1>4. CASE \/ DirExhausted \/ Getdents \/ DirEntry \/ MaxfdStart \/ GetNfds
           \/ NfdsScan \/ Sysconf \/ LoopStep
  <2>1. open' = open /\ dirfd' = dirfd
    BY <1>4
    DEF DirExhausted, Getdents, DirEntry, MaxfdStart, GetNfds, NfdsScan,
        Sysconf, LoopStep, tableVars, dirVars
  <2> QED BY <1>1, <2>1
<1> QED BY <1>2, <1>3, <1>4 DEF IterStep

LEMMA HeldUser ==
  ASSUME IterTypeOK, DirControl, Others => theirs \subseteq open
  PROVE  /\ \A m, poss, skip, fs : IterFrom(m, poss, skip, fs) => Held' \subseteq Held
         /\ CallNext => Held' \subseteq Held
         /\ Drop => Held' \subseteq Held
         /\ Others => Held' \subseteq Held
<1> USE DEF Held
<1>1. ASSUME NEW m, NEW poss, NEW skip, NEW fs, IterFrom(m, poss, skip, fs)
      PROVE  Held' \subseteq Held
  BY <1>1 DEF IterFrom, tableVars, dirVars
<1>2. ASSUME CallNext PROVE Held' \subseteq Held
  BY <1>2 DEF CallNext, tableVars, dirVars
<1>3. ASSUME Drop PROVE Held' \subseteq Held
  <2>1. steady' = steady
    BY <1>3 DEF Drop, CloseOnDrop, CloseAll, tableVars
  <2>2. CASE dirfd_iter /\ dirfd >= 0
    BY <1>3, <2>1, <2>2 DEF Drop, CloseOnDrop, CloseAll
  <2>3. CASE ~(dirfd_iter /\ dirfd >= 0)
    <3>1. dirfd = -1
      BY SMTT(30), <1>3, <2>3, FdTableAssumption
      DEF Drop, DirControl, IterTypeOK, DirTypeOK
    <3> QED BY <1>3, <2>1, <2>3, <3>1 DEF Drop, CloseOnDrop, NoDir, tableVars
  <2> QED BY <2>2, <2>3
<1>4. ASSUME Others PROVE Held' \subseteq Held
  <2>1. dirfd' = dirfd
    BY <1>4, OthersFrame DEF dirVars
  <2>2. steady' \cap open' \subseteq steady \cap open
    BY <1>4 DEF Others, OtherOpen, OtherClose, IterTypeOK, TableTypeOK
  <2> QED BY <2>1, <2>2
<1> QED BY <1>1, <1>2, <1>3, <1>4

LEMMA HeldType ==
  ASSUME IterTypeOK
  PROVE  Held \subseteq Nat /\ \A f \in Held : f \in open /\ f # dirfd
<1>1. \A f \in Held : f \in open /\ f # dirfd
  BY DEF Held
<1>2. open \subseteq 0..FdMax
  BY DEF IterTypeOK, TableTypeOK, Fd
<1>3. \A f \in 0..FdMax : f \in Nat
  BY SMTT(30), FdTableAssumption
<1> QED BY <1>1, <1>2, <1>3

LEMMA ProgressGetdents ==
  ASSUME IterTypeOK, DirControl, Progress, Getdents
  PROVE  Progress'
<1> USE DEF IterTypeOK, DirControl
<1>1. /\ UNCHANGED <<curfd, dir_minfd, yielded, dirfd_iter>> /\ Held' = Held
      /\ dirfd_iter /\ ~wsl1 /\ Remaining = {} /\ dirpos \in Int
  BY SMTT(30), FdTableAssumption
  DEF Getdents, fieldVars, outVars, Held, tableVars, DirTypeOK,
     Remaining
<1>2. \A f \in Held : dir_minfd <= f /\ f < dirpos => f \in yielded
  BY <1>1 DEF Progress
<1>3. \A f \in Held : f \in DirEntries /\ f \in Int
  BY SMTT(30), HeldType DEF DirEntries
<1>4. CASE UNCHANGED <<dirent_buf, dirent_offset, dirpos>>
  <2>1. itpc' = "eof" => \A f \in Held : f < dirpos
    <3>1. CASE \E s \in Listing : dirent_buf' = s /\ UNCHANGED itpc
      BY <3>1 DEF Getdents
    <3>2. CASE itpc' = "err"
      BY <3>2
    <3>3. CASE \A e \in DirEntries : e < dirpos
      BY <1>3, <3>3
    <3> QED BY <3>1, <3>2, <3>3 DEF Getdents
  <2> QED BY <1>1, <1>4, <2>1 DEF Progress, Remaining
<1>5. ASSUME NEW s \in Listing, dirent_buf' = s, dirent_offset' = 0,
             dirpos' = s[Len(s)] + 1, UNCHANGED itpc
      PROVE  Progress'
  <2>1. Len(s) \in Nat /\ Len(s) >= 1 /\ s[Len(s)] \in Int
    BY SMTT(30), ListingType, FdTableAssumption
  <2>2. \A e \in DirEntries : dirpos <= e /\ e <= s[Len(s)]
          => \E j \in 1..Len(s) : s[j] = e
    BY <1>1, ListingOrder
  <2>3. Remaining' = 1..Len(s)
    BY SMTT(30), <1>5, <2>1 DEF Remaining
  <2>4. ASSUME NEW f \in Held, dir_minfd <= f, f < dirpos'
        PROVE  f \in yielded \/ \E j \in 1..Len(s) : s[j] = f
    <3>1. CASE f < dirpos
      BY <1>2, <2>4, <3>1
    <3>2. CASE ~(f < dirpos)
      <4>1. dirpos <= f /\ f <= s[Len(s)]
        BY SMTT(30), <1>1, <1>3, <1>5, <2>1, <2>4, <3>2
      <4> QED BY <1>3, <2>2, <4>1
    <3> QED BY <3>1, <3>2
  <2>5. itpc' # "eof"
    BY <1>5 DEF Getdents
  <2> QED BY <1>1, <1>5, <2>3, <2>4, <2>5 DEF Progress
<1> QED BY <1>4, <1>5 DEF Getdents

LEMMA ProgressDirEntry ==
  ASSUME IterTypeOK, DirControl, Order, Progress, DirEntry
  PROVE  Progress'
<1> USE DEF IterTypeOK, DirControl
<1>1. /\ dirent_buf \in Seq(-1..FdMax) /\ dirent_offset \in 0..Len(dirent_buf)
      /\ dirfd_iter /\ dirent_offset < Len(dirent_buf)
      /\ dirpos \in Int /\ curfd \in Int /\ dir_minfd \in Int
  BY SMTT(30), FdTableAssumption DEF DirEntry, DirTypeOK, FieldTypeOK
<1>2. /\ UNCHANGED <<dirent_buf, dirpos, dirfd_iter, dir_minfd>> /\ Held' = Held
      /\ dirent_offset' = dirent_offset + 1 /\ itpc' \in {"idle", "dir"}
  BY DEF DirEntry, NextOffset, fieldVars, Held, tableVars, ReturnFd
<1>3. \A j \in Remaining : j \in Remaining' \/ j = dirent_offset + 1
  BY SMTT(30), <1>1, <1>2 DEF Remaining
<1>4. \A i \in 1..Len(dirent_buf) : dirent_buf[i] \in Int
  BY SMTT(30), <1>1, SeqElement, FdTableAssumption
<1>5. Entry \in Int /\ Entry < dirpos
  BY SMTT(30), <1>1, <1>4 DEF Entry, Order
<1>6. \A f \in Held : f \in Nat /\ f # dirfd
  BY HeldType
<1>7. yielded \subseteq yielded'
      /\ (Eligible(Entry) => Entry \in yielded' /\ curfd' = Entry + 1)
      /\ (~Eligible(Entry) => curfd' = curfd)
  BY DEF DirEntry, ReturnFd, outVars, After
<1>8. ASSUME NEW f \in Held, f = Entry, dir_minfd <= f PROVE f \in yielded'
  BY SMTT(30), <1>1, <1>6, <1>7, <1>8 DEF Eligible, NotFd
<1>9. ASSUME NEW f \in Held, dir_minfd <= f, f < dirpos
      PROVE  f \in yielded' \/ \E j \in Remaining' : dirent_buf[j] = f
  BY <1>1, <1>3, <1>7, <1>8, <1>9 DEF Progress, Entry
<1>10. ASSUME NEW f \in Held, dir_minfd <= f, f < curfd'
       PROVE  f \in yielded'
  <2>1. CASE f < curfd
    BY <1>7, <1>10, <2>1 DEF Progress
  <2>2. CASE ~(f < curfd)
    <3>1. f \in Int /\ f <= Entry /\ f < dirpos
      BY SMTT(30), <1>1, <1>5, <1>6, <1>7, <1>10, <2>2
    <3>2. \A j \in Remaining' : dirent_buf[j] > Entry
      BY SMTT(30), <1>1, <1>2, <1>4 DEF Remaining, Entry, Order, IsAscending
    <3>3. \A j \in Remaining' : dirent_buf[j] # f
      BY SMTT(30), <1>1, <1>2, <1>4, <1>5, <3>1, <3>2 DEF Remaining
    <3> QED BY <1>9, <1>10, <3>1, <3>3
  <2> QED BY <2>1, <2>2
<1> QED BY <1>1, <1>2, <1>9, <1>10 DEF Progress

LEMMA ProgressStep ==
  ASSUME IterTypeOK, DirControl, Order, Progress, IterStep
  PROVE  Progress'
<1>1. Held' \subseteq Held /\ Held \subseteq Nat
  BY HeldStep, HeldType
<1> USE DEF dirVars, fieldVars, outVars, Remaining
<1>2. CASE DirOpen \/ DirStat
  <2>1. UNCHANGED <<curfd, dir_minfd, yielded, dirpos>> /\ itpc' # "eof"
    BY <1>2 DEF DirOpen, DirStat
  <2>2. dirpos = -1
    BY <1>2 DEF DirOpen, DirStat, DirControl, NotFd
  <2>3. \A f \in Held' : ~(f < dirpos')
    BY SMTT(30), <1>1, <2>1, <2>2
  <2> QED BY <1>1, <2>1, <2>3 DEF Progress
<1>3. CASE DirExhausted \/ DirEof
  BY SMTT(30), <1>1, <1>3
  DEF DirExhausted, DirEof, EofClose, ReturnNone, Progress
<1>4. CASE DirErr
  BY <1>1, <1>4 DEF DirErr, NoDir, Progress
<1>5. CASE MaxfdStart \/ GetNfds \/ NfdsScan \/ Sysconf
  BY SMTT(30), <1>1, <1>5, MaxfdFrame DEF Progress
<1>6. CASE LoopStep
  <2>1. /\ curfd \in Int /\ ~dirfd_iter' /\ dir_minfd' = dir_minfd
        /\ itpc' # "eof" /\ yielded \subseteq yielded'
    BY SMTT(30), <1>6, FdTableAssumption
    DEF LoopStep, ReturnFd, ReturnNone, DirControl,
       IterTypeOK, FieldTypeOK
  <2>2. curfd' = curfd \/ (curfd' = curfd + 1 /\ (curfd \in open => curfd \in yielded'))
    BY <1>6 DEF LoopStep, ReturnFd
  <2>3. ASSUME NEW f \in Held', dir_minfd <= f, f < curfd' PROVE f \in yielded'
    <3>1. f \in Held /\ f \in Int /\ f \in open
      BY SMTT(30), <1>1, HeldType
    <3> QED BY SMTT(30), <2>1, <2>2, <2>3, <3>1 DEF Progress
  <2> QED BY <2>1, <2>3 DEF Progress
<1> QED
  BY <1>2, <1>3, <1>4, <1>5, <1>6, ProgressGetdents, ProgressDirEntry
  DEF IterStep

LEMMA ProgressUser ==
  ASSUME IterTypeOK, DirControl, Others => theirs \subseteq open, Progress
  PROVE  /\ \A m, poss, skip, fs : m \in Int /\ IterFrom(m, poss, skip, fs) => Progress'
         /\ CallNext => Progress'
         /\ Drop => Progress'
         /\ Others => Progress'
<1> USE HeldUser DEF Progress, dirVars, fieldVars, outVars, Remaining
<1>1. ASSUME NEW m \in Int, NEW poss, NEW skip, NEW fs, IterFrom(m, poss, skip, fs)
      PROVE  Progress'
  <2>1. ~dirfd_iter' /\ itpc' # "eof"
    BY <1>1 DEF IterFrom, DirControl
  <2>2. curfd' \in Int /\ curfd' = dir_minfd'
    BY SMTT(30), <1>1 DEF IterFrom, StartFd
  <2>3. \A f \in Held' : f \in Int
    BY SMTT(30), <1>1, HeldType
  <2> QED BY SMTT(30), <2>1, <2>2, <2>3
<1>2. ASSUME CallNext PROVE Progress'
  BY <1>2 DEF CallNext
<1>3. ASSUME Drop PROVE Progress'
  BY <1>3 DEF Drop, NoDir
<1>4. ASSUME Others PROVE Progress'
  BY SMTT(30), <1>4, OthersFrame
<1> QED BY <1>1, <1>2, <1>3, <1>4

-----------------------------------------------------------------------------
(* maxfd bounds what is held.                                              *)

LEMMA AheadFinite ==
  ASSUME IterTypeOK
  PROVE  /\ IsFiniteSet(Ahead)
         /\ Cardinality(Ahead) \in Nat
         /\ scanfd \in Nat /\ open \subseteq Nat
<1>1. IsFiniteSet(open) /\ Ahead \subseteq open
  BY OpenFinite DEF IterTypeOK, Ahead
<1>2. IsFiniteSet(Ahead)
  BY <1>1, FS_Subset
<1>3. Cardinality(Ahead) \in Nat
  BY <1>2, FS_CardinalityType
<1>4. open \subseteq 0..FdMax
  BY DEF IterTypeOK, TableTypeOK, Fd
<1>5. \A f \in 0..FdMax : f \in Nat
  BY SMTT(30), FdTableAssumption
<1> QED BY <1>2, <1>3, <1>4, <1>5 DEF IterTypeOK, ControlTypeOK

(* An open descriptor leaves one less ahead of the scan.                   *)
LEMMA AheadOpen ==
  ASSUME IterTypeOK, scanfd \in open
  PROVE  /\ IsFiniteSet(Ahead \ {scanfd})
         /\ Cardinality(Ahead \ {scanfd}) = Cardinality(Ahead) - 1
<1>1. scanfd \in Ahead
  BY SMTT(30), AheadFinite DEF Ahead
<1> QED BY <1>1, AheadFinite, FS_RemoveElement

LEMMA ScanCountStep ==
  ASSUME IterTypeOK, ScanCount, IterStep
  PROVE  ScanCount'
<1>1. CASE itpc' # "scan"
  BY <1>1 DEF ScanCount
<1>2. CASE GetNfds /\ itpc' = "scan"
  <2>1. nfds' = Cardinality(open) /\ nfds_found' = 0 /\ scanfd' = 0 /\ open' = open
    BY <1>2 DEF GetNfds, SetMaxfd, tableVars
  <2>2. Ahead' = open
    BY SMTT(30), <2>1, AheadFinite DEF Ahead
  <2>3. Cardinality(open) \in Nat
    BY OpenFinite, FS_CardinalityType DEF IterTypeOK
  <2> QED BY SMTT(30), <2>1, <2>2, <2>3 DEF ScanCount
<1>3. CASE NfdsScan /\ itpc' = "scan"
  <2>1. /\ scanfd' = scanfd + 1 /\ UNCHANGED <<nfds, raced, open>> /\ itpc = "scan"
        /\ nfds_found' = IF scanfd \in open THEN nfds_found + 1 ELSE nfds_found
    BY <1>3 DEF NfdsScan, SetMaxfd, tableVars
  <2>2. nfds \in Nat /\ nfds_found \in Nat /\ Cardinality(Ahead) \in Nat
    BY AheadFinite DEF IterTypeOK, ControlTypeOK
  <2>3. Ahead' = Ahead \ {scanfd}
    BY SMTT(30), <2>1, AheadFinite DEF Ahead
  <2>4. CASE scanfd \in open
    <3>1. Cardinality(Ahead') = Cardinality(Ahead) - 1
      BY <2>3, <2>4, AheadOpen
    <3> QED BY SMTT(30), <2>1, <2>2, <2>4, <3>1 DEF ScanCount
  <2>5. CASE scanfd \notin open
    <3>1. Ahead' = Ahead
      BY <2>3, <2>5 DEF Ahead
    <3> QED BY <2>1, <2>2, <2>5, <3>1 DEF ScanCount
  <2> QED BY <2>4, <2>5
<1> QED
  BY <1>1, <1>2, <1>3
  DEF IterStep, DirOpen, DirStat, DirExhausted, Getdents, DirEntry, DirEof,
      DirErr, MaxfdStart, Sysconf, LoopStep, SetMaxfd, ReturnFd, ReturnNone

LEMMA ScanCountUser ==
  ASSUME IterTypeOK, ScanCount
  PROVE  /\ \A m, poss, skip, fs : IterFrom(m, poss, skip, fs) => ScanCount'
         /\ CallNext => ScanCount'
         /\ Drop => ScanCount'
         /\ Others => ScanCount'
<1>1. ASSUME NEW m, NEW poss, NEW skip, NEW fs, IterFrom(m, poss, skip, fs)
      PROVE  ScanCount'
  BY <1>1 DEF IterFrom, ScanCount
<1>2. ASSUME CallNext PROVE ScanCount'
  BY <1>2 DEF CallNext, ScanCount
<1>3. ASSUME Drop PROVE ScanCount'
  BY <1>3 DEF Drop, ScanCount
<1>4. ASSUME Others PROVE ScanCount'
  <2>1. CASE OtherOpen /\ raced' = (raced \/ itpc = "scan") /\ UNCHANGED itpc
    BY <2>1 DEF ScanCount
  <2>2. CASE (\E f \in Fd : OtherClose(f)) /\ UNCHANGED iterVars
    <3>1. open' \subseteq open /\ UNCHANGED <<scanfd, nfds, nfds_found, raced, itpc>>
      BY <2>2 DEF OtherClose, iterVars, scanVars
    <3>2. Ahead' \subseteq Ahead
      BY <3>1 DEF Ahead
    <3>3. IsFiniteSet(Ahead') /\ Cardinality(Ahead') <= Cardinality(Ahead)
      BY <3>2, AheadFinite, FS_Subset
    <3>4. Cardinality(Ahead') \in Nat /\ Cardinality(Ahead) \in Nat
      BY <3>3, AheadFinite, FS_CardinalityType
    <3>5. nfds \in Nat /\ nfds_found \in Nat
      BY DEF IterTypeOK, ControlTypeOK
    <3> QED BY SMTT(30), <3>1, <3>3, <3>4, <3>5 DEF ScanCount
  <2> QED BY <1>4, <2>1, <2>2 DEF Others
<1> QED BY <1>1, <1>2, <1>3, <1>4

(* When the scan has met as many descriptors as were counted, nothing is   *)
(* open above it.                                                          *)
LEMMA ScanFindsLast ==
  ASSUME IterTypeOK, ScanCount, itpc = "scan", ~raced,
         scanfd \in open, FoundAll(nfds_found + 1)
  PROVE  \A f \in open : f <= scanfd
<1>1. nfds \in Nat /\ nfds_found \in Nat /\ Cardinality(Ahead) \in Nat
  BY AheadFinite DEF IterTypeOK, ControlTypeOK
<1>2. Cardinality(Ahead) <= 1
  BY SMTT(30), <1>1 DEF ScanCount, FoundAll
<1>3. Cardinality(Ahead \ {scanfd}) = 0
  <2>1. Cardinality(Ahead \ {scanfd}) \in Nat
    BY AheadOpen, FS_CardinalityType
  <2> QED BY SMTT(30), <1>1, <1>2, <2>1, AheadOpen
<1>4. Ahead \ {scanfd} = {}
  BY <1>3, AheadOpen, FS_EmptySet
<1>5. \A f \in open : f >= scanfd => f = scanfd
  BY <1>4 DEF Ahead
<1> QED BY SMTT(30), <1>5, AheadFinite

LEMMA MaxBoundStep ==
  ASSUME IterTypeOK, DirControl, MaxControl, ScanCount, MaxBound, IterStep
  PROVE  MaxBound'
<1>1. Held' \subseteq Held /\ \A f \in Held : f \in Nat /\ f \in open
  BY HeldStep, HeldType
<1>2. CASE UNCHANGED <<maxVars, raced>>
  BY <1>1, <1>2 DEF MaxBound, Excused, maxVars
<1>3. CASE maxfd' = None
  BY <1>3 DEF MaxBound
<1>4. CASE MaxfdStart
  <2>1. \/ \A e \in open : e <= maxfd'
        \/ UNCHANGED <<maxVars, raced>>
    BY <1>4 DEF MaxfdStart, SetMaxfd
  <2> QED BY <1>1, <1>2, <2>1 DEF MaxBound
<1>5. CASE GetNfds
  <2>1. maxfd' = None \/ Cardinality(open) = 0
    BY <1>5 DEF GetNfds, SetMaxfd, maxVars, MaxControl
  <2>2. Cardinality(open) = 0 => open = {}
    BY OpenFinite, FS_EmptySet DEF IterTypeOK
  <2> QED BY <1>1, <1>3, <2>1, <2>2 DEF MaxBound
<1>6. CASE NfdsScan
  <2>1. CASE SetMaxfd(scanfd, "nfds") /\ scanfd \in open /\ FoundAll(nfds_found + 1)
    <3>1. CASE raced
      <4>1. how' = "nfds" /\ raced'
        BY <1>6, <2>1, <3>1 DEF SetMaxfd, NfdsScan
      <4> QED BY <4>1 DEF MaxBound, Excused
    <3>2. CASE ~raced
      <4>1. \A f \in open : f <= scanfd
        BY <1>6, <2>1, <3>2, ScanFindsLast DEF NfdsScan
      <4> QED BY <1>1, <2>1, <4>1 DEF MaxBound, SetMaxfd
    <3> QED BY <3>1, <3>2
  <2>2. CASE UNCHANGED maxVars
    BY <1>2, <1>6, <2>2 DEF NfdsScan
  <2> QED BY <1>6, <2>1, <2>2 DEF NfdsScan
<1>7. CASE Sysconf
  <2>1. how' = "sysconf"
    BY <1>7 DEF Sysconf, SetMaxfd
  <2>2. maxfd' # None => maxfd' \in Int
    BY SMTT(30), IterStepType, FdTableAssumption DEF IterTypeOK, FieldTypeOK
  <2> QED BY SMTT(30), <1>1, <2>1, <2>2 DEF MaxBound, Excused
<1> QED
  BY <1>2, <1>4, <1>5, <1>6, <1>7
  DEF IterStep, DirOpen, DirStat, DirExhausted, Getdents, DirEntry, DirEof,
      DirErr, LoopStep

LEMMA MaxBoundUser ==
  ASSUME IterTypeOK, DirControl, Others => theirs \subseteq open, MaxBound
  PROVE  /\ \A m, poss, skip, fs : IterFrom(m, poss, skip, fs) => MaxBound'
         /\ CallNext => MaxBound'
         /\ Drop => MaxBound'
         /\ Others => MaxBound'
<1> USE HeldUser DEF MaxBound, Excused, maxVars
<1>1. ASSUME NEW m, NEW poss, NEW skip, NEW fs, IterFrom(m, poss, skip, fs)
      PROVE  MaxBound'
  BY <1>1 DEF IterFrom
<1>2. ASSUME CallNext PROVE MaxBound'
  BY <1>2 DEF CallNext
<1>3. ASSUME Drop PROVE MaxBound'
  BY <1>3 DEF Drop
<1>4. ASSUME Others PROVE MaxBound'
  <2>1. UNCHANGED <<maxfd, how>>
    BY <1>4, OthersFrame
  <2>2. raced => raced'
    BY <1>4, OthersFrame
  <2> QED BY <1>4, <2>1, <2>2
<1> QED BY <1>1, <1>2, <1>3, <1>4

-----------------------------------------------------------------------------
(* Everything held has been returned when next() returns None.             *)

LEMMA AllListedStep ==
  ASSUME IterTypeOK, DirControl, Progress, MaxBound, AfterNone, AllListed, IterStep
  PROVE  AllListed'
<1>1. Held' \subseteq Held /\ \A f \in Held : f \in Nat
  BY HeldStep, HeldType
<1>2. UNCHANGED dir_minfd
  BY DEF IterStep, DirOpen, DirStat, DirExhausted, Getdents, DirEntry, DirEof,
      DirErr, MaxfdStart, GetNfds, NfdsScan, Sysconf, LoopStep, fieldVars
<1>3. CASE ended
  <2>1. UNCHANGED <<maxfd, how, raced, yielded>>
    <3>1. itpc \notin {"maxfd", "scan", "sysconf"}
      BY <1>3 DEF AfterNone
    <3>2. UNCHANGED <<maxfd, how, raced>>
      BY <3>1
      DEF IterStep, DirOpen, DirStat, DirExhausted, Getdents, DirEntry, DirEof,
          DirErr, MaxfdStart, GetNfds, NfdsScan, Sysconf, LoopStep, maxVars
    <3> QED BY <1>3, <3>2, NothingAfterNone
  <2> QED BY <1>1, <1>2, <1>3, <2>1 DEF AllListed, Excused
<1>4. CASE ~ended /\ ended'
  <2>1. DirExhausted \/ DirEof \/ LoopStep
    BY <1>4
    DEF IterStep, DirOpen, DirStat, Getdents, DirEntry, DirErr, MaxfdStart,
        GetNfds, NfdsScan, Sysconf, outVars, ReturnFd
  <2>2. CASE DirExhausted
    <3>1. dirfd_iter /\ dirfd = -1
      BY SMTT(30), <2>2, FdTableAssumption
      DEF DirExhausted, DirControl, IterTypeOK, DirTypeOK
    <3> QED BY <1>4, <3>1 DEF AfterNone
  <2>3. CASE DirEof
    <3>1. \A f \in Held : dir_minfd <= f => f \in yielded
      BY <2>3 DEF DirEof, DirControl, Progress
    <3>2. dir_minfd \in Int /\ yielded' = yielded
      BY SMTT(30), <2>3, FdTableAssumption
      DEF DirEof, ReturnNone, IterTypeOK, FieldTypeOK
    <3> QED BY <1>1, <1>2, <3>1, <3>2 DEF AllListed
  <2>4. CASE LoopStep
    <3>1. curfd \in Int /\ maxfd \in Int /\ maxfd # None /\ dir_minfd \in Int
      BY SMTT(30), <2>4, FdTableAssumption
      DEF LoopStep, IterTypeOK, FieldTypeOK, ControlTypeOK
    <3>2. ~(curfd <= maxfd) /\ yielded' = yielded
      BY <1>4, <2>4 DEF LoopStep, ReturnFd, ReturnNone, outVars
    <3>3. UNCHANGED <<maxfd, how, raced>>
      BY <2>4 DEF LoopStep, maxVars
    <3>4. /\ curfd > maxfd /\ UNCHANGED <<yielded, maxfd, how, raced>>
          /\ curfd \in Int /\ maxfd \in Int /\ maxfd # None /\ dir_minfd \in Int
      BY SMTT(30), <3>1, <3>2, <3>3
    <3>5. ASSUME NEW f \in Held, f >= dir_minfd PROVE f \in yielded \/ Excused(f)
      <4>1. f <= maxfd \/ Excused(f)
        BY <3>4 DEF MaxBound
      <4>2. f <= maxfd => f < curfd /\ dir_minfd <= f
        BY SMTT(30), <1>1, <3>4, <3>5
      <4> QED BY <4>1, <4>2 DEF Progress
    <3> QED BY <1>1, <1>2, <3>4, <3>5 DEF AllListed, Excused
  <2> QED BY <2>1, <2>2, <2>3, <2>4
<1> QED BY <1>3, <1>4 DEF AllListed

LEMMA AllListedUser ==
  ASSUME IterTypeOK, DirControl, Others => theirs \subseteq open, AfterNone, AllListed
  PROVE  /\ \A m, poss, skip, fs : IterFrom(m, poss, skip, fs) => AllListed'
         /\ CallNext => AllListed'
         /\ Drop => AllListed'
         /\ Others => AllListed'
<1> USE HeldUser DEF AllListed, Excused, maxVars, fieldVars, outVars
<1>1. ASSUME NEW m, NEW poss, NEW skip, NEW fs, IterFrom(m, poss, skip, fs)
      PROVE  AllListed'
  BY <1>1 DEF IterFrom, AfterNone
<1>2. ASSUME CallNext PROVE AllListed'
  BY <1>2 DEF CallNext
<1>3. ASSUME Drop PROVE AllListed'
  BY <1>3 DEF Drop
<1>4. ASSUME Others PROVE AllListed'
  <2>1. UNCHANGED <<maxfd, how, dir_minfd, yielded, ended>>
    BY <1>4, OthersFrame
  <2>2. raced => raced'
    BY <1>4, OthersFrame
  <2> QED BY <1>4, <2>1, <2>2
<1> QED BY <1>1, <1>2, <1>3, <1>4

(* threadsafe(true) keeps the nfds method out.                             *)
Threadsafe == skip_nfds => how # "nfds" /\ itpc # "scan"

LEMMA ThreadsafeNext ==
  ASSUME IterTypeOK, MaxControl, Threadsafe, [IterNext]_iterSpecVars
  PROVE  Threadsafe'
<1> USE DEF Threadsafe, fieldVars, maxVars
<1>1. CASE \E m, poss, skip, fs : IterFrom(m, poss, skip, fs)
  BY <1>1 DEF IterFrom, MaxControl
<1>2. CASE CallNext \/ Drop \/ Others \/ UNCHANGED iterSpecVars
  <2>1. CASE CallNext \/ Drop
    BY <2>1 DEF CallNext, Drop
  <2>2. CASE Others
    BY <2>2, OthersFrame
  <2>3. CASE UNCHANGED iterSpecVars
    BY <2>3 DEF iterSpecVars, iterVars
  <2> QED BY <1>2, <2>1, <2>2, <2>3
<1>3. CASE MaxfdStart \/ GetNfds \/ NfdsScan \/ Sysconf
  BY <1>3 DEF MaxfdStart, GetNfds, NfdsScan, Sysconf, SetMaxfd, NfdsMethod
<1>4. CASE \/ DirOpen \/ DirStat \/ DirExhausted \/ Getdents \/ DirEntry \/ DirEof
           \/ DirErr \/ LoopStep
  BY <1>4
  DEF DirOpen, DirStat, DirExhausted, Getdents, DirEntry, DirEof, DirErr,
      LoopStep, ReturnFd, ReturnNone
<1> QED BY <1>1, <1>2, <1>3, <1>4 DEF IterNext, IterUser, IterStep

(* The inductive invariant of the iterator, all its parts together.        *)
IterInv ==
  /\ IterOwnInv /\ Order /\ AfterNone
  /\ Progress /\ ScanCount /\ MaxBound /\ AllListed /\ Threadsafe

LEMMA IterInvInit == TableInit /\ IterInit => IterInv
<1> SUFFICES ASSUME TableInit, IterInit PROVE IterInv
  OBVIOUS
<1>1. IterOwnInv /\ Order
  BY IterOwnInit, OrderInit
<1>2. AfterNone /\ ScanCount /\ MaxBound /\ AllListed /\ Threadsafe
  BY DEF IterInit, AfterNone, ScanCount, MaxBound, AllListed, Threadsafe
<1>3. Progress
  <2>1. \A f \in Held : f \in Nat
    BY <1>1, HeldType DEF IterOwnInv
  <2> QED BY SMTT(30), <2>1 DEF IterInit, Progress
<1> QED BY <1>1, <1>2, <1>3 DEF IterInv

LEMMA IterInvNext ==
  ASSUME IterInv, [IterNext]_iterSpecVars
  PROVE  IterInv'
<1> USE DEF IterInv, IterOwnInv
<1>1. IterOwnInv' /\ Order' /\ AfterNone' /\ Threadsafe'
  BY IterOrderNext, IterFusedNext, ThreadsafeNext
  DEF IterOrderInv, IterFusedInv
<1>2. CASE IterStep
  BY <1>1, <1>2, ProgressStep, ScanCountStep, MaxBoundStep, AllListedStep
<1>3. CASE IterUser \/ Others
  <2>1. MinFds \subseteq Int /\ theirs \subseteq open
    BY SMTT(30), FdIterAssumption, FdTableAssumption DEF IntMin, Ownership
  <2>2. Progress'
    BY <1>3, <2>1, ProgressUser DEF IterUser
  <2>3. ScanCount' /\ MaxBound' /\ AllListed'
    BY <1>3, <2>1, ScanCountUser, MaxBoundUser, AllListedUser DEF IterUser
  <2> QED BY <1>1, <2>2, <2>3
<1>4. CASE UNCHANGED iterSpecVars
  BY <1>1, <1>4
  DEF Progress, ScanCount, MaxBound, AllListed, Excused, Held, Ahead,
      Remaining, iterSpecVars, iterVars, tableVars, fieldVars, dirVars,
      scanVars, maxVars, outVars
<1> QED BY <1>2, <1>3, <1>4 DEF IterNext

LEMMA IterInvariant == IterSpec => []IterInv
BY IterInvInit, IterInvNext, PTL DEF IterSpec, IterSpecInit

LEMMA IterInvComplete == IterInv => IterComplete
<1> SUFFICES ASSUME IterInv PROVE IterComplete
  OBVIOUS
<1>1. \A f \in steady : f \in Held
  BY DEF IterInv, IterOwnInv, Ownership, Held, IterTypeOK, TableTypeOK
<1> QED BY <1>1 DEF IterInv, AllListed, IterComplete

(* Completeness (IterComplete): when next() returns None, every descriptor *)
(* that was open all the time and is at least minfd has been returned, by  *)
(* the directory, by the maxfd loop, or by the one and then the other; the *)
(* only excuses are a sysconf() limit below the descriptor and an open()   *)
(* by another thread during the nfds scan.                                 *)
THEOREM IterListsAll == IterSpec => []IterComplete
BY IterInvariant, IterInvComplete, PTL

(* threadsafe(true) removes the second excuse (ThreadsafeComplete): with   *)
(* it, what other threads open and close cannot make the iterator miss a   *)
(* descriptor.                                                             *)
THEOREM ThreadsafeListsAll == IterSpec => []ThreadsafeComplete
<1>1. IterInv => ThreadsafeComplete
  BY IterInvComplete
  DEF IterInv, Threadsafe, IterComplete, ThreadsafeComplete, Excused
<1> QED BY <1>1, IterInvariant, PTL

(* Between two calls the rest of the buffer is above minfd: the last entry *)
(* that was returned is, and the buffer ascends.                           *)
AtRest ==
  itpc = "idle" /\ dirfd_iter /\ dirfd >= 0 =>
    \A j \in Remaining : dirent_buf[j] # NotFd => dirent_buf[j] >= dir_minfd

LEMMA AtRestStep ==
  ASSUME IterTypeOK, DirControl, Order, AtRest, IterStep
  PROVE  AtRest'
<1>1. CASE itpc' # "idle"
  BY <1>1 DEF AtRest
<1>2. CASE DirOpen \/ DirStat
  <2>1. Remaining' = {}
    BY SMTT(30), <1>2 DEF DirOpen, DirStat, DirControl, Remaining
  <2> QED BY <2>1 DEF AtRest
<1>3. CASE DirExhausted \/ DirEof
  <2>1. ~(dirfd' >= 0)
    BY SMTT(30), <1>3, FdTableAssumption
       DEF DirExhausted, DirEof, EofClose, dirVars, IterTypeOK, DirTypeOK
  <2> QED BY <2>1 DEF AtRest
<1>4. CASE LoopStep
  BY <1>4 DEF LoopStep, DirControl, AtRest, dirVars
<1>5. CASE DirEntry /\ itpc' = "idle"
  <2>1. /\ dirent_buf \in Seq(-1..FdMax) /\ dirent_offset \in 0..Len(dirent_buf)
        /\ dirfd_iter /\ dirent_offset < Len(dirent_buf) /\ dir_minfd \in Int
        /\ dirent_offset' = dirent_offset + 1 /\ UNCHANGED <<dirent_buf, dir_minfd>>
    BY SMTT(30), <1>5, FdTableAssumption
    DEF DirEntry, NextOffset, DirControl, IterTypeOK, DirTypeOK, FieldTypeOK,
        fieldVars
  <2>2. \A i \in 1..Len(dirent_buf) : dirent_buf[i] \in Int
    BY SMTT(30), <2>1, SeqElement, FdTableAssumption
  <2>3. Entry >= dir_minfd
    BY <1>5 DEF DirEntry, Eligible
  <2>4. \A j \in Remaining' : dirent_buf[j] > Entry
    BY SMTT(30), <2>1, <2>2 DEF Remaining, Entry, Order, IsAscending
  <2>5. \A j \in Remaining' : dirent_buf[j] >= dir_minfd
    BY SMTT(30), <2>1, <2>2, <2>3, <2>4 DEF Remaining, Entry
  <2> QED BY <2>1, <2>5 DEF AtRest
<1> QED
  BY <1>1, <1>2, <1>3, <1>4, <1>5
  DEF IterStep, Getdents, DirErr, MaxfdStart, GetNfds, NfdsScan, Sysconf,
      SetMaxfd

LEMMA AtRestUser ==
  ASSUME AtRest, DirControl
  PROVE  /\ \A m, poss, skip, fs : IterFrom(m, poss, skip, fs) => AtRest'
         /\ CallNext => AtRest'
         /\ Drop => AtRest'
         /\ Others => AtRest'
<1> USE DEF AtRest, Remaining, dirVars, fieldVars
<1>1. ASSUME NEW m, NEW poss, NEW skip, NEW fs, IterFrom(m, poss, skip, fs)
      PROVE  AtRest'
  BY <1>1 DEF IterFrom, DirControl
<1>2. ASSUME CallNext PROVE AtRest'
  BY <1>2 DEF CallNext
<1>3. ASSUME Drop PROVE AtRest'
  BY <1>3 DEF Drop
<1>4. ASSUME Others PROVE AtRest'
  BY <1>4, OthersFrame
<1> QED BY <1>1, <1>2, <1>3, <1>4

(* The debug_assert!s of FdIter::next and DirFdIter::size_hint cannot fail *)
(* (IterAsserts): the directory never returns a descriptor below curfd,    *)
(* and what size_hint() counts is never below minfd.                       *)
THEOREM IterAssertsHold == IterSpec => []IterAsserts
<1> DEFINE Inv == IterOrderInv /\ AtRest
<1>1. TableInit /\ IterInit => Inv
  <2>1. IterInit => AtRest
    BY DEF AtRest, IterInit
  <2> QED BY <2>1, IterOwnInit, OrderInit DEF IterOrderInv
<1>2. Inv /\ [IterNext]_iterSpecVars => Inv'
  <2> SUFFICES ASSUME Inv, [IterNext]_iterSpecVars PROVE Inv'
    OBVIOUS
  <2>1. IterOrderInv'
    BY IterOrderNext
  <2>2. CASE IterStep
    BY <2>1, <2>2, AtRestStep DEF IterOrderInv, IterOwnInv
  <2>3. CASE IterUser \/ Others
    BY <2>1, <2>3, AtRestUser DEF IterOrderInv, IterOwnInv, IterUser
  <2>4. CASE UNCHANGED iterSpecVars
    BY <2>1, <2>4
    DEF AtRest, Remaining, iterSpecVars, iterVars, fieldVars, dirVars
  <2> QED BY <2>2, <2>3, <2>4 DEF IterNext
<1>3. Inv => IterAsserts
  <2> SUFFICES ASSUME Inv PROVE IterAsserts
    OBVIOUS
  <2>1. ASSUME itpc = "dir", Remaining # {}, Eligible(Entry) PROVE Entry >= curfd
    <3>1. dirent_offset \in Nat /\ dirfd_iter /\ Len(dirent_buf) \in Nat
      BY SMTT(30), <2>1
      DEF IterOrderInv, IterOwnInv, IterTypeOK, DirTypeOK, DirControl
    <3>2. dirent_offset + 1 \in Remaining
      BY SMTT(30), <2>1, <3>1 DEF Remaining
    <3> QED BY <2>1, <3>1, <3>2 DEF IterOrderInv, Order, Entry, Eligible
  <2> QED BY <2>1 DEF IterAsserts, AtRest
<1> QED BY <1>1, <1>2, <1>3, PTL DEF IterSpec, IterSpecInit

-----------------------------------------------------------------------------
(* What one step of a call to next() does, for the code that drives it.    *)

LEMMA IterStepPc ==
  ASSUME IterStep
  PROVE  /\ itpc \notin {"none", "idle", "gone"}
         /\ itpc' \notin {"none", "open", "gone"}
         /\ itpc \in {"open", "stat"} => itpc' \in {"stat", "idle"} /\ item' = item
         /\ itpc \notin {"open", "stat"} => itpc' # "stat"
<1>1. CASE DirOpen \/ DirStat
  BY <1>1 DEF DirOpen, DirStat, outVars
<1>2. CASE DirExhausted \/ Getdents \/ DirEntry
  BY <1>2 DEF DirExhausted, Getdents, DirEntry, ReturnNone, ReturnFd
<1>3. CASE DirEof \/ DirErr \/ LoopStep
  BY <1>3 DEF DirEof, DirErr, LoopStep, ReturnNone, ReturnFd
<1>4. CASE MaxfdStart \/ GetNfds \/ NfdsScan \/ Sysconf
  BY <1>4, MaxfdFrame
<1> QED BY <1>1, <1>2, <1>3, <1>4 DEF IterStep

(* A step of the iterator returns a descriptor, returns None, or neither.  *)
ItemStep ==
  /\ itpc \in {"dir", "loop"} /\ itpc' = "idle"
  /\ item' \in Int /\ item' >= curfd /\ curfd' = item' + 1
  /\ yielded' = yielded \cup {item'}

NoneStep ==
  /\ itpc \in {"dir", "eof", "loop"} /\ itpc' = "idle"
  /\ item' = None /\ ended' /\ UNCHANGED <<yielded, curfd>>

QuietStep ==
  /\ UNCHANGED <<item, yielded, ended>>
  /\ curfd' \in {curfd, curfd + 1}
  /\ itpc' = "idle" => itpc \in {"open", "stat"}

LEMMA IterStepKinds ==
  ASSUME IterTypeOK, DirControl, Order, IterStep
  PROVE  (ItemStep \/ NoneStep \/ QuietStep) /\ UNCHANGED dir_minfd
<1>1. CASE DirOpen \/ DirStat
  BY <1>1 DEF DirOpen, DirStat, QuietStep, outVars, fieldVars
<1>2. CASE DirExhausted \/ DirEof
  BY <1>2 DEF DirExhausted, DirEof, ReturnNone, NoneStep, fieldVars
<1>3. CASE Getdents \/ DirErr
  BY <1>3 DEF Getdents, DirErr, QuietStep, outVars, fieldVars
<1>4. CASE MaxfdStart \/ GetNfds \/ NfdsScan \/ Sysconf
  BY <1>4, MaxfdFrame DEF QuietStep, outVars, fieldVars
<1>5. CASE DirEntry
  <2>1. CASE Eligible(Entry)
    <3>1. Entry \in Int /\ Entry >= curfd
      BY SMTT(30), <1>5, <2>1, OrderDirEntry, SeqElement, FdTableAssumption
         DEF DirEntry, Entry, IterTypeOK, DirTypeOK
    <3> QED BY <1>5, <2>1, <3>1
            DEF DirEntry, ReturnFd, After, ItemStep, fieldVars
  <2>2. CASE ~Eligible(Entry)
    BY <1>5, <2>2 DEF DirEntry, QuietStep, outVars, fieldVars
  <2> QED BY <2>1, <2>2
<1>6. CASE LoopStep
  <2>1. curfd \in Int
    BY SMTT(30), FdTableAssumption DEF IterTypeOK, FieldTypeOK
  <2> QED
    BY SMTT(30), <1>6, <2>1
    DEF LoopStep, ReturnFd, ReturnNone, ItemStep, NoneStep, QuietStep,
       outVars, fieldVars
<1> QED BY <1>1, <1>2, <1>3, <1>4, <1>5, <1>6 DEF IterStep

-----------------------------------------------------------------------------
(* size_hint().                                                            *)

(* Once a descriptor was returned, no entry below minfd is left to come:   *)
(* what size_hint() counts in the buffer will be returned.                 *)
HintInv ==
  /\ itpc \in {"none", "open", "stat"} => item = None
  /\ itpc \in {"eof", "err"} => Remaining = {}
  /\ item # None /\ dirfd_iter =>
       /\ dir_minfd <= dirpos
       /\ \A j \in Remaining : dirent_buf[j] >= dir_minfd

(* The entry at the head of the buffer.                                    *)
LEMMA HeadEntry ==
  ASSUME IterTypeOK, DirControl, DirEntry
  PROVE  /\ Remaining' = Remaining \ {dirent_offset + 1}
         /\ dirent_offset + 1 \in Remaining /\ dirent_offset + 1 \in DOMAIN dirent_buf
         /\ UNCHANGED <<dirent_buf, dirpos, dirfd, dirfd_iter, dir_minfd>> /\ dirfd_iter
         /\ \A j \in Remaining : j \in DOMAIN dirent_buf /\ dirent_buf[j] \in Int
         /\ dirpos \in Int /\ dir_minfd \in Int /\ dir_minfd >= 0
<1>1. /\ dirent_buf \in Seq(-1..FdMax) /\ dirent_offset \in 0..Len(dirent_buf)
      /\ dirfd_iter /\ dirent_offset < Len(dirent_buf)
      /\ dirent_offset' = dirent_offset + 1
      /\ UNCHANGED <<dirent_buf, dirpos, dirfd, dirfd_iter, dir_minfd>>
      /\ dirpos \in Int /\ dir_minfd \in Int /\ dir_minfd >= 0
  BY SMTT(30), FdTableAssumption
  DEF DirEntry, NextOffset, DirControl, IterTypeOK, DirTypeOK, FieldTypeOK,
      fieldVars
<1>2. \A j \in 1..Len(dirent_buf) : dirent_buf[j] \in Int
  BY SMTT(30), <1>1, SeqElement, FdTableAssumption
<1>3. DOMAIN dirent_buf = 1..Len(dirent_buf) /\ Len(dirent_buf) \in Nat
  BY SMTT(30), <1>1
<1>4. dirent_offset \in Nat
  BY SMTT(30), <1>1, <1>3
<1>5. \A j \in Remaining : j \in 1..Len(dirent_buf)
  BY SMTT(30), <1>3, <1>4 DEF Remaining
<1>6. Remaining' = Remaining \ {dirent_offset + 1}
  BY SMTT(30), <1>1, <1>3, <1>4 DEF Remaining
<1>7. dirent_offset + 1 \in Remaining
  BY SMTT(30), <1>1, <1>3, <1>4 DEF Remaining
<1> QED BY <1>1, <1>2, <1>3, <1>5, <1>6, <1>7

LEMMA HintInvStep ==
  ASSUME IterTypeOK, DirControl, Order, HintInv, IterStep
  PROVE  HintInv'
<1>1. CASE DirOpen \/ DirStat
  <2>1. item' = None
    BY <1>1 DEF DirOpen, DirStat, HintInv, outVars
  <2> QED BY <1>1, <2>1 DEF DirOpen, DirStat, HintInv
<1>2. CASE DirExhausted \/ DirEof
  BY <1>2 DEF DirExhausted, DirEof, ReturnNone, HintInv
<1>3. CASE Getdents
  <2>1. /\ UNCHANGED <<item, dirfd_iter, dir_minfd>> /\ dirfd_iter /\ ~wsl1
        /\ dirpos \in Int /\ dir_minfd \in Int /\ dirent_offset \in Nat
        /\ Len(dirent_buf) \in Nat /\ itpc = "dir" /\ itpc' \in {"dir", "eof", "err"}
    BY SMTT(30), <1>3, FdTableAssumption
    DEF Getdents, DirControl, IterTypeOK, DirTypeOK, FieldTypeOK, outVars,
        fieldVars
  <2>2. CASE UNCHANGED <<dirent_buf, dirent_offset, dirpos>>
    <3>1. Remaining = {}
      BY SMTT(30), <1>3, <2>1 DEF Getdents, Remaining
    <3>2. Remaining' = {}
      BY <2>2, <3>1 DEF Remaining
    <3> QED BY <2>1, <2>2, <3>2 DEF HintInv
  <2>3. ASSUME NEW s \in Listing, dirent_buf' = s, dirent_offset' = 0,
               dirpos' = s[Len(s)] + 1, UNCHANGED itpc
        PROVE  HintInv'
    <3>1. /\ s \in Seq(-1..FdMax) /\ Len(s) \in Nat /\ Len(s) >= 1
          /\ DOMAIN s = 1..Len(s)
      BY SMTT(30), ListingType DEF IterTypeOK
    <3>2. \A j \in 1..Len(s) : s[j] >= dirpos
      BY <2>1, <3>1 DEF Listing, Values
    <3>3. \A j \in 1..Len(s) : s[j] \in Int
      BY SMTT(30), <3>1, SeqElement, FdTableAssumption
    <3>4. Remaining' = 1..Len(s)
      BY SMTT(30), <2>3, <3>1 DEF Remaining
    <3>5. s[Len(s)] \in Int /\ s[Len(s)] >= dirpos
      BY SMTT(30), <3>1, <3>2, <3>3
    <3>6. item # None => dir_minfd <= dirpos
      BY <2>1 DEF HintInv
    <3>7. item' # None => dir_minfd' <= dirpos' /\ \A j \in Remaining' : dirent_buf'[j] >= dir_minfd'
      BY SMTT(30), <2>1, <2>3, <3>2, <3>3, <3>4, <3>5, <3>6
    <3> QED BY <2>1, <2>3, <3>7 DEF HintInv
  <2> QED BY <1>3, <2>2, <2>3 DEF Getdents
<1>4. CASE DirEntry
  <2>1. itpc' \in {"dir", "idle"}
    BY <1>4 DEF DirEntry, ReturnFd
  <2>2. ASSUME item' # None
        PROVE  dir_minfd <= dirpos /\ \A j \in Remaining' : dirent_buf[j] >= dir_minfd
    <3>1. CASE Eligible(Entry)
      <4>1. Entry >= dir_minfd /\ Entry \in Int /\ Entry < dirpos
        BY <1>4, <3>1, HeadEntry DEF Eligible, Entry, Order
      <4>2. \A j \in Remaining' : dirent_buf[j] > Entry
        <5>1. \A j \in Remaining' : j > dirent_offset + 1
          BY SMTT(30), <1>4, HeadEntry DEF Remaining, IterTypeOK, DirTypeOK
        <5> QED BY <1>4, <5>1, HeadEntry DEF Entry, Order, IsAscending
      <4> QED BY SMTT(30), <1>4, <4>1, <4>2, HeadEntry
    <3>2. CASE ~Eligible(Entry)
      BY <1>4, <2>2, <3>2, HeadEntry DEF DirEntry, HintInv, outVars
    <3> QED BY <3>1, <3>2
  <2> QED BY <1>4, <2>1, <2>2, HeadEntry DEF HintInv
<1>5. CASE DirErr
  BY <1>5 DEF DirErr, NoDir, HintInv
<1>6. CASE MaxfdStart \/ GetNfds \/ NfdsScan \/ Sysconf
  BY SMTT(30), <1>6, MaxfdFrame DEF HintInv, DirControl, dirVars
<1>7. CASE LoopStep
  BY <1>7 DEF LoopStep, ReturnFd, ReturnNone, HintInv, DirControl, dirVars
<1> QED BY <1>1, <1>2, <1>3, <1>4, <1>5, <1>6, <1>7 DEF IterStep

LEMMA HintInvUser ==
  ASSUME DirControl, HintInv
  PROVE  /\ \A m, poss, skip, fs : IterFrom(m, poss, skip, fs) => HintInv'
         /\ CallNext => HintInv'
         /\ Drop => HintInv'
         /\ Others => HintInv'
<1> USE DEF HintInv, Remaining, dirVars, fieldVars, outVars
<1>1. ASSUME NEW m, NEW poss, NEW skip, NEW fs, IterFrom(m, poss, skip, fs)
      PROVE  HintInv'
  BY <1>1 DEF IterFrom, DirControl
<1>2. ASSUME CallNext PROVE HintInv'
  BY <1>2 DEF CallNext
<1>3. ASSUME Drop PROVE HintInv'
  BY <1>3 DEF Drop, NoDir
<1>4. ASSUME Others PROVE HintInv'
  BY SMTT(30), <1>4, OthersFrame
<1> QED BY <1>1, <1>2, <1>3, <1>4

(* The entries size_hint() counts.                                         *)
Counted == {j \in Remaining : Hinted(dirent_buf[j])}

LEMMA HintTypes ==
  IterTypeOK =>
    /\ IsFiniteSet(Counted) /\ Cardinality(Counted) \in Nat
    /\ HintLow \in Nat /\ HintHigh \in Nat
<1> SUFFICES ASSUME IterTypeOK
             PROVE  /\ IsFiniteSet(Counted) /\ Cardinality(Counted) \in Nat
                    /\ HintLow \in Nat /\ HintHigh \in Nat
  OBVIOUS
<1>1. dirent_offset \in Int /\ Len(dirent_buf) \in Int
  BY SMTT(30) DEF IterTypeOK, DirTypeOK
<1>2. IsFiniteSet(Remaining)
  <2>1. dirent_offset + 1 \in Int
    BY SMTT(30), <1>1
  <2> QED BY <1>1, <2>1, FS_Interval DEF Remaining
<1>3. IsFiniteSet(Counted)
  BY <1>2, FS_Subset DEF Counted
<1>4. Cardinality(Counted) \in Nat
  BY <1>3, FS_CardinalityType
<1>5. maxfd # None => LoopLeft \in Nat
  BY SMTT(30), FdTableAssumption DEF IterTypeOK, FieldTypeOK, LoopLeft
<1>6. HintLow \in Nat
  BY <1>4, <1>5 DEF HintLow, Counted
<1>7. HintHigh \in Nat
  BY <1>5, FdTableAssumption DEF HintHigh
<1> QED BY <1>3, <1>4, <1>6, <1>7

(* size_hint() when nothing is known yet, and while a directory is read.   *)
HintValue ==
  /\ HintLow \in Nat /\ HintHigh \in Nat
  /\ dirfd_iter /\ dirfd < 0 => HintLow = 0 /\ HintHigh = 0
  /\ dirfd_iter /\ dirfd >= 0 => HintLow = Cardinality(Counted) /\ HintHigh = IntMax
  /\ dirfd_iter /\ dirfd >= 0 /\ Remaining = {} => HintLow = 0
  /\ ~dirfd_iter /\ maxfd # None =>
       HintLow = (IF possible THEN LoopLeft ELSE 0) /\ HintHigh = LoopLeft
  /\ ~dirfd_iter /\ maxfd = None => HintLow = 0 /\ HintHigh = IntMax

LEMMA HintValues == IterTypeOK => HintValue
<1> SUFFICES ASSUME IterTypeOK PROVE HintValue
  OBVIOUS
<1>1. dirfd \in Int /\ ~(dirfd < 0 /\ dirfd >= 0)
  BY SMTT(30), FdTableAssumption DEF IterTypeOK, DirTypeOK
<1>2. Remaining = {} => Counted = {}
  BY DEF Counted
<1> QED BY <1>1, <1>2, HintTypes, FS_EmptySet
        DEF HintValue, HintLow, HintHigh, Counted

LEMMA HintsNext == IterTypeOK' => HintValue'
BY HintValues, PTL

(* The entries of the buffer are different descriptors: there are not more *)
(* of them than descriptors.                                               *)
LEMMA HintOrder ==
  ASSUME IterTypeOK, Order
  PROVE  HintLow <= HintHigh
<1>1. CASE dirfd_iter /\ dirfd >= 0
  <2> DEFINE T == 0..FdMax
             g == [j \in Counted |-> dirent_buf[j]]
  <2>1. dirent_buf \in Seq(-1..FdMax) /\ dirent_offset \in Nat /\ IsAscending(dirent_buf)
    BY SMTT(30), <1>1 DEF IterTypeOK, DirTypeOK, Order
  <2>2. \A j \in Counted : j \in 1..Len(dirent_buf) /\ j \in DOMAIN dirent_buf
    BY SMTT(30), <2>1 DEF Counted, Remaining
  <2>3. \A j \in Counted : dirent_buf[j] \in T
    <3>1. \A j \in Counted : dirent_buf[j] \in -1..FdMax /\ dirent_buf[j] # -1
      BY <2>1, <2>2, SeqElement DEF Counted, Hinted, NotFd
    <3> QED BY SMTT(30), <3>1, FdTableAssumption
  <2>4. \A j, k \in Counted : j # k => dirent_buf[j] # dirent_buf[k]
    <3>1. \A j, k \in Counted : j < k => dirent_buf[j] < dirent_buf[k]
      BY <2>1, <2>2 DEF IsAscending
    <3>2. \A j \in Counted : j \in Int /\ dirent_buf[j] \in Int
      BY SMTT(30), <2>2, <2>3
    <3> QED BY SMTT(30), <3>1, <3>2
  <2>5. IsFiniteSet(T) /\ Cardinality(T) = FdMax + 1
    BY SMTT(30), FS_Interval, FdTableAssumption
  <2>6. IsFiniteSet(Counted) /\ Cardinality(Counted) \in Nat
    BY HintTypes
  <2>7. ~(Cardinality(T) < Cardinality(Counted))
    <3>1. g \in [Counted -> T]
      BY <2>3
    <3>2. \A j \in Counted : g[j] = dirent_buf[j]
      OBVIOUS
    <3> HIDE DEF g, T
    <3>3. ASSUME Cardinality(T) < Cardinality(Counted)
          PROVE  \E x, y \in Counted : x # y /\ g[x] = g[y]
      BY <2>5, <2>6, <3>1, <3>3, FS_PigeonHole
    <3> QED BY <2>4, <3>2, <3>3
  <2>8. HintLow = Cardinality(Counted) /\ HintHigh = IntMax
    BY <1>1, HintValues DEF HintValue
  <2> QED BY SMTT(30), <2>5, <2>6, <2>7, <2>8, FdTableAssumption
<1>2. CASE ~(dirfd_iter /\ dirfd >= 0)
  <2>1. dirfd \in Int
    BY SMTT(30), FdTableAssumption DEF IterTypeOK, DirTypeOK
  <2> QED BY SMTT(30), <1>2, <2>1, HintValues, FdTableAssumption DEF HintValue
<1> QED BY <1>1, <1>2

(* What SizeHintHonest says of one step.                                   *)
HintStep ==
  itpc' # "gone" =>
    LET given == IF GivesFd THEN 1 ELSE 0 IN
      /\ GivesNone => HintLow = 0
      /\ item # None => HintLow' >= HintLow - given
      /\ GivesFd => HintHigh > 0
      /\ HintHigh < IntMax => HintHigh' <= HintHigh - given

(* Without a bound that is known a step has nothing to keep.               *)
LEMMA NothingHinted ==
  ASSUME IterTypeOK, IterTypeOK', HintLow = 0, HintHigh = IntMax, ~GivesFd
  PROVE  HintStep
BY SMTT(30), HintTypes, HintsNext, FdTableAssumption DEF HintStep, HintValue

LEMMA SameHints ==
  ASSUME IterTypeOK, UNCHANGED <<dirVars, fieldVars, curfd, maxVars>>, ~GivesFd, ~GivesNone
  PROVE  HintStep
<1>1. HintLow' = HintLow
  BY DEF HintLow, Remaining, Hinted, LoopLeft, dirVars, fieldVars, maxVars
<1>2. HintHigh' = HintHigh
  BY DEF HintHigh, LoopLeft, dirVars, fieldVars, maxVars
<1> QED BY SMTT(30), <1>1, <1>2, HintTypes DEF HintStep

LEMMA HintDirEntry ==
  ASSUME IterTypeOK, IterTypeOK', DirControl, HintInv, DirEntry
  PROVE  HintStep
<1>1. /\ dirfd_iter /\ dirfd >= 0 /\ UNCHANGED <<dirfd_iter, dirfd, dirent_buf>>
      /\ Remaining' = Remaining \ {dirent_offset + 1}
      /\ dirent_offset + 1 \in Remaining
  BY HeadEntry DEF DirEntry
<1>2. /\ HintLow = Cardinality(Counted) /\ HintHigh = IntMax
      /\ HintLow' = Cardinality(Counted')
  <2>1. dirfd_iter' /\ dirfd' >= 0
    BY <1>1
  <2> QED BY <1>1, <2>1, HintValues, HintsNext DEF HintValue
<1>3. Counted' = Counted \ {dirent_offset + 1}
  BY <1>1 DEF Counted, Hinted
<1>4. Cardinality(Counted') =
        IF dirent_offset + 1 \in Counted THEN Cardinality(Counted) - 1
        ELSE Cardinality(Counted)
  BY <1>3, HintTypes, FS_RemoveElement
<1>5. ~GivesNone
  <2>1. itpc' = "idle" => item' = Entry /\ Entry \in Int
    BY HeadEntry DEF DirEntry, ReturnFd, Entry
  <2> QED BY <2>1, FdIterAssumption DEF GivesNone
<1>6. GivesFd <=> Eligible(Entry)
  <2>1. Entry \in Int
    BY HeadEntry DEF Entry
  <2> QED BY <2>1, FdIterAssumption DEF GivesFd, DirEntry, ReturnFd
<1>7. item # None /\ ~Eligible(Entry) => dirent_offset + 1 \notin Counted
  BY <1>1 DEF HintInv, Eligible, Counted, Hinted, Entry
<1>8. IntMax > 0
  BY SMTT(30), FdTableAssumption
<1> QED BY SMTT(30), <1>2, <1>4, <1>5, <1>6, <1>7, <1>8, HintTypes DEF HintStep

LEMMA HintLoopStep ==
  ASSUME IterTypeOK, IterTypeOK', DirControl, LoopStep
  PROVE  HintStep
<1>1. /\ ~dirfd_iter /\ ~dirfd_iter' /\ UNCHANGED <<maxfd, possible>> /\ maxfd # None
      /\ maxfd \in Int /\ curfd \in Int /\ possible \in BOOLEAN
  BY SMTT(30), FdTableAssumption
  DEF LoopStep, DirControl, IterTypeOK, FieldTypeOK, ControlTypeOK,
     dirVars, maxVars, fieldVars
<1>2. /\ HintLow = (IF possible THEN LoopLeft ELSE 0) /\ HintHigh = LoopLeft
      /\ HintLow' = (IF possible THEN LoopLeft' ELSE 0) /\ HintHigh' = LoopLeft'
  BY <1>1, HintValues, HintsNext DEF HintValue
<1>3. CASE curfd <= maxfd
  <2>1. LoopLeft > 0 /\ LoopLeft' = LoopLeft - 1 /\ LoopLeft \in Int
    BY SMTT(30), <1>1, <1>3 DEF LoopStep, LoopLeft
  <2>2. ~GivesNone /\ (possible => GivesFd)
    BY <1>1, <1>3, FdIterAssumption DEF LoopStep, ReturnFd, GivesNone, GivesFd
  <2> QED BY SMTT(30), <1>1, <1>2, <2>1, <2>2 DEF HintStep
<1>4. CASE ~(curfd <= maxfd)
  <2>1. LoopLeft = 0 /\ LoopLeft' = 0
    BY SMTT(30), <1>1, <1>4 DEF LoopStep, LoopLeft
  <2>2. ~GivesFd
    BY <1>4 DEF LoopStep, ReturnNone, GivesFd
  <2> QED BY SMTT(30), <1>2, <2>1, <2>2 DEF HintStep
<1> QED BY <1>3, <1>4

LEMMA HintNext ==
  ASSUME IterOwnInv, IterOwnInv', HintInv, [IterNext]_iterSpecVars
  PROVE  HintStep
<1> USE DEF IterOwnInv
<1>1. CASE DirOpen \/ DirStat
  <2>1. itpc \in {"open", "stat"} /\ ~GivesFd
    BY <1>1 DEF DirOpen, DirStat, GivesFd
  <2>2. HintLow = 0 /\ HintHigh = IntMax
    BY <2>1, HintValues DEF HintValue, DirControl, MaxControl
  <2> QED BY <2>1, <2>2, NothingHinted
<1>2. CASE DirExhausted
  <2>1. /\ dirfd_iter /\ dirfd < 0 /\ dirfd_iter' /\ dirfd' < 0 /\ ~GivesFd
    BY <1>2 DEF DirExhausted, DirControl, ReturnNone, GivesFd, dirVars
  <2>2. HintLow = 0 /\ HintHigh = 0 /\ HintLow' = 0 /\ HintHigh' = 0
    BY <2>1, HintValues, HintsNext DEF HintValue
  <2> QED BY SMTT(30), <2>1, <2>2 DEF HintStep
<1>3. CASE Getdents \/ DirEof \/ DirErr
  <2>1. dirfd_iter /\ dirfd >= 0 /\ ~GivesFd
    BY <1>3 DEF Getdents, DirEof, DirErr, ReturnNone, DirControl, GivesFd
  <2>2. Remaining = {}
    <3>1. CASE Getdents
      BY SMTT(30), <3>1 DEF Getdents, Remaining, IterTypeOK, DirTypeOK
    <3> QED BY <1>3, <3>1 DEF DirEof, DirErr, HintInv
  <2>3. HintLow = 0 /\ HintHigh = IntMax
    BY <2>1, <2>2, HintValues DEF HintValue
  <2> QED BY <2>1, <2>3, NothingHinted
<1>4. CASE DirEntry
  BY <1>4, HintDirEntry
<1>5. CASE MaxfdStart \/ GetNfds \/ NfdsScan \/ Sysconf
  <2>1. itpc \in {"maxfd", "scan", "sysconf"} /\ ~GivesFd
    BY <1>5, MaxfdFrame DEF GivesFd
  <2>2. HintLow = 0 /\ HintHigh = IntMax
    BY <2>1, HintValues DEF HintValue, DirControl, MaxControl
  <2> QED BY <2>1, <2>2, NothingHinted
<1>6. CASE LoopStep
  BY <1>6, HintLoopStep
<1>7. ASSUME NEW m, NEW poss, NEW skip, NEW fs, IterFrom(m, poss, skip, fs)
      PROVE  HintStep
  <2>1. itpc = "none" /\ ~GivesFd
    BY <1>7 DEF IterFrom, GivesFd
  <2>2. HintLow = 0 /\ HintHigh = IntMax
    BY <2>1, HintValues DEF HintValue, DirControl, MaxControl
  <2> QED BY <2>1, <2>2, NothingHinted
<1>8. CASE CallNext
  BY <1>8, SameHints DEF CallNext, GivesFd, GivesNone
<1>9. CASE Drop
  BY <1>9 DEF Drop, HintStep
<1>10. CASE Others
  BY <1>10, SameHints, OthersFrame DEF GivesFd, GivesNone
<1>11. CASE UNCHANGED iterSpecVars
  <2>1. UNCHANGED <<dirVars, fieldVars, curfd, maxVars, itpc>>
    BY <1>11 DEF iterSpecVars, iterVars
  <2> QED BY <2>1, SameHints DEF GivesFd, GivesNone
<1> QED
  BY <1>1, <1>2, <1>3, <1>4, <1>5, <1>6, <1>7, <1>8, <1>9, <1>10, <1>11
     DEF IterNext, IterUser, IterStep

LEMMA HintInvNext ==
  ASSUME IterOrderInv, HintInv, [IterNext]_iterSpecVars
  PROVE  HintInv'
<1> USE DEF IterOrderInv, IterOwnInv
<1>1. CASE IterStep
  BY <1>1, HintInvStep
<1>2. CASE IterUser \/ Others
  BY <1>2, HintInvUser DEF IterUser
<1>3. CASE UNCHANGED iterSpecVars
  BY <1>3
  DEF HintInv, Remaining, iterSpecVars, iterVars, dirVars, fieldVars, outVars
<1> QED BY <1>1, <1>2, <1>3 DEF IterNext

(* size_hint() keeps its word (SizeHintHonest), with any capacity of the   *)
(* directory buffer, on every path through next() and whatever others open *)
(* and close between two calls or during one.                              *)
THEOREM SizeHintKeepsItsWord == IterSpec => SizeHintHonest
<1> DEFINE Inv == IterOrderInv /\ HintInv
<1>1. TableInit /\ IterInit => Inv
  <2>1. IterInit => HintInv
    BY DEF HintInv, IterInit
  <2> QED BY <2>1, IterOwnInit, OrderInit DEF IterOrderInv
<1>2. Inv /\ [IterNext]_iterSpecVars => Inv'
  BY IterOrderNext, HintInvNext
<1>3. Inv /\ [IterNext]_iterSpecVars => [HintStep]_iterSpecVars
  BY IterOrderNext, HintNext DEF IterOrderInv
<1>4. IterSpec => [][HintStep]_iterSpecVars
  BY <1>1, <1>2, <1>3, PTL DEF IterSpec, IterSpecInit
<1> QED BY <1>4 DEF SizeHintHonest, HintStep

-----------------------------------------------------------------------------
(* A call takes a bounded number of steps.                                 *)

LEMMA Product ==
  \A a, w \in Nat : a * w \in Nat /\ (a + 1) * w = a * w + w
BY SMTT(30)

LEMMA ProductMonotone ==
  \A a, b, w \in Nat : a <= b => a * w <= b * w
<1> TAKE a, b, w \in Nat
<1> SUFFICES ASSUME a <= b PROVE a * w <= b * w
  OBVIOUS
<1>1. b - a \in Nat /\ b = a + (b - a)
  BY SMTT(30)
<1>2. (b - a) * w \in Nat /\ a * w \in Nat
  BY <1>1, Product
<1>3. b * w = a * w + (b - a) * w
  BY SMTT(30), <1>1
<1> QED BY SMTT(30), <1>2, <1>3

(* The lexicographic order of two numbers, the second of them below w.     *)
LEMMA Lexicographic ==
  \A p, q, l, m, w \in Nat :
    \/ p < q /\ l < w + m
    \/ p <= q /\ l < m
    => p * w + l < q * w + m
<1> TAKE p, q, l, m, w \in Nat
<1>1. p * w \in Nat /\ q * w \in Nat /\ (p + 1) * w = p * w + w
  BY Product
<1>2. p <= q => p * w <= q * w
  BY ProductMonotone
<1>3. p < q => p * w + w <= q * w
  <2>1. p < q => p + 1 <= q /\ p + 1 \in Nat
    BY SMTT(30)
  <2>2. p < q => (p + 1) * w <= q * w
    BY <2>1, ProductMonotone
  <2> QED BY <1>1, <2>2
<1> HIDE DEF Product
<1> QED BY SMTT(30), <1>1, <1>2, <1>3

LEMMA DirLeftType ==
  ASSUME IterTypeOK
  PROVE  DirLeft \in Nat /\ DirMost \in Nat
<1>1. FdMax + 1 - dirpos \in Nat /\ BufCap + 1 \in Nat /\ FdMax + 2 \in Nat
  BY SMTT(30), FdTableAssumption, FdIterAssumption DEF IterTypeOK, DirTypeOK
<1>2. Len(dirent_buf) - dirent_offset \in Nat
  BY SMTT(30) DEF IterTypeOK, DirTypeOK
<1>3. (FdMax + 1 - dirpos) * (BufCap + 1) \in Nat /\ DirMost \in Nat
  BY <1>1, Product DEF DirMost
<1>4. \A a, b \in Nat : a + b \in Nat
  BY SMTT(30)
<1> QED BY <1>2, <1>3, <1>4 DEF DirLeft

(* ItemsLeft and CallLeft, case by case.                                   *)
LeftValue ==
  /\ ItemsLeft \in Nat /\ CallLeft \in Nat /\ DirLeft \in Nat
  /\ itpc \in Opening => ItemsLeft = DirMost + IntMax + 1
  /\ itpc \notin Opening =>
       /\ dirfd_iter /\ dirfd >= 0 => ItemsLeft = DirLeft + IntMax + 1
       /\ dirfd_iter /\ dirfd < 0 => ItemsLeft = 0
       /\ ~dirfd_iter /\ maxfd = None => ItemsLeft = IntMax + 1
       /\ ~dirfd_iter /\ maxfd # None => ItemsLeft = LoopLeft /\ LoopLeft <= IntMax
  /\ itpc = "dir" => CallLeft = 2 * NfdsCutoff + 6
  /\ itpc = "err" => CallLeft = 2 * NfdsCutoff + 5
  /\ itpc = "maxfd" => CallLeft = 2 * NfdsCutoff + 4
  /\ itpc = "scan" => CallLeft = 3 + ScanLeft /\ ScanLeft \in Nat
  /\ itpc \in {"open", "sysconf"} => CallLeft = 2
  /\ itpc \in {"stat", "eof", "loop"} => CallLeft = 1
  /\ itpc \in {"none", "idle", "gone"} => CallLeft = 0

LEMMA LeftValues == IterTypeOK => LeftValue
<1> SUFFICES ASSUME IterTypeOK PROVE LeftValue
  OBVIOUS
<1>1. dirfd \in Int /\ ~(dirfd < 0 /\ dirfd >= 0) /\ (dirfd < 0 \/ dirfd >= 0)
  BY SMTT(30), FdTableAssumption DEF IterTypeOK, DirTypeOK
<1>2. maxfd # None => LoopLeft \in Nat /\ LoopLeft <= IntMax
  BY SMTT(30), FdTableAssumption DEF IterTypeOK, FieldTypeOK, LoopLeft
<1>3. ScanLeft \in Nat
  BY SMTT(30) DEF IterTypeOK, ControlTypeOK, ScanLeft
<1>4. /\ DirMost + IntMax + 1 \in Nat /\ DirLeft + IntMax + 1 \in Nat
      /\ IntMax + 1 \in Nat /\ DirLeft \in Nat
  <2>1. \A a, b \in Nat : a + b + 1 \in Nat /\ b + 1 \in Nat
    BY SMTT(30)
  <2> QED BY <2>1, DirLeftType, FdTableAssumption
<1>5. /\ 2 * NfdsCutoff + 6 \in Nat /\ 2 * NfdsCutoff + 5 \in Nat
      /\ 2 * NfdsCutoff + 4 \in Nat /\ 3 + ScanLeft \in Nat
      /\ 0 \in Nat /\ 1 \in Nat /\ 2 \in Nat
  BY SMTT(30), <1>3, FdIterAssumption
<1>6. itpc \in ItPc /\ dirfd_iter \in BOOLEAN
  BY DEF IterTypeOK, ControlTypeOK, DirTypeOK
<1>7. /\ ItemsLeft \in Nat
      /\ itpc \in Opening => ItemsLeft = DirMost + IntMax + 1
      /\ itpc \notin Opening =>
           /\ dirfd_iter /\ dirfd >= 0 => ItemsLeft = DirLeft + IntMax + 1
           /\ dirfd_iter /\ dirfd < 0 => ItemsLeft = 0
           /\ ~dirfd_iter /\ maxfd = None => ItemsLeft = IntMax + 1
           /\ ~dirfd_iter /\ maxfd # None => ItemsLeft = LoopLeft
  BY <1>1, <1>2, <1>4, <1>5, <1>6 DEF ItemsLeft
<1>8. /\ itpc = "dir" => CallLeft = 2 * NfdsCutoff + 6
      /\ itpc = "err" => CallLeft = 2 * NfdsCutoff + 5
      /\ itpc = "maxfd" => CallLeft = 2 * NfdsCutoff + 4
      /\ itpc = "scan" => CallLeft = 3 + ScanLeft
      /\ itpc \in {"open", "sysconf"} => CallLeft = 2
      /\ itpc \in {"stat", "eof", "loop"} => CallLeft = 1
      /\ itpc \in {"none", "idle", "gone"} => CallLeft = 0
  BY SMTT(30), <1>6 DEF CallLeft
<1>9. CallLeft \in Nat
  BY <1>5, <1>6, <1>8 DEF ItPc
<1> QED BY <1>2, <1>3, <1>4, <1>7, <1>8, <1>9 DEF LeftValue

LEMMA LeftNext == IterTypeOK' => LeftValue'
BY LeftValues, PTL

(* What a step of iter_from() or next() does to the two numbers.           *)
StepLowers ==
  \/ ItemsLeft' < ItemsLeft /\ CallLeft' <= 2 * NfdsCutoff + 6
  \/ ItemsLeft' <= ItemsLeft /\ CallLeft' < CallLeft

(* getdents() goes on to entries that were not read yet.                   *)
LEMMA DirLeftGetdents ==
  ASSUME IterTypeOK, DirControl, Getdents, itpc' = "dir"
  PROVE  DirLeft' < DirLeft
<1>1. PICK s \in Listing : /\ dirent_buf' = s /\ dirent_offset' = 0
                           /\ dirpos' = s[Len(s)] + 1
  BY DEF Getdents
<1>2. ~wsl1 /\ TableTypeOK
  BY DEF Getdents, DirControl, IterTypeOK
<1>3. Len(s) \in Nat /\ Len(s) >= 1 /\ s[Len(s)] \in Int /\ s[Len(s)] <= FdMax
  BY SMTT(30), <1>2, ListingType, FdTableAssumption
<1>4. dirpos <= s[Len(s)]
  <2>1. Len(s) \in 1..Len(s)
    BY SMTT(30), <1>3
  <2> QED BY <1>2, <2>1, ListingOrder
<1>5. Len(s) <= BufCap
  <2>1. PICK n \in 1..BufCap : s \in [1..n -> -1..FdMax]
    BY <1>2 DEF Listing, AscendingSeqs, Seqs
  <2>2. n \in Nat /\ n <= BufCap
    BY SMTT(30), FdIterAssumption
  <2> QED BY SMTT(30), <2>1, <2>2
<1>6. /\ dirpos \in Int /\ FdMax \in Int /\ BufCap \in Nat
      /\ Len(dirent_buf) - dirent_offset = 0
  BY SMTT(30), FdTableAssumption, FdIterAssumption
  DEF IterTypeOK, DirTypeOK, Getdents
<1>7. /\ FdMax + 1 - dirpos' \in Nat /\ FdMax + 1 - dirpos \in Nat
      /\ FdMax + 1 - dirpos' < FdMax + 1 - dirpos /\ BufCap + 1 \in Nat
      /\ Len(s) - 0 \in Nat /\ Len(s) - 0 < (BufCap + 1) + 0 /\ 0 \in Nat
  BY SMTT(30), <1>1, <1>3, <1>4, <1>5, <1>6
<1>8. (FdMax + 1 - dirpos') * (BufCap + 1) + (Len(s) - 0)
        < (FdMax + 1 - dirpos) * (BufCap + 1) + 0
  BY <1>7, Lexicographic
<1> QED BY <1>1, <1>6, <1>8 DEF DirLeft

LEMMA LowersOpen ==
  ASSUME IterTypeOK, IterTypeOK', DirControl, MaxControl, DirOpen \/ DirStat
  PROVE  StepLowers
<1>1. LeftValue /\ LeftValue'
  BY LeftValues, LeftNext
<1>2. ItemsLeft = DirMost + IntMax + 1 /\ CallLeft' < CallLeft
  <2>1. itpc = "open" => itpc' \in {"stat", "idle"}
    BY DEF DirOpen, DirStat
  <2>2. itpc = "stat" => itpc' = "idle"
    BY DEF DirOpen, DirStat
  <2>3. itpc \in {"open", "stat"}
    BY DEF DirOpen, DirStat
  <2> QED BY SMTT(30), <1>1, <2>1, <2>2, <2>3 DEF LeftValue, Opening
<1>3. DirLeft' = DirMost
  <2>1. dirent_buf' = <<>> /\ dirent_offset' = 0 /\ dirpos' = -1
    BY DEF DirOpen, DirStat, DirControl, NotFd
  <2>2. Len(dirent_buf') = 0
    BY <2>1, EmptyBuf
  <2>3. FdMax + 1 - (-1) = FdMax + 2 /\ \A a \in Nat : a + (0 - 0) = a
    BY SMTT(30), FdTableAssumption
  <2> QED BY <2>1, <2>2, <2>3, DirLeftType DEF DirLeft, DirMost
<1>4. itpc' \in Opening \/ (itpc' = "idle" /\ maxfd' = None)
  BY DEF DirOpen, DirStat, MaxControl, Opening, maxVars
<1>5. dirfd' \in Int /\ DirMost \in Nat /\ IntMax \in Nat /\ dirfd_iter' \in BOOLEAN
  BY SMTT(30), DirLeftType, FdTableAssumption DEF IterTypeOK, DirTypeOK
<1>6. ItemsLeft' <= ItemsLeft
  BY SMTT(30), <1>1, <1>2, <1>3, <1>4, <1>5 DEF LeftValue
<1> QED BY <1>2, <1>6 DEF StepLowers

LEMMA LowersDir ==
  ASSUME IterTypeOK, IterTypeOK', DirControl, MaxControl,
         DirExhausted \/ Getdents \/ DirEntry \/ DirEof \/ DirErr
  PROVE  StepLowers /\ (GivesFd => ItemsLeft' < ItemsLeft)
<1>1. LeftValue /\ LeftValue' /\ IntMax \in Nat /\ NfdsCutoff \in Nat
  BY LeftValues, LeftNext, FdTableAssumption, FdIterAssumption
<1> DEFINE most == 2 * NfdsCutoff + 6
<1>0. /\ \A a, b \in Nat : a < b => a + IntMax + 1 < b + IntMax + 1
      /\ most <= most /\ 0 <= most
  BY SMTT(30), <1>1
<1>2. CASE DirExhausted
  <2>1. /\ itpc = "dir" /\ itpc' = "idle" /\ dirfd_iter /\ dirfd < 0 /\ ~GivesFd
        /\ dirfd_iter' /\ dirfd' < 0
    BY <1>2 DEF DirExhausted, DirControl, ReturnNone, GivesFd, dirVars
  <2>2. ItemsLeft = 0 /\ ItemsLeft' = 0 /\ CallLeft = 2 * NfdsCutoff + 6 /\ CallLeft' = 0
    BY <1>1, <2>1 DEF LeftValue, Opening
  <2> QED BY SMTT(30), <1>1, <2>1, <2>2 DEF StepLowers
<1>3. CASE Getdents
  <2>1. /\ itpc = "dir" /\ itpc' \in {"dir", "eof", "err"} /\ dirfd_iter /\ dirfd >= 0
        /\ dirfd_iter' /\ dirfd' >= 0 /\ ~GivesFd
    BY <1>3 DEF Getdents, DirControl, GivesFd
  <2>2. ItemsLeft = DirLeft + IntMax + 1 /\ ItemsLeft' = DirLeft' + IntMax + 1
    BY <1>1, <2>1 DEF LeftValue, Opening
  <2>3. CASE itpc' = "dir"
    <3>1. DirLeft' < DirLeft
      BY <1>3, <2>3, DirLeftGetdents
    <3>2. DirLeft \in Nat /\ DirLeft' \in Nat /\ CallLeft' = 2 * NfdsCutoff + 6
      BY <1>1, <2>3 DEF LeftValue
    <3>3. ItemsLeft' < ItemsLeft /\ CallLeft' <= 2 * NfdsCutoff + 6
      BY <1>0, <2>2, <3>1, <3>2
    <3> QED BY <2>1, <3>3 DEF StepLowers
  <2>4. CASE itpc' # "dir"
    <3>1. DirLeft' = DirLeft
      BY <1>3, <2>1, <2>4 DEF Getdents, DirLeft
    <3> QED BY SMTT(30), <1>1, <2>1, <2>2, <2>4, <3>1 DEF StepLowers, LeftValue
  <2> QED BY <2>3, <2>4
<1>4. CASE DirEntry
  <2>1. /\ itpc = "dir" /\ itpc' \in {"dir", "idle"} /\ dirfd_iter /\ dirfd >= 0
        /\ dirfd_iter' /\ dirfd' >= 0
    BY <1>4 DEF DirEntry, DirControl, ReturnFd
  <2>2. ItemsLeft = DirLeft + IntMax + 1 /\ ItemsLeft' = DirLeft' + IntMax + 1
    BY <1>1, <2>1 DEF LeftValue, Opening
  <2>3. DirLeft' < DirLeft
    <3>1. dirent_offset \in Int /\ Len(dirent_buf) \in Int
      BY SMTT(30) DEF IterTypeOK, DirTypeOK
    <3>2. /\ dirent_offset' = dirent_offset + 1 /\ UNCHANGED <<dirent_buf, dirpos>>
      BY <1>4 DEF DirEntry, NextOffset
    <3>3. /\ FdMax + 1 - dirpos \in Nat /\ BufCap + 1 \in Nat
      BY SMTT(30), FdTableAssumption, FdIterAssumption
      DEF IterTypeOK, DirTypeOK
    <3>4. (FdMax + 1 - dirpos) * (BufCap + 1) \in Nat
      BY <3>3, Product
    <3>5. \A p \in Nat, l, o \in Int : p + (l - (o + 1)) < p + (l - o)
      BY SMTT(30)
    <3> QED BY <3>1, <3>2, <3>4, <3>5 DEF DirLeft
  <2>4. /\ DirLeft \in Nat /\ DirLeft' \in Nat
        /\ CallLeft' = 2 * NfdsCutoff + 6 \/ CallLeft' = 0
    BY <1>1, <2>1 DEF LeftValue
  <2>5. ItemsLeft' < ItemsLeft /\ CallLeft' <= 2 * NfdsCutoff + 6
    BY <1>0, <2>2, <2>3, <2>4
  <2> QED BY <2>5 DEF StepLowers
<1>5. CASE DirEof
  <2>1. /\ itpc = "eof" /\ itpc' = "idle" /\ ~GivesFd /\ dirfd_iter' /\ dirfd' = -1
    BY <1>5 DEF DirEof, EofClose, DirControl, ReturnNone, GivesFd
  <2>2. dirfd' < 0
    BY SMTT(30), <2>1
  <2>3. ItemsLeft' = 0 /\ CallLeft' = 0 /\ CallLeft = 1
    BY <1>1, <2>1, <2>2 DEF LeftValue, Opening
  <2> QED BY SMTT(30), <1>1, <2>1, <2>3 DEF StepLowers, LeftValue
<1>6. CASE DirErr
  <2>1. /\ itpc = "err" /\ itpc' = "maxfd" /\ ~GivesFd /\ ~dirfd_iter'
        /\ maxfd' = None /\ dirfd_iter /\ dirfd >= 0
    BY <1>6
    DEF DirErr, NoDir, DirControl, MaxControl, KnowsMaxfd, GivesFd, maxVars
  <2>2. ItemsLeft = DirLeft + IntMax + 1 /\ ItemsLeft' = IntMax + 1
    BY <1>1, <2>1 DEF LeftValue, Opening
  <2> QED BY SMTT(30), <1>1, <2>1, <2>2 DEF StepLowers, LeftValue
<1> QED BY <1>2, <1>3, <1>4, <1>5, <1>6

LEMMA LowersMaxfd ==
  ASSUME IterTypeOK, IterTypeOK', DirControl, MaxControl,
         MaxfdStart \/ GetNfds \/ NfdsScan \/ Sysconf
  PROVE  StepLowers
<1>1. LeftValue /\ LeftValue' /\ IntMax \in Nat /\ NfdsCutoff \in Nat
  BY LeftValues, LeftNext, FdTableAssumption, FdIterAssumption
<1>2. /\ itpc \in {"maxfd", "scan", "sysconf"}
      /\ itpc' \in {"scan", "sysconf", "loop"}
      /\ UNCHANGED dirVars
  BY MaxfdFrame
<1>3. ~dirfd_iter /\ ~dirfd_iter' /\ maxfd = None
  BY <1>2 DEF DirControl, MaxControl, dirVars
<1>4. ItemsLeft' <= ItemsLeft
  <2>1. ItemsLeft = IntMax + 1
    BY <1>1, <1>2, <1>3 DEF LeftValue, Opening
  <2>2. \/ ItemsLeft' = IntMax + 1
        \/ ItemsLeft' = LoopLeft' /\ LoopLeft' <= IntMax
    BY <1>1, <1>2, <1>3 DEF LeftValue, Opening
  <2>3. ItemsLeft' \in Nat
    BY <1>1 DEF LeftValue
  <2> QED BY SMTT(30), <1>1, <2>1, <2>2, <2>3
<1>5. /\ itpc = "maxfd" => CallLeft = 2 * NfdsCutoff + 4
      /\ itpc = "scan" => CallLeft = 3 + ScanLeft /\ ScanLeft \in Nat
      /\ itpc = "sysconf" => CallLeft = 2
      /\ itpc' = "loop" => CallLeft' = 1
      /\ itpc' = "sysconf" => CallLeft' = 2
      /\ itpc' = "scan" => CallLeft' = 3 + ScanLeft' /\ ScanLeft' \in Nat
  BY <1>1 DEF LeftValue
<1>6. itpc' = "loop" => CallLeft' < CallLeft
  BY SMTT(30), <1>1, <1>2, <1>5
<1>7. itpc' = "sysconf" /\ itpc # "sysconf" => CallLeft' < CallLeft
  BY SMTT(30), <1>1, <1>2, <1>5
<1>8. CASE MaxfdStart
  BY <1>4, <1>6, <1>7, <1>8 DEF MaxfdStart, SetMaxfd, StepLowers
<1>9. CASE GetNfds
  <2>1. CASE itpc' = "scan"
    <3>1. itpc = "maxfd" /\ nfds' = Cardinality(open) /\ scanfd' = 0 /\ nfds' < NfdsCutoff
      BY <1>9, <2>1 DEF GetNfds, SetMaxfd
    <3>2. nfds' \in Nat
      BY DEF IterTypeOK, ControlTypeOK
    <3>3. ScanLeft' <= 2 * nfds'
      BY SMTT(30), <3>1, <3>2 DEF ScanLeft
    <3>4. CallLeft' < CallLeft
      BY SMTT(30), <1>1, <1>5, <2>1, <3>1, <3>2, <3>3
    <3> QED BY <1>4, <3>4 DEF StepLowers
  <2>2. CASE itpc' # "scan"
    BY <1>2, <1>4, <1>6, <1>7, <1>9, <2>2 DEF GetNfds, StepLowers
  <2> QED BY <2>1, <2>2
<1>10. CASE NfdsScan
  <2>1. CASE itpc' = "scan"
    <3>1. /\ itpc = "scan" /\ scanfd < nfds * 2 /\ scanfd' = scanfd + 1
          /\ nfds' = nfds
      BY <1>10, <2>1 DEF NfdsScan, SetMaxfd
    <3>2. nfds \in Nat /\ scanfd \in Nat
      BY DEF IterTypeOK, ControlTypeOK
    <3>3. ScanLeft' < ScanLeft
      BY SMTT(30), <3>1, <3>2 DEF ScanLeft
    <3>4. CallLeft' < CallLeft
      BY SMTT(30), <1>5, <2>1, <3>1, <3>3
    <3> QED BY <1>4, <3>4 DEF StepLowers
  <2>2. CASE itpc' # "scan"
    BY <1>2, <1>4, <1>6, <1>7, <1>10, <2>2 DEF NfdsScan, StepLowers
  <2> QED BY <2>1, <2>2
<1>11. CASE Sysconf
  BY <1>4, <1>6, <1>11 DEF Sysconf, SetMaxfd, StepLowers
<1> QED BY <1>8, <1>9, <1>10, <1>11

LEMMA LowersLoop ==
  ASSUME IterTypeOK, IterTypeOK', DirControl, LoopStep
  PROVE  StepLowers /\ (GivesFd => ItemsLeft' < ItemsLeft)
<1>1. LeftValue /\ LeftValue' /\ NfdsCutoff \in Nat
  BY LeftValues, LeftNext, FdIterAssumption
<1>2. /\ itpc = "loop" /\ itpc' \in {"loop", "idle"} /\ ~dirfd_iter /\ ~dirfd_iter'
      /\ maxfd # None /\ maxfd' = maxfd /\ maxfd \in Int /\ curfd \in Int
  BY SMTT(30), FdTableAssumption
  DEF LoopStep, ReturnFd, ReturnNone, DirControl, IterTypeOK, FieldTypeOK,
     ControlTypeOK, dirVars, maxVars
<1>3. /\ ItemsLeft = LoopLeft /\ ItemsLeft' = LoopLeft' /\ ItemsLeft \in Nat
      /\ CallLeft = 1 /\ (CallLeft' = 1 \/ CallLeft' = 0)
      /\ itpc' = "idle" => CallLeft' = 0
  BY <1>1, <1>2 DEF LeftValue, Opening
<1>4. CASE curfd <= maxfd
  <2>1. curfd' = curfd + 1
    BY <1>4 DEF LoopStep
  <2>2. ItemsLeft' < ItemsLeft /\ CallLeft' <= 2 * NfdsCutoff + 6
    BY SMTT(30), <1>1, <1>2, <1>3, <1>4, <2>1 DEF LoopLeft
  <2> QED BY <2>2 DEF StepLowers
<1>5. CASE ~(curfd <= maxfd)
  <2>1. itpc' = "idle" /\ curfd' = curfd /\ ~GivesFd
    BY <1>5 DEF LoopStep, ReturnNone, GivesFd
  <2>2. LoopLeft' = LoopLeft
    BY <1>2, <2>1 DEF LoopLeft
  <2>3. ItemsLeft' <= ItemsLeft /\ CallLeft' < CallLeft
    BY SMTT(30), <1>3, <2>1, <2>2
  <2> QED BY <2>1, <2>3 DEF StepLowers
<1> QED BY <1>4, <1>5

(* Every step inside a call lowers the pair, and the items with it when a  *)
(* descriptor is returned.                                                 *)
LEMMA IterStepLowers ==
  ASSUME IterTypeOK, IterTypeOK', DirControl, MaxControl, IterStep
  PROVE  StepLowers /\ (GivesFd => ItemsLeft' < ItemsLeft)
<1>1. CASE DirOpen \/ DirStat
  BY <1>1, LowersOpen DEF DirOpen, DirStat, GivesFd
<1>2. CASE DirExhausted \/ Getdents \/ DirEntry \/ DirEof \/ DirErr
  BY <1>2, LowersDir
<1>3. CASE MaxfdStart \/ GetNfds \/ NfdsScan \/ Sysconf
  BY <1>3, LowersMaxfd, MaxfdFrame DEF GivesFd
<1>4. CASE LoopStep
  BY <1>4, LowersLoop
<1> QED BY <1>1, <1>2, <1>3, <1>4 DEF IterStep

(* Nothing but the iterator itself changes the two numbers.                *)
LEMMA SameLeft ==
  ASSUME UNCHANGED <<curfd, dirVars, scanVars, maxVars, itpc>>
  PROVE  ItemsLeft' = ItemsLeft /\ CallLeft' = CallLeft
<1>1. UNCHANGED <<dirfd_iter, dirfd, dirent_buf, dirent_offset, dirpos, nfds, scanfd,
                  maxfd>>
  BY DEF dirVars, scanVars, maxVars
<1>2. DirLeft' = DirLeft /\ LoopLeft' = LoopLeft /\ ScanLeft' = ScanLeft
  BY <1>1 DEF DirLeft, LoopLeft, ScanLeft
<1>3. ItemsLeft' = ItemsLeft
  BY <1>1, <1>2 DEF ItemsLeft
<1>4. CallLeft' = CallLeft
  BY <1>2 DEF CallLeft
<1> QED BY <1>3, <1>4

(* What IterVariant says of one step.                                      *)
VariantStep ==
  ~IterUser =>
    /\ 0 <= IterRank'
    /\ \/ IterRank' < IterRank
       \/ IterRank' = IterRank /\ Others

LEMMA VariantNext ==
  ASSUME IterTypeOK, IterTypeOK', DirControl, MaxControl, IterNext
  PROVE  VariantStep
<1>1. /\ ItemsLeft \in Nat /\ CallLeft \in Nat /\ ItemsLeft' \in Nat /\ CallLeft' \in Nat
      /\ CallMost \in Nat
  <2>1. 2 * NfdsCutoff + 7 \in Nat
    BY SMTT(30), FdIterAssumption
  <2> QED BY <2>1, LeftValues, LeftNext DEF LeftValue, CallMost
<1>2. 0 <= IterRank'
  <2>1. ItemsLeft' * CallMost \in Nat
    BY <1>1, Product
  <2>2. \A a, b \in Nat : 0 <= a + b
    BY SMTT(30)
  <2> QED BY <1>1, <2>1, <2>2 DEF IterRank
<1>3. CASE IterStep
  <2>1. \/ ItemsLeft' < ItemsLeft /\ CallLeft' < CallMost + CallLeft
        \/ ItemsLeft' <= ItemsLeft /\ CallLeft' < CallLeft
    BY SMTT(30), <1>1, <1>3, IterStepLowers, FdIterAssumption
    DEF StepLowers, CallMost
  <2>2. IterRank' < IterRank
    BY <1>1, <2>1, Lexicographic DEF IterRank
  <2> QED BY <1>2, <2>2 DEF VariantStep
<1>4. CASE Others
  BY <1>2, <1>4, OthersFrame, SameLeft DEF VariantStep, IterRank
<1> QED BY <1>3, <1>4 DEF IterNext, VariantStep

(* iter_from() and next() take a bounded number of steps (IterVariant): at *)
(* most IterRank more, with every size of the table and of the directory   *)
(* buffer, and however others change the directory meanwhile.              *)
THEOREM IterCallsAreBounded == IterSpec => IterVariant
<1>1. IterOwnInv /\ IterOwnInv' /\ [IterNext]_iterSpecVars => [VariantStep]_iterSpecVars
  BY VariantNext DEF IterOwnInv
<1>2. IterSpec => [][VariantStep]_iterSpecVars
  BY <1>1, IterOwnInvariant, PTL DEF IterSpec
<1> QED BY <1>2 DEF IterVariant, VariantStep

=============================================================================
