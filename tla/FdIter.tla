------------------------------- MODULE FdIter -------------------------------
(***************************************************************************)
(* FdIterBuilder::iter_from, FdIter::next and the DirFdIter it drives      *)
(* (src/src/iterfds), one action per system call or loop iteration, so     *)
(* that the rest of the program can run between any two of them.           *)
(*                                                                         *)
(* A call of next() starts with CallNext, runs through the values of itpc  *)
(* and returns with itpc = "idle" and its result in item.                  *)
(***************************************************************************)
EXTENDS FdTable, Sequences, FiniteSets

CONSTANTS
  None,          (* Option::None                                           *)
  Platforms,     (* the target_os values considered                        *)
  BufCap,        (* most directory entries one getdents() call returns     *)
  SysconfValues, (* what sysconf(_SC_OPEN_MAX) may return                  *)
  OpenMaxFloor,  (* 1024 in get_maxfd_direct                               *)
  OpenMaxCeil,   (* 65536 in get_maxfd_direct                              *)
  NfdsCutoff,    (* 100 in nfds_to_maxfd                                   *)
  MinFds,        (* the minfd arguments considered                         *)
  Threads        (* whether other threads run while a call is in progress  *)

(* macOS stands for iOS too, Solaris for Illumos; "other" has none of the  *)
(* platform-specific methods.                                              *)
TargetOS == {"linux", "macos", "freebsd", "netbsd", "openbsd", "dragonfly",
             "solaris", "other"}

DirFdOS == {"linux", "macos", "freebsd", "netbsd", "solaris"}

NfdsOS == {"freebsd", "openbsd"}

ASSUME FdIterAssumption ==
  /\ None \notin Int
  /\ Platforms \subseteq TargetOS
  /\ BufCap \in Nat \ {0}
  /\ SysconfValues \subseteq Int
  /\ OpenMaxFloor \in Nat \ {0}
  /\ OpenMaxCeil \in Nat
  /\ OpenMaxFloor <= OpenMaxCeil
  /\ OpenMaxCeil <= IntMax
  /\ NfdsCutoff \in Nat
  /\ MinFds \subseteq IntMin..IntMax
  /\ Threads \in BOOLEAN

VARIABLES
  os, wsl1,      (* the platform; whether the Linux kernel is WSL 1        *)
  possible, skip_nfds, curfd, maxfd,          (* fields of FdIter          *)
  dirfd_iter,    (* whether FdIter.dirfd_iter is Some                      *)
  dir_minfd, dirfd, dirent_buf, dirent_offset,   (* fields of DirFdIter    *)
  dirpos,        (* the kernel's read position in the open directory       *)
  nfds, nfds_found, scanfd,                (* locals of nfds_to_maxfd      *)
  itpc, item,    (* where the iterator is; what next() returned last       *)
  yielded,       (* history: every descriptor returned so far              *)
  ended,         (* history: next() has returned None                      *)
  how,           (* history: the method that determined maxfd              *)
  raced          (* history: a descriptor was opened during the nfds scan  *)

platVars == <<os, wsl1>>
fieldVars == <<possible, skip_nfds, dir_minfd>>
dirVars == <<dirfd_iter, dirfd, dirent_buf, dirent_offset, dirpos>>
scanVars == <<nfds, nfds_found, scanfd>>
maxVars == <<maxfd, how>>
outVars == <<item, yielded, ended>>
iterVars == <<platVars, fieldVars, curfd, dirVars, scanVars, maxVars, itpc,
              outVars, raced>>

(* The control points of the iterator.                                     *)
ItPc == {"none", "open", "stat", "idle", "dir", "eof", "err", "maxfd",
         "scan", "sysconf", "loop", "gone"}

-----------------------------------------------------------------------------
(* The directory /proc/self/fd or /dev/fd.                                 *)

(* What parse_int_bytes makes of "." and "..": no number.                  *)
NotFd == -1

DirEntries == {NotFd} \cup open

Seqs(S) == UNION {[1..n -> S] : n \in 1..BufCap}

IsAscending(s) == \A i, j \in DOMAIN s : i < j => s[i] < s[j]

AscendingSeqs == {s \in Seqs(-1..FdMax) : IsAscending(s)}

Values(s) == {s[i] : i \in DOMAIN s}

(* What one getdents() call may return: the next entries in ascending      *)
(* order, as many as fit the buffer.  On WSL 1 neither the order nor the   *)
(* completeness can be relied on.                                          *)
Listing ==
  IF wsl1
  THEN Seqs(DirEntries)
  ELSE {s \in AscendingSeqs :
          Values(s) = {e \in DirEntries : dirpos <= e /\ e <= s[Len(s)]}}

-----------------------------------------------------------------------------
(* FdIterBuilder::iter_from and DirFdIter::open.                           *)

(* A negative minfd is taken as zero.                                      *)
StartFd_Unclamped(minfd) == minfd

StartFd(minfd) == IF minfd < 0 THEN 0 ELSE minfd

(* Whether DirFdIter::open gets as far as open().                          *)
MayOpenDir_AnyKernel(fs) == fs /\ os \in DirFdOS

MayOpenDir(fs) == fs /\ os \in DirFdOS /\ ~wsl1

IterFrom(minfd, poss, skip, fs) ==
  /\ itpc = "none"
  /\ possible' = poss
  /\ skip_nfds' = (skip /\ os \in NfdsOS)
  /\ curfd' = StartFd(minfd)
  /\ dir_minfd' = curfd'
  /\ itpc' = IF MayOpenDir(fs) THEN "open" ELSE "idle"
  /\ UNCHANGED <<tableVars, platVars, dirVars, scanVars, maxVars, outVars, raced>>

(* The directory is opened, or cannot be (not mounted, table full).        *)
DirOpen ==
  /\ itpc = "open"
  /\ \/ /\ \E d \in Fd : OpenCloexec(d) /\ dirfd' = d
        /\ itpc' = IF os = "freebsd" THEN "stat" ELSE "idle"
        /\ dirfd_iter' = (os # "freebsd")
     \/ /\ itpc' = "idle"
        /\ UNCHANGED <<tableVars, dirfd, dirfd_iter>>
  /\ UNCHANGED <<platVars, fieldVars, curfd, dirent_buf, dirent_offset, dirpos,
                 scanVars, maxVars, outVars, raced>>

(* FreeBSD keeps the directory only if it is not on the device of /dev.    *)
DirStat ==
  /\ itpc = "stat"
  /\ itpc' = "idle"
  /\ \/ dirfd_iter' = TRUE /\ UNCHANGED <<tableVars, dirfd>>
     \/ CloseAll({dirfd}) /\ dirfd' = -1 /\ UNCHANGED dirfd_iter
  /\ UNCHANGED <<platVars, fieldVars, curfd, dirent_buf, dirent_offset, dirpos,
                 scanVars, maxVars, outVars, raced>>

-----------------------------------------------------------------------------
(* FdIter::next.                                                           *)

(* next() returns: a descriptor, or None.                                  *)
ReturnFd(fd) ==
  /\ itpc' = "idle"
  /\ item' = fd
  /\ yielded' = yielded \cup {fd}
  /\ UNCHANGED ended

ReturnNone ==
  /\ itpc' = "idle"
  /\ item' = None
  /\ ended' = TRUE
  /\ UNCHANGED yielded

(* get_maxfd asks the system only once.                                    *)
KnowsMaxfd == maxfd # None

CallNext ==
  /\ itpc = "idle"
  /\ itpc' = CASE dirfd_iter -> "dir"
               [] ~dirfd_iter /\ ~KnowsMaxfd -> "maxfd"
               [] OTHER -> "loop"
  /\ UNCHANGED <<tableVars, platVars, fieldVars, curfd, dirVars, scanVars,
                 maxVars, outVars, raced>>

(* DirFdIter::next on an iterator that has already closed its directory.   *)
DirExhausted ==
  /\ itpc = "dir"
  /\ dirfd < 0
  /\ ReturnNone
  /\ UNCHANGED <<tableVars, platVars, fieldVars, curfd, dirVars, scanVars,
                 maxVars, raced>>

(* The buffer is used up: read more entries, meet the end, or fail.        *)
Getdents ==
  /\ itpc = "dir"
  /\ dirfd >= 0
  /\ dirent_offset >= Len(dirent_buf)
  /\ \/ \E s \in Listing :
          /\ dirent_buf' = s
          /\ dirent_offset' = 0
          /\ dirpos' = s[Len(s)] + 1
          /\ UNCHANGED itpc
     \/ /\ \A e \in DirEntries : e < dirpos
        /\ itpc' = "eof"
        /\ UNCHANGED <<dirent_buf, dirent_offset, dirpos>>
     \/ /\ itpc' = "err"
        /\ UNCHANGED <<dirent_buf, dirent_offset, dirpos>>
  /\ UNCHANGED <<tableVars, platVars, fieldVars, curfd, dirfd_iter, dirfd,
                 scanVars, maxVars, outVars, raced>>

Entry == dirent_buf[dirent_offset + 1]

(* "in the correct range" and "not the directory file descriptor".         *)
Eligible(e) == e # NotFd /\ e >= dir_minfd /\ e # dirfd

(* Where the maxfd loop would have to go on after fd was returned.          *)
After_Same(fd) == fd

After(fd) == fd + 1

(* The offset of the entry behind the current one.                         *)
NextOffset_Stuck == IF Eligible(Entry) THEN dirent_offset + 1 ELSE dirent_offset

NextOffset == dirent_offset + 1

(* One entry of the buffer: return it, or skip it and go round again.      *)
DirEntry ==
  /\ itpc = "dir"
  /\ dirfd >= 0
  /\ dirent_offset < Len(dirent_buf)
  /\ dirent_offset' = NextOffset
  /\ IF Eligible(Entry)
     THEN ReturnFd(Entry) /\ curfd' = After(Entry)
     ELSE UNCHANGED <<itpc, outVars, curfd>>
  /\ UNCHANGED <<tableVars, platVars, fieldVars, dirfd_iter, dirfd, dirent_buf,
                 dirpos, scanVars, maxVars, raced>>

(* At the end the directory is closed and the iterator stays Some, with    *)
(* its dirfd marked as closed.                                             *)
EofClose_KeepFd == CloseAll({dirfd}) /\ UNCHANGED <<dirfd, dirfd_iter>>

EofClose_Fallback == CloseAll({dirfd}) /\ dirfd' = -1 /\ dirfd_iter' = FALSE

EofClose == CloseAll({dirfd}) /\ dirfd' = -1 /\ UNCHANGED dirfd_iter

(* End of the directory: close it and return None.                         *)
DirEof ==
  /\ itpc = "eof"
  /\ EofClose
  /\ ReturnNone
  /\ UNCHANGED <<platVars, fieldVars, curfd, dirent_buf, dirent_offset, dirpos,
                 scanVars, maxVars, raced>>

(* The DirFdIter is gone: dirfd_iter is None.                              *)
NoDir ==
  /\ dirfd_iter' = FALSE
  /\ dirfd' = -1
  /\ dirent_buf' = <<>>
  /\ dirent_offset' = 0
  /\ dirpos' = NotFd

(* Error: drop the DirFdIter, which closes it, and use the maxfd loop.     *)
DirErr_Open ==
  /\ itpc = "err"
  /\ NoDir
  /\ itpc' = IF KnowsMaxfd THEN "loop" ELSE "maxfd"
  /\ UNCHANGED <<tableVars, platVars, fieldVars, curfd, scanVars, maxVars,
                 outVars, raced>>

DirErr ==
  /\ itpc = "err"
  /\ CloseAll({dirfd})
  /\ NoDir
  /\ itpc' = IF KnowsMaxfd THEN "loop" ELSE "maxfd"
  /\ UNCHANGED <<platVars, fieldVars, curfd, scanVars, maxVars, outVars, raced>>

-----------------------------------------------------------------------------
(* FdIter::get_maxfd and the maxfd loop.                                   *)

SetMaxfd(m, method) ==
  /\ maxfd' = m
  /\ how' = method
  /\ itpc' = "loop"

(* threadsafe(true) rules the nfds method out.                             *)
NfdsMethod_Always == os \in NfdsOS

NfdsMethod == os \in NfdsOS /\ ~skip_nfds

(* get_maxfd_direct up to its first system call; the NetBSD fcntl(F_MAXFD) *)
(* gives the largest open descriptor, or -1, or fails.                     *)
MaxfdStart ==
  /\ itpc = "maxfd"
  /\ ~NfdsMethod
  /\ \/ /\ os = "netbsd"
        /\ \E m \in open \cup {-1} :
             /\ \A e \in open : e <= m
             /\ SetMaxfd(m, "fmaxfd")
     \/ itpc' = "sysconf" /\ UNCHANGED maxVars
  /\ UNCHANGED <<tableVars, platVars, fieldVars, curfd, dirVars, scanVars,
                 outVars, raced>>

(* get_nfds, and nfds_to_maxfd before its loop.  The count is not used if  *)
(* it could not be had (an error, or a negative number) or is large.       *)
GetNfds ==
  /\ itpc = "maxfd"
  /\ NfdsMethod
  /\ LET n == Cardinality(open) IN
       \/ n = 0 /\ SetMaxfd(-1, "nfds") /\ UNCHANGED <<scanVars, raced>>
       \/ /\ n > 0 /\ n < NfdsCutoff
          /\ itpc' = "scan" /\ nfds' = n /\ nfds_found' = 0 /\ scanfd' = 0
          /\ raced' = FALSE
          /\ UNCHANGED maxVars
       \/ itpc' = "sysconf" /\ UNCHANGED <<maxVars, scanVars, raced>>
  /\ UNCHANGED <<tableVars, platVars, fieldVars, curfd, dirVars, outVars>>

(* "We've found all the open file descriptors".                            *)
FoundAll_Early(n) == n >= nfds - 1

FoundAll(n) == n >= nfds

(* nfds_to_maxfd returns, and its locals are gone.                         *)
EndScan == nfds' = 0 /\ nfds_found' = 0 /\ scanfd' = 0

(* The is_fd_valid() loop of nfds_to_maxfd.                                *)
NfdsScan ==
  /\ itpc = "scan"
  /\ LET found == IF scanfd \in open THEN nfds_found + 1 ELSE nfds_found IN
       \/ /\ scanfd < nfds * 2
          /\ ~(scanfd \in open /\ FoundAll(found))
          /\ scanfd' = scanfd + 1
          /\ nfds_found' = found
          /\ UNCHANGED <<nfds, itpc, maxVars>>
       \/ /\ scanfd < nfds * 2
          /\ scanfd \in open /\ FoundAll(found)
          /\ SetMaxfd(scanfd, "nfds")
          /\ EndScan
       \/ /\ scanfd >= nfds * 2
          /\ itpc' = "sysconf"
          /\ EndScan
          /\ UNCHANGED maxVars
  /\ UNCHANGED <<tableVars, platVars, fieldVars, curfd, dirVars, outVars, raced>>

Clamp(v) ==
  LET low == IF v < OpenMaxFloor THEN OpenMaxFloor ELSE v
  IN  IF low > OpenMaxCeil THEN OpenMaxCeil ELSE low

Sysconf ==
  /\ itpc = "sysconf"
  /\ \E v \in SysconfValues : SetMaxfd(Clamp(v) - 1, "sysconf")
  /\ UNCHANGED <<tableVars, platVars, fieldVars, curfd, dirVars, scanVars,
                 outVars, raced>>

(* One iteration of the "while self.curfd <= maxfd" loop.                  *)
LoopStep ==
  /\ itpc = "loop"
  /\ IF curfd <= maxfd
     THEN /\ curfd' = curfd + 1
          /\ IF possible \/ curfd \in open
             THEN ReturnFd(curfd)
             ELSE UNCHANGED <<itpc, outVars>>
     ELSE ReturnNone /\ UNCHANGED curfd
  /\ UNCHANGED <<tableVars, platVars, fieldVars, dirVars, scanVars, maxVars,
                 raced>>

(* Drop for DirFdIter.                                                     *)
CloseOnDrop_Never == UNCHANGED tableVars

CloseOnDrop ==
  IF dirfd_iter /\ dirfd >= 0 THEN CloseAll({dirfd}) ELSE UNCHANGED tableVars

(* The iterator is dropped, and with it the DirFdIter if there is one.     *)
Drop ==
  /\ itpc = "idle"
  /\ itpc' = "gone"
  /\ CloseOnDrop
  /\ NoDir
  /\ UNCHANGED <<platVars, fieldVars, curfd, scanVars, maxVars, outVars, raced>>

(* The steps inside iter_from() and next(), which nobody has to request.   *)
IterStep ==
  \/ DirOpen \/ DirStat \/ DirExhausted \/ Getdents \/ DirEntry \/ DirEof
  \/ DirErr \/ MaxfdStart \/ GetNfds \/ NfdsScan \/ Sysconf \/ LoopStep

IterInit ==
  /\ os \in Platforms
  /\ wsl1 \in IF os = "linux" THEN BOOLEAN ELSE {FALSE}
  /\ possible = FALSE /\ skip_nfds = FALSE /\ dir_minfd = 0
  /\ curfd = 0 /\ maxfd = None /\ how = "unset"
  /\ dirfd_iter = FALSE /\ dirfd = -1
  /\ dirent_buf = <<>> /\ dirent_offset = 0 /\ dirpos = NotFd
  /\ nfds = 0 /\ nfds_found = 0 /\ scanfd = 0
  /\ itpc = "none" /\ item = None /\ yielded = {} /\ ended = FALSE
  /\ raced = FALSE

(* The rest of the program runs, at any time or between two calls only;    *)
(* an open() during the nfds scan is noted.                                *)
Others ==
  /\ Threads \/ itpc \in {"none", "idle", "gone"}
  /\ \/ /\ OtherOpen
        /\ raced' = (raced \/ itpc = "scan")
        /\ UNCHANGED <<platVars, fieldVars, curfd, dirVars, scanVars, maxVars,
                       itpc, outVars>>
     \/ /\ \E f \in Fd : OtherClose(f)
        /\ UNCHANGED iterVars

(* The owner of the iterator: iter_from, then next() until it is dropped.  *)
IterUser ==
  \/ \E m \in MinFds, poss, skip, fs \in BOOLEAN : IterFrom(m, poss, skip, fs)
  \/ CallNext
  \/ Drop

IterNext == IterUser \/ IterStep \/ Others

iterSpecVars == <<tableVars, iterVars>>

IterSpecInit == TableInit /\ IterInit

(* The owner may stop calling; a call in progress goes on.                 *)
IterSpec ==
  /\ IterSpecInit
  /\ [][IterNext]_iterSpecVars
  /\ WF_iterSpecVars(IterStep)

-----------------------------------------------------------------------------
(* FdIter::size_hint and DirFdIter::size_hint, which change nothing.       *)

Remaining == (dirent_offset + 1)..Len(dirent_buf)

LoopLeft_Long == IF maxfd + 2 > curfd THEN maxfd + 2 - curfd ELSE 0

LoopLeft == IF maxfd + 1 > curfd THEN maxfd + 1 - curfd ELSE 0

Hinted_OwnFd(e) == e # NotFd

Hinted(e) == e # NotFd /\ e # dirfd

HintLow ==
  CASE dirfd_iter /\ dirfd < 0 -> 0
    [] dirfd_iter /\ dirfd >= 0 ->
         Cardinality({j \in Remaining : Hinted(dirent_buf[j])})
    [] ~dirfd_iter /\ maxfd # None /\ possible -> LoopLeft
    [] OTHER -> 0

HintHigh ==
  CASE dirfd_iter /\ dirfd < 0 -> 0
    [] ~dirfd_iter /\ maxfd # None -> LoopLeft
    [] OTHER -> IntMax

-----------------------------------------------------------------------------
(* Properties.                                                             *)

FieldTypeOK ==
  /\ os \in Platforms /\ wsl1 \in BOOLEAN
  /\ possible \in BOOLEAN /\ skip_nfds \in BOOLEAN
  /\ dir_minfd \in 0..IntMax
  /\ curfd \in 0..IntMax
  /\ maxfd \in -1..(IntMax - 1) \cup {None}

DirTypeOK ==
  /\ dirfd_iter \in BOOLEAN
  /\ dirfd \in -1..FdMax
  /\ dirent_buf \in Seq(-1..FdMax)
  /\ dirent_offset \in 0..Len(dirent_buf)
  /\ dirpos \in -1..(FdMax + 1)

ControlTypeOK ==
  /\ nfds \in Nat /\ nfds_found \in Nat /\ scanfd \in Nat
  /\ itpc \in ItPc
  /\ itpc = "loop" => maxfd # None
  /\ item \in Int \cup {None}
  /\ yielded \subseteq 0..IntMax
  /\ ended \in BOOLEAN /\ raced \in BOOLEAN
  /\ how \in {"unset", "fmaxfd", "nfds", "sysconf"}

(* Every variable has its type; the clamped minfd and the maxfd of every   *)
(* method keep curfd within a c_int.                                       *)
IterTypeOK == TableTypeOK /\ FieldTypeOK /\ DirTypeOK /\ ControlTypeOK

(* A step with which next() returns: a descriptor, or None.                *)
GivesFd == itpc \in {"dir", "loop"} /\ itpc' = "idle" /\ item' # None

GivesNone == itpc \in {"dir", "eof", "loop"} /\ itpc' = "idle" /\ item' = None

(* next() returns every descriptor at most once and in ascending order,    *)
(* also when a getdents() error makes it change methods half-way.          *)
YieldedInOrder ==
  [][GivesFd =>
       /\ item' \notin yielded
       /\ \A y \in yielded : y < item']_iterSpecVars

(* A descriptor the caller holds all the time may be missed only if        *)
(* sysconf() (or its clamp) put it beyond maxfd, or if a descriptor was    *)
(* opened during the scan of the nfds method.                              *)
Excused(f) ==
  \/ how = "sysconf" /\ f > maxfd
  \/ how = "nfds" /\ raced

(* When next() has returned None, every descriptor held since iter_from()  *)
(* was returned, whatever was opened or closed by others in the meantime.  *)
IterComplete ==
  ended => \A f \in steady : f >= dir_minfd => f \in yielded \/ Excused(f)

(* threadsafe(true) is worth its price: only sysconf() can cause a miss.   *)
ThreadsafeComplete ==
  ended /\ skip_nfds =>
    \A f \in steady : f >= dir_minfd /\ f \notin yielded =>
                         how = "sysconf" /\ f > maxfd

(* The iterator never returns a descriptor of its own: what next() returns *)
(* and is open belongs to other code.  The directory is in its own listing *)
(* and in the way of the maxfd loop, which an error or FreeBSD's device    *)
(* check leads to; and others may reuse its number.                        *)
OwnDirfdHidden ==
  [][GivesFd /\ item' \in open' => item' \in theirs']_iterSpecVars

(* FusedIterator: after the first None nothing is ever returned again,     *)
(* although descriptors may be opened later on.                            *)
Fused == [][ended => ~GivesFd]_iterSpecVars

(* Opening, abandoning, exhausting and dropping the directory never close  *)
(* a descriptor that belongs to other code, even when numbers are reused.  *)
NoForeignClose == theirs \subseteq open

(* Once the iterator is dropped nothing it opened is left open.            *)
IterNoLeak == itpc = "gone" => open \subseteq theirs

(* The debug_assert!s of FdIter::next and DirFdIter::size_hint.            *)
IterAsserts ==
  /\ itpc = "dir" /\ dirfd >= 0 /\ Remaining # {} =>
       (Eligible(Entry) => Entry >= curfd)
  /\ itpc = "idle" /\ dirfd_iter /\ dirfd >= 0 =>
       \A j \in Remaining : dirent_buf[j] # NotFd => dirent_buf[j] >= dir_minfd

(* size_hint() keeps its word.  Once a descriptor was returned, only the   *)
(* return of another one lowers the lower bound, by one, and None is       *)
(* returned when it is 0.  An upper bound that is known goes down with     *)
(* every descriptor returned and never up.                                 *)
SizeHintHonest ==
  [][itpc' # "gone" =>
       LET given == IF GivesFd THEN 1 ELSE 0 IN
         /\ GivesNone => HintLow = 0
         /\ item # None => HintLow' >= HintLow - given
         /\ GivesFd => HintHigh > 0
         /\ HintHigh < IntMax => HintHigh' <= HintHigh - given
    ]_iterSpecVars

(* What is left to read in the directory: every getdents() call moves the  *)
(* position on and fills the buffer with at most BufCap entries.           *)
DirLeft ==
  (FdMax + 1 - dirpos) * (BufCap + 1) + (Len(dirent_buf) - dirent_offset)

DirMost == (FdMax + 2) * (BufCap + 1)

Opening == {"none", "open", "stat"}

(* A bound for what next() can still go through, by either method.         *)
ItemsLeft ==
  CASE itpc \in Opening -> DirMost + IntMax + 1
    [] itpc \notin Opening /\ dirfd_iter /\ dirfd >= 0 -> DirLeft + IntMax + 1
    [] itpc \notin Opening /\ dirfd_iter /\ dirfd < 0 -> 0
    [] itpc \notin Opening /\ ~dirfd_iter /\ maxfd = None -> IntMax + 1
    [] itpc \notin Opening /\ ~dirfd_iter /\ maxfd # None -> LoopLeft

ScanLeft == IF nfds * 2 > scanfd THEN nfds * 2 - scanfd ELSE 0

(* A bound for the steps of a call that do not use up any of it.           *)
CallLeft ==
  CASE itpc = "dir" -> 2 * NfdsCutoff + 6
    [] itpc = "err" -> 2 * NfdsCutoff + 5
    [] itpc = "maxfd" -> 2 * NfdsCutoff + 4
    [] itpc = "scan" -> 3 + ScanLeft
    [] itpc \in {"open", "sysconf"} -> 2
    [] itpc \in {"stat", "eof", "loop"} -> 1
    [] itpc \in {"none", "idle", "gone"} -> 0

CallMost == 2 * NfdsCutoff + 7

IterRank == ItemsLeft * CallMost + CallLeft

(* Calls take a bounded number of steps: each step inside iter_from() and  *)
(* next() that changes anything lowers a number that other threads cannot  *)
(* change.                                                                 *)
IterVariant ==
  [][~IterUser =>
       /\ 0 <= IterRank'
       /\ \/ IterRank' < IterRank
          \/ IterRank' = IterRank /\ Others
    ]_iterSpecVars

(* Every call of iter_from() and next() returns: neither the directory     *)
(* that others keep changing nor the nfds scan can hold it up for ever.    *)
CallsReturn == (itpc \notin {"none", "idle", "gone"}) ~> (itpc = "idle")

(* What possible(false) says of the descriptors next() returns: they are   *)
(* valid.  The entries left in the directory buffer may not be.            *)
ReturnsValid ==
  [][GivesFd /\ ~possible => item' \in open]_iterSpecVars

=============================================================================
