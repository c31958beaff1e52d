------------------------------ MODULE Features ------------------------------
(***************************************************************************)
(* probe_features and the calls that consult what it found out             *)
(* (src/src/lib.rs, the probe()s, try_close_range, check_has_close_range,  *)
(* set_cloexec_range and is_wsl_1), run by several threads of one process. *)
(* Every load, store and system call is a step of its own.                 *)
(*                                                                         *)
(* The caches are atomics accessed with Ordering::Relaxed.  All that       *)
(* promises is coherence: the stores to one atomic have an order, and a    *)
(* load may return any value of it that is not older than one the thread   *)
(* has already read or written.                                            *)
(***************************************************************************)
EXTENDS FeatureCaches, Integers, Sequences

CONSTANTS
  Threads,          (* the threads of the process                          *)
  Closer,           (* the one that calls closefrom: the caller guarantees *)
                    (* that no other thread does it at the same time       *)
  Platforms,        (* the target_os values considered                     *)
  DebugAssertions   (* whether debug_assert! is compiled in                *)

ASSUME FeaturesAssumption ==
  /\ Closer \in Threads
  /\ Platforms \subseteq {"linux", "freebsd"}
  /\ DebugAssertions \in BOOLEAN

VARIABLES
  os, wsl1,    (* the platform; whether the Linux kernel is WSL 1          *)
  kernel,      (* the close_range() of the kernel: none, plain, or one     *)
               (* that also knows CLOSE_RANGE_CLOEXEC                      *)
  history,     (* for every atomic, its values in the order of the stores  *)
  seen,        (* seen[t][a]: the oldest value of a that t may still read  *)
  pc, job,     (* where a thread is, and in which function                 *)
  found,       (* what the last system call of a thread told it            *)
  probed,      (* history: the threads that went through a whole probe     *)
  failed       (* history: the threads whose sysctl() failed               *)

sysVars == <<os, wsl1, kernel>>
memVars == <<history, seen>>
featVars == <<sysVars, memVars, pc, job, found, probed, failed>>

Initial ==
  [PROBED |-> FALSE, MAY_HAVE_CLOSE_RANGE |-> TRUE,
   MAY_HAVE_CLOSE_RANGE_CLOEXEC |-> TRUE, HAS_CLOSE_RANGE |-> 2, IS_WSL1 |-> 2]

Atomics == DOMAIN Initial

(* The functions a thread may be in.  "close" and "cloexec" are the        *)
(* shortcuts of close_fds and set_fds_cloexec, the "_rest" ones their      *)
(* close_rest and set_cloexec_rest; "probe" and "probe_cloexec" are the    *)
(* two probe()s of closefds; "iter" is an iteration.                       *)
Closes == {"close", "close_rest"}

Cloexecs == {"cloexec", "cloexec_rest"}

JobSet == Closes \cup Cloexecs \cup {"probe", "probe_cloexec", "iter"}

FeatPcs == {"idle", "load_probed", "set_probed", "invalid", "may", "range",
            "store_may", "check", "sysctl", "store_has", "assert", "wsl",
            "uname", "panicked", "killed"}

Visible(t, a) == {history[a][i] : i \in seen[t][a]..Len(history[a])}

(* What has been stored, the initial value not counted.                    *)
Stored(a) == {history[a][i] : i \in 2..Len(history[a])}

Load(t, a, v) ==
  /\ \E i \in seen[t][a]..Len(history[a]) :
       v = history[a][i] /\ seen' = [seen EXCEPT ![t][a] = i]
  /\ UNCHANGED history

(* Storing the newest value once more makes no difference to any load.     *)
Store(t, a, v) ==
  /\ history' = IF history[a][Len(history[a])] = v THEN history
                ELSE [history EXCEPT ![a] = Append(@, v)]
  /\ seen' = [seen EXCEPT ![t][a] = Len(history'[a])]

Goto(t, p) == pc' = [pc EXCEPT ![t] = p]

(* The thread goes on in another function.                                 *)
Enter(t, j, p) == Goto(t, p) /\ job' = [job EXCEPT ![t] = j]

Stay(t, p) == Goto(t, p) /\ UNCHANGED job

(* The call is over.                                                       *)
Leave(t) == Enter(t, "iter", "idle")

(* The cache that belongs to a function, and whether the kernel accepts    *)
(* its close_range() call.                                                 *)
Cache(j) ==
  IF j \in Closes \cup {"probe"}
  THEN "MAY_HAVE_CLOSE_RANGE" ELSE "MAY_HAVE_CLOSE_RANGE_CLOEXEC"

Works(a) ==
  IF a = "MAY_HAVE_CLOSE_RANGE" THEN kernel # "none" ELSE kernel = "cloexec"

-----------------------------------------------------------------------------
(* probe_features.                                                         *)

(* PROBED is set before anything is probed.                                *)
LoadProbed(t) ==
  /\ pc[t] = "load_probed"
  /\ \E v \in BOOLEAN :
       /\ Load(t, "PROBED", v)
       /\ IF v THEN Leave(t) ELSE Stay(t, "set_probed")
  /\ UNCHANGED <<sysVars, found, probed, failed>>

StoreProbed_Not(t) ==
  /\ pc[t] = "set_probed"
  /\ Stay(t, IF os = "linux" THEN "invalid" ELSE "check")
  /\ UNCHANGED <<sysVars, memVars, found, probed, failed>>

StoreProbed(t) ==
  /\ pc[t] = "set_probed"
  /\ Store(t, "PROBED", TRUE)
  /\ Stay(t, IF os = "linux" THEN "invalid" ELSE "check")
  /\ UNCHANGED <<sysVars, found, probed, failed>>

(* The errno of a close_range() call with first > last.                    *)
InvalidErrno == IF kernel = "none" THEN "ENOSYS" ELSE "EINVAL"

(* The probe of close.rs: anything but EINVAL means "not available".       *)
SaysAbsent_Fails(errno) == TRUE

SaysAbsent(errno) == errno # "EINVAL"

(* closefds::probe goes on with cloexec::probe, which begins with a call   *)
(* of set_cloexec_range.                                                   *)
ProbeNext(t) == Enter(t, "probe_cloexec", "range")

(* cloexec::probe does not look at the result.  iterfds::probe is next.    *)
ProbedCloexec(t) == job[t] = "probe_cloexec" /\ Stay(t, "wsl")

ProbeClose(t) ==
  /\ pc[t] = "invalid"
  /\ IF SaysAbsent(InvalidErrno) THEN Stay(t, "store_may") ELSE ProbeNext(t)
  /\ UNCHANGED <<sysVars, memVars, found, probed, failed>>

-----------------------------------------------------------------------------
(* Linux: MAY_HAVE_CLOSE_RANGE and MAY_HAVE_CLOSE_RANGE_CLOEXEC.           *)

(* A fallback to iteration ends, perhaps through close_rest or             *)
(* set_cloexec_rest, which look at the cache again; the others just end.   *)
Ends(t) ==
  \/ Leave(t)
  \/ job[t] = "close" /\ Enter(t, "close_rest", "may")
  \/ job[t] = "cloexec" /\ Enter(t, "cloexec_rest", "may")

(* The iteration asks is_wsl_1() if it may use the filesystem.             *)
Iterates(t) == Stay(t, "wsl") \/ Ends(t)

(* A shortcut that may not, or (the list is not sorted) cannot, use        *)
(* close_range() leads to the iteration.                                   *)
LoadMay(t) ==
  /\ pc[t] = "may"
  /\ \E v \in BOOLEAN :
       /\ Load(t, Cache(job[t]), v)
       /\ \/ v /\ Stay(t, "range")
          \/ job[t] \in {"close", "cloexec"} /\ Iterates(t)
          \/ ~v /\ job[t] \notin {"close", "cloexec"} /\ Leave(t)
  /\ UNCHANGED <<sysVars, found, probed, failed>>

(* The close_range() of try_close_range or set_cloexec_range.  It is the   *)
(* only one, or one of several of apply_range.                             *)
Range(t) ==
  /\ pc[t] = "range"
  /\ IF Works(Cache(job[t]))
     THEN \/ ProbedCloexec(t)
          \/ job[t] # "probe_cloexec" /\ Leave(t)
          \/ /\ job[t] \in {"close", "cloexec"}
             /\ Stay(t, IF os = "freebsd" /\ DebugAssertions
                        THEN "assert" ELSE "range")
     ELSE Stay(t, IF os = "freebsd" THEN "killed" ELSE "store_may")
  /\ UNCHANGED <<sysVars, memVars, found, probed, failed>>

StoreMay(t) ==
  /\ pc[t] = "store_may"
  /\ Store(t, Cache(job[t]), FALSE)
  /\ CASE job[t] = "probe" -> ProbeNext(t)
       [] job[t] = "probe_cloexec" -> ProbedCloexec(t)
       [] job[t] \in {"close", "cloexec"} -> Iterates(t)
       [] OTHER -> Leave(t)
  /\ UNCHANGED <<sysVars, found, probed, failed>>

-----------------------------------------------------------------------------
(* FreeBSD: check_has_close_range, and what its callers do then.           *)

Checked_Ignored(t, v) ==
  IF job[t] = "probe"
  THEN Leave(t) /\ probed' = probed \cup {t}
  ELSE /\ Stay(t, IF DebugAssertions THEN "assert" ELSE "range")
       /\ UNCHANGED probed

Checked(t, v) ==
  IF job[t] = "probe"
  THEN Leave(t) /\ probed' = probed \cup {t}
  ELSE /\ IF v = 1 THEN Stay(t, IF DebugAssertions THEN "assert" ELSE "range")
                   ELSE Leave(t)
       /\ UNCHANGED probed

LoadHas(t) ==
  /\ pc[t] = "check"
  /\ \E v \in 0..2 :
       /\ Load(t, "HAS_CLOSE_RANGE", v)
       /\ IF v = 2 THEN Stay(t, "sysctl") /\ UNCHANGED probed ELSE Checked(t, v)
  /\ UNCHANGED <<sysVars, found, failed>>

(* What osreldate says of close_range().                                   *)
Osreldate_Raw == IF kernel # "none" THEN 3 ELSE 2

Osreldate == IF kernel # "none" THEN 1 ELSE 0

(* "sysctl() failed somehow (???); assume close_range() is not present".   *)
IfFailed_Present == 1

IfFailed == 0

(* The sysctl() succeeds, or fails.                                        *)
Sysctl(t) ==
  /\ pc[t] = "sysctl"
  /\ \/ found' = [found EXCEPT ![t] = Osreldate] /\ UNCHANGED failed
     \/ found' = [found EXCEPT ![t] = IfFailed] /\ failed' = failed \cup {t}
  /\ Stay(t, "store_has")
  /\ UNCHANGED <<sysVars, memVars, probed>>

StoreHas(t) ==
  /\ pc[t] = "store_has"
  /\ Store(t, "HAS_CLOSE_RANGE", found[t])
  /\ Checked(t, found[t])
  /\ UNCHANGED <<sysVars, found, failed>>

(* debug_assert!(check_has_close_range().is_ok()) in try_close_range.      *)
AssertHas(t) ==
  /\ pc[t] = "assert"
  /\ \E v \in 0..1 :
       /\ Load(t, "HAS_CLOSE_RANGE", v)
       /\ Stay(t, IF v = 1 THEN "range" ELSE "panicked")
  /\ UNCHANGED <<sysVars, found, probed, failed>>

-----------------------------------------------------------------------------
(* Linux: is_wsl_1, and what its callers do then.                          *)

KnowsWsl1(t) ==
  IF job[t] = "probe_cloexec"
  THEN Leave(t) /\ probed' = probed \cup {t}
  ELSE Ends(t) /\ UNCHANGED probed

LoadWsl1(t) ==
  /\ pc[t] = "wsl"
  /\ \E v \in 0..2 :
       /\ Load(t, "IS_WSL1", v)
       /\ IF v = 2 THEN Stay(t, "uname") /\ UNCHANGED probed ELSE KnowsWsl1(t)
  /\ UNCHANGED <<sysVars, found, failed>>

StoreWsl1_Not(t) ==
  /\ pc[t] = "uname"
  /\ KnowsWsl1(t)
  /\ UNCHANGED <<sysVars, memVars, found, failed>>

(* uname() cannot fail; what it says is stored.                            *)
StoreWsl1(t) ==
  /\ pc[t] = "uname"
  /\ Store(t, "IS_WSL1", IF wsl1 THEN 1 ELSE 0)
  /\ KnowsWsl1(t)
  /\ UNCHANGED <<sysVars, found, failed>>

-----------------------------------------------------------------------------
(* A thread calls into the crate.                                          *)
Begin(t) ==
  /\ pc[t] = "idle"
  /\ \/ Enter(t, "probe", "load_probed")
     \/ t = Closer /\ Enter(t, "close", IF os = "linux" THEN "may" ELSE "check")
     \/ os = "linux" /\ Enter(t, "cloexec", "may")
     \/ os = "linux" /\ Enter(t, "iter", "wsl")
  /\ UNCHANGED <<sysVars, memVars, found, probed, failed>>

ThreadStep(t) ==
  \/ LoadProbed(t) \/ StoreProbed(t) \/ ProbeClose(t)
  \/ LoadMay(t) \/ Range(t) \/ StoreMay(t)
  \/ LoadHas(t) \/ Sysctl(t) \/ StoreHas(t) \/ AssertHas(t)
  \/ LoadWsl1(t) \/ StoreWsl1(t)

FeatNext == \E t \in Threads : Begin(t) \/ ThreadStep(t)

FeatInit ==
  /\ os \in Platforms
  /\ wsl1 \in IF os = "linux" THEN BOOLEAN ELSE {FALSE}
  /\ kernel \in {"none", "plain"} \cup IF os = "linux" THEN {"cloexec"} ELSE {}
  /\ history = [a \in Atomics |-> <<Initial[a]>>]
  /\ seen = [t \in Threads |-> [a \in Atomics |-> 1]]
  /\ pc = [t \in Threads |-> "idle"]
  /\ job = [t \in Threads |-> "iter"]
  /\ found = [t \in Threads |-> 0]
  /\ probed = {} /\ failed = {}

(* Every thread in a call keeps running.                                   *)
FeatSpec ==
  /\ FeatInit
  /\ [][FeatNext]_featVars
  /\ \A t \in Threads : WF_featVars(ThreadStep(t))

-----------------------------------------------------------------------------
(* Properties.                                                             *)

FeatTypeOK ==
  /\ os \in Platforms /\ wsl1 \in BOOLEAN
  /\ kernel \in {"none", "plain", "cloexec"}
  /\ DOMAIN history = Atomics
  /\ \A a \in Atomics :
       history[a] \in Seq(IF a \in {"HAS_CLOSE_RANGE", "IS_WSL1"}
                         THEN 0..2 ELSE BOOLEAN)
  /\ seen \in [Threads -> [Atomics -> Nat \ {0}]]
  /\ \A t \in Threads, a \in Atomics : seen[t][a] <= Len(history[a])
  /\ pc \in [Threads -> FeatPcs]
  /\ job \in [Threads -> JobSet]
  /\ found \in [Threads -> 0..1]
  /\ probed \subseteq Threads /\ failed \subseteq Threads

(* Whatever probes and calls run at the same time, no thread ever reads a  *)
(* cached value that is wrong about the kernel.                            *)
CachesTruthful ==
  \A t \in Threads :
    /\ \A a \in {"MAY_HAVE_CLOSE_RANGE", "MAY_HAVE_CLOSE_RANGE_CLOEXEC"} :
         Visible(t, a) \subseteq MayHaveValues(os, Works(a))
    /\ Visible(t, "HAS_CLOSE_RANGE") \subseteq HasRangeValues(os, kernel # "none")
    /\ Visible(t, "IS_WSL1") \subseteq IsWsl1Values(wsl1)

(* FreeBSD: no thread calls close_range() on a kernel without it.          *)
NoSigsysInThreads == \A t \in Threads : pc[t] # "killed"

(* A thread that has gone through a probe finds everything in the caches   *)
(* from then on, and so does a child it forks: it neither probes again nor *)
(* makes a close_range(), sysctl() or uname() call to find something out.  *)
ProbeSpares ==
  \A t \in probed :
    pc[t] \notin {"set_probed", "invalid", "store_may", "sysctl", "uname"}

(* debug_assert!(check_has_close_range().is_ok()) reads the cache again.   *)
(* It fails in a thread only if the sysctl() of another one has failed, on *)
(* a kernel that does have the call.  As long as no sysctl() fails, or     *)
(* there is only one thread, it holds.                                     *)
AssertHolds ==
  \A t \in Threads :
    pc[t] = "panicked" => kernel # "none" /\ \E u \in failed : u # t

(* What the comment on this assertion says: "This should have been checked *)
(* previously", so that it never fails.                                    *)
CheckedPreviously == \A t \in Threads : pc[t] # "panicked"

(* What there was to find out has been stored.                             *)
Learnt ==
  IF os = "linux"
  THEN /\ Stored("IS_WSL1") # {}
       /\ \A a \in {"MAY_HAVE_CLOSE_RANGE", "MAY_HAVE_CLOSE_RANGE_CLOEXEC"} :
            Works(a) \/ FALSE \in Stored(a)
  ELSE Stored("HAS_CLOSE_RANGE") # {}

(* PROBED is set before the probing is done, but it is never an empty      *)
(* promise: all the facts follow.                                          *)
ProbeLearns == TRUE \in Stored("PROBED") ~> Learnt

=============================================================================
