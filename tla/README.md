# A verification of close_fds

`close_fds` closes a process's file descriptors, or marks them close-on-exec,
from a given number on and except for a list, and iterates over the open ones.
It does so with whatever the platform offers (`close_range()`, `closefrom()`,
`/proc/self/fd`, `/dev/fd`, `F_MAXFD`, a count of descriptors, a plain loop)
and falls back from one method to the next. This directory holds TLA+ models of
that code, TLC configurations that check them on small instances, and TLAPS
proofs for every value of the constants.

## The system

| part | source | state | operations |
|---|---|---|---|
| descriptor table (the kernel) | outside; used through `libc` and `sys.rs` | open descriptors and their close-on-exec flags | open, close, closefrom, close_range, fcntl, and the rest of the program opening and closing |
| `FdIterBuilder` | `iterfds/mod.rs` | `possible`, `skip_nfds`, `dirfd` | setters, `iter_from` |
| `FdIter` | `iterfds/fditer.rs` | `curfd`, `maxfd`, `dirfd_iter`, the flags | `next`, `get_maxfd`, `size_hint`, `min`, `max` |
| `DirFdIter` | `iterfds/dirfd.rs` | `minfd`, `dirfd`, the entry buffer and its offset | `open`, `next`, `size_hint`, `drop`, `parse_int_bytes` |
| `CloseFdsBuilder`, `KeepFds` | `closefds/mod.rs` | the keep list, its maximum, whether it is sorted | setters, `closefrom`, `cloexecfrom` |
| closing | `closefds/close.rs` | `MAY_HAVE_CLOSE_RANGE`, `HAS_CLOSE_RANGE` | `close_fds`, `close_fds_shortcut`, `close_rest`, `try_close_range`, `check_has_close_range`, `probe` |
| marking close-on-exec | `closefds/cloexec.rs` | `MAY_HAVE_CLOSE_RANGE_CLOEXEC` | `set_fds_cloexec`, `set_cloexec_shortcut`, `set_cloexec_rest`, `set_cloexec_range`, `probe` |
| helpers | `util.rs` | `IS_WSL1` | `inspect_keep_fds`, `simplify_keep_fds`, `check_should_keep`, `apply_range`, `set_cloexec`, `is_wsl_1` |
| feature probes | `lib.rs` | `PROBED` | `probe_features` |
| an example program | `examples/command-close.rs` | three files | open, `unset_cloexec`, fork, the call in the child, exec |

A call of `closefrom(minfd)` simplifies the keep list, tries one or several
range calls, and otherwise creates an `FdIter` and closes what it returns. The
iterator holds a descriptor of its own, the directory, in the very table that is
being emptied. `cloexecfrom` has the same shape and may run while other threads
open and close descriptors; `closefrom` is `unsafe` and excludes that, and so
does the model.

What makes the code hard to test:

* other threads between any two system calls: during the count-and-scan method
  for `maxfd`, between `F_GETFD` and `F_SETFD`, while entries wait in the
  directory buffer;
* failures half-way: `getdents()` fails and the loop takes over in the middle;
  one of several `close_range()` calls fails after others have succeeded; the
  table is full; a filter starts to refuse `close_range()`;
* numbers that are reused: the directory's own number, before and after it is
  closed;
* state that may be stale: the cached `maxfd`, the cached availability of
  `close_range()`;
* caches shared by threads with relaxed ordering, and `PROBED`, which is set
  before anything has been probed;
* boundaries: adjacent, repeated, negative and unsorted kept descriptors, and
  `c_int::MAX`.

`PROJECT.json` lists these as hazards, each at its line and with the properties
that cover it.

## The modules

**`FdTable`** is the kernel's table, external to the repository and modelled from
how the code uses it. `open` and `cloexec` are sets of numbers; `open()` returns
the lowest free one. Two history variables serve the properties: `theirs` is
what other code holds, `steady` is the part of it held without interruption
since the beginning. `OtherOpen` and `OtherClose` are the rest of the program.

**`FdIter`** is `FdIterBuilder::iter_from`, `FdIter` and `DirFdIter`. Variables
carry the names of the fields. Each system call and each iteration of a loop is
an action, so that others can run in between:

| code | actions |
|---|---|
| `iter_from`, `DirFdIter::open` | `IterFrom`, `DirOpen`, `DirStat` (FreeBSD's device comparison) |
| `FdIter::next`, the call | `CallNext` |
| `DirFdIter::next` | `DirExhausted`, `Getdents`, `DirEntry`, `DirEof`; an error is `DirErr` |
| `get_maxfd_direct` | `MaxfdStart` (NetBSD's `F_MAXFD`), `GetNfds`, `NfdsScan`, `Sysconf` |
| the loop of `FdIter::next` | `LoopStep` |
| `drop` | `Drop` |

`itpc` says where the iterator is: `"idle"` between two calls. A directory entry
is the number its name parses to, or -1 for `.` and `..`; the buffer is a
sequence of at most `BufCap` of them, and `dirpos` is the kernel's read
position. A listing is ascending and contains every descriptor open at the time
of the call up to its last entry, which is what the code assumes
(`dirfd.rs:247-249`); on WSL 1 it is arbitrary, as the comment at
`dirfd.rs:93-94` describes. The platform is a variable with the `target_os`
values, so one module stands for all the builds. `size_hint` changes nothing and
is the pair of operators `HintLow` and `HintHigh`.

**`CloseFds`** extends `FdIter` by one call of `closefrom` or `cloexecfrom`. The
actions follow the code: `Call`, `Inspect`, `Simplify`; the shortcut
(`ShortcutClosefrom`, `ShortcutRange`, `ShortcutGaps`, `ShortcutNone`);
`apply_range` (`GapsSkip`, `GapsFirst`, `GapsNext`, `GapsLast`); the iteration
(`StartIter`, `AskNext`, `RunIter`, `GotFd`, `LoopOver`, `SetFd`); and
`close_rest` / `set_cloexec_rest` (`RestDrop`, `RestClosefrom`, `RestRange`,
`RestLoop`, `GotRest`), `DropIter`. A slice of the keep list is the index of its
first element. `close.rs` and `cloexec.rs` are two instances of one algorithm;
`op` chooses, and `HasClosefrom` and `UsesRange` say where they differ. Integers
keep the width of `c_int`: `Incr` wraps as in a release build (a debug build
panics instead), `AsUint` is the cast to `c_uint`, and an empty range makes
`close_range()` fail with `EINVAL`. On FreeBSD calling `close_range()` on a
kernel without it ends in `pc = "killed"`. `Revoke` is a seccomp filter that
starts to refuse the call.

**`CloseCall`** is the abstract specification of such a call: between the request
and the return, descriptors that are not to be kept disappear (or are marked) in
any portions and any order, nothing else happens to the program's descriptors,
and the call returns only when all that were there from the beginning have been
dealt with. The two excuses for one that was not are visible: the call had to
loop over numbers below a limit (`bounded`), or other code opened a descriptor at
a bad moment (`disturbed`). `CloseFds` instantiates it as `Promise`, with the
directory hidden: `held` and `marked` are the program's part of the table. During
`closefrom` the directory may get the number of a descriptor already closed, and
that number is then not the program's. `KeepsPromise` is the refinement.

**`FdConsumer`** puts a client on top of `FdIter`: the loop of
`test_size_hint_generic` (`iterfds/mod.rs`), which calls `size_hint()` before and
after every `next()`, and `FdIter::min` and `::max`, which take the first and the
last descriptor.

**`CommandClose`** composes `CloseFds` with `examples/command-close.rs`: the
program opens three files, removes their close-on-exec flags, forks, and the
child calls the crate before `exec()`. `fork()` and `exec()` are external; they
are modelled by their effect on the table, and either may fail: the parent then
panics in `cmd.status().unwrap()` (`SpawnFails`), or the child ends without having
become the command (`ExecFails`).

**`EntryName`** is `parse_int_bytes` and the part of `get_entry_info` that calls
it, one action per byte of a name, with the width of `c_int` and the two checked
operations. It justifies the representation of directory entries in `FdIter`.

**`Features`** is the feature detection with several threads: `probe_features` and
the `probe()`s, the loads and stores of `try_close_range`, `set_cloexec_range`,
`check_has_close_range` and `is_wsl_1`. Each load, store and system call is a
step. Of relaxed atomics only coherence is assumed: `history` has the values of
every atomic in the order of the stores, and a load returns any of them that is
not older than the last one the thread has read or written. The history variables
`probed` and `failed` hold the threads that have gone through a whole probe, and
those whose `sysctl()` has failed. **`FeatureCaches`**
says what the caches may hold; `CloseFds` starts a call with any of these values
and `Features` shows that no thread can ever read another one.

The modules whose names begin with **`MC`** give the constants values for TLC;
the modules whose names end in **`Proofs`** hold the proofs: `FdIterProofs`,
`FdConsumerProofs`, `EntryNameProofs`, `FeaturesProofs`, the chain
`CloseFdsProofs`, `CloseShapeProofs`, `CloseEffectProofs`, each extending the one
before it, and `CommandProofs`. Operators whose name ends in a suffix
such as `_Never` or `_Early` are wrong variants of the definition that follows them; no
specification uses them. Substituting one for the original makes the property
named beside it in `PROJECT.json` fail, which shows that the property can see
that kind of mistake.

## What the runs check

| run | configuration | question |
|---|---|---|
| `iter_directory` | `FdIterDir.cfg` | Linux and FreeBSD, other threads, errors, WSL 1: is everything listed, once, in order, without the directory; does the iterator close only what is its own; is it fused; are the `debug_assert!`s and `size_hint()` right; is every call bounded? |
| `iter_maxfd_loop` | `FdConsumer.cfg` | A whole iteration on every platform, mostly by the loop after `F_MAXFD`, the count and scan, or `sysconf()`: what may be missed, and what does `threadsafe(true)` buy; do the bounds of `size_hint()` come true; are `min()` and `max()` right; does every call return? |
| `close_platforms` | `ClosePlatforms.cfg` | `closefrom` on Linux, FreeBSD, NetBSD, OpenBSD and macOS, for keep lists in any order: are exactly the right descriptors closed on every path, are the caches right, is the process never killed by SIGSYS, are `inspect_keep_fds` and `simplify_keep_fds` correct, is the promise of `CloseCall` kept? |
| `call_threads` | `CallThreads.cfg` | `closefrom`, and `cloexecfrom` with other threads between any two system calls, while `close_range()` may start to be refused and a keep list may end with `c_int::MAX`: is the same promise kept, and does every call return, within a bound on its steps? |
| `features_threads` | `Features.cfg` | Two threads probe, close, mark and iterate: are the caches right for every thread, is none killed, is a probe worth it, does it always find everything out, and when can the assertion of `try_close_range` fail? |
| `entry_names` | `EntryName.cfg` | Every name of up to four bytes: is it taken for the right number, or for none? |
| `command_example` | `CommandClose.cfg` | Does the command inherit exactly what it should, and does a forked child always get to its `exec()`? |

The main properties:

* `IterComplete`: when `next()` returns None, every descriptor held since the
  start and not below `minfd` has been returned. There are two excuses: it lies
  beyond the limit taken from `sysconf()`, or another thread opened a descriptor
  during the scan of the nfds method. This is point 3 of the warnings of
  `FdIterBuilder` (closing descriptors does not affect the others) and bounds
  point 2; `ThreadsafeComplete` says that `threadsafe(true)` removes the second
  excuse.
* `YieldedInOrder`, `OwnDirfdHidden` and `Fused` speak of every return of
  `next()` (`GivesFd`), so a descriptor returned a second time violates them too.
  `OwnDirfdHidden`: an open descriptor that `next()` returns belongs to other code.
  The directory is in its own listing and in the way of the loop that takes over
  after an error, and its number may be reused; so this depends on the filter, on
  closing the directory before the loop begins, and on `theirs` following the reuse.
  `SizeHintHonest`: from the first descriptor on, only returning one lowers the
  lower bound of `size_hint()`, which is 0 when None is returned; a known upper
  bound never grows.
* `NoForeignClose`, `IterNoLeak`, `IterAsserts`, `CallsReturn`.
* `CountWithinHints`: no bound that `size_hint()` gave at any point of an
  iteration turns out wrong. `MinMaxRight`: the first and the last descriptor
  returned enclose everything that was open all the time.
* `KeepsProtected`: no step closes or marks a descriptor below `minfd` or in the
  keep list. `TargetsHandled`: when the call returns, all the others that were
  there are closed or marked. `CloseNoLeak`, `CloexecClosesNothing`,
  `CacheTruthful`, `NoSigsys`, `InspectCorrect`, `SimplifyCorrect`,
  `CloseAsserts`, `Terminates`, and `KeepsPromise`, the refinement of `CloseCall`.
  `CallVariant`: every step of a call that changes anything lowers `Rank`, a natural
  number that nothing else changes, so these steps are bounded from its beginning,
  whatever other threads do. On WSL 1 a directory that may be listed in any order
  would break it. `IterVariant` says the same of the calls of an iterator.
* `CachesTruthful`: no thread ever reads a cached value that is wrong about the
  kernel. `NoSigsysInThreads`: nobody calls a `close_range()` FreeBSD does not
  have, although the answers of several threads overwrite each other.
  `ProbeSpares`: after `probe_features()` a thread, and a child it forks, makes no
  system call to find something out. `ProbeLearns`: although `PROBED` is set
  first, everything is found out in the end. `AssertHolds`: the assertion of
  `try_close_range` fails in a thread only if the `sysctl()` of another one has
  failed, on a kernel that has the call.
* `ParsesNumeral` and `NameOfDescriptor`: a name is parsed to the value of its
  digits if that fits a `c_int`, and to None otherwise, at whichever operation it
  overflows; and it is the number the kernel gives that name to.
* `InheritsExactly` for the example, and `CommandStarts`: a child that was forked
  gets through the closure to its `exec()`. In particular the call in it does not
  get it killed by SIGSYS, which the parent would see only as an exit status.

### Five disagreements

Five runs end with a violation, each of a statement the repository makes:

* `close_overflow`: with `minfd = c_int::MAX` and `c_int::MAX` in a sorted keep
  list, `*minfd += 1` (`util.rs:47`) wraps in a release build; `iter_from` takes
  the negative number as 0, and descriptors below `minfd` are closed, against
  `README.md:36`.
* `close_cache`: a sorted keep list that ends with `c_int::MAX` makes
  `apply_range` (`util.rs:162`) pass an empty range to `close_range()`, whose
  failure is recorded as "not available": what the comment at `close.rs:95-97`
  wants to exclude. No descriptor is mishandled (`call_threads` has such a list),
  later calls are slower.
* `close_beyond_clamp`: the fallback loop stops at 65535 (`fditer.rs:68`) even if
  the limit is higher; `README.md:84` says it "will always work".
* `iter_stale_entry`: with `possible` false, `next()` may return a descriptor that
  was closed after its directory entry was read (`dirfd.rs:261`), in one thread;
  `iterfds/mod.rs:78-79` says invalid descriptors are returned only if allowed.
* `features_assert`: `debug_assert!(check_has_close_range().is_ok())` in
  `try_close_range` (`close.rs:167`) reads the cache a second time, under the comment
  "This should have been checked previously" (`close.rs:166`). On FreeBSD a thread in
  `probe_features()` whose `sysctl()` fails ("sysctl() failed somehow (???)",
  `close.rs:150`) may store 0 after the closing thread has stored 1, and a debug
  build then panics. `AssertHolds`, which `features_threads` checks, says that this
  is the only way.

### Bounds

* `FdMax` is 2 to 5: up to six descriptors. With three there are a directory, a
  kept and a target descriptor; four and five leave gaps below, between and above
  them. `CommandClose` needs two standard streams, three files and the directory.
* `BufCap` is 2 or 3: a listing needs several `getdents()` calls, so that the table
  changes between them.
* `IntMax = 7` stands for `c_int::MAX`: larger than every descriptor, close enough
  for keep lists to contain it.
* `OpenMaxFloor`, `OpenMaxCeil` and `NfdsCutoff` stand for 1024, 65536 and 100.
  `OpenMaxCeil` is chosen at or below `FdMax` where the clamp is to matter;
  `NfdsCutoff` so that both sides of it occur. `SysconfValues` contains a
  failure (-1) or another value below the floor, a value above the ceiling, or both.
* Keep lists have up to three elements: sorted, unsorted, repeated, negative and
  absent descriptors, adjacent ones and ones with a gap of one.
* `Flags` restricts whether other code opens with `O_CLOEXEC`. `command_example`
  depends on it and uses both. The others have descriptors without the flag only:
  one that is marked already is not told apart from one the call has marked, and
  counts as handled. `call_threads` passes with both as well, but then takes more
  than twice as long. The proofs are for both.
* `call_threads` has three descriptors and `minfd = 1`, since other threads may do
  anything at any point of it; `close_overflow` has `minfd = c_int::MAX`.
* `EntryName` has `IntMax = 127` and names of up to four bytes, so that numerals
  overflow in the addition (128) and in the multiplication (130, 1280), and names
  longer than the longest number occur.
* `Features` has two threads: one that closes and one that interferes. The number
  of stores is not bounded, as storing the value that is already the newest
  changes nothing any load can see. The proofs are for any number of threads.

### Fairness

`IterSpec` has weak fairness of the steps inside a call (`IterStep`), `Spec` of
the steps of a call (`Step`): a thread that is in the middle of straight-line code
and system calls that return keeps running. Nothing is assumed of the caller,
who may never call again, nor of other threads. The number of steps others can
squeeze in is not bounded; the calls return because the read position in the
directory, the scan and `curfd` only go up. `ConSpec` has the fairness of
`IterSpec`. `FeatSpec` has weak fairness of the steps of every thread, and nothing
is assumed about when a thread calls into the crate. `CommandSpec` has weak
fairness of the whole, single-threaded program.

Deadlock is checked, except where the model ends: after a name has been parsed
(`EntryName`) and after `exec()` (`CommandClose`). `Finished` lets a call that has
returned stutter, and the caller of an iterator may stop at any time.

## What is proved

Every safety property that a passing run checks, invariant or action property, is
also proved for all values of the constants, and so is the refinement of
`CloseCall`.

### The iterator

`FdIterProofs` proves, with TLAPS, for all constants that satisfy the assumptions
`FdTableAssumption` and `FdIterAssumption` (any number of descriptors, any buffer
size, any limits with `OpenMaxFloor <= OpenMaxCeil <= IntMax`, any platforms, with
or without threads):

| theorem | statement |
|---|---|
| `IterTypeCorrect` | `IterSpec => []IterTypeOK` |
| `IterClosesOnlyItsOwn` | `IterSpec => []NoForeignClose` |
| `IterLeaksNothing` | `IterSpec => []IterNoLeak` |
| `IterAscending` | `IterSpec => YieldedInOrder` |
| `IterHidesItsDirectory` | `IterSpec => OwnDirfdHidden` |
| `IterFused` | `IterSpec => Fused` |
| `IterListsAll` | `IterSpec => []IterComplete` |
| `ThreadsafeListsAll` | `IterSpec => []ThreadsafeComplete` |
| `IterAssertsHold` | `IterSpec => []IterAsserts` |
| `SizeHintKeepsItsWord` | `IterSpec => SizeHintHonest` |
| `IterCallsAreBounded` | `IterSpec => IterVariant` |

None of these properties is inductive. The inductive invariant `IterInv` has these
parts, each proved step by step from the ones before:

* `DirControl`, `MaxControl`: at which control points there is a directory, and a
  `maxfd`; the directory is never open on WSL 1.
* `Ownership`: the only open descriptor that is not `theirs` is `dirfd`.
* `Order`: what was returned is below `curfd`; the rest of the buffer ascends, is
  below `dirpos` and not below `curfd`. Hence a change to the loop neither
  repeats nor reorders.
* `Held` is what has been open all the time, without the directory; it only
  shrinks. `Progress`: everything in `Held` below `curfd` has been returned, and
  everything below `dirpos` has been returned or waits in the buffer.
* `ScanCount`: while nobody opens a descriptor during the scan, what it has found
  and what is still ahead are together at most `nfds`. So when `nfds` were found
  nothing is ahead (`ScanFindsLast`), and closing descriptors cannot break this.
* `MaxBound`: a known `maxfd` bounds `Held`, up to the two excuses.
* `AfterNone`: after None the directory is marked exhausted or `curfd > maxfd`, and
  `maxfd` is not determined again. `AllListed` is the conclusion.

`SizeHintHonest` needs one thing more, `HintInv`: once a descriptor was returned,
no entry below `minfd` is left to come, so that every entry `size_hint()` counts
in the buffer will be returned. The entries are distinct and between `curfd` and
the end of the range, so the lower bound is not above the upper one (`HintOrder`).

`IterVariant` is about a pair of numbers. `ItemsLeft` bounds what `next()` can still
go through: the rest of the directory (`DirLeft`: every `getdents()` call moves
`dirpos` on, and refills the buffer with at most `BufCap` entries), plus the longest
possible loop in case the directory fails; then the loop alone. `CallLeft` bounds
the steps that use up none of it. Every step lowers the pair lexicographically, and
returning a descriptor lowers `ItemsLeft` (`IterStepLowers`). No other thread can
touch either: they depend on the iterator's own variables only.

`FdConsumerProofs` proves, from the same assumptions:

| theorem | statement |
|---|---|
| `MinAndMaxRight` | `ConSpec => []MinMaxRight` |
| `CountStaysWithinHints` | `ConSpec => []CountWithinHints` |

The consumer looks at what `next()` returned a step later, so the invariants
speak of what it has taken (`Taken`) and of how many were returned (`Count`).
`ConInv` says that the taken ones lie between `first` and `last`; `IterListsAll`
gives the rest. For the bounds, `LowInv` and `HighInv` compare every bound given
so far with `Count` and the current hint, and `FitInv` (`Count <= curfd`) makes
the bound for an unknown `maxfd` come true.

### The calls

Three modules prove the properties of `CloseFds`, for keep lists of any length, any
`minfd`, all platforms, both operations, other threads, and a `close_range()` that
may start to be refused:

| module | theorem | statement |
|---|---|---|
| `CloseFdsProofs` | `CloseTypeCorrect` | `Spec => []CloseTypeOK` |
| | `InspectFindsOut` | `Spec => []InspectCorrect` |
| | `NeverKilled` | `Spec => []NoSigsys` |
| | `CloexecLosesNothing` | `Spec => []CloexecClosesNothing` |
| | `CallLeaksNothing` | `Spec => []CloseNoLeak` |
| | `CallsAreBounded` | `Spec => CallVariant` |
| `CloseShapeProofs` | `SimplifyKeepsMeaning` | `Spec => []SimplifyCorrect` |
| | `CloseAssertsHold` | `Spec => []CloseAsserts` |
| `CloseEffectProofs` | `CachesAreRight` | `Spec => []CacheTruthful` |
| | `ProtectedStaysAsItIs` | `Spec => KeepsProtected` |
| | `AllTargetsHandled` | `Spec => []TargetsHandled` |
| | `PromiseKept` | `Spec => KeepsPromise` |

The theorems of `CloseFdsProofs` need only the assumptions of the modules
(`CloseFdsAssumption` and those of the iterator). The others also assume
`BelowIntMax`: no keep list contains `c_int::MAX`. `close_overflow` and
`close_cache` show what goes wrong otherwise. `minfd` itself may be `c_int::MAX`.

The inductive invariant is built in the order of the modules.

* `CallInv`: the types; at which points of the call the iterator exists and where
  it is (`PcIter`); that only the directory is open besides what is `theirs`
  (`OwnInv`); and `ItInv`, the invariants of `FdIterProofs`. A step of the
  iterator keeps them whoever drives it, so their lemmas are cited and not
  proved again; what has to be shown is that closing descriptors in the middle of
  the iteration keeps them too. `InspectInv` is the loop invariant of
  `inspect_keep_fds`, `HasRangeInv` that FreeBSD's `close_range()` is only
  reached with the answer that it is there.
* `ShapeInv` adds how `minfd` and the slice of the keep list share the work:
  `MinInv` (what `simplify_keep_fds` cuts off is below the new `minfd`),
  `ItemInv` and `LoopInv` (the slice, when it is sorted, has lost only what is
  below the iterator's position), `GapInv` (the position of `apply_range`).
* `EffectInv` adds what has been done: `Pending` is what is still to be closed or
  marked. `WorkInv` says that nothing pending is left in the gaps already passed,
  that of what the iterator returned only the last may be pending, and that in
  the end only the excuses of the iteration are. `TruthInv` is about the cache.
  `SafeInv` says that what is protected and `theirs` is open, hence the directory
  never gets such a number and closing it does no harm.
* `LimitInv` relates the iterator's limit and its disturbance to what `CloseCall`
  sees of them.

For the refinement, `Call` maps to the abstract request; a step that closes or
marks maps to `Proceed`; opening, reading and closing the directory are invisible;
steps of other code map to themselves; all steps that only move the call along
stutter; and the step that returns needs `WorkInv` to show that the promise is
fulfilled.

`Rank` goes down from the keep list through the shortcut and the gaps to
`IterationMost`, from where the iteration starts; there it is one round of at most
`RoundMost` steps for each of the `ItemsLeft` (`RankRound`, `RankRunIter`). It needs
only `CallInv`.

### The names of directory entries

`EntryNameProofs` proves, for names of any length and any largest integer
(`EntryNameAssumption`):

| theorem | statement |
|---|---|
| `NumeralsAreParsed` | `NameSpec => []ParsesNumeral` |
| `NamesAreDescriptors` | `NameSpec => []NameOfDescriptor` |

The value of a numeral, its weights and the decimal name of a number are recursive
functions, and the provers have no rule of induction they could apply. But that
every non-empty set of natural numbers has a least element is a statement about
sets (`LeastNatural`, from the well-foundedness of `<` in the library), and a least
counterexample is an induction (`Induction`, `StrongInduction`).
`PrimitiveRecursion` shows in this way that a function with given recursion
equations exists, so that the definitions mean what they say (`WeightDef`,
`WeightedSumDef`, `DecimalNameDef`). Then:

* `ValueAppend`: one more digit multiplies the value by ten and adds the digit, which
  connects the sum of weighted digits with `checked_mul` and `checked_add`;
* `ValueOfPrefix`: a prefix is worth no more than the whole, so an overflow in the
  middle means that the whole name is too large;
* `DecimalValue`: the value of the decimal name of a descriptor is the descriptor.

The inductive invariant `NameInv` says that everything consumed is a digit, that
`num` is the value of it (`ValueSoFar`), that without a leading zero its decimal
name is what was consumed (`NameSoFar`), and for which of three reasons the call has
returned (`WhyReturned`).

### The example

`CommandProofs` proves `CommandInheritsExactly`,
`CommandSpec => []InheritsExactly`, for any number of standard streams and any
table, whichever numbers the three files get. `CommandAssumption` says which calls
the program makes. Until the fork the state is an initial state of `CloseFds`
(`ParentInv`); from then on the child takes steps of `CloseFds`, so `EffectInv`
holds of it (`ChildInv`), together with what it knows of the flags at the fork.
That the two kept files are below `c_int::MAX` follows from their being
descriptors, so `BelowIntMax` is not an assumption here.

### The feature caches

`FeaturesProofs` proves, for any number of threads, on Linux and FreeBSD, in
release and debug builds (`FeaturesAssumption`), and with a `sysctl()` that may
fail at any call:

| theorem | statement |
|---|---|
| `FeaturesTypeCorrect` | `FeatSpec => []FeatTypeOK` |
| `CachesAreTruthful` | `FeatSpec => []CachesTruthful` |
| `ThreadsNotKilled` | `FeatSpec => []NoSigsysInThreads` |
| `ProbeIsWorthIt` | `FeatSpec => []ProbeSpares` |
| `AssertFailsOnlyAfterSysctl` | `FeatSpec => []AssertHolds` |

The inductive invariant `FInv` says of the memory (`HInv`, `GInv`) that only right
values are ever stored after the initial one and that the initial one is not
stored again; of a thread's view (`SInv`) that it lies within the history; and of
each thread (`PInv`) which functions it can be in on this platform (`Where`), that
a thread in a later part of the probe can no longer read the initial value of what
the earlier parts have stored (`Passed`), and that a thread about to call
`close_range()` on FreeBSD has read or stored a 1, which is only ever done on a
kernel that has the call.

`AssertHolds` needs a second invariant, `AInv`, about who stored what. A thread at
the assertion has a 1 as the last value it read or wrote (`LastRead`); so a 0 it
reads there was stored later. Every 0 that a thread has not got past yet, on a
kernel with the call, comes from the failed `sysctl()` of another thread
(`ZerosInv`): a thread that stores a 0 itself is past it at once.

### Only model-checked

The liveness properties `CallsReturn`, `Terminates`, `ProbeLearns` and
`CommandStarts`: liveness under fairness is out of the provers' reach. What would
have to go wrong for `CallsReturn` and `Terminates` to fail is narrowed down by
`IterVariant` and `CallVariant`, which are proved: a call cannot go on changing the
state for ever. That it does not spin without changing anything, that it always has
a next step, and that the step is taken, stays with TLC.

## What is not modelled

* The byte layout of `dirent` records, their alignment and `d_reclen`.
* The suffix test of `is_wsl_1` on the release name is represented by its result,
  which is constant during a run.
* Several iterators or calls at the same time within the crate: another thread's
  call appears only through its effect on the table.
* The declarations in `sys.rs` have no behaviour.

## Running

In this directory, `tlc -config X.cfg M` checks a run; `PROJECT.json` has the module
of each configuration. `tlapm X.tla` checks the proofs of module `X`, for each of the
modules whose names end in `Proofs`. Every run takes at most a few minutes. The
proofs of `CloseEffectProofs` take about a quarter of an hour, those of
`FdIterProofs`, `CloseFdsProofs` and `CloseShapeProofs` up to ten minutes each, the
others less. Zenon is the default in these modules and the leaves with arithmetic
name SMT; each leaf takes the prover a second or two at most, and the limit of 30
seconds is for the time `tlapm` itself spends on the many facts in the context.
