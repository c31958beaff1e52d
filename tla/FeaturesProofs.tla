--------------------------- MODULE FeaturesProofs ---------------------------
(***************************************************************************)
(* The invariants of Features for any number of threads.  FInv has a part  *)
(* about the shared memory, GInv, and a part PInv(t) about the state of    *)
(* one thread that does not mention the memory, so that a step of a thread *)
(* cannot disturb PInv of another (Frame).  AInv says whose answers can    *)
(* make the assertion of try_close_range fail.                             *)
(***************************************************************************)
EXTENDS Features, TLAPS

USE ZenonT(30)

MAY == "MAY_HAVE_CLOSE_RANGE"

MAYX == "MAY_HAVE_CLOSE_RANGE_CLOEXEC"

HAS == "HAS_CLOSE_RANGE"

WSL == "IS_WSL1"

(* What has been stored, and the initial values a thread may still read.   *)
stored == [a \in Atomics |-> Stored(a)]

fresh == [t \in Threads |-> [a \in Atomics |-> seen[t][a] = 1]]

Kind(a) == IF a \in {"HAS_CLOSE_RANGE", "IS_WSL1"} THEN 0..2 ELSE BOOLEAN

(* The memory starts from the initial values, and never gets back to them. *)
HInv ==
  /\ DOMAIN history = Atomics
  /\ \A a \in Atomics :
       /\ history[a] \in Seq(Kind(a))
       /\ Len(history[a]) >= 1
       /\ history[a][1] = Initial[a]
       /\ \A i \in 2..Len(history[a]) : history[a][i] # Initial[a]
  /\ seen \in [Threads -> [Atomics -> Nat \ {0}]]
  /\ \A t \in Threads, a \in Atomics : seen[t][a] <= Len(history[a])

(* Only what is true is ever stored.                                       *)
GInv ==
  /\ os \in Platforms /\ wsl1 \in BOOLEAN
  /\ kernel \in {"none", "plain", "cloexec"}
  /\ DOMAIN stored = Atomics
  /\ stored["PROBED"] \subseteq {TRUE}
  /\ \A a \in {MAY, MAYX} :
       /\ stored[a] \subseteq {FALSE}
       /\ stored[a] # {} => os = "linux" /\ ~Works(a)
  /\ stored[HAS] \subseteq 0..1
  /\ stored[HAS] # {} => os = "freebsd"
  /\ 1 \in stored[HAS] => kernel # "none"
  /\ stored[WSL] \subseteq {IF wsl1 THEN 1 ELSE 0}

(* The shapes of the functions of threads.                                 *)
SInv ==
  /\ HInv
  /\ pc \in [Threads -> FeatPcs]
  /\ job \in [Threads -> JobSet]
  /\ found \in [Threads -> 0..1]
  /\ probed \subseteq Threads

LinuxPcs == {"invalid", "may", "store_may", "wsl", "uname"}

FreebsdPcs == {"check", "sysctl", "store_has", "assert"}

(* What a thread knows at each point.                                      *)
Where(p, j, f) ==
  /\ p \in LinuxPcs => os = "linux"
  /\ p \in FreebsdPcs => os = "freebsd" /\ j \in {"probe", "close"}
  /\ p \in {"load_probed", "set_probed", "invalid"} => j = "probe"
  /\ p = "store_may" => ~Works(Cache(j))
  /\ p = "range" => os \in {"linux", "freebsd"}
  /\ p = "range" /\ os = "freebsd" => j = "close" /\ kernel # "none"
  /\ p = "assert" => kernel # "none" /\ j = "close"
  /\ p = "store_has" /\ f = 1 => kernel # "none"
  /\ p \in {"may", "range"} => j # "probe"
  /\ p = "store_may" /\ j = "probe" => ~Works(MAY)
  /\ p # "killed"

(* A probe in progress has left nothing behind that it has passed.         *)
Passed(p, j, view) ==
  /\ j = "probe" /\ p \in {"invalid", "store_may"} \cup FreebsdPcs =>
       ~view["PROBED"]
  /\ j = "probe_cloexec" =>
       os = "linux" /\ ~view["PROBED"] /\ (Works(MAY) \/ ~view[MAY])
  /\ j = "probe_cloexec" /\ p \in {"wsl", "uname"} =>
       Works(MAYX) \/ ~view[MAYX]

(* A thread that has been through a probe.                                 *)
Knows(p, j, view) ==
  /\ ~view["PROBED"]
  /\ os = "linux" =>
       ~view[WSL] /\ (Works(MAY) \/ ~view[MAY]) /\ (Works(MAYX) \/ ~view[MAYX])
  /\ os = "freebsd" => ~view[HAS]
  /\ p = "range" => Works(Cache(j))
  /\ p \notin {"set_probed", "invalid", "store_may", "sysctl", "uname"}

PInv(t) ==
  /\ Where(pc[t], job[t], found[t])
  /\ Passed(pc[t], job[t], fresh[t])
  /\ t \in probed => Knows(pc[t], job[t], fresh[t])

FInv == GInv /\ SInv /\ \A t \in Threads : PInv(t)

(* A step of t leaves the state of the other threads alone.                *)
Frame(t) ==
  /\ UNCHANGED sysVars
  /\ \A u \in Threads \ {t} :
       /\ pc'[u] = pc[u] /\ job'[u] = job[u] /\ found'[u] = found[u]
       /\ fresh'[u] = fresh[u]
       /\ u \in probed' <=> u \in probed

-----------------------------------------------------------------------------
(* Facts about the atomics and their initial values.                       *)
LEMMA AtomicNames ==
  /\ Atomics = {"PROBED", MAY, MAYX, HAS, WSL}
  /\ Initial["PROBED"] = FALSE
  /\ Initial[MAY] = TRUE
  /\ Initial[MAYX] = TRUE
  /\ Initial[HAS] = 2
  /\ Initial[WSL] = 2
BY DEF Atomics, Initial, MAY, MAYX, HAS, WSL

LEMMA KindOf ==
  /\ Kind("PROBED") = BOOLEAN
  /\ \A a \in {MAY, MAYX} : Kind(a) = BOOLEAN
  /\ \A a \in {HAS, WSL} : Kind(a) = 0..2
BY DEF Kind, MAY, MAYX, HAS, WSL

(* The initial states satisfy the invariant.                               *)
LEMMA FInvInit == FeatInit => FInv
<1> SUFFICES ASSUME FeatInit PROVE FInv
  OBVIOUS
<1> USE FeaturesAssumption
<1>1. GInv
  <2>1. \A a \in Atomics : stored[a] = {}
    BY SMTT(30) DEF FeatInit, stored, Stored
  <2> QED BY <2>1, AtomicNames DEF FeatInit, GInv, stored
<1>2. SInv
  <2>1. \A a \in Atomics : Initial[a] \in Kind(a)
    <3>1. Initial["PROBED"] \in Kind("PROBED")
      BY AtomicNames, KindOf
    <3>2. \A a \in {MAY, MAYX} : Initial[a] \in Kind(a)
      BY AtomicNames, KindOf
    <3>3. \A a \in {HAS, WSL} : Initial[a] = 2 /\ Kind(a) = 0..2
      BY AtomicNames, KindOf
    <3>4. \A a \in {HAS, WSL} : Initial[a] \in Kind(a)
      BY SMTT(30), <3>3
    <3>5. Atomics = {"PROBED", MAY, MAYX, HAS, WSL}
      BY AtomicNames
    <3> QED BY <3>1, <3>2, <3>4, <3>5
  <2>2. HInv
    BY SMTT(30), <2>1 DEF FeatInit, HInv
  <2> QED BY SMTT(30), <2>2 DEF FeatInit, SInv, FeatPcs, JobSet
<1>3. ASSUME NEW t \in Threads PROVE PInv(t)
  BY <1>3 DEF FeatInit, PInv, Where, Passed, LinuxPcs, FreebsdPcs
<1> QED BY <1>1, <1>2, <1>3 DEF FInv

(* A step of one thread preserves the invariant if it preserves the parts  *)
(* that concern the memory and that thread.                                *)
LEMMA FrameStep ==
  ASSUME NEW t \in Threads, FInv, Frame(t), GInv', SInv', PInv(t)'
  PROVE  FInv'
<1>1. ASSUME NEW u \in Threads, u # t PROVE PInv(u)'
  <2>1. PInv(u) BY DEF FInv
  <2>2. /\ pc'[u] = pc[u] /\ job'[u] = job[u] /\ found'[u] = found[u]
        /\ fresh'[u] = fresh[u]
        /\ u \in probed' <=> u \in probed
        /\ os' = os /\ kernel' = kernel /\ wsl1' = wsl1
    BY <1>1 DEF Frame, sysVars
  <2>3. Where(pc[u], job[u], found[u])'
    BY <2>1, <2>2 DEF PInv, Where, Works, Cache
  <2>4. Passed(pc[u], job[u], fresh[u])'
    BY <2>1, <2>2 DEF PInv, Passed, Works
  <2>5. (u \in probed => Knows(pc[u], job[u], fresh[u]))'
    BY <2>1, <2>2 DEF PInv, Knows, Works, Cache
  <2> QED BY <2>3, <2>4, <2>5 DEF PInv
<1> QED BY <1>1 DEF FInv

(* The effect of a load, of a store and of going on in a function.         *)
LoadFacts(t, a, v) ==
  /\ stored' = stored
  /\ HInv'
  /\ \A u \in Threads \ {t} : fresh'[u] = fresh[u]
  /\ \A b \in Atomics \ {a} : fresh'[t][b] = fresh[t][b]
  /\ fresh'[t][a] <=> (fresh[t][a] /\ v = Initial[a])
  /\ v \in stored[a] \/ (fresh[t][a] /\ v = Initial[a])

StoreFacts(t, a, v) ==
  /\ DOMAIN stored' = Atomics
  /\ stored'[a] = stored[a] \cup {v}
  /\ \A b \in Atomics \ {a} : stored'[b] = stored[b]
  /\ HInv'
  /\ \A u \in Threads \ {t} : fresh'[u] = fresh[u]
  /\ \A b \in Atomics \ {a} : fresh'[t][b] = fresh[t][b]
  /\ ~fresh'[t][a]

MoveFacts(t, j, p) ==
  /\ pc' \in [Threads -> FeatPcs] /\ pc'[t] = p
  /\ job' \in [Threads -> JobSet] /\ job'[t] = j
  /\ \A u \in Threads \ {t} : pc'[u] = pc[u] /\ job'[u] = job[u]

LEMMA LoadEffect ==
  ASSUME NEW t \in Threads, NEW a \in Atomics, NEW v, SInv, Load(t, a, v)
  PROVE  LoadFacts(t, a, v)
<1> USE DEF SInv, HInv
<1>1. history' = history
  BY DEF Load
<1>2. PICK i \in seen[t][a]..Len(history[a]) :
        v = history[a][i] /\ seen' = [seen EXCEPT ![t][a] = i]
  BY DEF Load
<1>3. i \in Nat \ {0} /\ i <= Len(history[a])
  BY SMTT(30), <1>2
<1>4. /\ seen' \in [Threads -> [Atomics -> Nat \ {0}]]
      /\ seen'[t][a] = i
      /\ \A b \in Atomics \ {a} : seen'[t][b] = seen[t][b]
      /\ \A u \in Threads \ {t} : seen'[u] = seen[u]
  BY <1>2, <1>3
<1>5. HInv'
  <2>1. ASSUME NEW u \in Threads, NEW b \in Atomics
        PROVE  seen'[u][b] <= Len(history[b])
    <3>1. CASE u = t /\ b = a
      BY <1>3, <1>4, <3>1
    <3>2. CASE ~(u = t /\ b = a)
      BY <1>4, <3>2
    <3> QED BY <3>1, <3>2
  <2> QED BY <1>1, <1>4, <2>1
<1>6. stored' = stored
  BY SMTT(30), <1>1 DEF stored, Stored
<1>7. /\ \A u \in Threads \ {t} : fresh'[u] = fresh[u]
      /\ \A b \in Atomics \ {a} : fresh'[t][b] = fresh[t][b]
  BY SMTT(30), <1>4 DEF fresh
<1>8. i = 1 <=> v = Initial[a]
  BY SMTT(30), <1>2, <1>3
<1>9. i = 1 => seen[t][a] = 1
  BY SMTT(30), <1>2
<1>10. fresh'[t][a] <=> (fresh[t][a] /\ v = Initial[a])
  BY <1>4, <1>8, <1>9 DEF fresh
<1>11. v \in stored[a] \/ (fresh[t][a] /\ v = Initial[a])
  <2>1. CASE i = 1
    BY <2>1, <1>8, <1>9 DEF fresh
  <2>2. CASE i # 1
    BY SMTT(30), <2>2, <1>2, <1>3 DEF stored, Stored
  <2> QED BY <2>1, <2>2
<1> QED BY <1>5, <1>6, <1>7, <1>10, <1>11 DEF LoadFacts

LEMMA StoreEffect ==
  ASSUME NEW t \in Threads, NEW a \in Atomics, NEW v \in Kind(a), SInv,
         v # Initial[a], Store(t, a, v)
  PROVE  StoreFacts(t, a, v)
<1> USE DEF SInv, HInv
<1> DEFINE h == history[a]
           n == Len(history'[a])
<1>0. h \in Seq(Kind(a)) /\ Len(h) \in Nat \ {0}
  BY SMTT(30)
<1>1. /\ DOMAIN history' = Atomics
      /\ \A b \in Atomics \ {a} : history'[b] = history[b]
      /\ history'[a] \in Seq(Kind(a))
      /\ history'[a][1] = Initial[a]
      /\ n >= Len(h) /\ n >= 2 /\ n \in Nat
      /\ \A i \in 2..n : history'[a][i] # Initial[a]
      /\ stored'[a] = stored[a] \cup {v}
  <2>1. CASE h[Len(h)] = v
    <3>1. history' = history /\ Len(h) >= 2
      BY SMTT(30), <1>0, <2>1 DEF Store
    <3>2. Len(h) \in 2..Len(h)
      BY SMTT(30), <1>0, <3>1
    <3>3. v \in Stored(a)
      BY <2>1, <3>2 DEF Stored
    <3> QED BY SMTT(30), <1>0, <3>1, <3>3 DEF stored, Stored
  <2>2. CASE h[Len(h)] # v
    <3>1. history' = [history EXCEPT ![a] = Append(h, v)]
      BY <2>2 DEF Store
    <3>2. /\ history'[a] = Append(h, v) /\ DOMAIN history' = Atomics
          /\ \A b \in Atomics \ {a} : history'[b] = history[b]
      BY <3>1
    <3>3. /\ Append(h, v) \in Seq(Kind(a)) /\ Len(Append(h, v)) = Len(h) + 1
          /\ \A i \in 1..Len(h) : Append(h, v)[i] = h[i]
          /\ Append(h, v)[Len(h) + 1] = v
      BY SMTT(30), <1>0
    <3>4. \A i \in 2..n : history'[a][i] # Initial[a]
      BY SMTT(30), <1>0, <3>2, <3>3
    <3>5. Stored(a)' = Stored(a) \cup {v}
      BY SMTT(30), <1>0, <3>2, <3>3 DEF Stored
    <3>6. stored'[a] = stored[a] \cup {v}
      BY <3>5 DEF stored
    <3> QED BY SMTT(30), <1>0, <3>2, <3>3, <3>4, <3>6
  <2> QED BY <2>1, <2>2
<1>2. \A b \in Atomics \ {a} : stored'[b] = stored[b]
  BY SMTT(30), <1>1 DEF stored, Stored
<1>3. /\ seen' \in [Threads -> [Atomics -> Nat \ {0}]]
      /\ seen'[t][a] = n
      /\ \A b \in Atomics \ {a} : seen'[t][b] = seen[t][b]
      /\ \A u \in Threads \ {t} : seen'[u] = seen[u]
  BY SMTT(30), <1>1 DEF Store
<1>4. ASSUME NEW u \in Threads, NEW b \in Atomics
      PROVE  seen'[u][b] <= Len(history'[b])
  <2>1. CASE b # a
    <3>1. seen'[u][b] = seen[u][b] /\ history'[b] = history[b]
      BY <1>1, <1>3, <2>1
    <3> QED BY <3>1
  <2>2. CASE b = a /\ u = t
    BY SMTT(30), <1>1, <1>3, <2>2
  <2>3. CASE b = a /\ u # t
    <3>1. seen'[u][b] = seen[u][a] /\ seen[u][a] \in Nat /\ seen[u][a] <= Len(h)
      BY SMTT(30), <1>3, <2>3
    <3> QED BY SMTT(30), <1>0, <1>1, <2>3, <3>1
  <2> QED BY <2>1, <2>2, <2>3
<1>5. HInv'
  <2>1. ASSUME NEW b \in Atomics
        PROVE  /\ history'[b] \in Seq(Kind(b))
               /\ Len(history'[b]) >= 1
               /\ history'[b][1] = Initial[b]
               /\ \A i \in 2..Len(history'[b]) : history'[b][i] # Initial[b]
    <3>1. CASE b = a
      BY SMTT(30), <1>1, <3>1
    <3>2. CASE b # a
      <4>1. history'[b] = history[b]
        BY <1>1, <3>2
      <4> QED BY <4>1
    <3> QED BY <3>1, <3>2
  <2> QED BY <1>1, <1>3, <1>4, <2>1
<1>6. /\ \A u \in Threads \ {t} : fresh'[u] = fresh[u]
      /\ \A b \in Atomics \ {a} : fresh'[t][b] = fresh[t][b]
      /\ ~fresh'[t][a]
  <2>1. n # 1
    BY SMTT(30), <1>1
  <2>2. \A u \in Threads, b \in Atomics : fresh[u][b] = (seen[u][b] = 1)
    BY DEF fresh
  <2>3. ASSUME NEW u \in Threads, NEW b \in Atomics
        PROVE  fresh'[u][b] = (seen'[u][b] = 1)
    BY DEF fresh
  <2>4. \A u \in Threads \ {t} : fresh'[u] = fresh[u]
    BY SMTT(30), <1>3 DEF fresh
  <2>5. ASSUME NEW b \in Atomics \ {a} PROVE fresh'[t][b] = fresh[t][b]
    <3>1. seen'[t][b] = seen[t][b]
      BY <1>3
    <3>2. fresh'[t][b] = (seen'[t][b] = 1)
      BY <2>3
    <3>3. fresh[t][b] = (seen[t][b] = 1)
      BY <2>2
    <3> QED BY <3>1, <3>2, <3>3
  <2>6. ~fresh'[t][a]
    BY <1>3, <2>1, <2>3
  <2> QED BY <2>4, <2>5, <2>6
<1>7. DOMAIN stored' = Atomics
  BY DEF stored
<1> QED BY <1>1, <1>2, <1>5, <1>6, <1>7 DEF StoreFacts

LEMMA LeaveEffect ==
  ASSUME NEW t \in Threads, SInv, Leave(t) PROVE MoveFacts(t, "iter", "idle")
BY DEF SInv, Leave, Enter, Goto, MoveFacts, FeatPcs, JobSet

(* A step without a load or a store.                                       *)
LEMMA MemUnchanged ==
  ASSUME SInv, UNCHANGED memVars
  PROVE  stored' = stored /\ fresh' = fresh /\ HInv'
BY SMTT(30) DEF SInv, memVars, stored, Stored, fresh, HInv

(* The values that are stored are not initial ones.                        *)
LEMMA StorableValues ==
  /\ TRUE \in Kind("PROBED") /\ TRUE # Initial["PROBED"]
  /\ \A a \in {MAY, MAYX} : FALSE \in Kind(a) /\ FALSE # Initial[a]
  /\ \A a \in {HAS, WSL}, v \in 0..1 : v \in Kind(a) /\ v # Initial[a]
<1>1. TRUE \in Kind("PROBED") /\ TRUE # Initial["PROBED"]
  BY AtomicNames, KindOf
<1>2. ASSUME NEW a \in {MAY, MAYX} PROVE FALSE \in Kind(a) /\ FALSE # Initial[a]
  BY AtomicNames, KindOf
<1>3. ASSUME NEW a \in {HAS, WSL}, NEW v \in 0..1
      PROVE  v \in Kind(a) /\ v # Initial[a]
  <2>1. Kind(a) = 0..2 /\ Initial[a] = 2
    BY AtomicNames, KindOf
  <2> QED BY SMTT(30), <2>1
<1> QED BY <1>1, <1>2, <1>3

LEMMA EnterEffect ==
  ASSUME NEW t \in Threads, NEW j \in JobSet, NEW p \in FeatPcs, SInv,
         Enter(t, j, p)
  PROVE  MoveFacts(t, j, p)
BY DEF SInv, Enter, Goto, MoveFacts

LEMMA StayEffect ==
  ASSUME NEW t \in Threads, NEW p \in FeatPcs, SInv, Stay(t, p)
  PROVE  MoveFacts(t, job[t], p)
BY DEF SInv, Stay, Goto, MoveFacts

(* GInv does not depend on the views.                                      *)
LEMMA MemoryFrame ==
  ASSUME GInv, UNCHANGED <<sysVars, stored>> PROVE GInv'
BY DEF GInv, sysVars, Works

(* A step of t to the point p of the function j, on the views it leaves.   *)
LEMMA ThreadMoves ==
  ASSUME NEW t \in Threads, NEW j \in JobSet, NEW p \in FeatPcs,
         FInv, GInv', UNCHANGED sysVars, MoveFacts(t, j, p),
         found' \in [Threads -> 0..1],
         \A u \in Threads \ {t} : found'[u] = found[u],
         HInv',
         \A u \in Threads \ {t} : fresh'[u] = fresh[u],
         probed' \in {probed, probed \cup {t}},
         Where(p, j, found'[t]),
         Passed(p, j, fresh'[t]),
         t \in probed' => Knows(p, j, fresh'[t])
  PROVE  FInv'
<1>1. SInv'
  BY DEF FInv, SInv, MoveFacts
<1>2. Frame(t)
  BY DEF Frame, MoveFacts
<1>3. Where(pc[t], job[t], found[t])'
  BY DEF MoveFacts, Where, Works, Cache, sysVars
<1>4. Passed(pc[t], job[t], fresh[t])'
  BY DEF MoveFacts, Passed, Works, sysVars
<1>5. (t \in probed => Knows(pc[t], job[t], fresh[t]))'
  BY DEF MoveFacts, Knows, Works, Cache, sysVars
<1>6. PInv(t)'
  BY <1>3, <1>4, <1>5 DEF PInv
<1> QED BY <1>1, <1>2, <1>6, FrameStep

-----------------------------------------------------------------------------
(* The steps of a thread.                                                  *)

LEMMA LoadProbedStep ==
  ASSUME NEW t \in Threads, FInv, LoadProbed(t) PROVE FInv'
<1> USE DEF FInv
<1>0. PInv(t) /\ job[t] \in JobSet /\ found \in [Threads -> 0..1]
      /\ SInv
  BY DEF SInv
<1>1. PICK v \in BOOLEAN : /\ Load(t, "PROBED", v)
                          /\ IF v THEN Leave(t) ELSE Stay(t, "set_probed")
  BY DEF LoadProbed
<1>2. UNCHANGED <<sysVars, found, probed>> /\ pc[t] = "load_probed"
  BY DEF LoadProbed
<1>3. LoadFacts(t, "PROBED", v)
  BY <1>0, <1>1, AtomicNames, LoadEffect
<1>4. PICK j \in JobSet, p \in FeatPcs :
        /\ MoveFacts(t, j, p)
        /\ \/ v /\ p = "idle" /\ j = "iter"
           \/ ~v /\ p = "set_probed" /\ j = job[t]
  BY <1>0, <1>1, LeaveEffect, StayEffect DEF FeatPcs, JobSet
<1>5. GInv'
  BY <1>2, <1>3, MemoryFrame DEF LoadFacts
<1>6. Where(p, j, found'[t])
  BY <1>0, <1>2, <1>4 DEF PInv, Where, LinuxPcs, FreebsdPcs
<1>7. Passed(p, j, fresh'[t])
  BY <1>0, <1>2, <1>3, <1>4, AtomicNames
  DEF PInv, Passed, LoadFacts, FreebsdPcs, Where
<1>8. t \in probed' => Knows(p, j, fresh'[t])
  BY <1>0, <1>2, <1>3, <1>4, AtomicNames DEF PInv, Knows, LoadFacts, GInv
<1> QED BY <1>0, <1>2, <1>3, <1>4, <1>5, <1>6, <1>7, <1>8, ThreadMoves
        DEF LoadFacts

LEMMA StoreProbedStep ==
  ASSUME NEW t \in Threads, FInv, StoreProbed(t) PROVE FInv'
<1> USE DEF FInv
<1>0. PInv(t) /\ job[t] \in JobSet /\ found \in [Threads -> 0..1]
      /\ SInv
  BY DEF SInv
<1>1. /\ Store(t, "PROBED", TRUE)
      /\ Stay(t, IF os = "linux" THEN "invalid" ELSE "check")
      /\ UNCHANGED <<sysVars, found, probed>> /\ pc[t] = "set_probed"
  BY DEF StoreProbed
<1>2. StoreFacts(t, "PROBED", TRUE)
  BY <1>1, AtomicNames, StoreEffect, StorableValues
<1>3. PICK p \in FeatPcs :
        p = (IF os = "linux" THEN "invalid" ELSE "check") /\ Stay(t, p)
  BY <1>1 DEF FeatPcs
<1>4. MoveFacts(t, job[t], p)
  BY <1>3, StayEffect
<1>5. GInv'
  BY <1>1, <1>2, AtomicNames
  DEF GInv, StoreFacts, sysVars, Works, MAY, MAYX, HAS, WSL
<1>6. Where(p, job[t], found'[t])
  BY <1>0, <1>1, <1>3, FeaturesAssumption
  DEF PInv, Where, LinuxPcs, FreebsdPcs, GInv
<1>7. Passed(p, job[t], fresh'[t])
  BY <1>0, <1>1, <1>2, <1>3, AtomicNames
  DEF PInv, Passed, StoreFacts, Where
<1>8. t \in probed' => Knows(p, job[t], fresh'[t])
  BY <1>0, <1>1 DEF PInv, Knows
<1> QED BY <1>0, <1>1, <1>2, <1>4, <1>5, <1>6, <1>7, <1>8, ThreadMoves
        DEF StoreFacts

LEMMA ProbeCloseStep ==
  ASSUME NEW t \in Threads, FInv, ProbeClose(t) PROVE FInv'
<1> USE DEF FInv
<1>0. PInv(t) /\ job[t] \in JobSet /\ found \in [Threads -> 0..1]
      /\ SInv
  BY DEF SInv
<1>1. UNCHANGED <<sysVars, memVars, found, probed>> /\ pc[t] = "invalid"
  BY DEF ProbeClose
<1>2. job[t] = "probe" /\ os = "linux" /\ t \notin probed
  BY <1>0, <1>1 DEF PInv, Where, LinuxPcs, Knows
<1>3. GInv'
  BY <1>0, <1>1, MemoryFrame, MemUnchanged
<1>4. CASE kernel = "none"
  <2>1. Stay(t, "store_may")
    BY <1>4 DEF ProbeClose, SaysAbsent, InvalidErrno
  <2>2. MoveFacts(t, "probe", "store_may")
    BY <1>2, <2>1, StayEffect DEF FeatPcs
  <2>3. Where("store_may", "probe", found'[t])
    BY <1>2, <1>4 DEF Where, LinuxPcs, FreebsdPcs, Works, Cache, MAY
  <2>4. Passed("store_may", "probe", fresh'[t])
    BY <1>0, <1>1, <1>2, MemUnchanged DEF PInv, Passed
  <2> QED
    BY <1>0, <1>1, <1>2, <1>3, <2>2, <2>3, <2>4, ThreadMoves, MemUnchanged
    DEF FeatPcs, JobSet
<1>5. CASE kernel # "none"
  <2>1. Enter(t, "probe_cloexec", "range")
    BY <1>5 DEF ProbeClose, SaysAbsent, InvalidErrno, ProbeNext
  <2>2. MoveFacts(t, "probe_cloexec", "range")
    BY <2>1, EnterEffect DEF FeatPcs, JobSet
  <2>3. Where("range", "probe_cloexec", found'[t])
    BY <1>2, <1>5 DEF Where, LinuxPcs, FreebsdPcs
  <2>4. Passed("range", "probe_cloexec", fresh'[t])
    BY <1>0, <1>1, <1>2, <1>5, MemUnchanged DEF PInv, Passed, Works, MAY
  <2> QED
    BY <1>0, <1>1, <1>2, <1>3, <2>2, <2>3, <2>4, ThreadMoves, MemUnchanged
    DEF FeatPcs, JobSet
<1> QED BY <1>4, <1>5

(* A fallback goes on to the end, to is_wsl_1 or to a "_rest" function.    *)
FallsTo(t, j, p) ==
  /\ j \in JobSet /\ p \in FeatPcs
  /\ \/ p = "idle" /\ j = "iter"
     \/ p = "wsl" /\ j = job[t]
     \/ p = "may" /\ j \in {"close_rest", "cloexec_rest"}
  /\ MoveFacts(t, j, p)

LEMMA EndsEffect ==
  ASSUME NEW t \in Threads, SInv, Ends(t)
  PROVE  \E j \in JobSet, p \in FeatPcs \ {"wsl"} : FallsTo(t, j, p)
<1>1. job[t] \in JobSet
  BY DEF SInv
<1>2. /\ "idle" \in FeatPcs \ {"wsl"} /\ "may" \in FeatPcs \ {"wsl"}
      /\ "close_rest" \in JobSet /\ "cloexec_rest" \in JobSet /\ "iter" \in JobSet
  BY DEF FeatPcs, JobSet, Closes, Cloexecs
<1>3. CASE Leave(t)
  BY <1>2, <1>3, EnterEffect DEF FallsTo, Leave
<1>4. CASE Enter(t, "close_rest", "may")
  BY <1>2, <1>4, EnterEffect DEF FallsTo
<1>5. CASE Enter(t, "cloexec_rest", "may")
  BY <1>2, <1>5, EnterEffect DEF FallsTo
<1> QED BY <1>3, <1>4, <1>5 DEF Ends

LEMMA IteratesEffect ==
  ASSUME NEW t \in Threads, SInv, Iterates(t)
  PROVE  \E j \in JobSet, p \in FeatPcs : FallsTo(t, j, p)
<1>1. job[t] \in JobSet /\ "wsl" \in FeatPcs
  BY DEF SInv, FeatPcs
<1>2. CASE Stay(t, "wsl")
  BY <1>1, <1>2, StayEffect DEF FallsTo
<1>3. CASE Ends(t)
  BY <1>3, EndsEffect
<1> QED BY <1>2, <1>3 DEF Iterates

(* Views only lose initial values.                                         *)
Shrinks(t) == \A a \in Atomics : fresh'[t][a] => fresh[t][a]

(* Going on to a harmless point keeps what the thread knows.               *)
LEMMA Harmless ==
  ASSUME NEW t \in Threads, NEW j \in JobSet, NEW p, PInv(t), Shrinks(t),
         \/ p = "idle" /\ j = "iter"
         \/ p = "wsl" /\ j = job[t] /\ j # "probe_cloexec" /\ os = "linux"
         \/ p = "may" /\ j \in {"close_rest", "cloexec_rest"} /\ os = "linux"
  PROVE  /\ \A f : Where(p, j, f)
         /\ Passed(p, j, fresh'[t])
         /\ t \in probed => Knows(p, j, fresh'[t])
<1>1. /\ "PROBED" \in Atomics /\ MAY \in Atomics /\ MAYX \in Atomics
      /\ HAS \in Atomics /\ WSL \in Atomics
  BY AtomicNames
<1>2. \A f : Where(p, j, f)
  BY DEF Where, LinuxPcs, FreebsdPcs
<1>3. Passed(p, j, fresh'[t])
  BY <1>1 DEF PInv, Passed, Shrinks, FreebsdPcs
<1>4. t \in probed => Knows(p, j, fresh'[t])
  BY <1>1 DEF PInv, Knows, Shrinks
<1> QED BY <1>2, <1>3, <1>4

LEMMA FallsBack ==
  ASSUME NEW t \in Threads, NEW j, NEW p, FInv, GInv', FallsTo(t, j, p),
         os = "linux", job[t] # "probe_cloexec",
         UNCHANGED <<sysVars, found, probed>>, Shrinks(t),
         HInv',
         \A u \in Threads \ {t} : fresh'[u] = fresh[u]
  PROVE  FInv'
<1>1. PInv(t) /\ found \in [Threads -> 0..1]
  BY DEF FInv, SInv
<1>2. /\ \A f : Where(p, j, f)
      /\ Passed(p, j, fresh'[t])
      /\ t \in probed => Knows(p, j, fresh'[t])
  BY <1>1, Harmless DEF FallsTo
<1> QED BY <1>1, <1>2, ThreadMoves DEF FallsTo

(* The caches of the functions.                                            *)
LEMMA CacheName == \A j : Cache(j) \in {MAY, MAYX} /\ Cache(j) \in Atomics
BY AtomicNames DEF Cache, MAY, MAYX

LEMMA LoadShrinks ==
  ASSUME NEW t \in Threads, NEW a \in Atomics, NEW v, LoadFacts(t, a, v)
  PROVE  Shrinks(t)
BY DEF LoadFacts, Shrinks

LEMMA StoreShrinks ==
  ASSUME NEW t \in Threads, NEW a \in Atomics, NEW v, StoreFacts(t, a, v)
  PROVE  Shrinks(t)
BY DEF StoreFacts, Shrinks

LEMMA LoadMayStep ==
  ASSUME NEW t \in Threads, FInv, LoadMay(t) PROVE FInv'
<1> USE DEF FInv
<1>0. PInv(t) /\ job[t] \in JobSet /\ found \in [Threads -> 0..1]
      /\ SInv
  BY DEF SInv
<1>1. PICK v \in BOOLEAN :
        /\ Load(t, Cache(job[t]), v)
        /\ \/ v /\ Stay(t, "range")
           \/ job[t] \in {"close", "cloexec"} /\ Iterates(t)
           \/ ~v /\ job[t] \notin {"close", "cloexec"} /\ Leave(t)
  BY DEF LoadMay
<1>2. UNCHANGED <<sysVars, found, probed>> /\ pc[t] = "may"
  BY DEF LoadMay
<1>3. LoadFacts(t, Cache(job[t]), v) /\ Shrinks(t)
  BY <1>1, CacheName, LoadEffect, LoadShrinks
<1>4. GInv' /\ os = "linux"
  BY <1>0, <1>2, <1>3, MemoryFrame DEF LoadFacts, PInv, Where, LinuxPcs
<1>5. CASE v /\ Stay(t, "range")
  <2>1. MoveFacts(t, job[t], "range")
    BY <1>1, <1>5, StayEffect DEF FeatPcs
  <2>2. job[t] # "probe"
    BY <1>0, <1>2 DEF PInv, Where
  <2>3. Where("range", job[t], found'[t])
    BY <1>4, <2>2 DEF Where, LinuxPcs, FreebsdPcs
  <2>4. Passed("range", job[t], fresh'[t])
    BY <1>0, <1>3, <2>2, AtomicNames DEF PInv, Passed, Shrinks
  <2>5. fresh[t][Cache(job[t])]
    BY <1>3, <1>5, CacheName DEF LoadFacts, GInv
  <2>6. t \in probed => Works(Cache(job[t]))
    BY SMTT(30), <1>0, <1>4, <2>5, CacheName DEF PInv, Knows
  <2>7. t \in probed' => Knows("range", job[t], fresh'[t])
    BY <1>0, <1>2, <1>3, <2>6, AtomicNames DEF PInv, Knows, Shrinks
  <2> QED
    BY <1>0, <1>2, <1>3, <1>4, <2>1, <2>3, <2>4, <2>7, ThreadMoves
    DEF LoadFacts, FeatPcs
<1>6. CASE job[t] \in {"close", "cloexec"} /\ Iterates(t)
  <2>1. PICK j \in JobSet, p \in FeatPcs : FallsTo(t, j, p)
    BY <1>6, IteratesEffect
  <2> QED BY <1>2, <1>3, <1>4, <1>6, <2>1, FallsBack DEF LoadFacts
<1>7. CASE Leave(t)
  <2>1. MoveFacts(t, "iter", "idle")
    BY <1>7, LeaveEffect
  <2>2. /\ \A f : Where("idle", "iter", f)
        /\ Passed("idle", "iter", fresh'[t])
        /\ t \in probed => Knows("idle", "iter", fresh'[t])
    BY <1>0, <1>3, Harmless DEF JobSet
  <2> QED
    BY <1>0, <1>2, <1>3, <1>4, <2>1, <2>2, ThreadMoves
    DEF LoadFacts, FeatPcs, JobSet
<1> QED BY <1>1, <1>5, <1>6, <1>7

(* A step without a load or a store.                                       *)
LEMMA PlainMove ==
  ASSUME NEW t \in Threads, NEW j \in JobSet, NEW p \in FeatPcs, FInv,
         UNCHANGED <<sysVars, memVars, found, probed>>, MoveFacts(t, j, p),
         Where(p, j, found[t]), Passed(p, j, fresh[t]),
         t \in probed => Knows(p, j, fresh[t])
  PROVE  FInv'
<1>1. GInv'
  BY MemoryFrame, MemUnchanged DEF FInv
<1>2. found \in [Threads -> 0..1] /\ SInv
  BY DEF FInv, SInv
<1> QED BY <1>1, <1>2, ThreadMoves, MemUnchanged

LEMMA RangeStep ==
  ASSUME NEW t \in Threads, FInv, Range(t) PROVE FInv'
<1> USE DEF FInv
<1>0. PInv(t) /\ job[t] \in JobSet /\ found \in [Threads -> 0..1]
      /\ SInv
  BY DEF SInv
<1>1. UNCHANGED <<sysVars, memVars, found, probed>> /\ pc[t] = "range"
  BY DEF Range
<1>2. /\ os \in {"linux", "freebsd"} /\ job[t] # "probe"
      /\ os = "freebsd" => job[t] = "close" /\ kernel # "none"
  BY <1>0, <1>1 DEF PInv, Where
<1>3. os = "freebsd" => Works(Cache(job[t]))
  BY <1>2 DEF Works, Cache, Closes
<1>4. Shrinks(t)
  BY <1>0, <1>1, MemUnchanged DEF Shrinks
<1>5. CASE Works(Cache(job[t])) /\ job[t] = "probe_cloexec" /\ Stay(t, "wsl")
  <2>1. MoveFacts(t, job[t], "wsl")
    BY <1>5, StayEffect DEF FeatPcs
  <2>2. Works(MAYX)
    BY <1>5 DEF Cache, Closes, MAYX
  <2>3. Where("wsl", job[t], found[t])
    BY <1>2, <1>5 DEF Where, LinuxPcs, FreebsdPcs
  <2>4. Passed("wsl", job[t], fresh[t])
    BY <1>0, <1>5, <2>2 DEF PInv, Passed
  <2>5. t \in probed => Knows("wsl", job[t], fresh[t])
    BY <1>0 DEF PInv, Knows
  <2> QED BY <1>0, <1>1, <2>1, <2>3, <2>4, <2>5, PlainMove DEF FeatPcs
<1>6. CASE Leave(t)
  <2>1. MoveFacts(t, "iter", "idle")
    BY <1>6, LeaveEffect
  <2>2. /\ \A f : Where("idle", "iter", f)
        /\ Passed("idle", "iter", fresh'[t])
        /\ t \in probed => Knows("idle", "iter", fresh'[t])
    BY <1>0, <1>4, Harmless DEF JobSet
  <2> QED BY <1>0, <1>1, <2>1, <2>2, PlainMove, MemUnchanged
          DEF FeatPcs, JobSet
<1>7. CASE /\ Works(Cache(job[t])) /\ job[t] \in {"close", "cloexec"}
           /\ Stay(t, IF os = "freebsd" /\ DebugAssertions
                      THEN "assert" ELSE "range")
  <2>1. PICK p \in {"assert", "range"} :
          Stay(t, p) /\ (p = "assert" => os = "freebsd")
    BY <1>7
  <2>2. p \in FeatPcs
    BY <2>1 DEF FeatPcs
  <2>3. MoveFacts(t, job[t], p)
    BY <2>1, <2>2, StayEffect
  <2>4. Where(p, job[t], found[t])
    BY <1>2, <1>7, <2>1 DEF Where, LinuxPcs, FreebsdPcs
  <2>5. Passed(p, job[t], fresh[t])
    BY <1>7 DEF Passed
  <2>6. t \in probed => Knows(p, job[t], fresh[t])
    BY <1>0, <1>7, <2>1 DEF PInv, Knows
  <2> QED BY <1>0, <1>1, <2>2, <2>3, <2>4, <2>5, <2>6, PlainMove
<1>8. CASE ~Works(Cache(job[t]))
  <2>1. Stay(t, "store_may") /\ os = "linux"
    BY <1>2, <1>3, <1>8 DEF Range
  <2>2. MoveFacts(t, job[t], "store_may")
    BY <2>1, StayEffect DEF FeatPcs
  <2>3. Where("store_may", job[t], found[t])
    BY <1>2, <1>8, <2>1 DEF Where, LinuxPcs, FreebsdPcs
  <2>4. Passed("store_may", job[t], fresh[t])
    BY <1>0, <1>1, <1>2 DEF PInv, Passed
  <2>5. t \notin probed
    BY <1>0, <1>1, <1>8 DEF PInv, Knows
  <2> QED BY <1>0, <1>1, <2>2, <2>3, <2>4, <2>5, PlainMove DEF FeatPcs
<1> QED BY <1>5, <1>6, <1>7, <1>8 DEF Range, ProbedCloexec

LEMMA StoreMayStep ==
  ASSUME NEW t \in Threads, FInv, StoreMay(t) PROVE FInv'
<1> USE DEF FInv
<1>0. PInv(t) /\ job[t] \in JobSet /\ found \in [Threads -> 0..1]
      /\ SInv
  BY DEF SInv
<1>1. /\ Store(t, Cache(job[t]), FALSE) /\ pc[t] = "store_may"
      /\ UNCHANGED <<sysVars, found, probed>>
  BY DEF StoreMay
<1>2. StoreFacts(t, Cache(job[t]), FALSE) /\ Shrinks(t)
  BY <1>1, CacheName, StoreEffect, StoreShrinks, StorableValues
<1>3. os = "linux" /\ ~Works(Cache(job[t])) /\ t \notin probed
  BY <1>0, <1>1 DEF PInv, Where, LinuxPcs, Knows
<1>4. GInv'
  <2>1. PICK a \in {MAY, MAYX} : a = Cache(job[t])
    BY CacheName
  <2>2. StoreFacts(t, a, FALSE) /\ ~Works(a)
    BY <1>2, <1>3, <2>1
  <2>3. /\ stored'["PROBED"] = stored["PROBED"] /\ stored'[HAS] = stored[HAS]
        /\ stored'[WSL] = stored[WSL] /\ DOMAIN stored' = Atomics
    BY <2>1, <2>2, AtomicNames DEF StoreFacts, MAY, MAYX, HAS, WSL
  <2>4. \A b \in {MAY, MAYX} :
          /\ stored'[b] \subseteq {FALSE}
          /\ stored'[b] # {} => os = "linux" /\ ~Works(b)
    BY <1>3, <2>2, AtomicNames DEF StoreFacts, GInv
  <2> QED BY <1>1, <2>3, <2>4 DEF GInv, sysVars, Works
<1>5. CASE job[t] = "probe"
  <2>1. Enter(t, "probe_cloexec", "range")
    BY <1>5 DEF StoreMay, ProbeNext
  <2>2. MoveFacts(t, "probe_cloexec", "range")
    BY <2>1, EnterEffect DEF FeatPcs, JobSet
  <2>3. Where("range", "probe_cloexec", found'[t])
    BY <1>3 DEF Where, LinuxPcs, FreebsdPcs
  <2>4. ~fresh'[t][MAY] /\ ~fresh'[t]["PROBED"]
    BY <1>0, <1>1, <1>2, <1>5, AtomicNames
    DEF StoreFacts, Cache, MAY, PInv, Passed, Shrinks
  <2>5. Passed("range", "probe_cloexec", fresh'[t])
    BY <1>3, <2>4 DEF Passed
  <2> QED
    BY <1>0, <1>1, <1>2, <1>3, <1>4, <2>2, <2>3, <2>5, ThreadMoves
    DEF StoreFacts, FeatPcs, JobSet
<1>6. CASE job[t] = "probe_cloexec"
  <2>1. Stay(t, "wsl")
    BY <1>6 DEF StoreMay, ProbedCloexec
  <2>2. MoveFacts(t, job[t], "wsl")
    BY <2>1, StayEffect DEF FeatPcs
  <2>3. Where("wsl", job[t], found'[t])
    BY <1>3 DEF Where, LinuxPcs, FreebsdPcs
  <2>4. ~fresh'[t][MAYX]
    BY <1>2, <1>6 DEF StoreFacts, Cache, Closes, MAYX
  <2>5. Passed("wsl", job[t], fresh'[t])
    BY <1>0, <1>2, <1>6, <2>4, AtomicNames DEF Passed, PInv, Shrinks
  <2> QED
    BY <1>0, <1>1, <1>2, <1>3, <1>4, <2>2, <2>3, <2>5, ThreadMoves
    DEF StoreFacts, FeatPcs
<1>7. CASE job[t] \in {"close", "cloexec"}
  <2>1. PICK j \in JobSet, p \in FeatPcs : FallsTo(t, j, p)
    BY <1>7, IteratesEffect DEF StoreMay
  <2> QED BY <1>1, <1>2, <1>3, <1>4, <1>7, <2>1, FallsBack DEF StoreFacts
<1>8. CASE job[t] \notin {"probe", "probe_cloexec", "close", "cloexec"}
  <2>1. Leave(t)
    BY <1>8 DEF StoreMay
  <2>2. MoveFacts(t, "iter", "idle")
    BY <2>1, LeaveEffect
  <2>3. /\ \A f : Where("idle", "iter", f)
        /\ Passed("idle", "iter", fresh'[t])
    BY <1>0, <1>2, Harmless DEF JobSet
  <2> QED
    BY <1>0, <1>1, <1>2, <1>3, <1>4, <2>2, <2>3, ThreadMoves
    DEF StoreFacts, FeatPcs, JobSet
<1> QED BY <1>5, <1>6, <1>7, <1>8

(* check_has_close_range returns, to a probe or to the shortcut.           *)
LEMMA CheckedStep ==
  ASSUME NEW t \in Threads, NEW v \in 0..1, FInv, GInv', os = "freebsd",
         job[t] \in {"probe", "close"}, Checked(t, v), v = 1 => kernel # "none",
         UNCHANGED <<sysVars, found>>, Shrinks(t), ~fresh'[t][HAS],
         job[t] = "probe" => ~fresh'[t]["PROBED"],
         HInv',
         \A u \in Threads \ {t} : fresh'[u] = fresh[u]
  PROVE  FInv'
<1>0. PInv(t) /\ job[t] \in JobSet /\ found \in [Threads -> 0..1] /\ SInv
  BY DEF FInv, SInv
<1>1. CASE job[t] = "probe"
  <2>1. Leave(t) /\ probed' = probed \cup {t}
    BY <1>1 DEF Checked
  <2>2. MoveFacts(t, "iter", "idle")
    BY <1>0, <2>1, LeaveEffect
  <2>3. (\A f : Where("idle", "iter", f)) /\ Passed("idle", "iter", fresh'[t])
    BY <1>0, Harmless DEF JobSet
  <2>4. Knows("idle", "iter", fresh'[t])
    BY <1>1 DEF Knows
  <2> QED BY <1>0, <2>1, <2>2, <2>3, <2>4, ThreadMoves DEF FeatPcs, JobSet
<1>2. CASE job[t] = "close"
  <2>1. PICK j \in JobSet, p \in FeatPcs :
          /\ MoveFacts(t, j, p) /\ probed' = probed
          /\ \/ p = "idle" /\ j = "iter"
             \/ p \in {"assert", "range"} /\ j = "close" /\ v = 1
    BY <1>0, <1>2, LeaveEffect, StayEffect DEF Checked, FeatPcs, JobSet
  <2>2. Where(p, j, found'[t])
    BY <2>1 DEF Where, LinuxPcs, FreebsdPcs
  <2>3. Passed(p, j, fresh'[t])
    BY <2>1 DEF Passed
  <2>4. p = "range" => Works(Cache(j))
    BY <2>1 DEF Works, Cache, Closes
  <2>5. t \in probed' => Knows(p, j, fresh'[t])
    BY <1>0, <2>1, <2>4, AtomicNames DEF PInv, Knows, Shrinks
  <2> QED BY <1>0, <2>1, <2>2, <2>3, <2>5, ThreadMoves
<1> QED BY <1>1, <1>2

LEMMA LoadHasStep ==
  ASSUME NEW t \in Threads, FInv, LoadHas(t) PROVE FInv'
<1> USE DEF FInv
<1>0. PInv(t) /\ job[t] \in JobSet /\ found \in [Threads -> 0..1]
      /\ SInv
  BY DEF SInv
<1>1. PICK v \in 0..2 :
        /\ Load(t, HAS, v)
        /\ IF v = 2 THEN Stay(t, "sysctl") /\ UNCHANGED probed ELSE Checked(t, v)
  BY DEF LoadHas, HAS
<1>2. UNCHANGED <<sysVars, found>> /\ pc[t] = "check"
  BY DEF LoadHas
<1>3. LoadFacts(t, HAS, v) /\ Shrinks(t) /\ HAS \in Atomics
  BY <1>1, AtomicNames, LoadEffect, LoadShrinks
<1>4. GInv' /\ os = "freebsd" /\ job[t] \in {"probe", "close"}
  BY <1>0, <1>2, <1>3, MemoryFrame DEF LoadFacts, PInv, Where, FreebsdPcs
<1>5. job[t] = "probe" => ~fresh'[t]["PROBED"]
  BY <1>0, <1>2, <1>3, AtomicNames DEF PInv, Passed, Shrinks, FreebsdPcs
<1>6. CASE v = 2
  <2>1. Stay(t, "sysctl") /\ UNCHANGED probed
    BY <1>1, <1>6
  <2>2. MoveFacts(t, job[t], "sysctl")
    BY <2>1, StayEffect DEF FeatPcs
  <2>3. fresh[t][HAS]
    BY SMTT(30), <1>3, <1>6 DEF LoadFacts, GInv
  <2>4. t \notin probed
    BY <1>0, <1>4, <2>3 DEF PInv, Knows
  <2>5. Where("sysctl", job[t], found'[t])
    BY <1>4 DEF Where, LinuxPcs, FreebsdPcs
  <2>6. Passed("sysctl", job[t], fresh'[t])
    BY <1>4, <1>5 DEF Passed
  <2> QED
    BY <1>0, <1>2, <1>3, <1>4, <2>1, <2>2, <2>4, <2>5, <2>6, ThreadMoves
    DEF LoadFacts, FeatPcs
<1>7. CASE v # 2
  <2>1. v \in 0..1 /\ v \in stored[HAS] /\ ~fresh'[t][HAS]
    BY SMTT(30), <1>3, <1>7, AtomicNames DEF LoadFacts
  <2>2. v = 1 => kernel # "none"
    BY <2>1 DEF GInv
  <2>3. Checked(t, v)
    BY <1>1, <1>7
  <2> QED
    BY <1>2, <1>3, <1>4, <1>5, <2>1, <2>2, <2>3, CheckedStep DEF LoadFacts
<1> QED BY <1>6, <1>7

LEMMA SysctlStep ==
  ASSUME NEW t \in Threads, FInv, Sysctl(t) PROVE FInv'
<1> USE DEF FInv
<1>0. PInv(t) /\ job[t] \in JobSet /\ found \in [Threads -> 0..1]
      /\ SInv
  BY DEF SInv
<1>1. PICK v \in 0..1 : /\ v = 1 => kernel # "none"
                        /\ found' = [found EXCEPT ![t] = v]
  <2>1. Osreldate \in 0..1 /\ IfFailed \in 0..1 /\ IfFailed # 1
        /\ (Osreldate = 1 => kernel # "none")
    BY SMTT(30) DEF Osreldate, IfFailed
  <2> QED BY <2>1 DEF Sysctl
<1>2. /\ UNCHANGED <<sysVars, memVars, probed>> /\ pc[t] = "sysctl"
      /\ Stay(t, "store_has")
  BY DEF Sysctl
<1>3. MoveFacts(t, job[t], "store_has")
  BY <1>2, StayEffect DEF FeatPcs
<1>4. /\ found' \in [Threads -> 0..1] /\ found'[t] = v
      /\ \A u \in Threads \ {t} : found'[u] = found[u]
  BY <1>0, <1>1
<1>5. GInv' /\ os = "freebsd" /\ job[t] \in {"probe", "close"} /\ t \notin probed
  BY <1>0, <1>2, MemoryFrame, MemUnchanged DEF PInv, Where, FreebsdPcs, Knows
<1>6. Where("store_has", job[t], found'[t])
  BY SMTT(30), <1>1, <1>4, <1>5 DEF Where, LinuxPcs, FreebsdPcs
<1>7. Passed("store_has", job[t], fresh'[t])
  BY <1>0, <1>2, <1>5, MemUnchanged DEF PInv, Passed, FreebsdPcs
<1> QED
  BY <1>0, <1>2, <1>3, <1>4, <1>5, <1>6, <1>7, ThreadMoves, MemUnchanged
  DEF FeatPcs

LEMMA StoreHasStep ==
  ASSUME NEW t \in Threads, FInv, StoreHas(t) PROVE FInv'
<1> USE DEF FInv
<1>0. PInv(t) /\ job[t] \in JobSet /\ found \in [Threads -> 0..1]
      /\ SInv
  BY DEF SInv
<1>1. /\ Store(t, HAS, found[t]) /\ pc[t] = "store_has" /\ Checked(t, found[t])
      /\ UNCHANGED <<sysVars, found>>
  BY DEF StoreHas, HAS
<1>2. StoreFacts(t, HAS, found[t]) /\ Shrinks(t) /\ found[t] \in 0..1
  BY <1>0, <1>1, AtomicNames, StoreEffect, StoreShrinks, StorableValues
<1>3. /\ os = "freebsd" /\ job[t] \in {"probe", "close"}
      /\ found[t] = 1 => kernel # "none"
  BY <1>0, <1>1 DEF PInv, Where, FreebsdPcs
<1>4. job[t] = "probe" => ~fresh'[t]["PROBED"]
  BY <1>0, <1>1, <1>2, AtomicNames DEF PInv, Passed, Shrinks, FreebsdPcs
<1>5. GInv'
  <2>1. /\ \A b \in {"PROBED", MAY, MAYX, WSL} : stored'[b] = stored[b]
        /\ DOMAIN stored' = Atomics
    BY <1>2, AtomicNames DEF StoreFacts, MAY, MAYX, HAS, WSL
  <2>2. stored'[HAS] = stored[HAS] \cup {found[t]}
    BY <1>2 DEF StoreFacts
  <2> QED BY <1>1, <1>2, <1>3, <2>1, <2>2 DEF GInv, sysVars, Works
<1> QED BY <1>1, <1>2, <1>3, <1>4, <1>5, CheckedStep DEF StoreFacts

LEMMA AssertHasStep ==
  ASSUME NEW t \in Threads, FInv, AssertHas(t) PROVE FInv'
<1> USE DEF FInv
<1>0. PInv(t) /\ job[t] \in JobSet /\ found \in [Threads -> 0..1]
      /\ SInv
  BY DEF SInv
<1>1. PICK v \in 0..1 :
        /\ Load(t, HAS, v)
        /\ Stay(t, IF v = 1 THEN "range" ELSE "panicked")
  BY DEF AssertHas, HAS
<1>2. UNCHANGED <<sysVars, found, probed>> /\ pc[t] = "assert"
  BY DEF AssertHas
<1>3. LoadFacts(t, HAS, v) /\ Shrinks(t)
  BY <1>1, AtomicNames, LoadEffect, LoadShrinks
<1>4. GInv' /\ os = "freebsd" /\ job[t] = "close" /\ kernel # "none"
  BY <1>0, <1>2, <1>3, MemoryFrame DEF LoadFacts, PInv, Where, FreebsdPcs
<1>5. PICK p \in {"range", "panicked"} : Stay(t, p) /\ (p = "panicked" => v = 0)
  BY SMTT(30), <1>1
<1>6. p \in FeatPcs
  BY <1>5 DEF FeatPcs
<1>7. MoveFacts(t, job[t], p)
  BY <1>5, <1>6, StayEffect
<1>8. Where(p, job[t], found'[t])
  BY <1>4, <1>5 DEF Where, LinuxPcs, FreebsdPcs
<1>9. Passed(p, job[t], fresh'[t])
  BY <1>4 DEF Passed
<1>10. Works(Cache(job[t]))
  BY <1>4 DEF Works, Cache, Closes
<1>11. t \in probed' => Knows(p, job[t], fresh'[t])
  BY <1>0, <1>2, <1>3, <1>5, <1>10, AtomicNames DEF PInv, Knows, Shrinks
<1> QED
  BY <1>0, <1>2, <1>3, <1>4, <1>6, <1>7, <1>8, <1>9, <1>11, ThreadMoves
  DEF LoadFacts

(* is_wsl_1 returns, to a probe or to an iteration.                        *)
LEMMA KnowsWslStep ==
  ASSUME NEW t \in Threads, FInv, GInv', os = "linux", pc[t] \in {"wsl", "uname"},
         KnowsWsl1(t), UNCHANGED <<sysVars, found>>, Shrinks(t), ~fresh'[t][WSL],
         HInv',
         \A u \in Threads \ {t} : fresh'[u] = fresh[u]
  PROVE  FInv'
<1>0. PInv(t) /\ job[t] \in JobSet /\ found \in [Threads -> 0..1] /\ SInv
  BY DEF FInv, SInv
<1>1. CASE job[t] = "probe_cloexec"
  <2>1. Leave(t) /\ probed' = probed \cup {t}
    BY <1>1 DEF KnowsWsl1
  <2>2. MoveFacts(t, "iter", "idle")
    BY <1>0, <2>1, LeaveEffect
  <2>3. (\A f : Where("idle", "iter", f)) /\ Passed("idle", "iter", fresh'[t])
    BY <1>0, Harmless DEF JobSet
  <2>4. /\ ~fresh'[t]["PROBED"]
        /\ Works(MAY) \/ ~fresh'[t][MAY]
        /\ Works(MAYX) \/ ~fresh'[t][MAYX]
    BY <1>0, <1>1, AtomicNames DEF PInv, Passed, Shrinks
  <2>5. Knows("idle", "iter", fresh'[t])
    BY <2>4 DEF Knows
  <2> QED BY <1>0, <2>1, <2>2, <2>3, <2>5, ThreadMoves DEF FeatPcs, JobSet
<1>2. CASE job[t] # "probe_cloexec"
  <2>1. Ends(t) /\ UNCHANGED probed
    BY <1>2 DEF KnowsWsl1
  <2>2. PICK j \in JobSet, p \in FeatPcs \ {"wsl"} : FallsTo(t, j, p)
    BY <1>0, <2>1, EndsEffect
  <2> QED BY <1>2, <2>1, <2>2, FallsBack
<1> QED BY <1>1, <1>2

LEMMA LoadWsl1Step ==
  ASSUME NEW t \in Threads, FInv, LoadWsl1(t) PROVE FInv'
<1> USE DEF FInv
<1>0. PInv(t) /\ job[t] \in JobSet /\ found \in [Threads -> 0..1]
      /\ SInv
  BY DEF SInv
<1>1. PICK v \in 0..2 :
        /\ Load(t, WSL, v)
        /\ IF v = 2 THEN Stay(t, "uname") /\ UNCHANGED probed ELSE KnowsWsl1(t)
  BY DEF LoadWsl1, WSL
<1>2. UNCHANGED <<sysVars, found>> /\ pc[t] = "wsl"
  BY DEF LoadWsl1
<1>3. LoadFacts(t, WSL, v) /\ Shrinks(t)
  BY <1>1, AtomicNames, LoadEffect, LoadShrinks
<1>4. GInv' /\ os = "linux"
  BY <1>0, <1>2, <1>3, MemoryFrame DEF LoadFacts, PInv, Where, LinuxPcs
<1>5. CASE v = 2
  <2>1. Stay(t, "uname") /\ UNCHANGED probed
    BY <1>1, <1>5
  <2>2. MoveFacts(t, job[t], "uname")
    BY <2>1, StayEffect DEF FeatPcs
  <2>3. fresh[t][WSL]
    <3>1. 2 \notin stored[WSL]
      BY SMTT(30) DEF GInv
    <3> QED BY <1>3, <1>5, <3>1 DEF LoadFacts
  <2>4. t \notin probed
    BY <1>0, <1>4, <2>3 DEF PInv, Knows
  <2>5. Where("uname", job[t], found'[t])
    BY <1>4 DEF Where, LinuxPcs, FreebsdPcs
  <2>6. Passed("uname", job[t], fresh'[t])
    BY <1>0, <1>2, <1>3, AtomicNames DEF PInv, Passed, Shrinks, FreebsdPcs
  <2> QED
    BY <1>0, <1>2, <1>3, <1>4, <2>1, <2>2, <2>4, <2>5, <2>6, ThreadMoves
    DEF LoadFacts, FeatPcs
<1>6. CASE v # 2
  <2>1. ~fresh'[t][WSL]
    BY <1>3, <1>6, AtomicNames DEF LoadFacts
  <2>2. KnowsWsl1(t)
    BY <1>1, <1>6
  <2> QED BY <1>2, <1>3, <1>4, <2>1, <2>2, KnowsWslStep DEF LoadFacts
<1> QED BY <1>5, <1>6

LEMMA StoreWsl1Step ==
  ASSUME NEW t \in Threads, FInv, StoreWsl1(t) PROVE FInv'
<1> USE DEF FInv
<1>0. PInv(t) /\ job[t] \in JobSet /\ found \in [Threads -> 0..1]
      /\ SInv
  BY DEF SInv
<1> DEFINE v == IF wsl1 THEN 1 ELSE 0
<1>1. /\ Store(t, WSL, v) /\ pc[t] = "uname" /\ KnowsWsl1(t)
      /\ UNCHANGED <<sysVars, found>>
  BY DEF StoreWsl1, WSL
<1>2. StoreFacts(t, WSL, v) /\ Shrinks(t)
  BY SMTT(30), <1>1, AtomicNames, StoreEffect, StoreShrinks, StorableValues
<1>3. os = "linux"
  BY <1>0, <1>1 DEF PInv, Where, LinuxPcs
<1>4. GInv'
  <2>1. /\ \A b \in {"PROBED", MAY, MAYX, HAS} : stored'[b] = stored[b]
        /\ DOMAIN stored' = Atomics
    BY <1>2, AtomicNames DEF StoreFacts, MAY, MAYX, HAS, WSL
  <2>2. stored'[WSL] = stored[WSL] \cup {v}
    BY <1>2 DEF StoreFacts
  <2> QED BY <1>1, <2>1, <2>2 DEF GInv, sysVars, Works
<1> QED BY <1>1, <1>2, <1>3, <1>4, KnowsWslStep DEF StoreFacts

LEMMA BeginStep ==
  ASSUME NEW t \in Threads, FInv, Begin(t) PROVE FInv'
<1> USE DEF FInv
<1>0. PInv(t) /\ job[t] \in JobSet /\ found \in [Threads -> 0..1]
      /\ SInv
  BY DEF SInv
<1>1. UNCHANGED <<sysVars, memVars, found, probed>>
  BY DEF Begin
<1>2. PICK j \in {"probe", "close", "cloexec", "iter"},
           p \in {"load_probed", "may", "check", "wsl"} :
        /\ Enter(t, j, p)
        /\ p = "load_probed" => j = "probe"
        /\ p \in {"may", "wsl"} => os = "linux" /\ j # "probe"
        /\ p = "check" => os # "linux" /\ j = "close"
  BY DEF Begin
<1>3. j \in JobSet /\ p \in FeatPcs
  BY <1>2 DEF JobSet, Closes, Cloexecs, FeatPcs
<1>4. MoveFacts(t, j, p)
  BY <1>2, <1>3, EnterEffect
<1>5. Where(p, j, found[t])
  BY <1>2, FeaturesAssumption DEF Where, LinuxPcs, FreebsdPcs, GInv
<1>6. Passed(p, j, fresh[t])
  BY <1>2 DEF Passed, FreebsdPcs
<1>7. t \in probed => Knows(p, j, fresh[t])
  BY <1>0, <1>2 DEF PInv, Knows
<1> QED BY <1>1, <1>3, <1>4, <1>5, <1>6, <1>7, PlainMove

-----------------------------------------------------------------------------
(* Every step of Features preserves the invariant.                         *)
LEMMA FInvNext == FInv /\ [FeatNext]_featVars => FInv'
<1> SUFFICES ASSUME FInv, [FeatNext]_featVars PROVE FInv'
  OBVIOUS
<1>1. CASE UNCHANGED featVars
  <2>0. UNCHANGED <<sysVars, memVars, pc, job, found, probed>>
    BY <1>1 DEF featVars
  <2>1. stored' = stored /\ fresh' = fresh /\ HInv'
    BY <2>0, MemUnchanged DEF FInv
  <2>2. GInv' /\ SInv'
    BY <2>0, <2>1, MemoryFrame DEF FInv, SInv
  <2>3. ASSUME NEW t \in Threads PROVE PInv(t)'
    BY <2>0, <2>1 DEF FInv, PInv, Where, Passed, Knows, Works, Cache, sysVars
  <2> QED BY <2>2, <2>3 DEF FInv
<1>2. ASSUME NEW t \in Threads, Begin(t) \/ ThreadStep(t) PROVE FInv'
  BY <1>2, BeginStep, LoadProbedStep, StoreProbedStep, ProbeCloseStep,
     LoadMayStep, RangeStep, StoreMayStep, LoadHasStep, SysctlStep,
     StoreHasStep, AssertHasStep, LoadWsl1Step, StoreWsl1Step
  DEF ThreadStep
<1> QED BY <1>1, <1>2 DEF FeatNext

LEMMA FInvAlways == FeatSpec => []FInv
BY FInvInit, FInvNext, PTL DEF FeatSpec

-----------------------------------------------------------------------------
(* The assertion.  A 0 in HAS_CLOSE_RANGE that a thread has not got past   *)
(* yet, on a kernel that has the call, comes from the failed sysctl() of   *)
(* another thread.                                                         *)
Blamed(t) == \E u \in failed : u # t

LastRead(t) == history[HAS][seen[t][HAS]]

ZerosInv ==
  \A t \in Threads, k \in 1..Len(history[HAS]) :
    k > seen[t][HAS] /\ history[HAS][k] = 0 => kernel = "none" \/ Blamed(t)

(* The thread is about to make a close_range() call on FreeBSD, or to      *)
(* check once more that it may.                                            *)
Trusts(t) == pc[t] = "assert" \/ (pc[t] = "range" /\ os = "freebsd")

AInv ==
  /\ failed \subseteq Threads
  /\ ZerosInv
  /\ \A t \in Threads :
       /\ pc[t] = "store_has" /\ found[t] = 0 => kernel = "none" \/ t \in failed
       /\ Trusts(t) => LastRead(t) = 1
  /\ AssertHolds

LEMMA AInvInit == FeatInit => AInv
<1> SUFFICES ASSUME FeatInit PROVE AInv
  OBVIOUS
<1>1. HAS \in Atomics
  BY AtomicNames
<1>2. ZerosInv
  BY SMTT(30), <1>1 DEF FeatInit, ZerosInv
<1> QED BY <1>2 DEF FeatInit, AInv, Trusts, AssertHolds

(* What the shapes say of HAS_CLOSE_RANGE.                                 *)
LEMMA HasShape ==
  ASSUME SInv
  PROVE  /\ HAS \in Atomics /\ Len(history[HAS]) \in Nat
         /\ \A t \in Threads : seen[t][HAS] \in 1..Len(history[HAS])
<1>1. HAS \in Atomics
  BY AtomicNames
<1> QED BY SMTT(30), <1>1 DEF SInv, HInv

LEMMA OtherAtomic ==
  ASSUME NEW t \in Threads, NEW a \in Atomics \ {HAS}, NEW v, SInv,
         Load(t, a, v) \/ Store(t, a, v)
  PROVE  /\ history'[HAS] = history[HAS]
         /\ \A u \in Threads : seen'[u][HAS] = seen[u][HAS]
<1>1. HAS \in Atomics /\ a # HAS
  BY AtomicNames
<1>2. history'[HAS] = history[HAS]
  BY <1>1 DEF SInv, HInv, Load, Store
<1>3. PICK i : seen' = [seen EXCEPT ![t][a] = i]
  BY DEF Load, Store
<1>4. \A u \in Threads : seen'[u][HAS] = seen[u][HAS]
  BY <1>1, <1>3 DEF SInv, HInv
<1> QED BY <1>2, <1>4

(* A step that has nothing to do with HAS_CLOSE_RANGE.                     *)
LEMMA QuietStep ==
  ASSUME NEW t \in Threads, AInv, UNCHANGED <<os, kernel, failed>>,
         history'[HAS] = history[HAS],
         \A u \in Threads : seen'[u][HAS] = seen[u][HAS],
         \A u \in Threads \ {t} : pc'[u] = pc[u] /\ found'[u] = found[u],
         pc'[t] \notin {"store_has", "panicked"},
         pc'[t] = "assert" \/ (pc'[t] = "range" /\ os = "freebsd") => Trusts(t)
  PROVE  AInv'
<1>1. ZerosInv'
  BY DEF AInv, ZerosInv, Blamed
<1>2. \A u \in Threads : LastRead(u)' = LastRead(u)
  BY DEF LastRead
<1>3. AssertHolds'
  BY DEF AInv, AssertHolds
<1> QED BY <1>1, <1>2, <1>3 DEF AInv, Trusts

(* A load of HAS_CLOSE_RANGE may go on to a later store.                   *)
LEMMA HasLoad ==
  ASSUME NEW t \in Threads, NEW v, SInv, AInv, Load(t, HAS, v),
         UNCHANGED <<os, kernel, failed>>
  PROVE  /\ ZerosInv'
         /\ LastRead(t)' = v
         /\ \A u \in Threads \ {t} : LastRead(u)' = LastRead(u)
         /\ v = 0 => LastRead(t) = 0 \/ kernel = "none" \/ Blamed(t)
<1>1. PICK i \in seen[t][HAS]..Len(history[HAS]) :
        v = history[HAS][i] /\ seen' = [seen EXCEPT ![t][HAS] = i]
  BY DEF Load
<1>2. history' = history
  BY DEF Load
<1>3. /\ seen'[t][HAS] = i
      /\ \A u \in Threads \ {t} : seen'[u][HAS] = seen[u][HAS]
  BY <1>1, HasShape DEF SInv, HInv
<1>4. /\ i \in 1..Len(history[HAS]) /\ i >= seen[t][HAS]
      /\ i # seen[t][HAS] => i > seen[t][HAS]
      /\ \A k \in 1..Len(history[HAS]) : k > i => k > seen[t][HAS]
  BY SMTT(30), <1>1, HasShape
<1>5. ZerosInv'
  <2> SUFFICES ASSUME NEW u \in Threads, NEW k \in 1..Len(history[HAS]),
                      k > seen'[u][HAS], history[HAS][k] = 0
               PROVE  kernel = "none" \/ Blamed(u)
    BY <1>2 DEF ZerosInv, Blamed
  <2>1. k > seen[u][HAS]
    BY <1>3, <1>4
  <2> QED BY <2>1 DEF AInv, ZerosInv
<1>6. v = 0 => LastRead(t) = 0 \/ kernel = "none" \/ Blamed(t)
  BY <1>1, <1>4 DEF AInv, ZerosInv, LastRead
<1> QED BY <1>1, <1>2, <1>3, <1>5, <1>6 DEF LastRead

(* What the other threads rely on, while t takes a step.                   *)
LEMMA OthersRely ==
  ASSUME NEW t \in Threads, AInv, UNCHANGED <<os, kernel>>,
         failed \subseteq failed', failed' \subseteq Threads, ZerosInv',
         \A u \in Threads \ {t} : pc'[u] = pc[u] /\ found'[u] = found[u],
         \A u \in Threads \ {t} : LastRead(u)' = LastRead(u),
         pc'[t] = "store_has" /\ found'[t] = 0 => kernel = "none" \/ t \in failed',
         pc'[t] = "assert" \/ (pc'[t] = "range" /\ os = "freebsd") =>
           LastRead(t)' = 1,
         pc'[t] = "panicked" => kernel # "none" /\ Blamed(t)
  PROVE  AInv'
<1>1. AssertHolds'
  BY DEF AInv, AssertHolds, Blamed
<1> QED BY <1>1 DEF AInv, Trusts

LEMMA LoadHasAssert ==
  ASSUME NEW t \in Threads, FInv, AInv, LoadHas(t) PROVE AInv'
<1>0. SInv /\ failed \subseteq Threads
  BY DEF FInv, AInv
<1>1. PICK v \in 0..2 :
        /\ Load(t, HAS, v)
        /\ IF v = 2 THEN Stay(t, "sysctl") /\ UNCHANGED probed ELSE Checked(t, v)
  BY DEF LoadHas, HAS
<1>2. UNCHANGED <<os, kernel, failed, found>>
  BY DEF LoadHas, sysVars
<1>3. /\ \A u \in Threads \ {t} : pc'[u] = pc[u]
      /\ pc'[t] \in {"sysctl", "idle", "assert", "range"}
      /\ pc'[t] \in {"assert", "range"} => v = 1
  BY <1>0, <1>1 DEF SInv, Stay, Checked, Leave, Enter, Goto
<1>4. ZerosInv' /\ LastRead(t)' = v /\ \A u \in Threads \ {t} : LastRead(u)' = LastRead(u)
  BY <1>0, <1>1, <1>2, HasLoad
<1> QED BY <1>0, <1>2, <1>3, <1>4, OthersRely

LEMMA AssertHasAssert ==
  ASSUME NEW t \in Threads, FInv, AInv, AssertHas(t) PROVE AInv'
<1>0. SInv /\ PInv(t) /\ failed \subseteq Threads
  BY DEF FInv, AInv
<1>1. PICK v \in 0..1 :
        /\ Load(t, HAS, v)
        /\ Stay(t, IF v = 1 THEN "range" ELSE "panicked")
  BY DEF AssertHas, HAS
<1>2. UNCHANGED <<os, kernel, failed, found>> /\ pc[t] = "assert"
  BY DEF AssertHas, sysVars
<1>3. kernel # "none" /\ LastRead(t) = 1
  BY <1>0, <1>2 DEF PInv, Where, AInv, Trusts
<1>4. /\ \A u \in Threads \ {t} : pc'[u] = pc[u]
      /\ \/ v = 1 /\ pc'[t] = "range"
         \/ v # 1 /\ pc'[t] = "panicked"
  BY <1>0, <1>1 DEF SInv, Stay, Goto
<1>5. /\ ZerosInv' /\ LastRead(t)' = v
      /\ \A u \in Threads \ {t} : LastRead(u)' = LastRead(u)
      /\ v = 0 => LastRead(t) = 0 \/ kernel = "none" \/ Blamed(t)
  BY <1>0, <1>1, <1>2, HasLoad
<1>6. v # 1 => v = 0 /\ LastRead(t) # 0
  BY SMTT(30), <1>3
<1> QED BY <1>0, <1>2, <1>3, <1>4, <1>5, <1>6, OthersRely

LEMMA SysctlAssert ==
  ASSUME NEW t \in Threads, FInv, AInv, Sysctl(t) PROVE AInv'
<1>0. SInv /\ failed \subseteq Threads
  BY DEF FInv, AInv
<1>1. UNCHANGED <<os, kernel, history, seen>> /\ Stay(t, "store_has")
  BY DEF Sysctl, sysVars, memVars
<1>2. /\ \A u \in Threads \ {t} : pc'[u] = pc[u] /\ found'[u] = found[u]
      /\ pc'[t] = "store_has"
      /\ failed \subseteq failed' /\ failed' \subseteq Threads
  BY <1>0, <1>1 DEF SInv, Stay, Goto, Sysctl
<1>3. found'[t] = 0 => kernel = "none" \/ t \in failed'
  <2>1. kernel # "none" => Osreldate # 0
    BY SMTT(30) DEF Osreldate
  <2> QED BY <1>0, <2>1 DEF SInv, Sysctl
<1>4. ZerosInv' /\ \A u \in Threads \ {t} : LastRead(u)' = LastRead(u)
  BY <1>1, <1>2 DEF AInv, ZerosInv, Blamed, LastRead
<1> QED BY <1>0, <1>1, <1>2, <1>3, <1>4, OthersRely

(* The thread that stores a 0 has got past it; the others may blame it.    *)
LEMMA StoreHasAssert ==
  ASSUME NEW t \in Threads, FInv, AInv, StoreHas(t) PROVE AInv'
<1>0. SInv /\ failed \subseteq Threads
  BY DEF FInv, AInv
<1>1. /\ Store(t, HAS, found[t]) /\ Checked(t, found[t]) /\ pc[t] = "store_has"
      /\ UNCHANGED <<os, kernel, failed, found>>
  BY DEF StoreHas, HAS, sysVars
<1>2. /\ \A u \in Threads \ {t} : pc'[u] = pc[u]
      /\ pc'[t] \in {"idle", "assert", "range"}
      /\ pc'[t] \in {"assert", "range"} => found[t] = 1
  BY <1>0, <1>1 DEF SInv, Stay, Checked, Leave, Enter, Goto
<1>3. /\ Len(history'[HAS]) \in Nat \ {0}
      /\ history'[HAS][Len(history'[HAS])] = found[t]
      /\ \A k \in 1..Len(history'[HAS]) :
           \/ k \in 1..Len(history[HAS]) /\ history'[HAS][k] = history[HAS][k]
           \/ history'[HAS][k] = found[t]
      /\ \A k \in 1..Len(history[HAS]) : history'[HAS][k] = history[HAS][k]
  <2>1. history[HAS] \in Seq(0..2) /\ found[t] \in 0..2 /\ Len(history[HAS]) >= 1
        /\ HAS \in DOMAIN history
    BY SMTT(30), <1>0, AtomicNames, KindOf DEF SInv, HInv
  <2>2. \/ /\ history'[HAS] = history[HAS]
           /\ history[HAS][Len(history[HAS])] = found[t]
        \/ history'[HAS] = Append(history[HAS], found[t])
    BY <1>1, <2>1 DEF Store
  <2> QED BY SMTT(30), <2>1, <2>2
<1>4. /\ seen'[t][HAS] = Len(history'[HAS])
      /\ \A u \in Threads \ {t} : seen'[u][HAS] = seen[u][HAS]
  BY <1>0, <1>1, HasShape DEF SInv, HInv, Store
<1>5. \A u \in Threads \ {t} : LastRead(u)' = LastRead(u)
  BY <1>0, <1>3, <1>4, HasShape DEF LastRead
<1>6. LastRead(t)' = found[t]
  BY <1>3, <1>4 DEF LastRead
<1>7. ZerosInv'
  <2> SUFFICES ASSUME NEW u \in Threads, NEW k \in 1..Len(history'[HAS]),
                      k > seen'[u][HAS], history'[HAS][k] = 0
               PROVE  kernel = "none" \/ Blamed(u)
    BY <1>1 DEF ZerosInv, Blamed
  <2>1. u # t
    BY SMTT(30), <1>3, <1>4
  <2>2. CASE k \in 1..Len(history[HAS]) /\ history'[HAS][k] = history[HAS][k]
    BY <1>4, <2>1, <2>2 DEF AInv, ZerosInv
  <2>3. CASE history'[HAS][k] = found[t]
    BY <1>1, <2>1, <2>3 DEF AInv, Blamed
  <2> QED BY <1>3, <2>2, <2>3
<1> QED BY <1>0, <1>1, <1>2, <1>5, <1>6, <1>7, OthersRely

(* The other steps: the atomics and points they use.                       *)
LEMMA QuietSteps ==
  ASSUME NEW t \in Threads, FInv, AInv,
         \/ Begin(t) \/ LoadProbed(t) \/ StoreProbed(t) \/ ProbeClose(t)
         \/ LoadMay(t) \/ Range(t) \/ StoreMay(t) \/ LoadWsl1(t) \/ StoreWsl1(t)
  PROVE  AInv'
<1>0. SInv /\ PInv(t) /\ PInv(t)'
  <2>1. FInv'
    BY FInvNext DEF FeatNext, ThreadStep
  <2> QED BY <2>1 DEF FInv
<1>1. UNCHANGED <<os, kernel, failed, found>>
  BY DEF Begin, LoadProbed, StoreProbed, ProbeClose, LoadMay, Range, StoreMay,
      LoadWsl1, StoreWsl1, sysVars
<1>2. /\ history'[HAS] = history[HAS]
      /\ \A u \in Threads : seen'[u][HAS] = seen[u][HAS]
  <2>1. CASE UNCHANGED memVars
    BY <2>1 DEF memVars
  <2>2. CASE \E a \in Atomics \ {HAS} : \E v : Load(t, a, v) \/ Store(t, a, v)
    BY <1>0, <2>2, OtherAtomic
  <2>3. /\ "PROBED" \in Atomics \ {HAS} /\ WSL \in Atomics \ {HAS}
        /\ Cache(job[t]) \in Atomics \ {HAS}
    BY AtomicNames, CacheName DEF HAS, WSL, MAY, MAYX
  <2>4. Begin(t) \/ ProbeClose(t) \/ Range(t) => UNCHANGED memVars
    BY DEF Begin, ProbeClose, Range
  <2>5. LoadProbed(t) \/ StoreProbed(t) \/ LoadMay(t) \/ StoreMay(t)
          \/ LoadWsl1(t) \/ StoreWsl1(t) =>
          \E a \in Atomics \ {HAS} : \E v : Load(t, a, v) \/ Store(t, a, v)
    BY <2>3 DEF LoadProbed, StoreProbed, LoadMay, StoreMay, LoadWsl1, StoreWsl1, WSL
  <2> QED BY <2>1, <2>2, <2>4, <2>5
<1>3. /\ \A u \in Threads \ {t} : pc'[u] = pc[u]
      /\ pc'[t] \notin {"store_has", "panicked"}
      /\ pc'[t] = "assert" \/ (pc'[t] = "range" /\ os = "freebsd") => Trusts(t)
  <2> DEFINE Moves(p) == pc' = [pc EXCEPT ![t] = p]
  <2>1. CASE Begin(t) \/ LoadProbed(t) \/ StoreProbed(t) \/ LoadWsl1(t) \/ StoreWsl1(t)
    <3>1. \E p \in {"load_probed", "may", "check", "wsl", "idle", "set_probed",
                    "invalid", "uname"} : Moves(p)
      BY <2>1 DEF Begin, LoadProbed, StoreProbed, LoadWsl1, StoreWsl1, KnowsWsl1,
          Ends, Leave, Enter, Stay, Goto
    <3> QED BY <1>0, <3>1 DEF SInv
  <2>2. CASE ProbeClose(t) \/ LoadMay(t) \/ StoreMay(t)
    <3>1. \E p \in {"store_may", "range", "wsl", "may", "idle"} : Moves(p)
      BY <2>2 DEF ProbeClose, LoadMay, StoreMay, ProbeNext, ProbedCloexec,
          Iterates, Ends, Leave, Enter, Stay, Goto
    <3>2. os # "freebsd"
      BY <1>0, <2>2 DEF PInv, Where, LinuxPcs, ProbeClose, LoadMay, StoreMay
    <3> QED BY <1>0, <3>1, <3>2 DEF SInv
  <2>3. CASE Range(t)
    <3>1. \E p \in {"wsl", "idle", "assert", "range", "killed", "store_may"} :
            Moves(p) /\ (p = "assert" => os = "freebsd")
      BY <2>3 DEF Range, ProbedCloexec, Leave, Enter, Stay, Goto
    <3>2. pc[t] = "range"
      BY <2>3 DEF Range
    <3> QED BY <1>0, <3>1, <3>2 DEF SInv, Trusts
  <2> QED BY <2>1, <2>2, <2>3
<1> QED BY <1>1, <1>2, <1>3, QuietStep

LEMMA AInvAlways == FeatSpec => [](FInv /\ AInv)
<1>1. FInv /\ AInv /\ [FeatNext]_featVars => AInv'
  <2> SUFFICES ASSUME FInv, AInv, [FeatNext]_featVars PROVE AInv'
    OBVIOUS
  <2>1. CASE UNCHANGED featVars
    BY <2>1
    DEF featVars, sysVars, memVars, AInv, ZerosInv, Blamed, LastRead, Trusts,
        AssertHolds
  <2>2. ASSUME NEW t \in Threads, Begin(t) \/ ThreadStep(t) PROVE AInv'
    BY <2>2, LoadHasAssert, SysctlAssert, StoreHasAssert, AssertHasAssert,
       QuietSteps
    DEF ThreadStep
  <2> QED BY <2>1, <2>2 DEF FeatNext
<1> QED BY <1>1, AInvInit, FInvAlways, PTL DEF FeatSpec

-----------------------------------------------------------------------------
(* Every variable has its type; an initial value is never stored again,    *)
(* which is what the model of the relaxed atomics relies on.               *)
THEOREM FeaturesTypeCorrect == FeatSpec => []FeatTypeOK
<1>1. FInv /\ AInv => FeatTypeOK
  <2> SUFFICES ASSUME FInv, AInv PROVE FeatTypeOK
    OBVIOUS
  <2> QED BY DEF FInv, GInv, SInv, HInv, Kind, FeatTypeOK, AInv
<1> QED BY <1>1, AInvAlways, PTL

(* Whatever threads probe and call the crate at the same time, in whatever *)
(* order relaxed atomics show them each other's stores, no thread reads a  *)
(* cached value that is wrong about the kernel.                            *)
THEOREM CachesAreTruthful == FeatSpec => []CachesTruthful
<1>1. FInv => CachesTruthful
  <2> SUFFICES ASSUME FInv, NEW t \in Threads
               PROVE  /\ \A a \in {MAY, MAYX} :
                           Visible(t, a) \subseteq MayHaveValues(os, Works(a))
                      /\ Visible(t, HAS) \subseteq HasRangeValues(os, kernel # "none")
                      /\ Visible(t, WSL) \subseteq IsWsl1Values(wsl1)
    BY DEF CachesTruthful, MAY, MAYX, HAS, WSL
  <2>0. GInv
    BY DEF FInv
  <2>4. \A a \in Atomics : Visible(t, a) \subseteq stored[a] \cup {Initial[a]}
    BY SMTT(30) DEF FInv, SInv, HInv, Visible, stored, Stored
  <2>1. ASSUME NEW a \in {MAY, MAYX}
        PROVE  Visible(t, a) \subseteq MayHaveValues(os, Works(a))
    BY <2>0, <2>4, AtomicNames DEF GInv, MayHaveValues
  <2>2. Visible(t, HAS) \subseteq HasRangeValues(os, kernel # "none")
    <3>1. os # "freebsd" => stored[HAS] = {}
      BY <2>0 DEF GInv
    <3>2. Visible(t, HAS) \subseteq stored[HAS] \cup {2}
      BY <2>4, AtomicNames
    <3>3. CASE os = "freebsd" /\ kernel # "none"
      BY SMTT(30), <2>0, <3>2, <3>3 DEF GInv, HasRangeValues
    <3>4. CASE os = "freebsd" /\ kernel = "none"
      BY SMTT(30), <2>0, <3>2, <3>4 DEF GInv, HasRangeValues
    <3>5. CASE os # "freebsd"
      BY <3>1, <3>2, <3>5 DEF HasRangeValues
    <3> QED BY <3>3, <3>4, <3>5
  <2>3. Visible(t, WSL) \subseteq IsWsl1Values(wsl1)
    BY <2>0, <2>4, AtomicNames DEF GInv, IsWsl1Values
  <2> QED BY <2>1, <2>2, <2>3
<1> QED BY <1>1, FInvAlways, PTL

(* No thread is killed for a close_range() the FreeBSD kernel lacks.       *)
THEOREM ThreadsNotKilled == FeatSpec => []NoSigsysInThreads
<1>1. FInv => NoSigsysInThreads
  BY DEF FInv, PInv, Where, NoSigsysInThreads
<1> QED BY <1>1, FInvAlways, PTL

(* After a whole probe a thread finds everything in the caches, although   *)
(* PROBED is set first and every access is relaxed.                        *)
THEOREM ProbeIsWorthIt == FeatSpec => []ProbeSpares
<1>1. FInv => ProbeSpares
  BY DEF FInv, SInv, PInv, Knows, ProbeSpares
<1> QED BY <1>1, FInvAlways, PTL

(* The assertion in try_close_range fails in a thread only after the       *)
(* sysctl() of another thread has failed, on a kernel that has             *)
(* close_range() (AssertHolds): never if no sysctl() fails, and never in   *)
(* a program with one thread.                                              *)
THEOREM AssertFailsOnlyAfterSysctl == FeatSpec => []AssertHolds
BY AInvAlways, PTL DEF AInv

=============================================================================
