---------------------------- MODULE SchedProofs ----------------------------
(***************************************************************************)
(* Theorems about Sched, for any number of processors and threads.         *)
(***************************************************************************)
EXTENDS Sched, Integers, FiniteSetTheorems, SequenceTheorems, TLAPS

SchedPcs == {"run", "pick", "idle", "unidle", "resume", "count", "send", "putback", "yield",
             "ack", "unidleack", "halted"}
MigPcs == {"count", "send", "putback"}
IdlePcs == {"pick", "idle", "unidle", "unidleack"}
ThreadStates == {"none", "S_RUN", "S_READY", "S_SLEEP", "S_ZOMBIE"}
Migrations == [i : 0..NCPU, my : Nat, total : Nat, share : Nat, send : Nat,
               victims : Seq(SThreads), back : {"run", "idle"}]

SchedTyped ==
  /\ c_curthread \in [CpuSet -> SThreads] /\ c_isidle \in [CpuSet -> BOOLEAN]
  /\ c_runqueue \in [CpuSet -> Seq(SThreads)] /\ c_zombies \in [CpuSet -> Seq(SThreads)]
  /\ c_ipi_pending \in [CpuSet -> SUBSET {"line", "IPI_PANIC", "IPI_OFFLINE"}]
  /\ t_state \in [SThreads -> ThreadStates] /\ t_cpu \in [SThreads -> CpuSet]
  /\ wc_threads \in Seq(SThreads)
  /\ sc_pc \in [CpuSet -> SchedPcs] /\ sc_mig \in [CpuSet -> Migrations]

\* The lists of processor c: what is on them belongs to c, in the state of the list.
Queued(c) == Range(c_runqueue[c])
Victims(c) == Range(sc_mig[c].victims)
Dying(c) == Range(c_zombies[c])
ListsOk(c) ==
  /\ IsInjective(c_runqueue[c]) /\ IsInjective(sc_mig[c].victims)
  /\ Queued(c) \cap Victims(c) = {}
  /\ \A t \in Queued(c) \cup Victims(c) : t_state[t] = "S_READY" /\ t_cpu[t] = c
  /\ \A t \in Dying(c) : t_state[t] = "S_ZOMBIE" /\ t_cpu[t] = c
WaitOk == IsInjective(wc_threads) /\ \A t \in Range(wc_threads) : t_state[t] = "S_SLEEP"

\* The thread whose stack processor c stands on belongs to c, and while c does not
\* idle the thread is on no list.
CurOk(c) ==
  LET t == c_curthread[c] IN
  /\ t_cpu[t] = c
  /\ c_isidle[c] => t_state[t] \in {"S_READY", "S_SLEEP", "S_ZOMBIE"}
  /\ ~c_isidle[c] /\ sc_pc[c] # "resume" => t_state[t] = "S_RUN"
  /\ sc_pc[c] = "resume" => ~c_isidle[c] /\ t_state[t] = "S_READY" /\ t \notin Queued(c)

\* Where processor c is, and what it has in hand in thread_consider_migration: its
\* own queue has not become shorter since it was counted.
StepOk(c) ==
  /\ sc_pc[c] # "halted" =>
       (c_isidle[c] <=> sc_pc[c] \in IdlePcs \/ (sc_pc[c] \in MigPcs /\ sc_mig[c].back = "idle"))
  /\ sc_pc[c] \notin MigPcs => sc_mig[c] = NoMig
  /\ sc_pc[c] = "count" => sc_mig[c].victims = <<>> /\ sc_mig[c].my <= Len(c_runqueue[c])
  /\ sc_pc[c] = "send" => sc_mig[c].send <= Len(sc_mig[c].victims)
  /\ sc_pc[c] = "idle" /\ c_runqueue[c] # <<>> => "line" \in c_ipi_pending[c]

\* No thread is lost, until thread_panic drops a run queue.
Located(t) ==
  LET c == t_cpu[t] IN
  /\ t_state[t] = "S_RUN" => c_curthread[c] = t /\ ~c_isidle[c]
  /\ t_state[t] = "S_READY" =>
       t \in Queued(c) \/ t \in Victims(c) \/ (c_curthread[c] = t /\ sc_pc[c] = "resume")
  /\ t_state[t] = "S_SLEEP" => t \in Range(wc_threads)
  /\ t_state[t] = "S_ZOMBIE" => t \in Dying(c)

SchedInv ==
  /\ SchedTyped /\ WaitOk
  /\ \A c \in CpuSet : ListsOk(c) /\ CurOk(c) /\ StepOk(c)
  /\ sc_stop # "panic" => \A t \in SThreads : Located(t)
-----------------------------------------------------------------------------
\* A place of a thread is named by its kind of list.
LEMMA Tagged ==
  \A k, c : \A l \in {<<k, c>>} : l[1] = k
  OBVIOUS

\* What is cut off a list of n, leaving n - s, is as long as was asked for.
LEMMA CutLength ==
  \A n, s \in Nat : \A k, m : k = n - s /\ m = n - k => s <= m
  OBVIOUS

\* A thread at the end of a list: threadlist_addtail.
LEMMA AddTail ==
  ASSUME NEW S, NEW q \in Seq(S), NEW x \in S
  PROVE  /\ Append(q, x) \in Seq(S) /\ Range(Append(q, x)) = Range(q) \cup {x}
         /\ Len(Append(q, x)) = Len(q) + 1
         /\ IsInjective(q) /\ x \notin Range(q) => IsInjective(Append(q, x))
<1> DEFINE a == Append(q, x)
<1>1. /\ a \in Seq(S) /\ Len(a) = Len(q) + 1 /\ DOMAIN a = 1..(Len(q) + 1) /\ DOMAIN q = 1..Len(q)
      /\ a[Len(q) + 1] = x /\ \A k \in 1..Len(q) : a[k] = q[k]
  OBVIOUS
<1> HIDE DEF a
<1>2. Len(q) \in Nat
  OBVIOUS
<1>3. Range(a) = Range(q) \cup {x}
  <2>1. \A k \in DOMAIN a : a[k] \in Range(q) \cup {x}
    BY <1>1, <1>2 DEF Range
  <2>2. \A k \in DOMAIN q : q[k] \in Range(a)
    BY <1>1, <1>2 DEF Range
  <2>3. x \in Range(a)
    BY <1>1, <1>2 DEF Range
  <2> QED
    BY <2>1, <2>2, <2>3, Zenon DEF Range
<1>4. IsInjective(q) /\ x \notin Range(q) => IsInjective(a)
  BY <1>1, <1>2 DEF IsInjective, Range
<1> QED
  BY <1>1, <1>3, <1>4, Zenon DEF a

\* The first thread leaves a list: threadlist_remhead.
LEMMA RemHead ==
  ASSUME NEW S, NEW q \in Seq(S), q # <<>>, IsInjective(q)
  PROVE  /\ Head(q) \in S /\ Head(q) \in Range(q) /\ Tail(q) \in Seq(S)
         /\ Range(Tail(q)) = Range(q) \ {Head(q)} /\ Len(Tail(q)) = Len(q) - 1
         /\ IsInjective(Tail(q))
<1> DEFINE a == Tail(q)
<1>1. /\ a \in Seq(S) /\ Len(a) = Len(q) - 1 /\ DOMAIN a = 1..(Len(q) - 1) /\ DOMAIN q = 1..Len(q)
      /\ Head(q) = q[1] /\ \A k \in 1..(Len(q) - 1) : a[k] = q[k + 1]
  OBVIOUS
<1>2. Len(q) \in Nat /\ Len(q) >= 1 /\ q[1] \in S
  OBVIOUS
<1> HIDE DEF a
<1>3. Range(a) = Range(q) \ {q[1]}
  <2>1. \A k \in DOMAIN a : a[k] \in Range(q) /\ a[k] # q[1]
    <3> SUFFICES ASSUME NEW k \in DOMAIN a PROVE a[k] \in Range(q) /\ a[k] # q[1]
      BY Zenon
    <3>1. k + 1 \in DOMAIN q /\ 1 \in DOMAIN q /\ k + 1 # 1 /\ a[k] = q[k + 1]
      BY <1>1, <1>2
    <3> QED
      BY <3>1, Zenon DEF IsInjective, Range
  <2>2. \A k \in DOMAIN q : k # 1 => q[k] \in Range(a)
    <3> SUFFICES ASSUME NEW k \in DOMAIN q, k # 1 PROVE q[k] \in Range(a)
      BY Zenon
    <3>1. k - 1 \in DOMAIN a /\ a[k - 1] = q[k]
      BY <1>1, <1>2
    <3> QED
      BY <3>1, Zenon DEF Range
  <2> QED
    BY <2>1, <2>2, Zenon DEF Range
<1>4. IsInjective(a)
  <2> SUFFICES ASSUME NEW i \in DOMAIN a, NEW j \in DOMAIN a, a[i] = a[j] PROVE i = j
    BY Zenon DEF IsInjective
  <2>1. i + 1 \in DOMAIN q /\ j + 1 \in DOMAIN q /\ q[i + 1] = q[j + 1] /\ i \in Int /\ j \in Int
    BY <1>1, <1>2
  <2>2. i + 1 = j + 1
    BY <2>1, Zenon DEF IsInjective
  <2> QED
    BY <2>1, <2>2
<1>5. q[1] \in Range(q)
  BY <1>1, <1>2 DEF Range
<1> QED
  BY <1>1, <1>2, <1>3, <1>4, <1>5, Zenon DEF a

\* What is behind place k of a sequence.
LEMMA Suffix ==
  ASSUME NEW S, NEW q \in Seq(S), NEW k \in 0..Len(q)
  PROVE  LET b == SubSeq(q, k + 1, Len(q)) IN
         /\ b \in Seq(S) /\ Len(b) = Len(q) - k /\ DOMAIN b = 1..(Len(q) - k)
         /\ \A j \in 1..(Len(q) - k) : b[j] = q[j + k]
<1>1. PICK n \in Nat : n = Len(q)
  OBVIOUS
<1>0. k \in Nat /\ k <= n /\ \A i \in (k + 1)..n : q[i] \in S
  BY <1>1
<1>2. /\ SubSeq(q, k + 1, n) \in Seq(S)
      /\ Len(SubSeq(q, k + 1, n)) = IF k + 1 <= n THEN n - (k + 1) + 1 ELSE 0
      /\ \A i \in 1..(n - (k + 1) + 1) : SubSeq(q, k + 1, n)[i] = q[k + 1 + i - 1]
  BY <1>0, SMT
<1>3. PICK z : z = SubSeq(q, k + 1, n)
  BY Zenon
<1>4. /\ z \in Seq(S) /\ Len(z) = (IF k + 1 <= n THEN n - (k + 1) + 1 ELSE 0)
      /\ \A i \in 1..(n - (k + 1) + 1) : z[i] = q[k + 1 + i - 1]
  BY <1>2, <1>3, Zenon
<1>5. n - (k + 1) + 1 = n - k /\ (~(k + 1 <= n) => n - k = 0)
  BY <1>0
<1>6. Len(z) = n - k
  BY <1>4, <1>5, Zenon
<1>7. DOMAIN z = 1..(n - k)
  BY <1>4, <1>6
<1>8. ASSUME NEW j \in 1..(n - k) PROVE z[j] = q[j + k]
  <2>1. k + 1 + j - 1 = j + k
    BY <1>0
  <2> QED
    BY <1>4, <1>5, <2>1, Zenon
<1> QED
  BY <1>1, <1>3, <1>4, <1>6, <1>7, <1>8, Zenon

\* A list cut in two: the victims are what is behind place k.
LEMMA Cut ==
  ASSUME NEW S, NEW q \in Seq(S), NEW k \in 0..Len(q), IsInjective(q)
  PROVE  LET a == SubSeq(q, 1, k)  b == SubSeq(q, k + 1, Len(q)) IN
         /\ a \in Seq(S) /\ b \in Seq(S) /\ Len(a) = k /\ Len(b) = Len(q) - k
         /\ Range(a) \cup Range(b) = Range(q) /\ Range(a) \cap Range(b) = {}
         /\ IsInjective(a) /\ IsInjective(b)
<1> DEFINE a == SubSeq(q, 1, k)
           b == SubSeq(q, k + 1, Len(q))
<1>0. Len(q) \in Nat /\ DOMAIN q = 1..Len(q) /\ k \in Nat /\ k <= Len(q) /\ \A j \in DOMAIN q : q[j] \in S
  OBVIOUS
<1>1. a \in Seq(S) /\ Len(a) = k /\ DOMAIN a = 1..k /\ \A j \in 1..k : a[j] = q[j]
  BY <1>0
<1>2. b \in Seq(S) /\ Len(b) = Len(q) - k /\ DOMAIN b = 1..(Len(q) - k) /\ \A j \in 1..(Len(q) - k) : b[j] = q[j + k]
  BY Suffix, Zenon DEF b
<1> HIDE DEF a, b
<1>3. \A x \in Range(a) : \E j \in DOMAIN q : j <= k /\ x = q[j]
  BY <1>0, <1>1 DEF Range
<1>4. \A x \in Range(b) : \E j \in DOMAIN q : j > k /\ x = q[j]
  <2> SUFFICES ASSUME NEW j \in DOMAIN b PROVE \E i \in DOMAIN q : i > k /\ b[j] = q[i]
    BY Zenon DEF Range
  <2>1. j + k \in DOMAIN q /\ j + k > k /\ b[j] = q[j + k]
    BY <1>0, <1>2
  <2> QED
    BY <2>1, Zenon
<1>5. \A j \in DOMAIN q : q[j] \in Range(a) \cup Range(b)
  <2> SUFFICES ASSUME NEW j \in DOMAIN q PROVE q[j] \in Range(a) \cup Range(b)
    BY Zenon
  <2>1. CASE j <= k
    BY <1>0, <1>1, <2>1 DEF Range
  <2>2. CASE j > k
    <3>1. j - k \in DOMAIN b /\ b[j - k] = q[j]
      BY <1>0, <1>2, <2>2
    <3> QED
      BY <3>1, Zenon DEF Range
  <2> QED
    BY <1>0, <2>1, <2>2
<1>6. Range(a) \cup Range(b) = Range(q)
  BY <1>3, <1>4, <1>5, Zenon DEF Range
<1>7. Range(a) \cap Range(b) = {}
  <2> SUFFICES ASSUME NEW x \in Range(a), x \in Range(b) PROVE FALSE
    BY Zenon
  <2>1. PICK i \in DOMAIN q : i <= k /\ x = q[i]
    BY <1>3, Zenon
  <2>2. PICK j \in DOMAIN q : j > k /\ x = q[j]
    BY <1>4, Zenon
  <2>3. i = j
    BY <2>1, <2>2, Zenon DEF IsInjective
  <2> QED
    BY <2>1, <2>2, <2>3, <1>0
<1>8. IsInjective(a)
  BY <1>0, <1>1 DEF IsInjective
<1>9. IsInjective(b)
  <2> SUFFICES ASSUME NEW i \in DOMAIN b, NEW j \in DOMAIN b, b[i] = b[j] PROVE i = j
    BY Zenon DEF IsInjective
  <2>1. i + k \in DOMAIN q /\ j + k \in DOMAIN q /\ q[i + k] = q[j + k] /\ i \in Int /\ j \in Int
    BY <1>0, <1>2
  <2>2. i + k = j + k
    BY <2>1, Zenon DEF IsInjective
  <2> QED
    BY <1>0, <2>1, <2>2
<1> QED
  BY <1>1, <1>2, <1>6, <1>7, <1>8, <1>9, Zenon DEF a, b

\* The leftover victims go behind a run queue.
LEMMA Join ==
  ASSUME NEW S, NEW q \in Seq(S), NEW r \in Seq(S)
  PROVE  /\ q \o r \in Seq(S) /\ Range(q \o r) = Range(q) \cup Range(r)
         /\ Len(q \o r) = Len(q) + Len(r)
         /\ IsInjective(q) /\ IsInjective(r) /\ Range(q) \cap Range(r) = {} => IsInjective(q \o r)
<1> DEFINE a == q \o r
<1>0. Len(q) \in Nat /\ Len(r) \in Nat /\ DOMAIN q = 1..Len(q) /\ DOMAIN r = 1..Len(r)
  OBVIOUS
<1>1. /\ a \in Seq(S) /\ Len(a) = Len(q) + Len(r) /\ DOMAIN a = 1..(Len(q) + Len(r))
      /\ \A k \in 1..Len(q) : a[k] = q[k]
      /\ \A k \in 1..(Len(q) + Len(r)) : k > Len(q) => a[k] = r[k - Len(q)]
  OBVIOUS
<1> HIDE DEF a
<1>2. \A k \in DOMAIN q : k \in DOMAIN a /\ a[k] = q[k]
  BY <1>0, <1>1
<1>3. \A k \in DOMAIN r : k + Len(q) \in DOMAIN a /\ a[k + Len(q)] = r[k]
  <2> SUFFICES ASSUME NEW k \in DOMAIN r PROVE k + Len(q) \in DOMAIN a /\ a[k + Len(q)] = r[k]
    BY Zenon
  <2>1. k + Len(q) \in 1..(Len(q) + Len(r)) /\ k + Len(q) > Len(q) /\ (k + Len(q)) - Len(q) = k
    BY <1>0
  <2> QED
    BY <1>1, <2>1, Zenon
<1>4. \A k \in DOMAIN a : \/ k \in DOMAIN q /\ a[k] = q[k]
                          \/ k - Len(q) \in DOMAIN r /\ a[k] = r[k - Len(q)] /\ k \notin DOMAIN q
  BY <1>0, <1>1
<1>5. Range(a) = Range(q) \cup Range(r)
  BY <1>2, <1>3, <1>4 DEF Range
<1>6. ASSUME IsInjective(q), IsInjective(r), Range(q) \cap Range(r) = {} PROVE IsInjective(a)
  <2> SUFFICES ASSUME NEW i \in DOMAIN a, NEW j \in DOMAIN a, a[i] = a[j] PROVE i = j
    BY Zenon DEF IsInjective
  <2>0. i \in Int /\ j \in Int
    BY <1>1
  <2>1. CASE i \in DOMAIN q /\ j \in DOMAIN q
    BY <1>2, <1>6, <2>1, Zenon DEF IsInjective
  <2>2. CASE i \notin DOMAIN q /\ j \notin DOMAIN q
    <3>1. i - Len(q) \in DOMAIN r /\ j - Len(q) \in DOMAIN r /\ r[i - Len(q)] = r[j - Len(q)]
      BY <1>4, <2>2, Zenon
    <3>2. i - Len(q) = j - Len(q)
      BY <1>6, <3>1, Zenon DEF IsInjective
    <3> QED
      BY <2>0, <3>2, <1>0
  <2>3. \A m, n \in DOMAIN a : m \in DOMAIN q /\ n \notin DOMAIN q => a[m] # a[n]
    <3> SUFFICES ASSUME NEW m \in DOMAIN a, NEW n \in DOMAIN a, m \in DOMAIN q, n \notin DOMAIN q PROVE a[m] # a[n]
      BY Zenon
    <3>1. a[m] \in Range(q)
      BY <1>2, Zenon DEF Range
    <3>2. a[n] \in Range(r)
      BY <1>4, Zenon DEF Range
    <3> QED
      BY <1>6, <3>1, <3>2, Zenon
  <2> QED
    BY <2>1, <2>2, <2>3, Zenon
<1> QED
  BY <1>1, <1>5, <1>6, Zenon DEF a
-----------------------------------------------------------------------------
\* The lists hold threads.
LEMMA Lists ==
  ASSUME SchedTyped, NEW d \in CpuSet
  PROVE  /\ c_runqueue[d] \in Seq(SThreads) /\ sc_mig[d].victims \in Seq(SThreads)
         /\ c_zombies[d] \in Seq(SThreads) /\ wc_threads \in Seq(SThreads)
         /\ Queued(d) \subseteq SThreads /\ Victims(d) \subseteq SThreads
         /\ Dying(d) \subseteq SThreads /\ Range(wc_threads) \subseteq SThreads
<1>1. /\ c_runqueue[d] \in Seq(SThreads) /\ sc_mig[d] \in Migrations
      /\ c_zombies[d] \in Seq(SThreads) /\ wc_threads \in Seq(SThreads)
  BY Zenon DEF SchedTyped
<1>2. sc_mig[d].victims \in Seq(SThreads)
  BY <1>1, Zenon DEF Migrations
<1>3. ASSUME NEW q \in Seq(SThreads) PROVE Range(q) \subseteq SThreads
  BY DEF Range
<1> QED
  BY <1>1, <1>2, <1>3, Zenon DEF Queued, Victims, Dying

\* A processor whose own state and whose threads a step leaves alone keeps its part
\* of the invariant.
LEMMA OtherCpu ==
  ASSUME SchedInv, NEW d \in CpuSet,
         c_curthread'[d] = c_curthread[d], c_isidle'[d] = c_isidle[d],
         c_runqueue'[d] = c_runqueue[d], c_zombies'[d] = c_zombies[d],
         sc_pc'[d] = sc_pc[d] \/ (sc_pc[d] = "idle" /\ sc_pc'[d] = "unidle"), sc_mig'[d] = sc_mig[d],
         "line" \in c_ipi_pending[d] => "line" \in c_ipi_pending'[d],
         \A t \in SThreads : t_cpu[t] = d /\ t_state[t] # "none" => t_cpu'[t] = d /\ t_state'[t] = t_state[t]
  PROVE  ListsOk(d)' /\ CurOk(d)' /\ StepOk(d)'
<1>1. /\ ListsOk(d) /\ CurOk(d) /\ StepOk(d) /\ c_curthread[d] \in SThreads
      /\ Queued(d) \subseteq SThreads /\ Victims(d) \subseteq SThreads /\ Dying(d) \subseteq SThreads
  BY Lists, Zenon DEF SchedInv, SchedTyped
<1>2. Queued(d)' = Queued(d) /\ Victims(d)' = Victims(d) /\ Dying(d)' = Dying(d)
  BY Zenon DEF Queued, Victims, Dying
<1>3. ListsOk(d)'
  <2>1. \A t \in Queued(d) \cup Victims(d) : t_state[t] = "S_READY" /\ t_cpu[t] = d
    BY <1>1, Zenon DEF ListsOk
  <2>2. \A t \in Dying(d) : t_state[t] = "S_ZOMBIE" /\ t_cpu[t] = d
    BY <1>1, Zenon DEF ListsOk
  <2>3. \A t \in Queued(d) \cup Victims(d) : t_state'[t] = "S_READY" /\ t_cpu'[t] = d
    BY <1>1, <2>1, Zenon
  <2>4. \A t \in Dying(d) : t_state'[t] = "S_ZOMBIE" /\ t_cpu'[t] = d
    BY <1>1, <2>2, Zenon
  <2> QED
    BY <1>1, <1>2, <2>3, <2>4, Zenon DEF ListsOk
<1>4. CurOk(d)'
  <2> DEFINE u == c_curthread[d]
  <2>1. u \in SThreads /\ t_cpu[u] = d /\ t_state[u] # "none"
    BY <1>1, Zenon DEF CurOk
  <2>2. t_cpu'[u] = d /\ t_state'[u] = t_state[u] /\ c_curthread'[d] = u
    BY <2>1, Zenon
  <2> HIDE DEF u
  <2> QED
    BY <1>1, <1>2, <2>2, Zenon DEF CurOk, u
<1>5. StepOk(d)'
  <2>1. CASE sc_pc'[d] = sc_pc[d]
    BY <1>1, <2>1, Zenon DEF StepOk
  <2>2. CASE sc_pc[d] = "idle" /\ sc_pc'[d] = "unidle"
    BY <1>1, <2>2, Zenon DEF StepOk, IdlePcs, MigPcs
  <2> QED
    BY <2>1, <2>2, Zenon
<1> QED
  BY <1>3, <1>4, <1>5, Zenon

\* A thread whose processor, state and list a step leaves alone stays where it was.
LEMMA OtherThread ==
  ASSUME SchedInv, NEW t \in SThreads, Located(t),
         t_cpu'[t] = t_cpu[t], t_state'[t] = t_state[t],
         c_curthread[t_cpu[t]] = t =>
           /\ c_curthread'[t_cpu[t]] = t /\ c_isidle'[t_cpu[t]] = c_isidle[t_cpu[t]]
           /\ (sc_pc[t_cpu[t]] = "resume" => sc_pc'[t_cpu[t]] = "resume"),
         t \in Queued(t_cpu[t]) => t \in Queued(t_cpu[t])' \cup Victims(t_cpu[t])',
         t \in Victims(t_cpu[t]) => t \in Queued(t_cpu[t])' \cup Victims(t_cpu[t])',
         t \in Dying(t_cpu[t]) => t \in Dying(t_cpu[t])',
         t \in Range(wc_threads) => t \in Range(wc_threads')
  PROVE  Located(t)'
<1> DEFINE c == t_cpu[t]
<1>1. t_cpu'[t] = c
  BY Zenon
<1> HIDE DEF c
<1> QED
  BY <1>1, Zenon DEF Located, c

\* A processor that stays where it is while its run queue grows.
LEMMA LongerQueue ==
  ASSUME NEW c \in CpuSet, StepOk(c), Len(c_runqueue[c]) \in Nat, sc_mig[c].my \in Nat,
         Len(c_runqueue'[c]) = Len(c_runqueue[c]) + 1,
         sc_pc'[c] = sc_pc[c], sc_mig'[c] = sc_mig[c], c_isidle'[c] = c_isidle[c],
         c_isidle[c] => "line" \in c_ipi_pending'[c]
  PROVE  StepOk(c)'
  BY DEF StepOk, IdlePcs, MigPcs

\* A processor in the sending loop of thread_consider_migration, or entering it.
LEMMA Sending ==
  ASSUME NEW c \in CpuSet, StepOk(c), sc_pc[c] \in {"count", "send"}, sc_pc'[c] = "send",
         c_isidle'[c] = c_isidle[c], sc_mig'[c].back = sc_mig[c].back,
         sc_mig'[c].send <= Len(sc_mig'[c].victims)
  PROVE  StepOk(c)'
  BY DEF StepOk, IdlePcs, MigPcs

\* A processor whose thread keeps its state, and which neither enters nor leaves the
\* last step of thread_switch.
LEMMA SameThread ==
  ASSUME NEW c \in CpuSet, CurOk(c), sc_pc[c] = "resume" <=> sc_pc'[c] = "resume",
         sc_pc[c] = "resume" /\ c_curthread[c] \notin Queued(c) => c_curthread[c] \notin Queued(c)',
         c_curthread'[c] = c_curthread[c], c_isidle'[c] = c_isidle[c],
         t_cpu'[c_curthread[c]] = t_cpu[c_curthread[c]],
         t_state'[c_curthread[c]] = t_state[c_curthread[c]]
  PROVE  CurOk(c)'
  BY Zenon DEF CurOk

\* A step of processor c that moves no thread: only c's place in the code, its
\* migration record and the interrupt lines change.
LEMMA QuietStep ==
  ASSUME SchedInv, NEW c \in CpuSet, SchedTyped',
         UNCHANGED <<c_curthread, c_isidle, c_runqueue, c_zombies, t_state, t_cpu, wc_threads>>,
         \A d \in CpuSet \ {c} : /\ sc_pc'[d] = sc_pc[d] /\ sc_mig'[d] = sc_mig[d]
                                 /\ "line" \in c_ipi_pending[d] => "line" \in c_ipi_pending'[d],
         \/ sc_mig'[c].victims = sc_mig[c].victims
         \/ Range(sc_mig'[c].victims) = Range(sc_mig[c].victims) /\ IsInjective(sc_mig'[c].victims),
         sc_pc[c] # "resume", sc_pc'[c] # "resume", StepOk(c)',
         sc_stop' # "panic" => sc_stop # "panic"
  PROVE  SchedInv'
<1>1. /\ SchedTyped /\ WaitOk /\ \A d \in CpuSet : ListsOk(d) /\ CurOk(d) /\ StepOk(d)
      /\ sc_stop # "panic" => \A t \in SThreads : Located(t)
  BY Zenon DEF SchedInv
<1>2. WaitOk'
  BY <1>1, Zenon DEF WaitOk
<1>3. \A d \in CpuSet : Queued(d)' = Queued(d) /\ Victims(d)' = Victims(d) /\ Dying(d)' = Dying(d)
  BY Zenon DEF Queued, Victims, Dying
<1>4. ASSUME NEW d \in CpuSet, d # c PROVE ListsOk(d)' /\ CurOk(d)' /\ StepOk(d)'
  <2>1. c_curthread'[d] = c_curthread[d] /\ c_isidle'[d] = c_isidle[d]
        /\ c_runqueue'[d] = c_runqueue[d] /\ c_zombies'[d] = c_zombies[d]
        /\ \A t \in SThreads : t_cpu[t] = d => t_cpu'[t] = d /\ t_state'[t] = t_state[t]
    BY Zenon
  <2> QED
    BY <1>4, <2>1, OtherCpu, Zenon
<1>5. ListsOk(c)'
  <2>1. ListsOk(c) /\ Queued(c)' = Queued(c) /\ Victims(c)' = Victims(c) /\ Dying(c)' = Dying(c)
    BY <1>1, <1>3, Zenon
  <2>2. IsInjective(sc_mig'[c].victims)
    BY <2>1, Zenon DEF ListsOk
  <2> QED
    BY <2>1, <2>2, Zenon DEF ListsOk
<1>6. CurOk(c)'
  BY <1>1, Zenon DEF CurOk
<1>7. ASSUME sc_stop' # "panic", NEW t \in SThreads PROVE Located(t)'
  <2>1. Located(t) /\ t_cpu[t] \in CpuSet
    BY <1>1, <1>7, Zenon DEF SchedTyped
  <2>2. sc_pc[t_cpu[t]] = "resume" => sc_pc'[t_cpu[t]] = "resume"
    BY <2>1, Zenon
  <2> QED
    BY <2>1, <2>2, <1>3, OtherThread, Zenon
<1> QED
  BY <1>1, <1>2, <1>4, <1>5, <1>6, <1>7, Zenon DEF SchedInv
-----------------------------------------------------------------------------
\* What the invariant says about one processor.
LEMMA CpuFacts ==
  ASSUME SchedInv, NEW c \in CpuSet
  PROVE  /\ SchedTyped /\ WaitOk /\ ListsOk(c) /\ CurOk(c) /\ StepOk(c)
         /\ c_curthread[c] \in SThreads /\ sc_mig[c] \in Migrations /\ sc_pc[c] \in SchedPcs
         /\ c_isidle[c] \in BOOLEAN
  BY Zenon DEF SchedInv, SchedTyped

\* The numbers in the migration record, and the lengths of the lists.
LEMMA MigFacts ==
  ASSUME SchedTyped, NEW d \in CpuSet
  PROVE  /\ Len(c_runqueue[d]) \in Nat /\ Len(sc_mig[d].victims) \in Nat
         /\ sc_mig[d].i \in 0..NCPU /\ sc_mig[d].my \in Nat /\ sc_mig[d].total \in Nat
         /\ sc_mig[d].share \in Nat /\ sc_mig[d].send \in Nat /\ sc_mig[d].back \in {"run", "idle"}
<1>1. c_runqueue[d] \in Seq(SThreads) /\ sc_mig[d] \in Migrations
  BY Zenon DEF SchedTyped
<1> QED
  BY <1>1 DEF Migrations

\* A clock tick starts a migration or goes on to thread_yield.
LEMMA StepHardclock ==
  ASSUME SchedInv, NEW c \in CpuSet, hardclock(c)
  PROVE  SchedInv'
<1> USE CpuFacts
<1>1. /\ sc_pc[c] \in {"run", "idle"} /\ sc_mig[c] = NoMig
      /\ UNCHANGED <<c_curthread, c_isidle, c_runqueue, c_zombies, t_state, t_cpu, wc_threads,
                     c_ipi_pending, sc_stop>>
  BY Zenon DEF hardclock, sc_cpu, StepOk, MigPcs
<1>2. CASE /\ sc_mig' = [sc_mig EXCEPT ![c].back = sc_pc[c]]
           /\ sc_pc' = [sc_pc EXCEPT ![c] = "count"]
  <2>0. [sc_mig[c] EXCEPT !.back = sc_pc[c]] \in Migrations
    <3>1. sc_mig[c] \in Migrations
      BY Zenon DEF SchedTyped
    <3> HIDE CpuFacts
    <3> QED
      BY <1>1, <3>1, Zenon DEF Migrations
  <2>1. SchedTyped'
    <3>1. sc_mig' \in [CpuSet -> Migrations] /\ sc_pc' \in [CpuSet -> SchedPcs]
      BY <1>2, <2>0, Zenon DEF SchedTyped, SchedPcs
    <3> QED
      BY <1>1, <3>1, Zenon DEF SchedTyped
  <2>2. \A d \in CpuSet \ {c} : sc_pc'[d] = sc_pc[d] /\ sc_mig'[d] = sc_mig[d]
    BY <1>2, Zenon DEF SchedTyped
  <2>3. /\ sc_pc'[c] = "count" /\ sc_mig'[c].victims = <<>> /\ sc_mig'[c].my = 0
        /\ sc_mig'[c].back = sc_pc[c]
    BY <1>1, <1>2 DEF SchedTyped, NoMig
  <2>4. sc_mig[c].victims = <<>>
    BY <1>1 DEF NoMig
  <2>5. StepOk(c)'
    <3>1. Len(c_runqueue'[c]) \in Nat
      BY <2>1 DEF SchedTyped
    <3> QED
      BY <1>1, <2>3, <3>1 DEF StepOk, MigPcs, IdlePcs
  <2> QED
    BY <1>1, <2>1, <2>2, <2>3, <2>4, <2>5, QuietStep, Zenon
<1>3. CASE sc_pc' = [sc_pc EXCEPT ![c] = AfterMigration(@)] /\ UNCHANGED sc_mig
  <2>1. SchedTyped'
    BY <1>1, <1>3, Zenon DEF SchedTyped, SchedPcs, AfterMigration
  <2>2. \A d \in CpuSet \ {c} : sc_pc'[d] = sc_pc[d] /\ sc_mig'[d] = sc_mig[d]
    BY <1>3, Zenon DEF SchedTyped
  <2>3. sc_pc'[c] = AfterMigration(sc_pc[c])
    BY <1>3, Zenon DEF SchedTyped
  <2>4. StepOk(c)' /\ sc_pc'[c] # "resume"
    BY <1>1, <1>3, <2>3 DEF StepOk, MigPcs, IdlePcs, AfterMigration
  <2> QED
    BY <1>1, <1>3, <2>1, <2>2, <2>4, QuietStep, Zenon
<1> QED
  BY <1>2, <1>3, Zenon DEF hardclock

\* The record after one more queue was counted.
Counted(m, n, y) == [m EXCEPT !.i = @ + 1, !.total = @ + n, !.my = y]

\* Counting one more queue leaves a migration record.
LEMMA CountRecord ==
  ASSUME NEW m \in Migrations, NEW n \in Nat, NEW y \in Nat, m.i + 1 \in 0..NCPU
  PROVE  /\ Counted(m, n, y) \in Migrations /\ Counted(m, n, y).victims = m.victims
         /\ Counted(m, n, y).back = m.back /\ Counted(m, n, y).my = y
<1>1. m.total + n \in Nat
  BY DEF Migrations
<1> QED
  BY <1>1, Zenon DEF Migrations, Counted

\* One queue is counted.
LEMMA StepCountQueue ==
  ASSUME SchedInv, NEW c \in CpuSet, CountQueue(c)
  PROVE  SchedInv'
<1> USE CpuFacts
<1>0. PICK m \in Migrations : m = sc_mig[c]
  BY Zenon
<1>1. /\ sc_pc[c] = "count" /\ m.i < NCPU
      /\ UNCHANGED <<c_curthread, c_isidle, c_runqueue, c_zombies, t_state, t_cpu, wc_threads,
                     c_ipi_pending, sc_pc, sc_stop>>
  BY <1>0, Zenon DEF CountQueue, sc_cpu
<1>2. m.i \in CpuSet /\ m.i + 1 \in 0..NCPU
  BY <1>1, SchedAssumption DEF CpuSet, Migrations
<1>3. PICK n \in Nat : n = Len(c_runqueue[m.i])
  BY <1>2 DEF SchedTyped
<1>a. PICK y \in Nat : y = IF m.i = c THEN n ELSE m.my
  BY Zenon DEF Migrations
<1>b. PICK r : r = Counted(m, n, y)
  BY Zenon
<1>c. sc_mig' = [sc_mig EXCEPT ![c] = r]
  BY <1>0, <1>3, <1>a, <1>b, Zenon DEF CountQueue, Counted
<1>4. r \in Migrations /\ r.victims = m.victims /\ r.back = m.back /\ r.my = y
  <2> HIDE CpuFacts
  <2>1. m \in Migrations /\ n \in Nat /\ y \in Nat /\ m.i + 1 \in 0..NCPU
    BY <1>0, <1>2, <1>3, <1>a, Zenon
  <2> QED
    BY <1>b, <2>1, CountRecord, Zenon
<1>5. SchedTyped'
  <2>1. sc_mig' \in [CpuSet -> Migrations]
    BY <1>c, <1>4, Zenon DEF SchedTyped
  <2> QED
    BY <1>1, <2>1, Zenon DEF SchedTyped
<1>6. sc_mig'[c] = r /\ \A d \in CpuSet \ {c} : sc_pc'[d] = sc_pc[d] /\ sc_mig'[d] = sc_mig[d]
  BY <1>1, <1>c, Zenon DEF SchedTyped
<1>7. StepOk(c)'
  <2>1. m.victims = <<>> /\ m.my <= Len(c_runqueue[c])
    BY <1>0, <1>1, Zenon DEF StepOk
  <2>2. r.my <= Len(c_runqueue[c])
    BY <1>3, <1>a, <1>4, <2>1
  <2> QED
    BY <1>0, <1>1, <1>4, <1>6, <2>1, <2>2, Zenon DEF StepOk, MigPcs, IdlePcs
<1> QED
  BY <1>0, <1>1, <1>4, <1>5, <1>6, <1>7, QuietStep, Zenon

\* cpu_idle ended: back to the loop.
LEMMA StepIdleAgain ==
  ASSUME SchedInv, NEW c \in CpuSet, IdleAgain(c)
  PROVE  SchedInv'
<1> USE CpuFacts
<1>1. /\ sc_pc[c] = "unidle" /\ sc_pc' = [sc_pc EXCEPT ![c] = "pick"]
      /\ UNCHANGED <<c_curthread, c_isidle, c_runqueue, c_zombies, t_state, t_cpu, wc_threads,
                     c_ipi_pending, sc_mig, sc_stop>>
  BY Zenon DEF IdleAgain
<1>2. SchedTyped'
  BY <1>1, Zenon DEF SchedTyped, SchedPcs
<1>3. sc_pc'[c] = "pick" /\ \A d \in CpuSet \ {c} : sc_pc'[d] = sc_pc[d] /\ sc_mig'[d] = sc_mig[d]
  BY <1>1, Zenon DEF SchedTyped
<1>4. StepOk(c)'
  BY <1>1, <1>3, Zenon DEF StepOk, MigPcs, IdlePcs
<1> QED
  BY <1>1, <1>2, <1>3, <1>4, QuietStep, Zenon

\* thread_switch returns at once when nothing else is ready.
LEMMA StepYieldNothing ==
  ASSUME SchedInv, NEW c \in CpuSet, sc_pc[c] = "yield", sc_pc' = [sc_pc EXCEPT ![c] = "run"],
         UNCHANGED <<sc_cpu, t_state, t_cpu, wc_threads, sc_mig, sc_stop>>
  PROVE  SchedInv'
<1> USE CpuFacts
<1>1. UNCHANGED <<c_curthread, c_isidle, c_runqueue, c_zombies, t_state, t_cpu, wc_threads,
                  c_ipi_pending, sc_mig, sc_stop>>
  BY Zenon DEF sc_cpu
<1>2. SchedTyped'
  BY <1>1, Zenon DEF SchedTyped, SchedPcs
<1>3. sc_pc'[c] = "run" /\ \A d \in CpuSet \ {c} : sc_pc'[d] = sc_pc[d] /\ sc_mig'[d] = sc_mig[d]
  BY <1>1, Zenon DEF SchedTyped
<1>4. StepOk(c)'
  BY <1>1, <1>3, Zenon DEF StepOk, MigPcs, IdlePcs
<1> QED
  BY <1>1, <1>2, <1>3, <1>4, QuietStep, Zenon

\* An interprocessor interrupt is handled.
LEMMA StepInterrupt ==
  ASSUME SchedInv, NEW c \in CpuSet, interprocessor_interrupt(c)
  PROVE  SchedInv'
<1> USE CpuFacts
<1>1. /\ sc_pc[c] \in {"run", "idle"}
      /\ UNCHANGED <<c_curthread, c_isidle, c_runqueue, c_zombies, t_state, t_cpu, wc_threads,
                     sc_mig, sc_stop>>
  BY Zenon DEF interprocessor_interrupt
<1>2. PICK p \in {"halted", "unidleack", "ack"} :
        /\ sc_pc' = [sc_pc EXCEPT ![c] = p]
        /\ p # "halted" => p = (IF sc_pc[c] = "idle" THEN "unidleack" ELSE "ack")
  BY Zenon DEF interprocessor_interrupt, SchedTyped
<1>3. c_ipi_pending' = c_ipi_pending \/ c_ipi_pending' = [c_ipi_pending EXCEPT ![c] = {"line"}]
  BY Zenon DEF interprocessor_interrupt
<1>4. SchedTyped'
  <2>1. sc_pc' \in [CpuSet -> SchedPcs]
    BY <1>2, Zenon DEF SchedTyped, SchedPcs
  <2>2. c_ipi_pending' \in [CpuSet -> SUBSET {"line", "IPI_PANIC", "IPI_OFFLINE"}]
    BY <1>3, ZenonT(30) DEF SchedTyped
  <2> QED
    BY <1>1, <2>1, <2>2, Zenon DEF SchedTyped
<1>5. /\ sc_pc'[c] = p
      /\ \A d \in CpuSet \ {c} : /\ sc_pc'[d] = sc_pc[d] /\ sc_mig'[d] = sc_mig[d]
                                 /\ c_ipi_pending'[d] = c_ipi_pending[d]
  BY <1>1, <1>2, <1>3, Zenon DEF SchedTyped
<1>6. StepOk(c)'
  BY <1>1, <1>2, <1>5, Zenon DEF StepOk, MigPcs, IdlePcs
<1> QED
  BY <1>1, <1>4, <1>5, <1>6, QuietStep, Zenon

\* The interrupt line is cleared; the processor does not stay in cpu_idle.
LEMMA StepClear ==
  ASSUME SchedInv, NEW c \in CpuSet, lamebus_clear_ipi(c)
  PROVE  SchedInv'
<1> USE CpuFacts
<1>1. /\ sc_pc[c] \in {"ack", "unidleack"}
      /\ sc_pc' = [sc_pc EXCEPT ![c] = IF @ = "ack" THEN "run" ELSE "unidle"]
      /\ c_ipi_pending' = [c_ipi_pending EXCEPT ![c] = @ \ {"line"}]
      /\ UNCHANGED <<c_curthread, c_isidle, c_runqueue, c_zombies, t_state, t_cpu, wc_threads,
                     sc_mig, sc_stop>>
  BY Zenon DEF lamebus_clear_ipi
<1>2. SchedTyped'
  <2>1. sc_pc' \in [CpuSet -> SchedPcs]
    BY <1>1, Zenon DEF SchedTyped, SchedPcs
  <2>2. c_ipi_pending' \in [CpuSet -> SUBSET {"line", "IPI_PANIC", "IPI_OFFLINE"}]
    BY <1>1, Zenon DEF SchedTyped
  <2> QED
    BY <1>1, <2>1, <2>2, Zenon DEF SchedTyped
<1>3. /\ sc_pc'[c] = IF sc_pc[c] = "ack" THEN "run" ELSE "unidle"
      /\ \A d \in CpuSet \ {c} : /\ sc_pc'[d] = sc_pc[d] /\ sc_mig'[d] = sc_mig[d]
                                 /\ c_ipi_pending'[d] = c_ipi_pending[d]
  BY <1>1, Zenon DEF SchedTyped
<1>4. StepOk(c)'
  BY <1>1, <1>3 DEF StepOk, MigPcs, IdlePcs
<1> QED
  BY <1>1, <1>2, <1>3, <1>4, QuietStep

\* A broadcast asserts lines and clears none.
LEMMA Broadcast ==
  ASSUME SchedTyped, NEW c \in CpuSet, NEW code \in {"IPI_PANIC", "IPI_OFFLINE"}, ipi_broadcast(c, code)
  PROVE  /\ c_ipi_pending' \in [CpuSet -> SUBSET {"line", "IPI_PANIC", "IPI_OFFLINE"}]
         /\ \A d \in CpuSet : "line" \in c_ipi_pending[d] => "line" \in c_ipi_pending'[d]
<1>1. \A d \in CpuSet : c_ipi_pending[d] \in SUBSET {"line", "IPI_PANIC", "IPI_OFFLINE"}
  BY Zenon DEF SchedTyped
<1>2. \A d \in CpuSet : ipi_send(d, code)[d] = c_ipi_pending[d] \cup ({code, "line"} \ {"IPI_UNIDLE"})
  BY Zenon DEF ipi_send, SchedTyped
<1>3. \A d \in CpuSet : c_ipi_pending'[d] = IF d = c THEN c_ipi_pending[d] ELSE ipi_send(d, code)[d]
  BY Zenon DEF ipi_broadcast
<1>4. \A d \in CpuSet : /\ c_ipi_pending'[d] \in SUBSET {"line", "IPI_PANIC", "IPI_OFFLINE"}
                        /\ c_ipi_pending[d] \subseteq c_ipi_pending'[d]
  BY <1>1, <1>2, <1>3, Zenon
<1>5. c_ipi_pending' = [d \in CpuSet |-> c_ipi_pending'[d]]
  BY Zenon DEF ipi_broadcast
<1> QED
  BY <1>4, <1>5, Zenon

\* The system is shut down from processor c.
LEMMA StepShutdown ==
  ASSUME SchedInv, NEW c \in CpuSet, thread_shutdown(c)
  PROVE  SchedInv'
<1> USE CpuFacts
<1>1. /\ sc_pc[c] = "run" /\ sc_stop = "no" /\ ipi_broadcast(c, "IPI_OFFLINE")
      /\ sc_pc' = [sc_pc EXCEPT ![c] = "halted"]
      /\ UNCHANGED <<c_curthread, c_isidle, c_runqueue, c_zombies, t_state, t_cpu, wc_threads,
                     sc_mig>>
  BY Zenon DEF thread_shutdown
<1>2. /\ c_ipi_pending' \in [CpuSet -> SUBSET {"line", "IPI_PANIC", "IPI_OFFLINE"}]
      /\ \A d \in CpuSet : "line" \in c_ipi_pending[d] => "line" \in c_ipi_pending'[d]
  BY <1>1, Broadcast, Zenon
<1>3. SchedTyped'
  <2>1. sc_pc' \in [CpuSet -> SchedPcs]
    BY <1>1, Zenon DEF SchedTyped, SchedPcs
  <2> QED
    BY <1>1, <1>2, <2>1, Zenon DEF SchedTyped
<1>4. sc_pc'[c] = "halted" /\ \A d \in CpuSet \ {c} : sc_pc'[d] = sc_pc[d] /\ sc_mig'[d] = sc_mig[d]
  BY <1>1, Zenon DEF SchedTyped
<1>5. StepOk(c)'
  BY <1>1, <1>4, Zenon DEF StepOk, MigPcs, IdlePcs
<1>6. sc_stop # "panic"
  BY <1>1, Zenon
<1> QED
  BY <1>1, <1>2, <1>3, <1>4, <1>5, <1>6, QuietStep, Zenon
-----------------------------------------------------------------------------
\* A thread that is on no list of processor e goes to the end of its run queue.
LEMMA Enqueue ==
  ASSUME SchedTyped, NEW e \in CpuSet, ListsOk(e), NEW t \in SThreads,
         t \notin Queued(e), t \notin Victims(e), t \notin Dying(e),
         c_runqueue'[e] = Append(c_runqueue[e], t), sc_mig'[e] = sc_mig[e],
         c_zombies'[e] = c_zombies[e], t_state'[t] = "S_READY", t_cpu'[t] = e,
         \A u \in SThreads \ {t} : t_state'[u] = t_state[u] /\ t_cpu'[u] = t_cpu[u]
  PROVE  /\ ListsOk(e)' /\ Queued(e)' = Queued(e) \cup {t}
         /\ Victims(e)' = Victims(e) /\ Dying(e)' = Dying(e)
         /\ Len(c_runqueue'[e]) = Len(c_runqueue[e]) + 1
<1>1. /\ c_runqueue[e] \in Seq(SThreads) /\ Queued(e) \subseteq SThreads
      /\ Victims(e) \subseteq SThreads /\ Dying(e) \subseteq SThreads
  BY Lists, Zenon
<1>2. /\ Range(c_runqueue'[e]) = Range(c_runqueue[e]) \cup {t}
      /\ Len(c_runqueue'[e]) = Len(c_runqueue[e]) + 1
      /\ IsInjective(c_runqueue[e]) /\ t \notin Range(c_runqueue[e]) => IsInjective(c_runqueue'[e])
  <2> DEFINE q == c_runqueue[e]
  <2>1. q \in Seq(SThreads) /\ c_runqueue'[e] = Append(q, t)
    BY <1>1, Zenon
  <2> HIDE DEF q
  <2>2. /\ Append(q, t) \in Seq(SThreads) /\ Range(Append(q, t)) = Range(q) \cup {t}
        /\ Len(Append(q, t)) = Len(q) + 1
        /\ IsInjective(q) /\ t \notin Range(q) => IsInjective(Append(q, t))
    BY <2>1, AddTail, Zenon
  <2> QED
    BY <2>1, <2>2, Zenon DEF q
<1>3. Queued(e)' = Queued(e) \cup {t} /\ Victims(e)' = Victims(e) /\ Dying(e)' = Dying(e)
  BY <1>2, Zenon DEF Queued, Victims, Dying
<1>4. IsInjective(c_runqueue'[e]) /\ IsInjective(sc_mig'[e].victims)
  BY <1>2, Zenon DEF ListsOk, Queued
<1>5. Queued(e)' \cap Victims(e)' = {}
  <2>1. Queued(e) \cap Victims(e) = {}
    BY Zenon DEF ListsOk
  <2> QED
    BY <1>3, <2>1, Zenon
<1>6. ASSUME NEW u \in Queued(e)' \cup Victims(e)' PROVE t_state'[u] = "S_READY" /\ t_cpu'[u] = e
  <2>1. CASE u = t
    BY <2>1, Zenon
  <2>2. CASE u # t
    <3>1. u \in Queued(e) \cup Victims(e) /\ u \in SThreads
      BY <1>1, <1>3, <1>6, <2>2, Zenon
    <3> QED
      BY <2>2, <3>1, Zenon DEF ListsOk
  <2> QED
    BY <2>1, <2>2, Zenon
<1>7. ASSUME NEW u \in Dying(e)' PROVE t_state'[u] = "S_ZOMBIE" /\ t_cpu'[u] = e
  <2>1. u \in Dying(e) /\ u \in SThreads /\ u # t
    BY <1>1, <1>3, <1>7, Zenon
  <2> QED
    BY <2>1, Zenon DEF ListsOk
<1> QED
  BY <1>2, <1>3, <1>4, <1>5, <1>6, <1>7, Zenon DEF ListsOk

\* A thread that does not exist, sleeps or runs is on no processor's lists.
LEMMA NotQueued ==
  ASSUME SchedInv, NEW d \in CpuSet, NEW t \in SThreads, t_state[t] # "S_READY"
  PROVE  /\ t \notin Queued(d) /\ t \notin Victims(d)
         /\ t_state[t] # "S_ZOMBIE" => t \notin Dying(d)
         /\ t_state[t] # "S_SLEEP" => t \notin Range(wc_threads)
  BY CpuFacts, Zenon DEF ListsOk, WaitOk

\* A new thread starts on the run queue of the processor that forked it.
LEMMA StepFork ==
  ASSUME SchedInv, NEW c \in CpuSet, NEW t \in SThreads, thread_fork(c, t)
  PROVE  SchedInv'
<1> USE CpuFacts
<1>1. /\ sc_pc[c] = "run" /\ t_state[t] = "none"
      /\ t_cpu' = [t_cpu EXCEPT ![t] = c] /\ t_state' = [t_state EXCEPT ![t] = "S_READY"]
      /\ c_runqueue' = [c_runqueue EXCEPT ![c] = Append(@, t)]
      /\ UNCHANGED <<c_curthread, c_isidle, c_zombies, c_ipi_pending, wc_threads, sc_pc, sc_mig,
                     sc_stop>>
  BY Zenon DEF thread_fork
<1>2. /\ t_state'[t] = "S_READY" /\ t_cpu'[t] = c
      /\ \A u \in SThreads \ {t} : t_state'[u] = t_state[u] /\ t_cpu'[u] = t_cpu[u]
      /\ c_runqueue'[c] = Append(c_runqueue[c], t)
      /\ \A d \in CpuSet \ {c} : c_runqueue'[d] = c_runqueue[d]
  BY <1>1, Zenon DEF SchedTyped
<1>3. SchedTyped'
  <2>1. Append(c_runqueue[c], t) \in Seq(SThreads)
    BY Lists, AddTail, Zenon
  <2>2. c_runqueue' \in [CpuSet -> Seq(SThreads)]
    BY <1>1, <2>1, Zenon DEF SchedTyped
  <2>3. t_cpu' \in [SThreads -> CpuSet] /\ t_state' \in [SThreads -> ThreadStates]
    BY <1>1, Zenon DEF SchedTyped, ThreadStates
  <2> QED
    BY <1>1, <2>2, <2>3, Zenon DEF SchedTyped
<1>4. \A d \in CpuSet : t \notin Queued(d) /\ t \notin Victims(d) /\ t \notin Dying(d)
  BY <1>1, NotQueued, Zenon
<1>5. t \notin Range(wc_threads) /\ Range(wc_threads) \subseteq SThreads
  BY <1>1, NotQueued, Lists, Zenon
<1>6. WaitOk'
  BY <1>1, <1>2, <1>5, Zenon DEF WaitOk
<1>7. /\ ListsOk(c)' /\ Queued(c)' = Queued(c) \cup {t} /\ Victims(c)' = Victims(c)
      /\ Dying(c)' = Dying(c)
  BY <1>1, <1>2, <1>4, Enqueue, Zenon
<1>8. CurOk(c)'
  <2>1. c_curthread[c] # t /\ c_curthread[c] \in SThreads
    BY <1>1, Zenon DEF CurOk
  <2> QED
    BY <1>1, <1>2, <2>1 DEF CurOk
<1>9. StepOk(c)'
  BY <1>1, Zenon DEF StepOk
<1>10. ASSUME NEW d \in CpuSet, d # c PROVE ListsOk(d)' /\ CurOk(d)' /\ StepOk(d)'
  <2>1. \A u \in SThreads : t_cpu[u] = d /\ t_state[u] # "none" => t_cpu'[u] = d /\ t_state'[u] = t_state[u]
    BY <1>1, <1>2, Zenon
  <2>2. /\ c_curthread'[d] = c_curthread[d] /\ c_isidle'[d] = c_isidle[d]
        /\ c_runqueue'[d] = c_runqueue[d] /\ c_zombies'[d] = c_zombies[d]
        /\ sc_pc'[d] = sc_pc[d] /\ sc_mig'[d] = sc_mig[d] /\ c_ipi_pending'[d] = c_ipi_pending[d]
    BY <1>1, <1>2, <1>10, Zenon
  <2> QED
    BY <2>1, <2>2, OtherCpu, Zenon
<1>11. ASSUME sc_stop' # "panic", NEW u \in SThreads PROVE Located(u)'
  <2>1. CASE u = t
    BY <1>2, <1>7, <2>1, Zenon DEF Located
  <2>2. CASE u # t
    <3>1. Located(u) /\ t_cpu[u] \in CpuSet
      BY <1>1, <1>11, Zenon DEF SchedInv, SchedTyped
    <3>2. \A d \in CpuSet : Queued(d) \subseteq Queued(d)' /\ Victims(d)' = Victims(d) /\ Dying(d)' = Dying(d)
      <4> SUFFICES ASSUME NEW d \in CpuSet
                   PROVE  Queued(d) \subseteq Queued(d)' /\ Victims(d)' = Victims(d) /\ Dying(d)' = Dying(d)
        BY Zenon
      <4>1. CASE d = c
        BY <1>7, <4>1, Zenon
      <4>2. CASE d # c
        BY <1>1, <1>2, <4>2, Zenon DEF Queued, Victims, Dying
      <4> QED
        BY <4>1, <4>2, Zenon
    <3> QED
      BY <1>1, <1>2, <2>2, <3>1, <3>2, OtherThread, Zenon
  <2> QED
    BY <2>1, <2>2, Zenon
<1> QED
  BY <1>3, <1>6, <1>7, <1>8, <1>9, <1>10, <1>11, Zenon DEF SchedInv

\* IPI_UNIDLE asserts the line of processor e and clears none.
LEMMA Unidle ==
  ASSUME SchedTyped, NEW e \in CpuSet
  PROVE  /\ ipi_send(e, "IPI_UNIDLE") \in [CpuSet -> SUBSET {"line", "IPI_PANIC", "IPI_OFFLINE"}]
         /\ "line" \in ipi_send(e, "IPI_UNIDLE")[e]
         /\ \A d \in CpuSet : "line" \in c_ipi_pending[d] => "line" \in ipi_send(e, "IPI_UNIDLE")[d]
<1>1. ipi_send(e, "IPI_UNIDLE") = [c_ipi_pending EXCEPT ![e] = c_ipi_pending[e] \cup {"line"}]
  BY Zenon DEF ipi_send
<1> DEFINE f == ipi_send(e, "IPI_UNIDLE")
           C == {"line", "IPI_PANIC", "IPI_OFFLINE"}
<1>2. c_ipi_pending \in [CpuSet -> SUBSET C] /\ c_ipi_pending[e] \cup {"line"} \in SUBSET C
  BY Zenon DEF SchedTyped
<1> HIDE DEF C, f
<1>3. f = [c_ipi_pending EXCEPT ![e] = c_ipi_pending[e] \cup {"line"}]
  BY <1>1, Zenon DEF f
<1>4. f \in [CpuSet -> SUBSET C]
  BY <1>2, <1>3, Zenon
<1>5. f[e] = c_ipi_pending[e] \cup {"line"} /\ \A d \in CpuSet \ {e} : f[d] = c_ipi_pending[d]
  BY <1>2, <1>3, Zenon
<1>6. "line" \in f[e] /\ \A d \in CpuSet : "line" \in c_ipi_pending[d] => "line" \in f[d]
  BY <1>5, Zenon
<1> QED
  BY <1>4, <1>6, Zenon DEF C, f

\* The first sleeper goes to the run queue of its own processor, and that one is
\* told when it idles.
LEMMA StepWake ==
  ASSUME SchedInv, NEW c \in CpuSet, wchan_wakeone(c)
  PROVE  SchedInv'
<1> USE CpuFacts
<1>0. PICK t \in SThreads : /\ t = Head(wc_threads) /\ t \in Range(wc_threads)
                            /\ wc_threads' \in Seq(SThreads) /\ IsInjective(wc_threads')
                            /\ Range(wc_threads') = Range(wc_threads) \ {t}
                            /\ Range(wc_threads) \subseteq SThreads
  <2>1. wc_threads \in Seq(SThreads) /\ wc_threads # <<>> /\ IsInjective(wc_threads)
        /\ wc_threads' = Tail(wc_threads) /\ Range(wc_threads) \subseteq SThreads
    BY Lists, Zenon DEF wchan_wakeone, WaitOk
  <2>2. /\ Head(wc_threads) \in SThreads /\ Head(wc_threads) \in Range(wc_threads)
        /\ Tail(wc_threads) \in Seq(SThreads)
        /\ Range(Tail(wc_threads)) = Range(wc_threads) \ {Head(wc_threads)}
        /\ Len(Tail(wc_threads)) = Len(wc_threads) - 1
        /\ IsInjective(Tail(wc_threads))
    BY <2>1, RemHead, Zenon
  <2> QED
    BY <2>1, <2>2, Zenon
<1>1. PICK e \in CpuSet : e = t_cpu[t]
  BY Zenon DEF SchedTyped
<1>2. /\ sc_pc[c] \in {"run", "idle"}
      /\ t_state' = [t_state EXCEPT ![t] = "S_READY"]
      /\ c_runqueue' = [c_runqueue EXCEPT ![e] = Append(@, t)]
      /\ c_ipi_pending' = IF c_isidle[e] /\ e # c THEN ipi_send(e, "IPI_UNIDLE") ELSE c_ipi_pending
      /\ sc_pc' = [sc_pc EXCEPT ![c] = IF @ = "idle" THEN "unidle" ELSE @]
      /\ UNCHANGED <<c_curthread, c_isidle, c_zombies, t_cpu, sc_mig, sc_stop>>
  BY <1>0, <1>1, Zenon DEF wchan_wakeone, thread_make_runnable
<1>3. t_state[t] = "S_SLEEP"
  BY <1>0, Zenon DEF WaitOk
<1>4. /\ t_state'[t] = "S_READY" /\ t_cpu'[t] = e
      /\ \A u \in SThreads \ {t} : t_state'[u] = t_state[u] /\ t_cpu'[u] = t_cpu[u]
      /\ c_runqueue'[e] = Append(c_runqueue[e], t)
      /\ \A d \in CpuSet \ {e} : c_runqueue'[d] = c_runqueue[d]
      /\ \A d \in CpuSet \ {c} : sc_pc'[d] = sc_pc[d]
      /\ sc_pc'[c] = IF sc_pc[c] = "idle" THEN "unidle" ELSE sc_pc[c]
  BY <1>1, <1>2, Zenon DEF SchedTyped
<1>5. /\ c_ipi_pending' \in [CpuSet -> SUBSET {"line", "IPI_PANIC", "IPI_OFFLINE"}]
      /\ \A d \in CpuSet : "line" \in c_ipi_pending[d] => "line" \in c_ipi_pending'[d]
      /\ c_isidle[e] /\ e # c => "line" \in c_ipi_pending'[e]
  <2>1. CASE c_isidle[e] /\ e # c
    BY <1>2, <2>1, Unidle, Zenon
  <2>2. CASE ~(c_isidle[e] /\ e # c)
    BY <1>2, <2>2, Zenon DEF SchedTyped
  <2> QED
    BY <2>1, <2>2, Zenon
<1>6. SchedTyped'
  <2>1. Append(c_runqueue[e], t) \in Seq(SThreads)
    BY Lists, AddTail, Zenon
  <2>2. c_runqueue' \in [CpuSet -> Seq(SThreads)]
    BY <1>2, <2>1, Zenon DEF SchedTyped
  <2>3. sc_pc' \in [CpuSet -> SchedPcs] /\ t_state' \in [SThreads -> ThreadStates]
    BY <1>2, Zenon DEF SchedTyped, ThreadStates, SchedPcs
  <2> QED
    BY <1>0, <1>2, <1>5, <2>2, <2>3, Zenon DEF SchedTyped
<1>7. \A d \in CpuSet : t \notin Queued(d) /\ t \notin Victims(d) /\ t \notin Dying(d)
  BY <1>3, NotQueued, Zenon
<1>8. WaitOk'
  BY <1>0, <1>4, Zenon DEF WaitOk
<1>9. /\ ListsOk(e)' /\ Queued(e)' = Queued(e) \cup {t} /\ Victims(e)' = Victims(e)
      /\ Dying(e)' = Dying(e) /\ Len(c_runqueue'[e]) = Len(c_runqueue[e]) + 1
  BY <1>2, <1>4, <1>7, Enqueue, Zenon
<1>10. CurOk(e)' /\ StepOk(e)'
  <2>0. CurOk(e) /\ StepOk(e) /\ c_curthread[e] \in SThreads /\ c_isidle[e] \in BOOLEAN
    BY Zenon
  <2>1. sc_pc'[e] = sc_pc[e] \/ (e = c /\ sc_pc[e] = "idle" /\ sc_pc'[e] = "unidle")
    BY <1>2, <1>4
  <2>2. CurOk(e)'
    <3>1. CASE c_curthread[e] = t
      <4>1. c_isidle[e] /\ sc_pc[e] # "resume"
        BY <1>3, <2>0, <3>1, Zenon DEF CurOk
      <4> QED
        BY <1>2, <1>4, <2>0, <2>1, <3>1, <4>1 DEF CurOk
    <3>2. CASE c_curthread[e] # t
      BY <1>2, <1>4, <1>9, <2>0, <2>1, <3>2 DEF CurOk
    <3> QED
      BY <3>1, <3>2, Zenon
  <2>3. StepOk(e)'
    <3>1. Len(c_runqueue[e]) \in Nat /\ sc_mig[e].my \in Nat
      BY MigFacts, Zenon
    <3>2. sc_mig'[e] = sc_mig[e] /\ c_isidle'[e] = c_isidle[e]
      BY <1>2, Zenon
    <3> HIDE CpuFacts
    <3>3. CASE sc_pc'[e] = "unidle" /\ sc_pc[e] = "idle"
      BY <2>0, <3>2, <3>3 DEF StepOk, IdlePcs, MigPcs
    <3>4. CASE sc_pc'[e] = sc_pc[e] /\ (c_isidle[e] => "line" \in c_ipi_pending'[e])
      BY <1>9, <2>0, <3>1, <3>2, <3>4, LongerQueue, Zenon
    <3>5. CASE sc_pc'[e] = sc_pc[e] /\ e = c /\ sc_pc[e] # "idle"
      BY <1>9, <2>0, <3>1, <3>2, <3>5 DEF StepOk, IdlePcs, MigPcs
    <3> QED
      BY <1>4, <1>5, <2>1, <3>3, <3>4, <3>5, Zenon
  <2> QED
    BY <2>2, <2>3, Zenon
<1>11. ASSUME NEW d \in CpuSet, d # e PROVE ListsOk(d)' /\ CurOk(d)' /\ StepOk(d)'
  <2>1. \A u \in SThreads : t_cpu[u] = d /\ t_state[u] # "none" => t_cpu'[u] = d /\ t_state'[u] = t_state[u]
    BY <1>1, <1>2, <1>4, <1>11, Zenon
  <2>2. /\ c_curthread'[d] = c_curthread[d] /\ c_isidle'[d] = c_isidle[d]
        /\ c_runqueue'[d] = c_runqueue[d] /\ c_zombies'[d] = c_zombies[d]
        /\ sc_mig'[d] = sc_mig[d]
    BY <1>2, <1>4, <1>11, Zenon
  <2>3. sc_pc'[d] = sc_pc[d] \/ (sc_pc[d] = "idle" /\ sc_pc'[d] = "unidle")
    BY <1>2, <1>4, Zenon
  <2> QED
    BY <1>5, <2>1, <2>2, <2>3, OtherCpu, Zenon
<1>12. ASSUME sc_stop' # "panic", NEW u \in SThreads PROVE Located(u)'
  <2>1. CASE u = t
    BY <1>4, <1>9, <2>1, Zenon DEF Located
  <2>2. CASE u # t
    <3>1. Located(u) /\ t_cpu[u] \in CpuSet
      BY <1>2, <1>12, Zenon DEF SchedInv, SchedTyped
    <3>2. \A d \in CpuSet : Queued(d) \subseteq Queued(d)' /\ Victims(d)' = Victims(d) /\ Dying(d)' = Dying(d)
      <4> SUFFICES ASSUME NEW d \in CpuSet
                   PROVE  Queued(d) \subseteq Queued(d)' /\ Victims(d)' = Victims(d) /\ Dying(d)' = Dying(d)
        BY Zenon
      <4>1. CASE d = e
        BY <1>9, <4>1, Zenon
      <4>2. CASE d # e
        BY <1>2, <1>4, <4>2, Zenon DEF Queued, Victims, Dying
      <4> QED
        BY <4>1, <4>2, Zenon
    <3>3. u \in Range(wc_threads) => u \in Range(wc_threads')
      BY <1>0, <2>2, Zenon
    <3>4. sc_pc[t_cpu[u]] = "resume" => sc_pc'[t_cpu[u]] = "resume"
      BY <1>2, <1>4, <3>1, Zenon
    <3> QED
      BY <1>2, <1>4, <2>2, <3>1, <3>2, <3>3, <3>4, OtherThread, Zenon
  <2> QED
    BY <2>1, <2>2, Zenon
<1> QED
  BY <1>6, <1>8, <1>9, <1>10, <1>11, <1>12, Zenon DEF SchedInv

\* A processor that runs a thread does not idle, and the thread is on no list.
LEMMA Running ==
  ASSUME SchedInv, NEW c \in CpuSet, sc_pc[c] \in {"run", "yield"}
  PROVE  /\ c_curthread[c] \in SThreads /\ t_state[c_curthread[c]] = "S_RUN"
         /\ t_cpu[c_curthread[c]] = c /\ c_isidle[c] = FALSE /\ sc_mig[c] = NoMig
         /\ Victims(c) = {} /\ c_curthread[c] \notin Range(wc_threads)
         /\ \A d \in CpuSet : /\ c_curthread[c] \notin Queued(d) /\ c_curthread[c] \notin Victims(d)
                              /\ c_curthread[c] \notin Dying(d)
<1> USE CpuFacts
<1>1. c_isidle[c] = FALSE /\ sc_mig[c] = NoMig
  BY Zenon DEF StepOk, IdlePcs, MigPcs
<1>2. t_state[c_curthread[c]] = "S_RUN" /\ t_cpu[c_curthread[c]] = c
  BY <1>1, Zenon DEF CurOk
<1>3. Victims(c) = {}
  BY <1>1 DEF Victims, NoMig, Range
<1> QED
  BY <1>1, <1>2, <1>3, NotQueued, Zenon

\* The current thread leaves for the run queue, the wait channel or the zombies.
LEMMA StepSwitch ==
  ASSUME SchedInv, NEW c \in CpuSet, NEW newstate \in {"S_READY", "S_SLEEP", "S_ZOMBIE"},
         thread_switch(c, newstate)
  PROVE  SchedInv'
<1> USE CpuFacts
<1>0. PICK t \in SThreads : t = c_curthread[c]
  BY Zenon
<1>1. /\ sc_pc[c] \in {"run", "yield"}
      /\ c_runqueue' = IF newstate = "S_READY"
                       THEN [c_runqueue EXCEPT ![c] = Append(@, t)] ELSE c_runqueue
      /\ wc_threads' = IF newstate = "S_SLEEP" THEN Append(wc_threads, t) ELSE wc_threads
      /\ c_zombies' = IF newstate = "S_ZOMBIE"
                      THEN [c_zombies EXCEPT ![c] = Append(@, t)] ELSE c_zombies
      /\ t_state' = [t_state EXCEPT ![t] = newstate]
      /\ c_isidle' = [c_isidle EXCEPT ![c] = TRUE]
      /\ sc_pc' = [sc_pc EXCEPT ![c] = "pick"]
      /\ UNCHANGED <<c_curthread, c_ipi_pending, t_cpu, sc_mig, sc_stop>>
  BY <1>0, Zenon DEF thread_switch, CurThread
<1>2. /\ t_state[t] = "S_RUN" /\ t_cpu[t] = c /\ c_isidle[c] = FALSE /\ sc_mig[c] = NoMig
      /\ Victims(c) = {} /\ t \notin Range(wc_threads)
      /\ \A d \in CpuSet : t \notin Queued(d) /\ t \notin Victims(d) /\ t \notin Dying(d)
  BY <1>0, <1>1, Running, Zenon
<1>3. /\ t_state'[t] = newstate /\ t_cpu'[t] = c
      /\ \A u \in SThreads \ {t} : t_state'[u] = t_state[u] /\ t_cpu'[u] = t_cpu[u]
      /\ c_isidle'[c] = TRUE /\ sc_pc'[c] = "pick" /\ sc_mig'[c] = NoMig
      /\ \A d \in CpuSet \ {c} : /\ c_runqueue'[d] = c_runqueue[d] /\ c_zombies'[d] = c_zombies[d]
                                 /\ c_isidle'[d] = c_isidle[d] /\ sc_pc'[d] = sc_pc[d]
  BY <1>1, <1>2 DEF SchedTyped
<1>4. /\ c_runqueue'[c] = IF newstate = "S_READY" THEN Append(c_runqueue[c], t) ELSE c_runqueue[c]
      /\ c_zombies'[c] = IF newstate = "S_ZOMBIE" THEN Append(c_zombies[c], t) ELSE c_zombies[c]
  BY <1>1, Zenon DEF SchedTyped
<1>5. /\ c_runqueue[c] \in Seq(SThreads) /\ c_zombies[c] \in Seq(SThreads)
      /\ wc_threads \in Seq(SThreads) /\ Queued(c) \subseteq SThreads
      /\ Dying(c) \subseteq SThreads /\ Range(wc_threads) \subseteq SThreads
  BY Lists, Zenon
<1>6. \A q \in Seq(SThreads) :
        /\ Append(q, t) \in Seq(SThreads) /\ Range(Append(q, t)) = Range(q) \cup {t}
        /\ Len(Append(q, t)) = Len(q) + 1
        /\ IsInjective(q) /\ t \notin Range(q) => IsInjective(Append(q, t))
  BY AddTail, Zenon
<1>7. SchedTyped'
  <2>1. c_runqueue' \in [CpuSet -> Seq(SThreads)] /\ c_zombies' \in [CpuSet -> Seq(SThreads)]
    BY <1>1, <1>5, <1>6, Zenon DEF SchedTyped
  <2>2. wc_threads' \in Seq(SThreads)
    BY <1>1, <1>5, <1>6, Zenon
  <2>3. sc_pc' \in [CpuSet -> SchedPcs] /\ t_state' \in [SThreads -> ThreadStates]
    BY <1>1, Zenon DEF SchedTyped, SchedPcs, ThreadStates
  <2>4. c_isidle' \in [CpuSet -> BOOLEAN]
    BY <1>1, Zenon DEF SchedTyped
  <2> QED
    BY <1>1, <2>1, <2>2, <2>3, <2>4, Zenon DEF SchedTyped
<1>8. /\ Queued(c)' = IF newstate = "S_READY" THEN Queued(c) \cup {t} ELSE Queued(c)
      /\ Dying(c)' = IF newstate = "S_ZOMBIE" THEN Dying(c) \cup {t} ELSE Dying(c)
      /\ Range(wc_threads') = IF newstate = "S_SLEEP" THEN Range(wc_threads) \cup {t} ELSE Range(wc_threads)
      /\ Victims(c)' = {}
  <2>1. Queued(c)' = Range(c_runqueue'[c]) /\ Queued(c) = Range(c_runqueue[c])
    BY Zenon DEF Queued
  <2>2. Dying(c)' = Range(c_zombies'[c]) /\ Dying(c) = Range(c_zombies[c])
    BY Zenon DEF Dying
  <2>3. Victims(c)' = Victims(c)
    BY <1>1, Zenon DEF Victims
  <2>4. Queued(c)' = IF newstate = "S_READY" THEN Queued(c) \cup {t} ELSE Queued(c)
    BY <1>4, <1>5, <1>6, <2>1, Zenon
  <2>5. Dying(c)' = IF newstate = "S_ZOMBIE" THEN Dying(c) \cup {t} ELSE Dying(c)
    BY <1>4, <1>5, <1>6, <2>2, Zenon
  <2>6. Range(wc_threads') = IF newstate = "S_SLEEP" THEN Range(wc_threads) \cup {t} ELSE Range(wc_threads)
    BY <1>1, <1>5, <1>6, Zenon
  <2> QED
    BY <1>2, <2>3, <2>4, <2>5, <2>6, Zenon
<1>9. WaitOk'
  <2>1. IsInjective(wc_threads')
    BY <1>1, <1>2, <1>5, <1>6, Zenon DEF WaitOk
  <2>2. ASSUME NEW u \in Range(wc_threads') PROVE t_state'[u] = "S_SLEEP"
    <3>1. CASE u = t
      BY <1>2, <1>3, <1>8, <2>2, <3>1, Zenon
    <3>2. CASE u # t
      <4>1. u \in Range(wc_threads) /\ u \in SThreads
        BY <1>5, <1>8, <2>2, <3>2, Zenon
      <4> QED
        BY <1>3, <3>2, <4>1, Zenon DEF WaitOk
    <3> QED
      BY <3>1, <3>2, Zenon
  <2> QED
    BY <2>1, <2>2, Zenon DEF WaitOk
<1>10. ListsOk(c)'
  <2>0. /\ IsInjective(c_runqueue[c]) /\ IsInjective(sc_mig[c].victims)
        /\ \A u \in Queued(c) : t_state[u] = "S_READY" /\ t_cpu[u] = c
        /\ \A u \in Dying(c) : t_state[u] = "S_ZOMBIE" /\ t_cpu[u] = c
        /\ t \notin Range(c_runqueue[c])
    BY <1>2 DEF ListsOk, Queued
  <2> HIDE CpuFacts
  <2>1. IsInjective(c_runqueue'[c]) /\ IsInjective(sc_mig'[c].victims)
    <3>1. IsInjective(c_runqueue'[c])
      BY <1>4, <1>5, <1>6, <2>0, Zenon
    <3> QED
      BY <1>1, <2>0, <3>1, Zenon
  <2>2. ASSUME NEW u \in Queued(c)' PROVE t_state'[u] = "S_READY" /\ t_cpu'[u] = c
    <3>1. CASE u = t
      BY <1>2, <1>3, <1>8, <2>2, <3>1, Zenon
    <3>2. CASE u # t
      <4>1. u \in Queued(c) /\ u \in SThreads
        BY <1>5, <1>8, <2>2, <3>2
      <4> QED
        <5>1. t_state'[u] = t_state[u] /\ t_cpu'[u] = t_cpu[u]
          BY <1>3, <3>2, <4>1, Zenon
        <5> QED
          BY <2>0, <4>1, <5>1, Zenon
    <3> QED
      BY <3>1, <3>2, Zenon
  <2>3. ASSUME NEW u \in Dying(c)' PROVE t_state'[u] = "S_ZOMBIE" /\ t_cpu'[u] = c
    <3>1. CASE u = t
      BY <1>2, <1>3, <1>8, <2>3, <3>1, Zenon
    <3>2. CASE u # t
      <4>1. u \in Dying(c) /\ u \in SThreads
        BY <1>5, <1>8, <2>3, <3>2, Zenon
      <4> QED
        <5>1. t_state'[u] = t_state[u] /\ t_cpu'[u] = t_cpu[u]
          BY <1>3, <3>2, <4>1, Zenon
        <5> QED
          BY <2>0, <4>1, <5>1, Zenon
    <3> QED
      BY <3>1, <3>2, Zenon
  <2> QED
    BY <1>8, <2>1, <2>2, <2>3, Zenon DEF ListsOk
<1>11. CurOk(c)' /\ StepOk(c)'
  BY <1>0, <1>1, <1>3, Zenon DEF CurOk, StepOk, IdlePcs, MigPcs
<1>12. ASSUME NEW d \in CpuSet, d # c PROVE ListsOk(d)' /\ CurOk(d)' /\ StepOk(d)'
  <2>1. \A u \in SThreads : t_cpu[u] = d /\ t_state[u] # "none" => t_cpu'[u] = d /\ t_state'[u] = t_state[u]
    BY <1>2, <1>3, <1>12, Zenon
  <2>2. /\ c_curthread'[d] = c_curthread[d] /\ c_isidle'[d] = c_isidle[d]
        /\ c_runqueue'[d] = c_runqueue[d] /\ c_zombies'[d] = c_zombies[d]
        /\ sc_pc'[d] = sc_pc[d] /\ sc_mig'[d] = sc_mig[d] /\ c_ipi_pending'[d] = c_ipi_pending[d]
    BY <1>1, <1>3, <1>12, Zenon
  <2> QED
    BY <2>1, <2>2, OtherCpu, Zenon
<1>13. ASSUME sc_stop' # "panic", NEW u \in SThreads PROVE Located(u)'
  <2>1. CASE u = t
    BY <1>3, <1>8, <2>1 DEF Located
  <2>2. CASE u # t
    <3>1. Located(u) /\ t_cpu[u] \in CpuSet
      BY <1>1, <1>13, Zenon DEF SchedInv, SchedTyped
    <3>2. \A d \in CpuSet : Queued(d) \subseteq Queued(d)' /\ Victims(d)' = Victims(d) /\ Dying(d) \subseteq Dying(d)'
      <4> SUFFICES ASSUME NEW d \in CpuSet
                   PROVE  Queued(d) \subseteq Queued(d)' /\ Victims(d)' = Victims(d) /\ Dying(d) \subseteq Dying(d)'
        BY Zenon
      <4>1. CASE d = c
        BY <1>2, <1>8, <4>1, Zenon
      <4>2. CASE d # c
        BY <1>1, <1>3, <4>2, ZenonT(30) DEF Queued, Victims, Dying
      <4> QED
        BY <4>1, <4>2, Zenon
    <3>3. u \in Range(wc_threads) => u \in Range(wc_threads')
      BY <1>8, Zenon
    <3>4. c_curthread[t_cpu[u]] = u => t_cpu[u] # c
      BY <1>0, <2>2, Zenon
    <3> QED
      BY <1>1, <1>3, <2>2, <3>1, <3>2, <3>3, <3>4, OtherThread, ZenonT(30)
  <2> QED
    BY <2>1, <2>2, Zenon
<1> QED
  BY <1>7, <1>9, <1>10, <1>11, <1>12, <1>13, Zenon DEF SchedInv

\* The processor finds nothing and idles.
LEMMA StepPickNothing ==
  ASSUME SchedInv, NEW c \in CpuSet, PickNext(c), c_runqueue[c] = <<>>
  PROVE  SchedInv'
<1> USE CpuFacts
<1>1. /\ sc_pc[c] = "pick" /\ sc_pc' = [sc_pc EXCEPT ![c] = "idle"]
      /\ UNCHANGED <<c_curthread, c_isidle, c_runqueue, c_zombies, c_ipi_pending, t_state, t_cpu,
                     wc_threads, sc_mig, sc_stop>>
  BY Zenon DEF PickNext
<1>2. SchedTyped'
  BY <1>1, Zenon DEF SchedTyped, SchedPcs
<1>3. sc_pc'[c] = "idle" /\ \A d \in CpuSet \ {c} : sc_pc'[d] = sc_pc[d] /\ sc_mig'[d] = sc_mig[d]
  BY <1>1, Zenon DEF SchedTyped
<1>4. StepOk(c)'
  BY <1>1, <1>3, Zenon DEF StepOk, MigPcs, IdlePcs
<1> QED
  BY <1>1, <1>2, <1>3, <1>4, QuietStep, Zenon

\* The head of the run queue becomes the current thread.
LEMMA StepPick ==
  ASSUME SchedInv, NEW c \in CpuSet, PickNext(c), c_runqueue[c] # <<>>
  PROVE  SchedInv'
<1> USE CpuFacts
<1>1. /\ sc_pc[c] = "pick" /\ c_isidle[c] = TRUE /\ sc_mig[c] = NoMig
      /\ c_runqueue' = [c_runqueue EXCEPT ![c] = Tail(@)]
      /\ c_curthread' = [c_curthread EXCEPT ![c] = Head(c_runqueue[c])]
      /\ c_isidle' = [c_isidle EXCEPT ![c] = FALSE]
      /\ sc_pc' = [sc_pc EXCEPT ![c] = "resume"]
      /\ UNCHANGED <<c_zombies, c_ipi_pending, t_state, t_cpu, wc_threads, sc_mig, sc_stop>>
  BY Zenon DEF PickNext, StepOk, IdlePcs, MigPcs
<1>2. /\ c_runqueue[c] \in Seq(SThreads) /\ IsInjective(c_runqueue[c])
  BY Lists, Zenon DEF ListsOk
<1>3. /\ Head(c_runqueue[c]) \in SThreads /\ Head(c_runqueue[c]) \in Range(c_runqueue[c])
      /\ Tail(c_runqueue[c]) \in Seq(SThreads)
      /\ Range(Tail(c_runqueue[c])) = Range(c_runqueue[c]) \ {Head(c_runqueue[c])}
      /\ Len(Tail(c_runqueue[c])) = Len(c_runqueue[c]) - 1
      /\ IsInjective(Tail(c_runqueue[c]))
  BY <1>2, RemHead, Zenon
<1>4. PICK t \in SThreads : t = Head(c_runqueue[c])
  BY <1>3, Zenon
<1>5. /\ c_runqueue'[c] = Tail(c_runqueue[c]) /\ c_curthread'[c] = t /\ c_isidle'[c] = FALSE
      /\ sc_pc'[c] = "resume" /\ sc_mig'[c] = NoMig
      /\ \A d \in CpuSet \ {c} : /\ c_runqueue'[d] = c_runqueue[d] /\ c_curthread'[d] = c_curthread[d]
                                 /\ c_isidle'[d] = c_isidle[d] /\ sc_pc'[d] = sc_pc[d]
  BY <1>1, <1>4, Zenon DEF SchedTyped
<1>6. SchedTyped'
  <2>1. c_runqueue' \in [CpuSet -> Seq(SThreads)] /\ c_curthread' \in [CpuSet -> SThreads]
    BY <1>1, <1>3, Zenon DEF SchedTyped
  <2>2. sc_pc' \in [CpuSet -> SchedPcs]
    BY <1>1, Zenon DEF SchedTyped, SchedPcs
  <2>3. c_isidle' \in [CpuSet -> BOOLEAN]
    BY <1>1, Zenon DEF SchedTyped
  <2> QED
    BY <1>1, <2>1, <2>2, <2>3, Zenon DEF SchedTyped
<1>7. /\ Queued(c)' = Queued(c) \ {t} /\ t \in Queued(c) /\ Victims(c)' = {} /\ Victims(c) = {}
      /\ Dying(c)' = Dying(c)
  <2>1. Queued(c)' = Range(c_runqueue'[c]) /\ Queued(c) = Range(c_runqueue[c])
    BY Zenon DEF Queued
  <2>2. Queued(c)' = Queued(c) \ {t} /\ t \in Queued(c)
    BY <1>3, <1>4, <1>5, <2>1, Zenon
  <2>3. Victims(c) = {} /\ Victims(c)' = {}
    BY <1>1 DEF Victims, NoMig, Range
  <2>4. Dying(c)' = Dying(c)
    BY <1>1, Zenon DEF Dying
  <2> QED
    BY <2>2, <2>3, <2>4, Zenon
<1>8. t_state[t] = "S_READY" /\ t_cpu[t] = c
  BY <1>7, Zenon DEF ListsOk
<1>9. WaitOk'
  BY <1>1, Zenon DEF WaitOk
<1>10. ListsOk(c)'
  <2>1. IsInjective(c_runqueue'[c]) /\ IsInjective(sc_mig'[c].victims)
    BY <1>1, <1>3, <1>5, Zenon DEF ListsOk
  <2>2. \A u \in Queued(c) : t_state[u] = "S_READY" /\ t_cpu[u] = c
    BY Zenon DEF ListsOk
  <2>3. \A u \in Dying(c) : t_state[u] = "S_ZOMBIE" /\ t_cpu[u] = c
    BY Zenon DEF ListsOk
  <2>4. \A u \in Queued(c)' \cup Victims(c)' : t_state'[u] = "S_READY" /\ t_cpu'[u] = c
    BY <1>1, <1>7, <2>2, Zenon
  <2>5. \A u \in Dying(c)' : t_state'[u] = "S_ZOMBIE" /\ t_cpu'[u] = c
    BY <1>1, <1>7, <2>3, Zenon
  <2>6. Queued(c)' \cap Victims(c)' = {}
    BY <1>7, Zenon
  <2> QED
    BY <2>1, <2>4, <2>5, <2>6, Zenon DEF ListsOk
<1>11. CurOk(c)' /\ StepOk(c)'
  BY <1>1, <1>5, <1>7, <1>8, Zenon DEF CurOk, StepOk, IdlePcs, MigPcs
<1>12. ASSUME NEW d \in CpuSet, d # c PROVE ListsOk(d)' /\ CurOk(d)' /\ StepOk(d)'
  <2>1. /\ c_curthread'[d] = c_curthread[d] /\ c_isidle'[d] = c_isidle[d]
        /\ c_runqueue'[d] = c_runqueue[d] /\ c_zombies'[d] = c_zombies[d]
        /\ sc_pc'[d] = sc_pc[d] /\ sc_mig'[d] = sc_mig[d] /\ c_ipi_pending'[d] = c_ipi_pending[d]
    BY <1>1, <1>5, <1>12, Zenon
  <2> QED
    BY <1>1, <2>1, OtherCpu, Zenon
<1>13. ASSUME sc_stop' # "panic", NEW u \in SThreads PROVE Located(u)'
  <2>1. Located(u) /\ t_cpu[u] \in CpuSet
    BY <1>1, <1>13, Zenon DEF SchedInv, SchedTyped
  <2>2. CASE t_cpu[u] = c
    <3>1. t_cpu'[u] = c /\ t_state'[u] = t_state[u] /\ wc_threads' = wc_threads
      BY <1>1, <2>2, Zenon
    <3>2. /\ t_state[u] # "S_RUN" /\ (t_state[u] = "S_READY" => u \in Queued(c))
          /\ (t_state[u] = "S_SLEEP" => u \in Range(wc_threads))
          /\ (t_state[u] = "S_ZOMBIE" => u \in Dying(c))
      BY <1>1, <1>7, <2>1, <2>2, Zenon DEF Located
    <3> QED
      BY <1>5, <1>7, <3>1, <3>2, Zenon DEF Located
  <2>3. CASE t_cpu[u] # c
    <3>1. PICK d \in CpuSet \ {c} : d = t_cpu[u]
      BY <2>1, <2>3, Zenon
    <3>2. Queued(d)' = Queued(d) /\ Victims(d)' = Victims(d) /\ Dying(d)' = Dying(d)
      BY <1>1, <1>5, Zenon DEF Queued, Victims, Dying
    <3>3. c_curthread'[d] = c_curthread[d] /\ c_isidle'[d] = c_isidle[d] /\ sc_pc'[d] = sc_pc[d]
      BY <1>5, Zenon
    <3> QED
      BY <1>1, <2>1, <3>1, <3>2, <3>3, Zenon DEF Located
  <2> QED
    BY <2>2, <2>3, Zenon
<1> QED
  BY <1>6, <1>9, <1>10, <1>11, <1>12, <1>13, Zenon DEF SchedInv

\* The thread switched to runs, and the zombies of the processor are destroyed.
LEMMA StepStartup ==
  ASSUME SchedInv, NEW c \in CpuSet, thread_startup(c)
  PROVE  SchedInv'
<1> USE CpuFacts
<1>0. PICK t \in SThreads : t = c_curthread[c]
  BY Zenon
<1>1. /\ sc_pc[c] = "resume" /\ sc_mig[c] = NoMig /\ c_isidle[c] = FALSE
      /\ t_state[t] = "S_READY" /\ t_cpu[t] = c /\ t \notin Queued(c)
  BY <1>0, Zenon DEF thread_startup, StepOk, CurOk, MigPcs
<1>2. /\ t_state' = [u \in SThreads |-> IF u \in Dying(c) THEN "none" ELSE [t_state EXCEPT ![t] = "S_RUN"][u]]
      /\ t_cpu' = [u \in SThreads |-> IF u \in Dying(c) THEN 0 ELSE t_cpu[u]]
      /\ c_zombies' = [c_zombies EXCEPT ![c] = <<>>]
      /\ sc_pc' = [sc_pc EXCEPT ![c] = "run"]
      /\ UNCHANGED <<c_curthread, c_isidle, c_runqueue, c_ipi_pending, wc_threads, sc_mig, sc_stop>>
  BY <1>0 DEF thread_startup, exorcise, CurThread, Dying
<1>3. /\ Queued(c) \subseteq SThreads /\ Dying(c) \subseteq SThreads /\ Range(wc_threads) \subseteq SThreads
      /\ t \notin Dying(c)
      /\ \A u \in Queued(c) : t_state[u] = "S_READY" /\ t_cpu[u] = c /\ u # t /\ u \notin Dying(c)
      /\ \A u \in Dying(c) : t_state[u] = "S_ZOMBIE" /\ t_cpu[u] = c
  BY <1>1, Lists DEF ListsOk
<1>4. /\ t_state'[t] = "S_RUN" /\ t_cpu'[t] = c
      /\ \A u \in Dying(c) : t_state'[u] = "none"
      /\ \A u \in SThreads : u # t /\ u \notin Dying(c) => t_state'[u] = t_state[u] /\ t_cpu'[u] = t_cpu[u]
      /\ c_zombies'[c] = <<>> /\ sc_pc'[c] = "run"
      /\ \A d \in CpuSet \ {c} : c_zombies'[d] = c_zombies[d] /\ sc_pc'[d] = sc_pc[d]
  BY <1>1, <1>2, <1>3 DEF SchedTyped
<1>5. SchedTyped'
  <2>1. 0 \in CpuSet
    BY SchedAssumption DEF CpuSet
  <2>2. t_cpu' \in [SThreads -> CpuSet]
    BY <1>2, <2>1, Zenon DEF SchedTyped
  <2>3. t_state' \in [SThreads -> ThreadStates]
    BY <1>2, Zenon DEF SchedTyped, ThreadStates
  <2>4. sc_pc' \in [CpuSet -> SchedPcs]
    BY <1>2, Zenon DEF SchedTyped, SchedPcs
  <2>5. c_zombies' \in [CpuSet -> Seq(SThreads)]
    BY <1>2 DEF SchedTyped
  <2> QED
    BY <1>2, <2>2, <2>3, <2>4, <2>5, Zenon DEF SchedTyped
<1>6. WaitOk'
  <2>1. \A u \in Range(wc_threads) : t_state[u] = "S_SLEEP" /\ u # t /\ u \notin Dying(c) /\ u \in SThreads
    BY <1>1, <1>3, Zenon DEF WaitOk
  <2> QED
    <3>1. \A u \in Range(wc_threads) : t_state'[u] = "S_SLEEP"
      BY <1>4, <2>1
    <3> QED
      BY <1>2, <3>1, Zenon DEF WaitOk
<1>7. Queued(c)' = Queued(c) /\ Victims(c)' = {} /\ Victims(c) = {} /\ Dying(c)' = {}
  <2>1. Queued(c)' = Queued(c)
    BY <1>2, Zenon DEF Queued
  <2>2. Victims(c) = {} /\ Victims(c)' = {}
    BY <1>1, <1>2 DEF Victims, NoMig, Range
  <2>3. Dying(c)' = {}
    BY <1>4 DEF Dying, Range
  <2> QED
    BY <2>1, <2>2, <2>3, Zenon
<1>8. ListsOk(c)'
  <2>1. IsInjective(c_runqueue'[c]) /\ IsInjective(sc_mig'[c].victims)
    BY <1>2, Zenon DEF ListsOk
  <2>2. \A u \in Queued(c)' \cup Victims(c)' : t_state'[u] = "S_READY" /\ t_cpu'[u] = c
    <3> HIDE CpuFacts
    <3> TAKE u \in Queued(c)' \cup Victims(c)'
    <3>1. u \in Queued(c)
      BY <1>7, Zenon
    <3>2. u \in SThreads /\ t_state[u] = "S_READY" /\ t_cpu[u] = c /\ u # t /\ u \notin Dying(c)
      BY <1>3, <3>1, ZenonT(30)
    <3> QED
      BY <1>4, <3>2, Zenon
  <2> QED
    BY <1>7, <2>1, <2>2, Zenon DEF ListsOk
<1>9. CurOk(c)' /\ StepOk(c)'
  BY <1>0, <1>1, <1>2, <1>4 DEF CurOk, StepOk, IdlePcs, MigPcs
<1>10. ASSUME NEW d \in CpuSet, d # c PROVE ListsOk(d)' /\ CurOk(d)' /\ StepOk(d)'
  <2>1. \A u \in SThreads : t_cpu[u] = d /\ t_state[u] # "none" => t_cpu'[u] = d /\ t_state'[u] = t_state[u]
    BY <1>1, <1>3, <1>4, <1>10, Zenon
  <2>2. /\ c_curthread'[d] = c_curthread[d] /\ c_isidle'[d] = c_isidle[d]
        /\ c_runqueue'[d] = c_runqueue[d] /\ c_zombies'[d] = c_zombies[d]
        /\ sc_pc'[d] = sc_pc[d] /\ sc_mig'[d] = sc_mig[d] /\ c_ipi_pending'[d] = c_ipi_pending[d]
    BY <1>2, <1>4, <1>10, Zenon
  <2> QED
    BY <2>1, <2>2, OtherCpu, Zenon
<1>11. ASSUME sc_stop' # "panic", NEW u \in SThreads PROVE Located(u)'
  <2>1. CASE u = t
    BY <1>0, <1>1, <1>2, <1>4, <2>1, Zenon DEF Located
  <2>2. CASE u \in Dying(c)
    BY <1>4, <2>2, Zenon DEF Located
  <2>3. CASE u # t /\ u \notin Dying(c)
    <3>1. Located(u)
      BY <1>2, <1>11, Zenon DEF SchedInv
    <3>2. PICK d \in CpuSet : d = t_cpu[u]
      BY Zenon DEF SchedTyped
    <3>3. Queued(d)' = Queued(d) /\ Victims(d)' = Victims(d) /\ (u \in Dying(d) => u \in Dying(d)')
      BY <1>2, <1>4, <2>3, Zenon DEF Queued, Victims, Dying
    <3>4. c_curthread[d] = u => sc_pc'[d] = sc_pc[d]
      BY <1>0, <1>4, <2>3, Zenon
    <3>5. t_cpu'[u] = d /\ t_state'[u] = t_state[u]
      BY <1>4, <2>3, <3>2, Zenon
    <3> QED
      BY <1>2, <3>1, <3>2, <3>3, <3>4, <3>5, Zenon DEF Located
  <2> QED
    BY <2>1, <2>2, <2>3, Zenon
<1> QED
  BY <1>5, <1>6, <1>8, <1>9, <1>10, <1>11, Zenon DEF SchedInv

\* thread_panic drops the run queue of its processor.
LEMMA StepPanic ==
  ASSUME SchedInv, NEW c \in CpuSet, thread_panic(c)
  PROVE  SchedInv'
<1> USE CpuFacts
<1>1. /\ sc_pc[c] = "run" /\ ipi_broadcast(c, "IPI_PANIC") /\ sc_stop' = "panic"
      /\ sc_pc' = [sc_pc EXCEPT ![c] = "halted"]
      /\ c_runqueue' = [c_runqueue EXCEPT ![c] = <<>>]
      /\ UNCHANGED <<c_curthread, c_isidle, c_zombies, t_state, t_cpu, wc_threads, sc_mig>>
  BY Zenon DEF thread_panic
<1>2. /\ c_ipi_pending' \in [CpuSet -> SUBSET {"line", "IPI_PANIC", "IPI_OFFLINE"}]
      /\ \A d \in CpuSet : "line" \in c_ipi_pending[d] => "line" \in c_ipi_pending'[d]
  BY <1>1, Broadcast, Zenon
<1>3. SchedTyped'
  <2>1. sc_pc' \in [CpuSet -> SchedPcs] /\ c_runqueue' \in [CpuSet -> Seq(SThreads)]
    BY <1>1 DEF SchedTyped, SchedPcs
  <2> QED
    BY <1>1, <1>2, <2>1, Zenon DEF SchedTyped
<1>4. /\ sc_pc'[c] = "halted" /\ c_runqueue'[c] = <<>>
      /\ \A d \in CpuSet \ {c} : sc_pc'[d] = sc_pc[d] /\ c_runqueue'[d] = c_runqueue[d]
  BY <1>1, Zenon DEF SchedTyped
<1>5. WaitOk'
  BY <1>1, Zenon DEF WaitOk
<1>6. ListsOk(c)'
  <2>1. Queued(c)' = {} /\ Victims(c)' = Victims(c) /\ Dying(c)' = Dying(c)
    BY <1>1, <1>4 DEF Queued, Victims, Dying, Range
  <2>2. IsInjective(c_runqueue'[c])
    BY <1>4 DEF IsInjective
  <2>3. /\ IsInjective(sc_mig[c].victims)
        /\ \A t \in Victims(c) : t_state[t] = "S_READY" /\ t_cpu[t] = c
        /\ \A t \in Dying(c) : t_state[t] = "S_ZOMBIE" /\ t_cpu[t] = c
    BY Zenon DEF ListsOk
  <2>4. /\ \A t \in Queued(c)' \cup Victims(c)' : t_state'[t] = "S_READY" /\ t_cpu'[t] = c
        /\ \A t \in Dying(c)' : t_state'[t] = "S_ZOMBIE" /\ t_cpu'[t] = c
        /\ Queued(c)' \cap Victims(c)' = {} /\ IsInjective(sc_mig'[c].victims)
    BY <1>1, <2>1, <2>3, Zenon
  <2> QED
    BY <2>2, <2>4, Zenon DEF ListsOk
<1>7. CurOk(c)' /\ StepOk(c)'
  BY <1>1, <1>4, Zenon DEF CurOk, StepOk, IdlePcs, MigPcs
<1>8. ASSUME NEW d \in CpuSet, d # c PROVE ListsOk(d)' /\ CurOk(d)' /\ StepOk(d)'
  <2>1. /\ c_curthread'[d] = c_curthread[d] /\ c_isidle'[d] = c_isidle[d]
        /\ c_runqueue'[d] = c_runqueue[d] /\ c_zombies'[d] = c_zombies[d]
        /\ sc_pc'[d] = sc_pc[d] /\ sc_mig'[d] = sc_mig[d]
    BY <1>1, <1>4, <1>8, Zenon
  <2> QED
    BY <1>1, <1>2, <2>1, OtherCpu, Zenon
<1> QED
  BY <1>1, <1>3, <1>5, <1>6, <1>7, <1>8, Zenon DEF SchedInv

\* The share of a processor is a natural number.
LEMMA ShareNat ==
  ASSUME NEW total \in Nat
  PROVE  (total + NCPU - 1) \div NCPU \in Nat
<1>1. NCPU \in Nat \ {0}
  BY SchedAssumption, Zenon
<1>2. ASSUME NEW n \in Nat \ {0}, NEW a \in Nat PROVE (a + n - 1) \div n \in Nat
  OBVIOUS
<1> QED
  BY <1>1, <1>2, Zenon

\* The leftover victims return to the run queue.
LEMMA StepPutBack ==
  ASSUME SchedInv, NEW c \in CpuSet, PutBack(c)
  PROVE  SchedInv'
<1> USE CpuFacts
<1>1. /\ sc_pc[c] = "putback"
      /\ c_runqueue' = [c_runqueue EXCEPT ![c] = @ \o sc_mig[c].victims]
      /\ sc_mig' = [sc_mig EXCEPT ![c] = NoMig]
      /\ sc_pc' = [sc_pc EXCEPT ![c] = AfterMigration(sc_mig[c].back)]
      /\ UNCHANGED <<c_curthread, c_isidle, c_zombies, c_ipi_pending, t_state, t_cpu, wc_threads,
                     sc_stop>>
  BY Zenon DEF PutBack
<1>2. /\ c_runqueue[c] \in Seq(SThreads) /\ sc_mig[c].victims \in Seq(SThreads)
  BY Lists, Zenon
<1>3. /\ c_runqueue[c] \o sc_mig[c].victims \in Seq(SThreads)
      /\ Range(c_runqueue[c] \o sc_mig[c].victims) = Range(c_runqueue[c]) \cup Range(sc_mig[c].victims)
      /\ Len(c_runqueue[c] \o sc_mig[c].victims) = Len(c_runqueue[c]) + Len(sc_mig[c].victims)
      /\ IsInjective(c_runqueue[c]) /\ IsInjective(sc_mig[c].victims)
           /\ Range(c_runqueue[c]) \cap Range(sc_mig[c].victims) = {}
         => IsInjective(c_runqueue[c] \o sc_mig[c].victims)
  BY <1>2, Join
<1>4. NoMig \in Migrations /\ NoMig.victims = <<>>
  <2>1. 0 \in 0..NCPU /\ <<>> \in Seq(SThreads)
    BY SchedAssumption
  <2> QED
    BY <2>1, Zenon DEF NoMig, Migrations
<1>5. /\ c_runqueue'[c] = c_runqueue[c] \o sc_mig[c].victims /\ sc_mig'[c] = NoMig
      /\ sc_pc'[c] = AfterMigration(sc_mig[c].back)
      /\ \A d \in CpuSet \ {c} : /\ c_runqueue'[d] = c_runqueue[d] /\ sc_mig'[d] = sc_mig[d]
                                 /\ sc_pc'[d] = sc_pc[d]
  BY <1>1, Zenon DEF SchedTyped
<1>6. SchedTyped'
  <2>1. c_runqueue' \in [CpuSet -> Seq(SThreads)] /\ sc_mig' \in [CpuSet -> Migrations]
    BY <1>1, <1>3, <1>4, Zenon DEF SchedTyped
  <2>2. sc_pc' \in [CpuSet -> SchedPcs]
    BY <1>1, Zenon DEF SchedTyped, SchedPcs, AfterMigration
  <2> QED
    BY <1>1, <2>1, <2>2, Zenon DEF SchedTyped
<1>7. Queued(c)' = Queued(c) \cup Victims(c) /\ Victims(c)' = {} /\ Dying(c)' = Dying(c)
  <2>1. Queued(c)' = Queued(c) \cup Victims(c)
    BY <1>3, <1>5, Zenon DEF Queued, Victims
  <2>2. Victims(c)' = {}
    BY <1>4, <1>5 DEF Victims, Range
  <2>3. Dying(c)' = Dying(c)
    BY <1>1, Zenon DEF Dying
  <2> QED
    BY <2>1, <2>2, <2>3, Zenon
<1>8. WaitOk'
  BY <1>1, Zenon DEF WaitOk
<1>9. ListsOk(c)'
  <2>0. /\ IsInjective(c_runqueue[c]) /\ IsInjective(sc_mig[c].victims)
        /\ Range(c_runqueue[c]) \cap Range(sc_mig[c].victims) = {}
        /\ \A u \in Queued(c) \cup Victims(c) : t_state[u] = "S_READY" /\ t_cpu[u] = c
        /\ \A u \in Dying(c) : t_state[u] = "S_ZOMBIE" /\ t_cpu[u] = c
    BY Zenon DEF ListsOk, Queued, Victims
  <2>1. IsInjective(c_runqueue'[c])
    BY <1>3, <1>5, <2>0, ZenonT(30)
  <2>2. IsInjective(sc_mig'[c].victims)
    BY <1>4, <1>5 DEF IsInjective
  <2>3. /\ \A u \in Queued(c)' \cup Victims(c)' : t_state'[u] = "S_READY" /\ t_cpu'[u] = c
        /\ \A u \in Dying(c)' : t_state'[u] = "S_ZOMBIE" /\ t_cpu'[u] = c
        /\ Queued(c)' \cap Victims(c)' = {}
    <3> HIDE CpuFacts
    <3> QED
      BY <1>1, <1>7, <2>0, Zenon
  <2> QED
    BY <2>1, <2>2, <2>3, Zenon DEF ListsOk
<1>10. sc_mig[c].back \in {"run", "idle"}
  BY MigFacts, ZenonT(30)
<1>11. CurOk(c)'
  <2>1. sc_pc'[c] # "resume" /\ CurOk(c)
    BY <1>5, <1>10, Zenon DEF AfterMigration
  <2> HIDE CpuFacts
  <2> QED
    BY <1>1, <2>1, SameThread, Zenon
<1>12. StepOk(c)'
  BY <1>1, <1>5, <1>10 DEF StepOk, IdlePcs, MigPcs, AfterMigration
<1>13. ASSUME NEW d \in CpuSet, d # c PROVE ListsOk(d)' /\ CurOk(d)' /\ StepOk(d)'
  <2>1. /\ c_curthread'[d] = c_curthread[d] /\ c_isidle'[d] = c_isidle[d]
        /\ c_runqueue'[d] = c_runqueue[d] /\ c_zombies'[d] = c_zombies[d]
        /\ sc_pc'[d] = sc_pc[d] /\ sc_mig'[d] = sc_mig[d] /\ c_ipi_pending'[d] = c_ipi_pending[d]
    BY <1>1, <1>5, <1>13, Zenon
  <2> QED
    BY <1>1, <2>1, OtherCpu, Zenon
<1>14. ASSUME sc_stop' # "panic", NEW u \in SThreads PROVE Located(u)'
  <2>1. Located(u)
    BY <1>1, <1>14, Zenon DEF SchedInv
  <2>2. PICK d \in CpuSet : d = t_cpu[u]
    BY Zenon DEF SchedTyped
  <2>3. u \in Queued(d) \cup Victims(d) => u \in Queued(d)' \cup Victims(d)'
    <3>1. CASE d = c
      BY <1>7, <3>1, Zenon
    <3>2. CASE d # c
      BY <1>1, <1>5, <3>2, Zenon DEF Queued, Victims
    <3> QED
      BY <3>1, <3>2, Zenon
  <2>4. Dying(d)' = Dying(d) /\ (sc_pc[d] = "resume" => sc_pc'[d] = "resume")
    BY <1>1, <1>5, Zenon DEF Dying
  <2> QED
    BY <1>1, <2>1, <2>2, <2>3, <2>4, ZenonT(30) DEF Located
<1> QED
  BY <1>6, <1>8, <1>9, <1>11, <1>12, <1>13, <1>14, Zenon DEF SchedInv

\* The processor has less than its share: nothing migrates.
LEMMA StepKeepAll ==
  ASSUME SchedInv, NEW c \in CpuSet, sc_pc[c] = "count",
         sc_pc' = [sc_pc EXCEPT ![c] = AfterMigration(sc_mig[c].back)],
         sc_mig' = [sc_mig EXCEPT ![c] = NoMig],
         UNCHANGED <<c_curthread, c_isidle, c_runqueue, c_zombies, c_ipi_pending, t_state, t_cpu,
                     wc_threads, sc_stop>>
  PROVE  SchedInv'
<1> USE CpuFacts
<1>1. NoMig \in Migrations /\ NoMig.victims = <<>>
  <2>1. 0 \in 0..NCPU /\ <<>> \in Seq(SThreads)
    BY SchedAssumption
  <2> QED
    BY <2>1, Zenon DEF NoMig, Migrations
<1>2. SchedTyped'
  <2>1. sc_mig' \in [CpuSet -> Migrations]
    BY <1>1, Zenon DEF SchedTyped
  <2>2. sc_pc' \in [CpuSet -> SchedPcs]
    BY Zenon DEF SchedTyped, SchedPcs, AfterMigration
  <2> QED
    BY <2>1, <2>2, Zenon DEF SchedTyped
<1>3. /\ sc_pc'[c] = AfterMigration(sc_mig[c].back) /\ sc_mig'[c] = NoMig
      /\ \A d \in CpuSet \ {c} : sc_pc'[d] = sc_pc[d] /\ sc_mig'[d] = sc_mig[d]
  BY Zenon DEF SchedTyped
<1>4. sc_mig[c].victims = <<>> /\ sc_mig[c].back \in {"run", "idle"}
  BY MigFacts, Zenon DEF StepOk
<1>5. StepOk(c)' /\ sc_pc'[c] # "resume"
  BY <1>3, <1>4 DEF StepOk, MigPcs, IdlePcs, AfterMigration
<1>6. sc_mig'[c].victims = sc_mig[c].victims /\ sc_pc[c] # "resume"
  BY <1>1, <1>3, <1>4, Zenon
<1> QED
  BY <1>2, <1>3, <1>5, <1>6, QuietStep, Zenon

\* The record when the victims b have been taken from the own queue.
Backs == {"run", "idle"}
Taken(share, send, back, b) ==
  [NoMig EXCEPT !.share = share, !.send = send, !.back = back, !.victims = b]

\* The record is one of a migration under way.
TakenOk(share, send, back, b) ==
  LET r == Taken(share, send, back, b) IN
  r \in Migrations /\ r.send = send /\ r.victims = b /\ r.back = back

\* It is, for every outcome of the counting.
LEMMA TakenRecord ==
  ASSUME NEW share \in Nat, NEW send \in Nat, NEW back \in Backs, NEW b \in Seq(SThreads)
  PROVE  TakenOk(share, send, back, b)
<1>1. 0 \in 0..NCPU
  BY SchedAssumption
<1> QED
  BY <1>1, Zenon DEF TakenOk, Taken, NoMig, Migrations, Backs

\* The victims are cut off the tail of the own queue.  The queue has not become
\* shorter since it was counted, so there are as many as are to be sent.
LEMMA StepTake ==
  ASSUME SchedInv, NEW c \in CpuSet, TakeVictims(c),
         ~(sc_mig[c].my < (sc_mig[c].total + NCPU - 1) \div NCPU)
  PROVE  SchedInv'
<1> USE CpuFacts
<1>0. PICK share \in Nat : share = (sc_mig[c].total + NCPU - 1) \div NCPU
  BY MigFacts, ShareNat, Zenon
<1>1. PICK q \in Seq(SThreads) : q = c_runqueue[c]
  BY Lists, Zenon
<1>2. PICK send \in Nat : send = sc_mig[c].my - share /\ send <= Len(q)
  <2>1. sc_pc[c] = "count"
    BY Zenon DEF TakeVictims
  <2>2. sc_mig[c].my \in Nat /\ Len(q) \in Nat /\ sc_mig[c].my <= Len(q) /\ ~(sc_mig[c].my < share)
    BY <1>0, <1>1, <2>1, MigFacts, Zenon DEF StepOk
  <2> QED
    BY <2>2
<1>3. PICK k \in 0..Len(q) : k = Len(q) - send
  BY <1>2
<1>4. PICK a : a = SubSeq(q, 1, k)
  BY Zenon
<1>5. PICK b : b = SubSeq(q, k + 1, Len(q))
  BY Zenon
<1>6. PICK back \in Backs : back = sc_mig[c].back
  BY MigFacts, Zenon DEF Backs
<1>7. PICK r : r = Taken(share, send, back, b)
  BY Zenon
<1>8. /\ sc_pc[c] = "count" /\ c_runqueue' = [c_runqueue EXCEPT ![c] = a]
      /\ sc_mig' = [sc_mig EXCEPT ![c] = r] /\ sc_pc' = [sc_pc EXCEPT ![c] = "send"]
      /\ UNCHANGED <<c_curthread, c_isidle, c_zombies, c_ipi_pending, t_state, t_cpu, wc_threads,
                     sc_stop>>
  BY <1>0, <1>1, <1>2, <1>3, <1>4, <1>5, <1>6, <1>7, Zenon DEF TakeVictims, Taken
<1>9. /\ a \in Seq(SThreads) /\ b \in Seq(SThreads) /\ Len(a) = k /\ Len(b) = Len(q) - k
      /\ Range(a) \cup Range(b) = Range(q) /\ Range(a) \cap Range(b) = {}
      /\ IsInjective(a) /\ IsInjective(b)
  <2>1. IsInjective(q)
    BY <1>1, Zenon DEF ListsOk
  <2> HIDE CpuFacts
  <2>2. LET x == SubSeq(q, 1, k)  y == SubSeq(q, k + 1, Len(q)) IN
        /\ x \in Seq(SThreads) /\ y \in Seq(SThreads) /\ Len(x) = k /\ Len(y) = Len(q) - k
        /\ Range(x) \cup Range(y) = Range(q) /\ Range(x) \cap Range(y) = {}
        /\ IsInjective(x) /\ IsInjective(y)
    BY <2>1, Cut, Zenon
  <2> QED
    BY <1>4, <1>5, <2>2, Zenon
<1>10. r \in Migrations /\ r.send = send /\ r.victims = b /\ r.back = back
  <2> HIDE CpuFacts
  <2>1. TakenOk(share, send, back, b)
    BY <1>9, TakenRecord, Zenon
  <2> QED
    BY <1>7, <2>1, Zenon DEF TakenOk
<1>11. /\ c_runqueue'[c] = a /\ sc_mig'[c] = r /\ sc_pc'[c] = "send"
       /\ \A d \in CpuSet \ {c} : /\ c_runqueue'[d] = c_runqueue[d] /\ sc_mig'[d] = sc_mig[d]
                                  /\ sc_pc'[d] = sc_pc[d]
  BY <1>8, Zenon DEF SchedTyped
<1>12. SchedTyped'
  <2>1. c_runqueue' \in [CpuSet -> Seq(SThreads)] /\ sc_mig' \in [CpuSet -> Migrations]
    BY <1>8, <1>9, <1>10, Zenon DEF SchedTyped
  <2>2. sc_pc' \in [CpuSet -> SchedPcs]
    BY <1>8, Zenon DEF SchedTyped, SchedPcs
  <2> QED
    BY <1>8, <2>1, <2>2, Zenon DEF SchedTyped
<1>13. /\ Queued(c)' \cup Victims(c)' = Queued(c) /\ Queued(c)' \cap Victims(c)' = {}
       /\ Victims(c) = {} /\ Dying(c)' = Dying(c)
  <2>1. Queued(c)' = Range(a) /\ Victims(c)' = Range(b) /\ Queued(c) = Range(q) /\ Dying(c)' = Dying(c)
    BY <1>1, <1>8, <1>10, <1>11, Zenon DEF Queued, Victims, Dying
  <2>2. Victims(c) = {}
    BY <1>8 DEF StepOk, Victims, Range
  <2> QED
    BY <1>9, <2>1, <2>2, Zenon
<1>14. WaitOk'
  BY <1>8, Zenon DEF WaitOk
<1>15. ListsOk(c)'
  <2>1. /\ \A u \in Queued(c) : t_state[u] = "S_READY" /\ t_cpu[u] = c
        /\ \A u \in Dying(c) : t_state[u] = "S_ZOMBIE" /\ t_cpu[u] = c
    BY Zenon DEF ListsOk
  <2> HIDE CpuFacts
  <2>2. IsInjective(c_runqueue'[c]) /\ IsInjective(sc_mig'[c].victims)
    BY <1>9, <1>10, <1>11, Zenon
  <2>3. /\ \A u \in Queued(c)' \cup Victims(c)' : t_state'[u] = "S_READY" /\ t_cpu'[u] = c
        /\ \A u \in Dying(c)' : t_state'[u] = "S_ZOMBIE" /\ t_cpu'[u] = c
    BY <1>8, <1>13, <2>1, Zenon
  <2> QED
    BY <1>13, <2>2, <2>3, Zenon DEF ListsOk
<1>16. CurOk(c)'
  <2>1. c_isidle[c] \/ t_state[c_curthread[c]] = "S_RUN"
    BY <1>8, Zenon DEF CurOk
  <2> QED
    BY <1>8, <1>11, Zenon DEF CurOk
<1>17. StepOk(c)'
  <2>1. StepOk(c)
    BY Zenon
  <2> HIDE CpuFacts
  <2>2. k = Len(q) - send /\ Len(b) = Len(q) - k /\ Len(q) \in Nat
    BY <1>3, <1>9, LenProperties, Zenon
  <2>3. send <= Len(b)
    BY <2>2, CutLength, Zenon
  <2> QED
    BY <1>6, <1>8, <1>10, <1>11, <2>1, <2>3, Sending, Zenon
<1>18. ASSUME NEW d \in CpuSet, d # c PROVE ListsOk(d)' /\ CurOk(d)' /\ StepOk(d)'
  <2>1. /\ c_curthread'[d] = c_curthread[d] /\ c_isidle'[d] = c_isidle[d]
        /\ c_runqueue'[d] = c_runqueue[d] /\ c_zombies'[d] = c_zombies[d]
        /\ sc_pc'[d] = sc_pc[d] /\ sc_mig'[d] = sc_mig[d] /\ c_ipi_pending'[d] = c_ipi_pending[d]
    BY <1>8, <1>11, <1>18, Zenon
  <2> QED
    BY <1>8, <2>1, OtherCpu, Zenon
<1>19. ASSUME sc_stop' # "panic", NEW u \in SThreads PROVE Located(u)'
  <2>1. Located(u)
    BY <1>8, <1>19, Zenon DEF SchedInv
  <2>2. PICK d \in CpuSet : d = t_cpu[u]
    BY Zenon DEF SchedTyped
  <2>3. u \in Queued(d) \cup Victims(d) => u \in Queued(d)' \cup Victims(d)'
    <3>1. CASE d = c
      BY <1>13, <3>1, Zenon
    <3>2. CASE d # c
      BY <1>8, <1>11, <3>2, Zenon DEF Queued, Victims
    <3> QED
      BY <3>1, <3>2, Zenon
  <2>4. Dying(d)' = Dying(d) /\ (sc_pc[d] = "resume" => sc_pc'[d] = "resume")
    BY <1>8, <1>11, Zenon DEF Dying
  <2> QED
    BY <1>8, <2>1, <2>2, <2>3, <2>4, Zenon DEF Located
<1> QED
  BY <1>12, <1>14, <1>15, <1>16, <1>17, <1>18, <1>19, Zenon DEF SchedInv

\* The next processor, or the end of the loop.
LEMMA StepSendOn ==
  ASSUME SchedInv, NEW c \in CpuSet, SendVictims(c),
         \/ sc_mig[c].i = NCPU \/ sc_mig[c].send = 0 \/ sc_mig[c].i = c
         \/ Len(c_runqueue[sc_mig[c].i]) >= sc_mig[c].share
  PROVE  SchedInv'
<1> USE CpuFacts
<1>1. /\ sc_pc[c] = "send"
      /\ UNCHANGED <<c_curthread, c_isidle, c_runqueue, c_zombies, c_ipi_pending, t_state, t_cpu,
                     wc_threads, sc_stop>>
  BY Zenon DEF SendVictims
<1>2. CASE sc_mig[c].i = NCPU \/ sc_mig[c].send = 0
  <2>1. sc_pc' = [sc_pc EXCEPT ![c] = "putback"] /\ UNCHANGED sc_mig
    BY <1>2, Zenon DEF SendVictims
  <2>2. SchedTyped'
    BY <1>1, <2>1, Zenon DEF SchedTyped, SchedPcs
  <2>3. sc_pc'[c] = "putback" /\ \A d \in CpuSet \ {c} : sc_pc'[d] = sc_pc[d] /\ sc_mig'[d] = sc_mig[d]
    BY <2>1, Zenon DEF SchedTyped
  <2>4. StepOk(c)' /\ sc_pc'[c] # "resume" /\ sc_pc[c] # "resume"
    BY <1>1, <2>1, <2>3, Zenon DEF StepOk, MigPcs, IdlePcs
  <2> QED
    BY <1>1, <2>1, <2>2, <2>3, <2>4, QuietStep, Zenon
<1>3. CASE ~(sc_mig[c].i = NCPU \/ sc_mig[c].send = 0)
  <2>1. sc_mig' = [sc_mig EXCEPT ![c] = [sc_mig[c] EXCEPT !.i = @ + 1]] /\ UNCHANGED sc_pc
    BY <1>3, Zenon DEF SendVictims
  <2>2. PICK m \in Migrations : m = sc_mig[c]
    BY Zenon
  <2>3. m.i \in 0..NCPU /\ m.i + 1 \in 0..NCPU
    BY <1>3, <2>2, SchedAssumption DEF Migrations
  <2>4. /\ [m EXCEPT !.i = @ + 1] \in Migrations
        /\ [m EXCEPT !.i = @ + 1].victims = m.victims /\ [m EXCEPT !.i = @ + 1].send = m.send
        /\ [m EXCEPT !.i = @ + 1].back = m.back
    <3> HIDE CpuFacts
    <3> QED
      BY <2>3, Zenon DEF Migrations
  <2>5. PICK r \in Migrations : /\ sc_mig' = [sc_mig EXCEPT ![c] = r]
                                /\ r.victims = m.victims /\ r.send = m.send /\ r.back = m.back
    BY <2>1, <2>2, <2>4, Zenon
  <2>6. SchedTyped'
    <3>1. sc_mig' \in [CpuSet -> Migrations]
      BY <2>5, Zenon DEF SchedTyped
    <3> QED
      BY <1>1, <2>1, <3>1, Zenon DEF SchedTyped
  <2>7. sc_mig'[c] = r /\ \A d \in CpuSet \ {c} : sc_pc'[d] = sc_pc[d] /\ sc_mig'[d] = sc_mig[d]
    BY <2>1, <2>5, Zenon DEF SchedTyped
  <2>8. StepOk(c)' /\ sc_pc'[c] # "resume" /\ sc_pc[c] # "resume"
    BY <1>1, <2>1, <2>2, <2>5, <2>7 DEF StepOk, MigPcs, IdlePcs
  <2>9. sc_mig'[c].victims = sc_mig[c].victims
    BY <2>2, <2>5, <2>7, Zenon
  <2> QED
    BY <1>1, <2>6, <2>7, <2>8, <2>9, QuietStep, Zenon
<1> QED
  BY <1>2, <1>3, Zenon

\* The record after one turn of the inner loop that leaves the victims v.
Turned(m, v) == [m EXCEPT !.victims = v, !.send = @ - 1]

TurnedOk(m, v) ==
  LET r == Turned(m, v) IN
  r \in Migrations /\ r.victims = v /\ r.send = m.send - 1 /\ r.back = m.back

\* Only the victims and the count of what is left to send change.
LEMMA TurnedRecord ==
  ASSUME NEW m \in Migrations, m.send # 0, NEW v \in Seq(SThreads)
  PROVE  TurnedOk(m, v)
<1>1. m.send - 1 \in Nat
  BY DEF Migrations
<1> QED
  BY <1>1, Zenon DEF TurnedOk, Turned, Migrations

\* The inner loop finds a victim, the first of the list.
LEMMA FirstVictim ==
  ASSUME SchedInv, NEW c \in CpuSet, sc_pc[c] = "send", sc_mig[c].send # 0
  PROVE  LET v == sc_mig[c].victims IN
         /\ v \in Seq(SThreads) /\ Head(v) \in SThreads /\ Head(v) \in Range(v) /\ Tail(v) \in Seq(SThreads)
         /\ Range(Tail(v)) = Range(v) \ {Head(v)} /\ Len(Tail(v)) = Len(v) - 1
         /\ IsInjective(Tail(v)) /\ Len(v) \in Nat /\ sc_mig[c].send \in Nat /\ sc_mig[c].send <= Len(v)
<1> USE CpuFacts
<1>1. PICK v \in Seq(SThreads) : v = sc_mig[c].victims
  BY Lists, Zenon
<1>2. sc_mig[c].send \in Nat /\ Len(v) \in Nat /\ sc_mig[c].send <= Len(v)
  BY <1>1, MigFacts, Zenon DEF StepOk
<1>3. v # <<>> /\ IsInjective(v)
  BY <1>1, <1>2 DEF ListsOk
<1>4. /\ Head(v) \in SThreads /\ Head(v) \in Range(v) /\ Tail(v) \in Seq(SThreads)
      /\ Range(Tail(v)) = Range(v) \ {Head(v)} /\ Len(Tail(v)) = Len(v) - 1
      /\ IsInjective(Tail(v))
  BY <1>3, RemHead, Zenon
<1> QED
  BY <1>1, <1>2, <1>4, Zenon

\* The victim is still curthread of c: it goes to the end of the victims.
LEMMA StepRotate ==
  ASSUME SchedInv, NEW c \in CpuSet, sc_pc[c] = "send", sc_mig[c].send # 0,
         sc_mig' = [sc_mig EXCEPT ![c] = Turned(sc_mig[c], Append(Tail(sc_mig[c].victims), Head(sc_mig[c].victims)))],
         UNCHANGED <<c_curthread, c_isidle, c_runqueue, c_zombies, c_ipi_pending, t_state, t_cpu,
                     wc_threads, sc_pc, sc_stop>>
  PROVE  SchedInv'
<1> USE CpuFacts
<1>1. PICK v : v = sc_mig[c].victims
  BY Zenon
<1>2. /\ v \in Seq(SThreads) /\ Head(v) \in SThreads /\ Head(v) \in Range(v) /\ Tail(v) \in Seq(SThreads)
      /\ Range(Tail(v)) = Range(v) \ {Head(v)} /\ Len(Tail(v)) = Len(v) - 1
      /\ IsInjective(Tail(v)) /\ Len(v) \in Nat /\ sc_mig[c].send \in Nat /\ sc_mig[c].send <= Len(v)
  BY <1>1, FirstVictim, Zenon
<1>3. PICK w : w = Append(Tail(v), Head(v))
  BY Zenon
<1>4. /\ w \in Seq(SThreads) /\ Range(w) = Range(v) /\ Len(w) = Len(v) /\ IsInjective(w)
  <2>1. PICK x \in SThreads : x = Head(v)
    BY <1>2, Zenon
  <2>2. PICK y \in Seq(SThreads) : y = Tail(v)
    BY <1>2, Zenon
  <2> HIDE CpuFacts
  <2>3. /\ Append(y, x) \in Seq(SThreads) /\ Range(Append(y, x)) = Range(y) \cup {x}
        /\ Len(Append(y, x)) = Len(y) + 1
        /\ IsInjective(y) /\ x \notin Range(y) => IsInjective(Append(y, x))
    BY AddTail, Zenon
  <2>4. x \notin Range(y) /\ Range(y) \cup {x} = Range(v) /\ IsInjective(y)
    BY <1>2, <2>1, <2>2, Zenon
  <2>5. Len(y) + 1 = Len(v)
    BY <1>2, <2>2
  <2> QED
    BY <1>3, <2>1, <2>2, <2>3, <2>4, <2>5, Zenon
<1>5. PICK r \in Migrations : /\ sc_mig' = [sc_mig EXCEPT ![c] = r] /\ r.victims = w
                              /\ r.send = sc_mig[c].send - 1 /\ r.back = sc_mig[c].back
  <2>1. TurnedOk(sc_mig[c], w)
    BY <1>4, TurnedRecord, Zenon
  <2> QED
    BY <1>1, <1>3, <2>1, Zenon DEF TurnedOk
<1>6. SchedTyped'
  <2>1. sc_mig' \in [CpuSet -> Migrations]
    BY <1>5, Zenon DEF SchedTyped
  <2> QED
    BY <2>1, Zenon DEF SchedTyped
<1>7. sc_mig'[c] = r /\ \A d \in CpuSet \ {c} : sc_pc'[d] = sc_pc[d] /\ sc_mig'[d] = sc_mig[d]
  BY <1>5, Zenon DEF SchedTyped
<1>8. StepOk(c)'
  <2>1. r.send <= Len(w)
    BY <1>2, <1>4, <1>5
  <2> QED
    BY <1>5, <1>7, <2>1, Zenon DEF StepOk, MigPcs, IdlePcs
<1>9. Range(sc_mig'[c].victims) = Range(sc_mig[c].victims) /\ IsInjective(sc_mig'[c].victims)
  BY <1>1, <1>4, <1>5, <1>7, Zenon
<1>10. sc_pc[c] # "resume" /\ sc_pc'[c] # "resume"
  BY Zenon
<1> QED
  BY <1>6, <1>7, <1>8, <1>9, <1>10, QuietStep, Zenon

\* The victim moves to the run queue of processor e, which is told when it idles.
LEMMA StepMove ==
  ASSUME SchedInv, NEW c \in CpuSet, NEW e \in CpuSet, e # c, sc_pc[c] = "send", sc_mig[c].send # 0,
         NEW t, t = Head(sc_mig[c].victims), t # c_curthread[c],
         t_cpu' = [t_cpu EXCEPT ![t] = e],
         c_runqueue' = [c_runqueue EXCEPT ![e] = Append(@, t)],
         c_ipi_pending' = IF c_isidle[e] THEN ipi_send(e, "IPI_UNIDLE") ELSE c_ipi_pending,
         sc_mig' = [sc_mig EXCEPT ![c] = Turned(sc_mig[c], Tail(sc_mig[c].victims))],
         UNCHANGED <<c_curthread, c_isidle, c_zombies, t_state, wc_threads, sc_pc, sc_stop>>
  PROVE  SchedInv'
<1> USE CpuFacts
<1>1. PICK v : v = sc_mig[c].victims
  BY Zenon
<1>2. /\ v \in Seq(SThreads) /\ Head(v) \in SThreads /\ Head(v) \in Range(v) /\ Tail(v) \in Seq(SThreads)
      /\ Range(Tail(v)) = Range(v) \ {Head(v)} /\ Len(Tail(v)) = Len(v) - 1
      /\ IsInjective(Tail(v)) /\ Len(v) \in Nat /\ sc_mig[c].send \in Nat /\ sc_mig[c].send <= Len(v)
  BY <1>1, FirstVictim, ZenonT(30)
<1>3. /\ t \in SThreads /\ t \in Victims(c) /\ t_state[t] = "S_READY" /\ t_cpu[t] = c /\ t \notin Queued(c)
  <2>1. t \in SThreads /\ t \in Victims(c)
    BY <1>1, <1>2, Zenon DEF Victims
  <2> QED
    BY <2>1 DEF ListsOk
<1>4. PICK r \in Migrations : /\ sc_mig' = [sc_mig EXCEPT ![c] = r] /\ r.victims = Tail(v)
                              /\ r.send = sc_mig[c].send - 1 /\ r.back = sc_mig[c].back
  <2>1. TurnedOk(sc_mig[c], Tail(v))
    BY <1>2, TurnedRecord, Zenon
  <2> QED
    BY <1>1, <2>1, Zenon DEF TurnedOk
<1>5. /\ t_cpu'[t] = e /\ \A u \in SThreads \ {t} : t_state'[u] = t_state[u] /\ t_cpu'[u] = t_cpu[u]
      /\ t_state'[t] = "S_READY" /\ c_runqueue'[e] = Append(c_runqueue[e], t) /\ sc_mig'[c] = r
      /\ \A d \in CpuSet \ {e} : c_runqueue'[d] = c_runqueue[d]
      /\ \A d \in CpuSet \ {c} : sc_mig'[d] = sc_mig[d]
  <2>1. t_cpu \in [SThreads -> CpuSet] /\ c_runqueue \in [CpuSet -> Seq(SThreads)] /\ sc_mig \in [CpuSet -> Migrations]
    BY Zenon DEF SchedTyped
  <2> HIDE CpuFacts
  <2> QED
    BY <1>3, <1>4, <2>1, Zenon
<1>6. /\ c_ipi_pending' \in [CpuSet -> SUBSET {"line", "IPI_PANIC", "IPI_OFFLINE"}]
      /\ \A d \in CpuSet : "line" \in c_ipi_pending[d] => "line" \in c_ipi_pending'[d]
      /\ c_isidle[e] => "line" \in c_ipi_pending'[e]
  <2>1. CASE c_isidle[e]
    BY <2>1, Unidle, Zenon
  <2>2. CASE ~c_isidle[e]
    BY <2>2, Zenon DEF SchedTyped
  <2> QED
    BY <2>1, <2>2, Zenon
<1>7. SchedTyped'
  <2>1. Append(c_runqueue[e], t) \in Seq(SThreads)
    BY <1>3, Lists, AddTail, Zenon
  <2>2. c_runqueue' \in [CpuSet -> Seq(SThreads)]
    BY <2>1, Zenon DEF SchedTyped
  <2>3. sc_mig' \in [CpuSet -> Migrations]
    BY <1>4, Zenon DEF SchedTyped
  <2>4. t_cpu' \in [SThreads -> CpuSet]
    BY <1>3, Zenon DEF SchedTyped
  <2> QED
    BY <1>6, <2>2, <2>3, <2>4, Zenon DEF SchedTyped
<1>8. t \notin Queued(e) /\ t \notin Victims(e) /\ t \notin Dying(e)
  BY <1>3 DEF ListsOk
<1>9. /\ ListsOk(e)' /\ Queued(e)' = Queued(e) \cup {t} /\ Victims(e)' = Victims(e)
      /\ Dying(e)' = Dying(e) /\ Len(c_runqueue'[e]) = Len(c_runqueue[e]) + 1
  <2>1. ListsOk(e) /\ SchedTyped /\ sc_mig'[e] = sc_mig[e] /\ c_zombies'[e] = c_zombies[e]
    BY <1>5, Zenon
  <2> HIDE CpuFacts
  <2> QED
    BY <1>3, <1>5, <1>8, <2>1, Enqueue, ZenonT(30)
<1>10. Queued(c)' = Queued(c) /\ Victims(c)' = Victims(c) \ {t} /\ Dying(c)' = Dying(c)
  BY <1>1, <1>2, <1>4, <1>5, Zenon DEF Queued, Victims, Dying
<1>11. WaitOk'
  BY Zenon DEF WaitOk
<1>12. ListsOk(c)'
  <2>1. /\ IsInjective(c_runqueue[c]) /\ Queued(c) \cap Victims(c) = {}
        /\ \A u \in Queued(c) \cup Victims(c) : t_state[u] = "S_READY" /\ t_cpu[u] = c
        /\ \A u \in Dying(c) : t_state[u] = "S_ZOMBIE" /\ t_cpu[u] = c
        /\ Queued(c) \subseteq SThreads /\ Victims(c) \subseteq SThreads /\ Dying(c) \subseteq SThreads
    BY Lists, Zenon DEF ListsOk
  <2> HIDE CpuFacts
  <2>2. IsInjective(c_runqueue'[c]) /\ IsInjective(sc_mig'[c].victims)
    BY <1>2, <1>4, <1>5, <2>1, Zenon
  <2>3. ASSUME NEW u \in Queued(c)' \cup Victims(c)' PROVE t_state'[u] = "S_READY" /\ t_cpu'[u] = c
    <3>1. u \in Queued(c) \cup Victims(c) /\ u \in SThreads /\ u # t
      BY <1>3, <1>10, <2>1, <2>3, Zenon
    <3> QED
      BY <1>5, <2>1, <3>1, Zenon
  <2>4. ASSUME NEW u \in Dying(c)' PROVE t_state'[u] = "S_ZOMBIE" /\ t_cpu'[u] = c
    <3>1. u \in Dying(c) /\ u \in SThreads /\ u # t
      BY <1>3, <1>10, <2>1, <2>4, Zenon
    <3> QED
      BY <1>5, <2>1, <3>1, Zenon
  <2>5. Queued(c)' \cap Victims(c)' = {}
    BY <1>10, <2>1, Zenon
  <2> QED
    BY <2>2, <2>3, <2>4, <2>5, Zenon DEF ListsOk
<1>13. CurOk(c)'
  <2>1. CurOk(c) /\ c_curthread[c] \in SThreads
    BY Zenon DEF SchedTyped
  <2> HIDE CpuFacts
  <2> QED
    BY <1>5, <2>1, SameThread, Zenon
<1>14. StepOk(c)'
  <2>1. sc_mig[c].send \in Nat /\ sc_mig[c].send <= Len(v) /\ sc_mig[c].send # 0
        /\ Len(v) \in Nat /\ Len(Tail(v)) = Len(v) - 1 /\ r.send = sc_mig[c].send - 1
    BY <1>2, <1>4, Zenon
  <2>2. StepOk(c)
    BY Zenon
  <2> HIDE CpuFacts
  <2>3. r.send <= Len(Tail(v))
    BY <2>1, SMT
  <2> QED
    BY <1>4, <1>5, <2>2, <2>3, Sending, Zenon
<1>15. CurOk(e)'
  <2>1. CurOk(e) /\ c_curthread[e] \in SThreads
    BY Zenon DEF SchedTyped
  <2> HIDE CpuFacts
  <2>2. c_curthread[e] # t
    BY <1>3, <2>1, Zenon DEF CurOk
  <2>3. c_curthread[e] \notin Queued(e) => c_curthread[e] \notin Queued(e)'
    BY <1>9, <2>2, Zenon
  <2> QED
    BY <1>5, <2>1, <2>2, <2>3, SameThread, Zenon
<1>16. StepOk(e)'
  <2>1. Len(c_runqueue[e]) \in Nat /\ sc_mig[e].my \in Nat
    BY MigFacts, Zenon
  <2>2. StepOk(e)
    BY Zenon
  <2> HIDE CpuFacts
  <2> QED
    BY <1>5, <1>6, <1>9, <2>1, <2>2, LongerQueue, ZenonT(30)
<1>17. ASSUME NEW d \in CpuSet, d # c, d # e PROVE ListsOk(d)' /\ CurOk(d)' /\ StepOk(d)'
  <2>1. \A u \in SThreads : t_cpu[u] = d /\ t_state[u] # "none" => t_cpu'[u] = d /\ t_state'[u] = t_state[u]
    BY <1>3, <1>5, <1>17, Zenon
  <2>2. /\ c_curthread'[d] = c_curthread[d] /\ c_isidle'[d] = c_isidle[d]
        /\ c_runqueue'[d] = c_runqueue[d] /\ c_zombies'[d] = c_zombies[d]
        /\ sc_pc'[d] = sc_pc[d] /\ sc_mig'[d] = sc_mig[d]
    BY <1>5, <1>17, Zenon
  <2> QED
    BY <1>6, <2>1, <2>2, OtherCpu, Zenon
<1>18. ASSUME sc_stop' # "panic", NEW u \in SThreads PROVE Located(u)'
  <2>1. CASE u = t
    BY <1>5, <1>9, <2>1, Zenon DEF Located
  <2>2. CASE u # t
    <3>1. Located(u)
      BY <1>18, Zenon DEF SchedInv
    <3>2. PICK d \in CpuSet : d = t_cpu[u]
      BY Zenon DEF SchedTyped
    <3>3. u \in Queued(d) \cup Victims(d) => u \in Queued(d)' \cup Victims(d)'
      <4>1. CASE d = c
        BY <1>10, <2>2, <4>1, Zenon
      <4>2. CASE d = e
        BY <1>9, <4>2, Zenon
      <4>3. CASE d # c /\ d # e
        BY <1>5, <4>3, Zenon DEF Queued, Victims
      <4> QED
        BY <4>1, <4>2, <4>3, Zenon
    <3>4. Dying(d)' = Dying(d)
      BY Zenon DEF Dying
    <3>5. t_cpu'[u] = d /\ t_state'[u] = t_state[u]
      BY <1>5, <2>2, <3>2, Zenon
    <3> QED
      BY <3>1, <3>2, <3>3, <3>4, <3>5, Zenon DEF Located
  <2> QED
    BY <2>1, <2>2, Zenon
<1> QED
  BY <1>7, <1>9, <1>11, <1>12, <1>13, <1>14, <1>15, <1>16, <1>17, <1>18, ZenonT(30) DEF SchedInv
-----------------------------------------------------------------------------
\* One turn of the inner loop of thread_consider_migration.
LEMMA StepSendOne ==
  ASSUME SchedInv, NEW c \in CpuSet, SendVictims(c),
         ~(sc_mig[c].i = NCPU \/ sc_mig[c].send = 0), sc_mig[c].i # c,
         ~(Len(c_runqueue[sc_mig[c].i]) >= sc_mig[c].share)
  PROVE  SchedInv'
<1>1. PICK e : e = sc_mig[c].i
  BY Zenon
<1>2. e \in CpuSet /\ e # c
  BY <1>1, CpuFacts, MigFacts, SchedAssumption DEF CpuSet
<1>3. /\ sc_pc[c] = "send" /\ sc_mig[c].send # 0 /\ SendOne(c, e)
      /\ UNCHANGED <<c_curthread, c_isidle, c_zombies, t_state, wc_threads, sc_pc, sc_stop>>
  BY <1>1, Zenon DEF SendVictims
<1>4. PICK t : t = Head(sc_mig[c].victims)
  BY Zenon
<1>5. CASE t = c_curthread[c]
  <2>1. /\ sc_mig' = [sc_mig EXCEPT ![c] = Turned(sc_mig[c], Append(Tail(sc_mig[c].victims), Head(sc_mig[c].victims)))]
        /\ UNCHANGED <<t_cpu, c_runqueue, c_ipi_pending>>
    BY <1>3, <1>4, <1>5, Zenon DEF SendOne, CurThread, Turned
  <2> QED
    BY <1>3, <2>1, StepRotate, Zenon
<1>6. CASE t # c_curthread[c]
  <2>1. /\ t_cpu' = [t_cpu EXCEPT ![t] = e]
        /\ c_runqueue' = [c_runqueue EXCEPT ![e] = Append(@, t)]
        /\ c_ipi_pending' = IF c_isidle[e] THEN ipi_send(e, "IPI_UNIDLE") ELSE c_ipi_pending
        /\ sc_mig' = [sc_mig EXCEPT ![c] = Turned(sc_mig[c], Tail(sc_mig[c].victims))]
    BY <1>3, <1>4, <1>6, Zenon DEF SendOne, CurThread, Turned
  <2> QED
    BY <1>2, <1>3, <1>4, <1>6, <2>1, StepMove, Zenon
<1> QED
  BY <1>5, <1>6, Zenon

\* Every step of the scheduler keeps the invariant.
LEMMA SchedStep ==
  ASSUME SchedInv, [SchedNext]_sc_vars
  PROVE  SchedInv'
<1>1. CASE UNCHANGED sc_vars
  <2>1. /\ UNCHANGED <<c_curthread, c_isidle, c_runqueue, c_zombies, c_ipi_pending, t_state, t_cpu>>
        /\ UNCHANGED <<wc_threads, sc_pc, sc_mig, sc_stop>>
    BY <1>1, Zenon DEF sc_vars, sc_cpu
  <2> QED
    <3>1. SchedTyped' /\ WaitOk'
      BY <2>1, Zenon DEF SchedInv, SchedTyped, WaitOk
    <3>2. ASSUME NEW d \in CpuSet PROVE ListsOk(d)' /\ CurOk(d)' /\ StepOk(d)'
      BY <2>1, OtherCpu, Zenon
    <3>3. ASSUME sc_stop' # "panic", NEW t \in SThreads PROVE Located(t)'
      <4>1. Located(t)
        BY <2>1, <3>3, Zenon DEF SchedInv
      <4> QED
        BY <2>1, <4>1, Zenon DEF Located, Queued, Victims, Dying
    <3> QED
      BY <3>1, <3>2, <3>3, Zenon DEF SchedInv
<1>2. CASE SchedNext
  <2>1. PICK c \in CpuSet :
          \/ \E t \in SThreads : thread_fork(c, t)
          \/ wchan_wakeone(c) \/ wchan_sleep(c) \/ thread_yield(c) \/ thread_exit(c)
          \/ PickNext(c) \/ IdleAgain(c) \/ thread_startup(c)
          \/ hardclock(c) \/ CountQueue(c) \/ TakeVictims(c) \/ SendVictims(c) \/ PutBack(c)
          \/ interprocessor_interrupt(c) \/ lamebus_clear_ipi(c) \/ thread_shutdown(c) \/ thread_panic(c)
    BY <1>2, Zenon DEF SchedNext
  <2>2. CASE \E t \in SThreads : thread_fork(c, t)
    BY <2>2, StepFork, Zenon
  <2>3. CASE wchan_wakeone(c)
    BY <2>3, StepWake, Zenon
  <2>4. CASE wchan_sleep(c)
    BY <2>4, StepSwitch, Zenon DEF wchan_sleep
  <2>5. CASE thread_exit(c)
    BY <2>5, StepSwitch, Zenon DEF thread_exit
  <2>6. CASE thread_yield(c)
    <3>1. CASE thread_switch(c, "S_READY")
      BY <3>1, StepSwitch, Zenon
    <3>2. CASE /\ sc_pc[c] = "yield" /\ sc_pc' = [sc_pc EXCEPT ![c] = "run"]
               /\ UNCHANGED <<sc_cpu, t_state, t_cpu, wc_threads, sc_mig, sc_stop>>
      BY <3>2, StepYieldNothing, Zenon
    <3> QED
      BY <2>6, <3>1, <3>2, Zenon DEF thread_yield
  <2>7. CASE PickNext(c)
    BY <2>7, StepPickNothing, StepPick, ZenonT(30)
  <2>8. CASE TakeVictims(c)
    <3>1. CASE sc_mig[c].my < (sc_mig[c].total + NCPU - 1) \div NCPU
      <4>1. /\ sc_pc[c] = "count" /\ sc_pc' = [sc_pc EXCEPT ![c] = AfterMigration(sc_mig[c].back)]
            /\ sc_mig' = [sc_mig EXCEPT ![c] = NoMig]
            /\ UNCHANGED <<c_curthread, c_isidle, c_runqueue, c_zombies, c_ipi_pending, t_state, t_cpu,
                           wc_threads, sc_stop>>
        BY <2>8, <3>1, Zenon DEF TakeVictims
      <4> QED
        BY <4>1, StepKeepAll, Zenon
    <3> QED
      BY <2>8, <3>1, StepTake, Zenon
  <2>9. CASE SendVictims(c)
    BY <2>9, StepSendOn, StepSendOne, Zenon
  <2>10. CASE IdleAgain(c) \/ thread_startup(c) \/ hardclock(c) \/ CountQueue(c) \/ PutBack(c)
    BY <2>10, StepIdleAgain, StepStartup, StepHardclock, StepCountQueue, StepPutBack, ZenonT(30)
  <2>11. CASE interprocessor_interrupt(c) \/ lamebus_clear_ipi(c) \/ thread_shutdown(c) \/ thread_panic(c)
    BY <2>11, StepInterrupt, StepClear, StepShutdown, StepPanic, Zenon
  <2> QED
    BY <2>1, <2>2, <2>3, <2>4, <2>5, <2>6, <2>7, <2>8, <2>9, <2>10, <2>11, ZenonT(30)
<1> QED
  BY <1>1, <1>2, Zenon

\* At boot every processor runs its boot thread and no list holds a thread.
LEMMA SchedStart ==
  ASSUME SchedInit
  PROVE  SchedInv
<1>1. /\ 0 \in CpuSet /\ NCPU \in Nat /\ BootThread \in [CpuSet -> SThreads] /\ IsInjective(BootThread)
      /\ <<>> \in Seq(SThreads) /\ 0 \in 0..NCPU
  BY SchedAssumption DEF CpuSet
<1>2. \A c \in CpuSet : BootThread[c] \in SThreads /\ BootThread[c] \in Range(BootThread)
  BY <1>1, Zenon DEF Range
<1>3. \A t \in SThreads : t \in Range(BootThread) =>
        /\ t_cpu[t] \in CpuSet /\ BootThread[t_cpu[t]] = t /\ t_state[t] = "S_RUN"
  <2> SUFFICES ASSUME NEW t \in SThreads, t \in Range(BootThread)
               PROVE  t_cpu[t] \in CpuSet /\ BootThread[t_cpu[t]] = t /\ t_state[t] = "S_RUN"
    BY Zenon
  <2>1. \E c \in CpuSet : BootThread[c] = t
    BY <1>1, Zenon DEF Range
  <2>2. t_cpu[t] = CHOOSE c \in CpuSet : BootThread[c] = t
    BY Zenon DEF SchedInit
  <2>3. t_state[t] = "S_RUN"
    BY Zenon DEF SchedInit
  <2> QED
    BY <2>1, <2>2, <2>3, Zenon
<1>4. \A t \in SThreads : t \notin Range(BootThread) => t_cpu[t] = 0 /\ t_state[t] = "none"
  BY Zenon DEF SchedInit
<1>5. \A c \in CpuSet : t_cpu[BootThread[c]] = c /\ t_state[BootThread[c]] = "S_RUN"
  <2> SUFFICES ASSUME NEW c \in CpuSet PROVE t_cpu[BootThread[c]] = c /\ t_state[BootThread[c]] = "S_RUN"
    BY Zenon
  <2>1. t_cpu[BootThread[c]] \in CpuSet /\ BootThread[t_cpu[BootThread[c]]] = BootThread[c]
        /\ t_state[BootThread[c]] = "S_RUN"
    BY <1>2, <1>3, Zenon
  <2>2. DOMAIN BootThread = CpuSet
    BY <1>1, Zenon
  <2> QED
    BY <1>1, <2>1, <2>2, ZenonT(30) DEF IsInjective
<1>6. NoMig \in Migrations /\ NoMig.victims = <<>>
  BY <1>1, Zenon DEF NoMig, Migrations
<1>7. SchedTyped
  <2>1. c_curthread \in [CpuSet -> SThreads] /\ c_isidle \in [CpuSet -> BOOLEAN]
    BY <1>1, Zenon DEF SchedInit
  <2>2. c_runqueue \in [CpuSet -> Seq(SThreads)] /\ c_zombies \in [CpuSet -> Seq(SThreads)]
    BY <1>1, Zenon DEF SchedInit
  <2>3. c_ipi_pending \in [CpuSet -> SUBSET {"line", "IPI_PANIC", "IPI_OFFLINE"}]
    BY Zenon DEF SchedInit
  <2>4. t_state \in [SThreads -> ThreadStates]
    BY Zenon DEF SchedInit, ThreadStates
  <2>5. t_cpu \in [SThreads -> CpuSet]
    <3>1. \A t \in SThreads : t_cpu[t] \in CpuSet
      BY <1>1, <1>3, <1>4, ZenonT(30)
    <3>2. t_cpu = [t \in SThreads |-> t_cpu[t]]
      BY DEF SchedInit
    <3> QED
      BY <3>1, <3>2, Zenon
  <2>6. wc_threads \in Seq(SThreads) /\ sc_pc \in [CpuSet -> SchedPcs]
    BY <1>1, Zenon DEF SchedInit, SchedPcs
  <2>7. sc_mig \in [CpuSet -> Migrations]
    BY <1>6, Zenon DEF SchedInit
  <2> QED
    BY <2>1, <2>2, <2>3, <2>4, <2>5, <2>6, <2>7, Zenon DEF SchedTyped
<1>8. Range(<<>>) = {} /\ IsInjective(<<>>)
  BY DEF Range, IsInjective
<1>9. WaitOk
  BY <1>8, Zenon DEF WaitOk, SchedInit
<1>10. ASSUME NEW c \in CpuSet PROVE ListsOk(c) /\ CurOk(c) /\ StepOk(c)
  <2>1. /\ c_runqueue[c] = <<>> /\ sc_mig[c] = NoMig /\ c_zombies[c] = <<>> /\ sc_pc[c] = "run"
        /\ c_isidle[c] = FALSE /\ c_curthread[c] = BootThread[c]
    BY Zenon DEF SchedInit
  <2>2. ListsOk(c)
    <3>1. Queued(c) = {} /\ Victims(c) = {} /\ Dying(c) = {}
      BY <1>6, <1>8, <2>1, Zenon DEF Queued, Victims, Dying
    <3> QED
      BY <1>6, <1>8, <2>1, <3>1, Zenon DEF ListsOk
  <2>3. CurOk(c)
    BY <1>5, <2>1, Zenon DEF CurOk
  <2>4. StepOk(c)
    BY <2>1, Zenon DEF StepOk, IdlePcs, MigPcs
  <2> QED
    BY <2>2, <2>3, <2>4, Zenon
<1>11. ASSUME NEW t \in SThreads PROVE Located(t)
  <2>1. CASE t \in Range(BootThread)
    <3>1. t_cpu[t] \in CpuSet /\ BootThread[t_cpu[t]] = t /\ t_state[t] = "S_RUN"
      BY <1>3, <2>1, Zenon
    <3>2. c_curthread[t_cpu[t]] = t /\ c_isidle[t_cpu[t]] = FALSE
      BY <3>1, Zenon DEF SchedInit
    <3> QED
      BY <3>1, <3>2, Zenon DEF Located
  <2>2. CASE t \notin Range(BootThread)
    BY <1>4, <2>2, Zenon DEF Located
  <2> QED
    BY <2>1, <2>2, Zenon
<1> QED
  BY <1>7, <1>9, <1>10, <1>11, ZenonT(30) DEF SchedInv
-----------------------------------------------------------------------------
\* Where the lists and the processors can hold thread t: only its own processor does.
LEMMA Places ==
  ASSUME SchedInv, NEW t \in SThreads, NEW c \in CpuSet, c = t_cpu[t], NEW d \in CpuSet
  PROVE  /\ t \in Queued(d) => d = c /\ t_state[t] = "S_READY" /\ t \notin Victims(c) /\ ~Runs(c, t)
         /\ t \in Victims(d) => d = c /\ t_state[t] = "S_READY" /\ ~Runs(c, t)
         /\ t \in Dying(d) => d = c /\ t_state[t] = "S_ZOMBIE"
         /\ Runs(d, t) => d = c /\ t_state[t] \in {"S_RUN", "S_READY"}
<1> USE CpuFacts
<1>1. Runs(d, t) => d = c /\ (t_state[t] = "S_RUN" \/ sc_pc[c] = "resume") /\ t_state[t] \in {"S_RUN", "S_READY"}
  BY DEF Runs, CurThread, CurOk
<1>2. t \in Queued(d) => d = c /\ t_state[t] = "S_READY" /\ t \notin Victims(c)
  BY DEF ListsOk
<1>3. t \in Victims(d) => d = c /\ t_state[t] = "S_READY"
  BY Zenon DEF ListsOk
<1>4. t \in Dying(d) => d = c /\ t_state[t] = "S_ZOMBIE"
  BY Zenon DEF ListsOk
<1>5. Runs(c, t) /\ t_state[t] = "S_READY" => sc_pc[c] = "resume" /\ t \notin Queued(c)
  BY Zenon DEF Runs, CurThread, CurOk
<1>6. sc_pc[c] = "resume" => Victims(c) = {}
  BY DEF StepOk, MigPcs, NoMig, Victims, Range
<1> QED
  BY <1>1, <1>2, <1>3, <1>4, <1>5, <1>6, ZenonT(30)

\* Every live thread is in one place: ThreadInOnePlace of the invariant.
LEMMA OnePlace ==
  ASSUME SchedInv
  PROVE  ThreadInOnePlace
<1> SUFFICES ASSUME sc_stop # "panic", NEW t \in SThreads
             PROVE  LET lists == OnLists(t)
                        cpus == {c \in CpuSet : Runs(c, t)} IN
                    /\ Cardinality(lists) + Cardinality(cpus) = (IF t_state[t] = "none" THEN 0 ELSE 1)
                    /\ \A l \in lists : t_state[t] = CASE l[1] = "wchan" -> "S_SLEEP"
                                                       [] l[1] = "zomb" -> "S_ZOMBIE"
                                                       [] OTHER -> "S_READY"
                    /\ \A c \in CpuSet : IsInjective(c_runqueue[c])
  BY Zenon DEF ThreadInOnePlace
<1> DEFINE R == {<<"runq", c>> : c \in {d \in CpuSet : t \in Range(c_runqueue[d])}}
           Z == {<<"zomb", c>> : c \in {d \in CpuSet : t \in Range(c_zombies[d])}}
           V == {<<"victim", c>> : c \in {d \in CpuSet : t \in Range(sc_mig[d].victims)}}
           W == IF t \in Range(wc_threads) THEN {<<"wchan", 0>>} ELSE {}
           cpus == {c \in CpuSet : Runs(c, t)}
<1>1. PICK c \in CpuSet : c = t_cpu[t]
  BY Zenon DEF SchedInv, SchedTyped
<1>2. /\ Located(t) /\ t_state[t] \in ThreadStates
      /\ \A d \in CpuSet : IsInjective(c_runqueue[d])
      /\ t \in Range(wc_threads) => t_state[t] = "S_SLEEP"
  BY Zenon DEF SchedInv, SchedTyped, ListsOk, WaitOk
<1>3. \A d \in CpuSet :
        /\ t \in Queued(d) => d = c /\ t_state[t] = "S_READY" /\ t \notin Victims(c) /\ ~Runs(c, t)
        /\ t \in Victims(d) => d = c /\ t_state[t] = "S_READY" /\ ~Runs(c, t)
        /\ t \in Dying(d) => d = c /\ t_state[t] = "S_ZOMBIE"
        /\ Runs(d, t) => d = c /\ t_state[t] \in {"S_RUN", "S_READY"}
  BY <1>1, Places, Zenon
<1>4. R = IF t \in Queued(c) THEN {<<"runq", c>>} ELSE {}
  BY <1>3, Zenon DEF Queued
<1>5. V = IF t \in Victims(c) THEN {<<"victim", c>>} ELSE {}
  BY <1>3, Zenon DEF Victims
<1>6. Z = IF t \in Dying(c) THEN {<<"zomb", c>>} ELSE {}
  BY <1>3, Zenon DEF Dying
<1>7. cpus = IF Runs(c, t) THEN {c} ELSE {}
  BY <1>3, Zenon
<1>8. OnLists(t) = R \cup Z \cup V \cup W
  BY Zenon DEF OnLists
<1>9. /\ Cardinality({}) = 0 /\ Cardinality({<<"runq", c>>}) = 1 /\ Cardinality({<<"victim", c>>}) = 1
      /\ Cardinality({<<"zomb", c>>}) = 1 /\ Cardinality({<<"wchan", 0>>}) = 1 /\ Cardinality({c}) = 1
  BY FS_EmptySet, FS_Singleton, Zenon
<1>10. /\ t_state[t] = "S_RUN" => Runs(c, t)
       /\ t_state[t] = "S_READY" => t \in Queued(c) \/ t \in Victims(c) \/ Runs(c, t)
       /\ t_state[t] = "S_SLEEP" => t \in Range(wc_threads)
       /\ t_state[t] = "S_ZOMBIE" => t \in Dying(c)
  <2>1. sc_pc[c] = "resume" => ~c_isidle[c]
    BY CpuFacts, Zenon DEF CurOk
  <2> QED
    BY <1>1, <1>2, <2>1, ZenonT(30) DEF Located, Runs, CurThread
<1>11. W = IF t \in Range(wc_threads) THEN {<<"wchan", 0>>} ELSE {}
  BY Zenon
<1> HIDE DEF R, Z, V, W, cpus
<1> DEFINE lists == OnLists(t)
<1>12. CASE t \in Queued(c)
  <2>1. lists = {<<"runq", c>>} /\ cpus = {} /\ t_state[t] = "S_READY"
    BY <1>2, <1>3, <1>4, <1>5, <1>6, <1>7, <1>8, <1>11, <1>12, ZenonT(30)
  <2>2. Cardinality(lists) + Cardinality(cpus) = 1
    BY <1>9, <2>1
  <2>3. \A l \in lists : l[1] = "runq"
    BY <2>1, Tagged, Zenon
  <2> HIDE DEF lists
  <2>4. t_state[t] = "S_READY"
    BY <2>1, Zenon
  <2>5. \A l \in lists : t_state[t] = CASE l[1] = "wchan" -> "S_SLEEP"
                                      [] l[1] = "zomb" -> "S_ZOMBIE"
                                      [] OTHER -> "S_READY"
    BY <2>3, <2>4, ZenonT(30)
  <2> QED
    BY <1>2, <2>2, <2>4, <2>5, ZenonT(30) DEF cpus, lists
<1>13. CASE t \in Victims(c)
  <2>1. lists = {<<"victim", c>>} /\ cpus = {} /\ t_state[t] = "S_READY"
    BY <1>2, <1>3, <1>4, <1>5, <1>6, <1>7, <1>8, <1>11, <1>13, ZenonT(30)
  <2>2. Cardinality(lists) + Cardinality(cpus) = 1
    BY <1>9, <2>1
  <2>3. \A l \in lists : l[1] = "victim"
    BY <2>1, Tagged, Zenon
  <2> HIDE DEF lists
  <2>4. t_state[t] = "S_READY"
    BY <2>1, Zenon
  <2>5. \A l \in lists : t_state[t] = CASE l[1] = "wchan" -> "S_SLEEP"
                                      [] l[1] = "zomb" -> "S_ZOMBIE"
                                      [] OTHER -> "S_READY"
    BY <2>3, <2>4, Zenon
  <2> QED
    BY <1>2, <2>2, <2>4, <2>5, Zenon DEF cpus, lists
<1>14. CASE Runs(c, t)
  <2>1. lists = {} /\ cpus = {c} /\ t_state[t] # "none"
    BY <1>2, <1>3, <1>4, <1>5, <1>6, <1>7, <1>8, <1>11, <1>14, ZenonT(30)
  <2>2. Cardinality(lists) + Cardinality(cpus) = 1
    BY <1>9, <2>1
  <2> QED
    BY <1>2, <2>1, <2>2, Zenon DEF cpus
<1>15. CASE t_state[t] = "S_SLEEP"
  <2>1. lists = {<<"wchan", 0>>} /\ cpus = {}
    BY <1>2, <1>3, <1>4, <1>5, <1>6, <1>7, <1>8, <1>10, <1>11, <1>15, ZenonT(30)
  <2> QED
    <3>1. Cardinality(lists) + Cardinality(cpus) = 1
      BY <1>9, <2>1
    <3>2. \A l \in lists : l[1] = "wchan"
      BY <2>1, Tagged, Zenon
    <3> HIDE DEF lists
    <3>3. \A l \in lists : t_state[t] = CASE l[1] = "wchan" -> "S_SLEEP"
                                        [] l[1] = "zomb" -> "S_ZOMBIE"
                                        [] OTHER -> "S_READY"
      BY <1>15, <3>2, Zenon
    <3>4. t_state[t] # "none"
      BY <1>15, Zenon
    <3> QED
      BY <1>2, <3>1, <3>3, <3>4, ZenonT(30) DEF cpus, lists
<1>16. CASE t_state[t] = "S_ZOMBIE"
  <2>1. lists = {<<"zomb", c>>} /\ cpus = {}
    BY <1>2, <1>3, <1>4, <1>5, <1>6, <1>7, <1>8, <1>10, <1>11, <1>16, ZenonT(30)
  <2>2. Cardinality(lists) + Cardinality(cpus) = 1
    BY <1>9, <2>1
  <2>3. \A l \in lists : l[1] = "zomb"
    BY <2>1, Tagged, Zenon
  <2> HIDE DEF lists
  <2>4. t_state[t] = "S_ZOMBIE"
    BY <2>1, <1>16, Zenon
  <2>5. \A l \in lists : t_state[t] = CASE l[1] = "wchan" -> "S_SLEEP"
                                      [] l[1] = "zomb" -> "S_ZOMBIE"
                                      [] OTHER -> "S_READY"
    BY <2>3, <2>4, Zenon
  <2> QED
    BY <1>2, <2>2, <2>4, <2>5, ZenonT(30) DEF cpus, lists
<1>17. CASE t_state[t] = "none"
  <2>1. lists = {} /\ cpus = {}
    BY <1>2, <1>3, <1>4, <1>5, <1>6, <1>7, <1>8, <1>11, <1>17, ZenonT(30)
  <2> QED
    BY <1>2, <1>9, <1>17, <2>1 DEF cpus
<1> QED
  BY <1>2, <1>10, <1>12, <1>13, <1>14, <1>15, <1>16, <1>17, ZenonT(30) DEF ThreadStates

\* Scheduling is safe for any number of processors and threads: on every step of
\* SchedSpec each live thread is in exactly one place and its state says which, no
\* kernel stack is shared, and no processor idles unwoken beside its run queue.
THEOREM SchedulerSafe == SchedSpec => []SchedSafe
<1>1. SchedInv => SchedSafe
  <2> SUFFICES ASSUME SchedInv PROVE SchedSafe
    BY Zenon
  <2>1. StackOwned
    <3> SUFFICES ASSUME NEW c \in CpuSet
                 PROVE  /\ t_cpu[c_curthread[c]] = c /\ t_state[c_curthread[c]] # "none"
                        /\ \A d \in CpuSet \ {c} : /\ c_curthread[d] # c_curthread[c]
                                                   /\ c_curthread[c] \notin Range(c_runqueue[d])
      BY Zenon DEF StackOwned, CurThread
    <3>1. t_cpu[c_curthread[c]] = c /\ t_state[c_curthread[c]] # "none"
      BY CpuFacts, Zenon DEF CurOk
    <3>2. ASSUME NEW d \in CpuSet, d # c
          PROVE  c_curthread[d] # c_curthread[c] /\ c_curthread[c] \notin Range(c_runqueue[d])
      <4>1. t_cpu[c_curthread[d]] = d
        BY CpuFacts, Zenon DEF CurOk
      <4>2. \A u \in Range(c_runqueue[d]) : t_cpu[u] = d
        BY CpuFacts, Zenon DEF ListsOk, Queued
      <4> QED
        BY <3>1, <3>2, <4>1, <4>2, Zenon
    <3> QED
      BY <3>1, <3>2, Zenon
  <2>2. IdleIsWoken
    BY Zenon DEF IdleIsWoken, SchedInv, StepOk
  <2> QED
    BY <2>1, <2>2, OnePlace, Zenon DEF SchedSafe
<1> QED
  BY <1>1, SchedStart, SchedStep, PTL DEF SchedSpec
=============================================================================
