--------------------------- MODULE OpenFileCounts ---------------------------
(***************************************************************************)
(* The counts of OpenFile: BInv, the part of the inductive invariant of    *)
(* OpenFileProofs that says whom countRef and vn_refcount count, and that  *)
(* open, close and dup2 keep it.  What only the proof of CallsB needs is a *)
(* step of it.                                                             *)
(***************************************************************************)
EXTENDS OpenFileTables, FiniteSetTheorems, TLAPS

\* The default prover of a leaf that names none.
USE Zenon

\* The references that are counted: a descriptor <<p, f>>, or <<p, -1>> for the one
\* that an opener or a closer has in hand.
Tokens == Users \X (Fds \cup {-1})

\* fork has stored the descriptor f of p and not yet counted it.
Copying(p, f) == \E a \in Users : pc[a] = "f_write" /\ other[a] = p /\ f = fd[a]

\* dup2 has.
Dupping(p, f) == pc[p] = "u_incr" /\ f = fd[p]

\* The slot, and the vnode, that a reference is counted for.
Slot(p, f) ==
  IF f = -1 THEN IF pc[p] \in {"o_fd", "c_lock"} THEN of[p] ELSE NULL
  ELSE IF Dupping(p, f) \/ Copying(p, f) THEN NULL ELSE fileTable[p][f]
Vnode(p, f) ==
  IF f = -1
  THEN IF pc[p] = "c_lock" THEN vn[of[p]]
       ELSE IF pc[p] \in {"o_slot", "o_fd", "c_rel", "c_vfs"} THEN v[p] ELSE NULL
  ELSE IF fileTable[p][f] = NULL \/ Dupping(p, f) THEN NULL
       ELSE vn[fileTable[p][f]]
SlotOf == [r \in Tokens |-> Slot(r[1], r[2])]
VnodeOf == [r \in Tokens |-> Vnode(r[1], r[2])]

\* The number of references that a map gives to i.
Count(s, i) == Cardinality({r \in Tokens : s[r] = i})

\* countRef is right wherever there is a reference, and the file is open.
Counted ==
  \A i \in Files : Count(SlotOf, i) # 0 =>
    countRef[i] = Count(SlotOf, i) /\ vn[i] # NULL /\ of_lock[i] # "none"

\* A vnode has a reference for each; it may have more.
VnodeCounted ==
  \A x \in Vnodes : Count(VnodeOf, x) <= vn_refcount[x] /\ vn_refcount[x] <= MaxRefs

\* The opener's slot is its own, and has its vnode.
Opening ==
  \A a \in Users : pc[a] = "o_fd" =>
    /\ \A r \in Tokens : SlotOf[r] = of[a] => r = <<a, -1>>
    /\ vn[of[a]] = v[a]

\* The slot of a closer is free, and nobody else closes it.
ClosePcs == {"c_rel", "c_vfs", "c_destroy"}
Closing ==
  \A a \in Users : pc[a] \in ClosePcs =>
    /\ vn[of[a]] = NULL
    /\ of_lock[of[a]] = IF pc[a] = "c_rel" THEN a ELSE "free"
    /\ pc[a] = "c_rel" => v[a] \in Vnodes
ClosingOnce ==
  \A a, b \in Users : pc[a] \in ClosePcs /\ pc[b] \in ClosePcs /\ of[a] = of[b] => a = b

\* The invariant of the states before a race.
BInv == Counted /\ VnodeCounted /\ Opening /\ Closing /\ ClosingOnce /\ fault = "none"
-----------------------------------------------------------------------------
\* There are finitely many references.
LEMMA TokensFinite == IsFiniteSet(Tokens)
<1>1. IsFiniteSet(Fds)
  BY SMT, FS_Interval, Constants DEF Fds
<1>2. IsFiniteSet(Fds \cup {-1})
  BY <1>1, FS_AddElement
<1>3. IsFiniteSet(Users)
  BY OpenFileAssumption
<1> QED
  BY <1>2, <1>3, FS_Product DEF Tokens

\* The count of i under a map.
LEMMA CountNat ==
  ASSUME NEW s, NEW i
  PROVE  /\ IsFiniteSet({r \in Tokens : s[r] = i}) /\ Count(s, i) \in Nat
         /\ \A t \in Tokens : s[t] = i => Count(s, i) # 0
         /\ Count(s, i) # 0 => \E t \in Tokens : s[t] = i
<1> DEFINE A == {r \in Tokens : s[r] = i}
<1>1. IsFiniteSet(A)
  <2>1. A \in SUBSET Tokens
    OBVIOUS
  <2> QED
    BY <2>1, TokensFinite, FS_Subset
<1>2. Cardinality(A) \in Nat /\ (Cardinality(A) = 0 <=> A = {})
  BY <1>1, FS_CardinalityType, FS_EmptySet
<1> QED
  BY <1>1, <1>2 DEF Count

\* One reference changes.
CountChange(s, z, t, i) ==
  /\ (s[t] = i <=> z[t] = i) => Count(z, i) = Count(s, i)
  /\ s[t] # i /\ z[t] = i => Count(z, i) = Count(s, i) + 1
  /\ s[t] = i /\ z[t] # i => Count(z, i) = Count(s, i) - 1
\* When a map changes at one reference, the count of every value changes
\* accordingly.
LEMMA CountOne ==
  ASSUME NEW s, NEW z, NEW t \in Tokens, \A r \in Tokens \ {t} : z[r] = s[r], NEW i
  PROVE  CountChange(s, z, t, i)
<1> DEFINE A == {r \in Tokens : s[r] = i}
           B == {r \in Tokens : z[r] = i}
<1>1. IsFiniteSet(A)
  BY CountNat
<1>2. ASSUME s[t] = i <=> z[t] = i PROVE B = A
  BY <1>2
<1>3. ASSUME s[t] # i, z[t] = i PROVE B = A \cup {t} /\ t \notin A
  BY <1>3
<1>4. ASSUME s[t] = i, z[t] # i PROVE B = A \ {t} /\ t \in A
  BY SMT, <1>4
<1>5. t \notin A => Cardinality(A \cup {t}) = Cardinality(A) + 1
  BY <1>1, FS_AddElement
<1>6. t \in A => Cardinality(A \ {t}) = Cardinality(A) - 1
  BY <1>1, FS_RemoveElement
<1>7. Count(s, i) = Cardinality(A) /\ Count(z, i) = Cardinality(B)
  BY DEF Count
<1> HIDE DEF A, B
<1> QED
  BY <1>2, <1>3, <1>4, <1>5, <1>6, <1>7 DEF CountChange

\* A reference moves from t to u.
Moves(s, z, t, u) ==
  /\ z[u] = s[t] /\ z[t] = s[u]
  /\ \A r \in Tokens : r # t /\ r # u => z[r] = s[r]

\* A reference is a process with a descriptor or with -1.
LEMMA TokenParts ==
  /\ \A p \in Users : <<p, -1>> \in Tokens /\ \A f \in Fds : <<p, f>> \in Tokens /\ <<p, f>> # <<p, -1>>
  /\ \A r \in Tokens : \E p \in Users, f \in Fds \cup {-1} : r = <<p, f>>
<1>1. -1 \notin Fds
  BY SMT, Constants
<1>2. \A p \in Users, f \in Fds \cup {-1} : <<p, f>> \in Tokens
  BY SMT DEF Tokens
<1>3. \A r \in Tokens : \E p \in Users, f \in Fds \cup {-1} : r = <<p, f>>
  BY SMT DEF Tokens
<1>4. \A p \in Users : \A f \in Fds : <<p, f>> # <<p, -1>>
  BY SMT, <1>1
<1> QED
  BY <1>2, <1>3, <1>4

\* The maps, reference by reference.
LEMMA MapParts ==
  ASSUME NEW p \in Users
  PROVE  /\ SlotOf[<<p, -1>>] = (IF pc[p] \in {"o_fd", "c_lock"} THEN of[p] ELSE NULL)
         /\ VnodeOf[<<p, -1>>] = (IF pc[p] = "c_lock" THEN vn[of[p]]
                                  ELSE IF pc[p] \in {"o_slot", "o_fd", "c_rel", "c_vfs"} THEN v[p] ELSE NULL)
         /\ \A f \in Fds : SlotOf[<<p, f>>] = IF Dupping(p, f) \/ Copying(p, f) THEN NULL ELSE fileTable[p][f]
         /\ \A f \in Fds : VnodeOf[<<p, f>>] = IF fileTable[p][f] = NULL \/ Dupping(p, f) THEN NULL
                                               ELSE vn[fileTable[p][f]]
<1>1. -1 \notin Fds
  BY SMT, Constants
<1>2. <<p, -1>> \in Tokens /\ \A f \in Fds : <<p, f>> \in Tokens
  BY TokenParts
<1>3. \A f \in Fds \cup {-1} : SlotOf[<<p, f>>] = Slot(p, f) /\ VnodeOf[<<p, f>>] = Vnode(p, f)
  BY SMT, <1>2 DEF SlotOf, VnodeOf
<1>4. SlotOf[<<p, -1>>] = Slot(p, -1) /\ VnodeOf[<<p, -1>>] = Vnode(p, -1)
  BY <1>3
<1>5. \A f \in Fds : f # -1
  BY <1>1
<1> QED
  BY <1>3, <1>4, <1>5 DEF Slot, Vnode

\* The same after a step.
LEMMA MapPartsNext ==
  ASSUME NEW p \in Users
  PROVE  /\ SlotOf'[<<p, -1>>] = (IF pc'[p] \in {"o_fd", "c_lock"} THEN of'[p] ELSE NULL)
         /\ VnodeOf'[<<p, -1>>] = (IF pc'[p] = "c_lock" THEN vn'[of'[p]]
                                   ELSE IF pc'[p] \in {"o_slot", "o_fd", "c_rel", "c_vfs"} THEN v'[p] ELSE NULL)
         /\ \A f \in Fds : SlotOf'[<<p, f>>] =
              IF Dupping(p, f)' \/ Copying(p, f)' THEN NULL ELSE fileTable'[p][f]
         /\ \A f \in Fds : VnodeOf'[<<p, f>>] =
              IF fileTable'[p][f] = NULL \/ Dupping(p, f)' THEN NULL ELSE vn'[fileTable'[p][f]]
<1>1. -1 \notin Fds
  BY SMT, Constants
<1>2. <<p, -1>> \in Tokens /\ \A f \in Fds : <<p, f>> \in Tokens
  BY TokenParts
<1>3. \A f \in Fds \cup {-1} : SlotOf'[<<p, f>>] = Slot(p, f)' /\ VnodeOf'[<<p, f>>] = Vnode(p, f)'
  BY SMT, <1>2 DEF SlotOf, VnodeOf
<1>4. SlotOf'[<<p, -1>>] = Slot(p, -1)' /\ VnodeOf'[<<p, -1>>] = Vnode(p, -1)'
  BY <1>3
<1>5. \A f \in Fds : f # -1
  BY <1>1
<1> QED
  BY <1>3, <1>4, <1>5 DEF Slot, Vnode

\* Nobody copies into the table of a process that runs.
LEMMA RunsCopying ==
  ASSUME AInv, NEW p \in Users, pc[p] # "none", NEW f
  PROVE  ~Copying(p, f)
BY RunsAlone DEF AInv, Copying, Actors

\* Only CopyRead and CopyWrite change what is being copied.
LEMMA CopyingSame ==
  ASSUME NEW a \in Actors, Alone(a), pc[a] # "f_write", pc'[a] # "f_write",
         \A b \in Actors \ {a} : other'[b] = other[b], NEW p, NEW f
  PROVE  Copying(p, f)' <=> Copying(p, f)
BY DEF Copying, Alone, Actors

\* The references of a process that runs, and after a step of its own.
RowSlots(a) ==
  /\ SlotOf[<<a, -1>>] = (IF pc[a] \in {"o_fd", "c_lock"} THEN of[a] ELSE NULL)
  /\ \A f \in Fds : SlotOf[<<a, f>>] = IF Dupping(a, f) THEN NULL ELSE fileTable[a][f]
RowVnodes(a) ==
  /\ VnodeOf[<<a, -1>>] = (IF pc[a] = "c_lock" THEN vn[of[a]]
                           ELSE IF pc[a] \in {"o_slot", "o_fd", "c_rel", "c_vfs"} THEN v[a] ELSE NULL)
  /\ \A f \in Fds : VnodeOf[<<a, f>>] = IF fileTable[a][f] = NULL \/ Dupping(a, f) THEN NULL
                                        ELSE vn[fileTable[a][f]]

\* A slot that a descriptor leads to has a counted descriptor.
LEMMA Used ==
  ASSUME AInv, NEW p \in Users, NEW f \in Fds, fileTable[p][f] # NULL
  PROVE  \E q \in Users, g \in Fds : SlotOf[<<q, g>>] = fileTable[p][f]
<1>0. Owners /\ Dups /\ Copied /\ TypeOK
  BY DEF AInv, Tables
<1>1. CASE ~Dupping(p, f) /\ ~Copying(p, f)
  BY <1>1, MapParts
<1>2. CASE Dupping(p, f)
  <2>1. pc[p] = "u_incr" /\ f = fd[p] /\ old[p] # NULL /\ fileTable[p][f] = old[p]
    BY <1>0, <1>2 DEF Dups, DupAt, Dupping
  <2>2. PICK g \in Fds : g # fd[p] /\ fileTable[p][g] = old[p]
    BY <1>0, <2>1 DEF Dups, DupAt
  <2>3. ~Dupping(p, g) /\ ~Copying(p, g)
    BY <2>1, <2>2, RunsCopying DEF Dupping
  <2> QED
    <3>1. SlotOf[<<p, g>>] = fileTable[p][g]
      BY <2>3, MapParts
    <3> QED
      BY <2>1, <2>2, <3>1
<1>3. CASE Copying(p, f)
  <2>1. PICK a \in Users : pc[a] = "f_write" /\ other[a] = p /\ f = fd[a]
    BY <1>3 DEF Copying
  <2>2. fileTable[a][f] = fileTable[p][f]
    BY SMT, <1>0, <2>1 DEF Copied
  <2>3. ~Dupping(a, f) /\ ~Copying(a, f)
    BY <2>1, RunsCopying DEF Dupping
  <2> QED
    <3>1. SlotOf[<<a, f>>] = fileTable[a][f]
      BY <2>3, MapParts
    <3> QED
      BY <2>2, <3>1
<1> QED
  BY <1>1, <1>2, <1>3

\* The threads other than a that open or close a file stay where they are.
Stays(a) ==
  \A b \in Users \ {a} : pc'[b] \in {"o_fd"} \cup ClosePcs =>
    pc'[b] = pc[b] /\ of'[b] = of[b] /\ v'[b] = v[b]

\* A step of one thread puts no other thread into an open or a close.
LEMMA StaysAlone ==
  ASSUME NEW a \in Actors, Alone(a)
  PROVE  Stays(a)
BY DEF Alone, Stays, Actors

\* An opener keeps its slot to itself: a reference that is new to a slot comes from a
\* reference that was there, or the slot was free.
LEMMA OpeningStep ==
  ASSUME AInv, BInv, NEW a \in Actors, Stays(a),
         \A r \in Tokens : \/ SlotOf'[r] \in {SlotOf[r], NULL}
                           \/ vn[SlotOf'[r]] = NULL
                           \/ \E q \in Tokens : SlotOf[q] = SlotOf'[r] /\ \A b \in Users \ {a} : q # <<b, -1>>,
         \A b \in Users \ {a} : pc[b] = "o_fd" => vn'[of[b]] = vn[of[b]],
         a \in Users /\ pc'[a] = "o_fd" =>
           (\A r \in Tokens : SlotOf'[r] = of'[a] => r = <<a, -1>>) /\ vn'[of'[a]] = v'[a]
  PROVE  Opening'
<1> SUFFICES ASSUME NEW b \in Users, b # a, pc'[b] = "o_fd"
             PROVE  (\A r \in Tokens : SlotOf'[r] = of'[b] => r = <<b, -1>>) /\ vn'[of'[b]] = v'[b]
  BY DEF Opening
<1>1. pc[b] = "o_fd" /\ of'[b] = of[b] /\ v'[b] = v[b]
  BY DEF Stays
<1>2. (\A r \in Tokens : SlotOf[r] = of[b] => r = <<b, -1>>) /\ vn[of[b]] = v[b]
  BY <1>1 DEF BInv, Opening
<1>3. of[b] \in Files /\ v[b] \in Vnodes
  BY <1>1 DEF AInv, Locals, FileInHand, VnodeInHand
<1>4. vn'[of[b]] = v[b]
  BY <1>1, <1>2
<1>5. ASSUME NEW r \in Tokens, SlotOf'[r] = of[b] PROVE r = <<b, -1>>
  <2>1. of[b] # NULL /\ vn[of[b]] # NULL
    BY <1>2, <1>3, Constants
  <2>2. SlotOf[r] = of[b] \/ \E q \in Tokens : SlotOf[q] = of[b] /\ \A d \in Users \ {a} : q # <<d, -1>>
    BY <1>5, <2>1
  <2> QED
    BY <1>2, <2>2
<1> QED
  BY <1>1, <1>4, <1>5

\* When a closer keeps its slot empty and its lock, and a new closer has a slot
\* of its own, the close phases stay separate.
LEMMA ClosingStep ==
  ASSUME BInv, NEW a \in Actors, Stays(a),
         \A b \in Users \ {a} : pc[b] \in ClosePcs =>
           vn'[of[b]] = NULL /\ of_lock'[of[b]] = of_lock[of[b]],
         a \in Users /\ pc'[a] \in ClosePcs =>
           /\ vn'[of'[a]] = NULL
           /\ of_lock'[of'[a]] = IF pc'[a] = "c_rel" THEN a ELSE "free"
           /\ pc'[a] = "c_rel" => v'[a] \in Vnodes
           /\ \A b \in Users \ {a} : pc[b] \in ClosePcs => of[b] # of'[a]
  PROVE  Closing' /\ ClosingOnce'
<1>1. \A b \in Users \ {a} : pc'[b] \in ClosePcs => pc'[b] = pc[b] /\ of'[b] = of[b] /\ v'[b] = v[b]
  BY DEF Stays
<1>2. Closing'
  <2> SUFFICES ASSUME NEW b \in Users, b # a, pc'[b] \in ClosePcs
               PROVE  /\ vn'[of'[b]] = NULL
                      /\ of_lock'[of'[b]] = IF pc'[b] = "c_rel" THEN b ELSE "free"
                      /\ pc'[b] = "c_rel" => v'[b] \in Vnodes
    BY DEF Closing
  <2>1. pc'[b] = pc[b] /\ of'[b] = of[b] /\ v'[b] = v[b]
    BY <1>1
  <2> QED
    BY <2>1 DEF BInv, Closing
<1>3. ClosingOnce'
  <2> SUFFICES ASSUME NEW b \in Users, NEW d \in Users, pc'[b] \in ClosePcs, pc'[d] \in ClosePcs,
                      of'[b] = of'[d], b # d
               PROVE  FALSE
    BY DEF ClosingOnce
  <2>1. CASE b # a /\ d # a
    BY <1>1, <2>1 DEF BInv, ClosingOnce
  <2>2. CASE b = a
    BY <1>1, <2>2
  <2>3. CASE d = a
    BY <1>1, <2>3
  <2> QED
    BY <2>1, <2>2, <2>3
<1> QED
  BY <1>2, <1>3

\* At most one slot changes.
LEMMA CountedStep ==
  ASSUME BInv, NEW i \in Files,
         \A j \in Files \ {i} : /\ Count(SlotOf', j) = Count(SlotOf, j)
                                /\ countRef'[j] = countRef[j] /\ vn'[j] = vn[j]
                                /\ of_lock[j] # "none" => of_lock'[j] # "none",
         Count(SlotOf', i) # 0 =>
           countRef'[i] = Count(SlotOf', i) /\ vn'[i] # NULL /\ of_lock'[i] # "none"
  PROVE  Counted'
<1> SUFFICES ASSUME NEW j \in Files, Count(SlotOf', j) # 0
             PROVE  countRef'[j] = Count(SlotOf', j) /\ vn'[j] # NULL /\ of_lock'[j] # "none"
  BY DEF Counted
<1> QED
  BY DEF BInv, Counted

\* References to a vnode that are given up, or that move, need no change of its count.
LEMMA VnodesKept ==
  ASSUME BInv, UNCHANGED vn_refcount, AInv,
         \A x \in Vnodes : Count(VnodeOf', x) = Count(VnodeOf, x) \/ Count(VnodeOf', x) = Count(VnodeOf, x) - 1
  PROVE  VnodeCounted'
<1> SUFFICES ASSUME NEW x \in Vnodes
             PROVE  Count(VnodeOf', x) <= vn_refcount[x] /\ vn_refcount[x] <= MaxRefs
  BY DEF VnodeCounted
<1>1. Count(VnodeOf, x) <= vn_refcount[x] /\ vn_refcount[x] <= MaxRefs
  BY DEF BInv, VnodeCounted
<1>2. Count(VnodeOf, x) \in Nat /\ Count(VnodeOf', x) \in Nat
  BY CountNat
<1>3. vn_refcount[x] \in 0..(MaxRefs + 1)
  BY DEF AInv, TypeOK
<1>4. Count(VnodeOf', x) = Count(VnodeOf, x) \/ Count(VnodeOf', x) = Count(VnodeOf, x) - 1
  BY SMT
<1> QED
  BY SMT, <1>1, <1>2, <1>3, <1>4, Constants

\* vnode_incref for a new reference, vnode_decref for one that is given up.
LEMMA VnodesUp ==
  ASSUME AInv, BInv, NEW x \in Vnodes, vn_refcount[x] < MaxRefs, vnode_incref(x),
         NEW t \in Tokens, \A r \in Tokens \ {t} : VnodeOf'[r] = VnodeOf[r], VnodeOf[t] = NULL
  PROVE  VnodeOf'[t] = x => VnodeCounted'
<1> SUFFICES ASSUME VnodeOf'[t] = x, NEW y \in Vnodes
             PROVE  Count(VnodeOf', y) <= vn_refcount'[y] /\ vn_refcount'[y] <= MaxRefs
  BY DEF VnodeCounted
<1>1. Count(VnodeOf, y) <= vn_refcount[y] /\ vn_refcount[y] <= MaxRefs
  BY DEF BInv, VnodeCounted
<1>2. Count(VnodeOf, y) \in Nat /\ Count(VnodeOf', y) \in Nat
  BY CountNat
<1>3. vn_refcount \in [Vnodes -> 0..(MaxRefs + 1)]
  BY DEF AInv, TypeOK
<1>4. CountChange(VnodeOf, VnodeOf', t, y)
  BY CountOne
<1>5. vn_refcount'[y] = IF y = x THEN vn_refcount[y] + 1 ELSE vn_refcount[y]
  BY <1>3 DEF vnode_incref
<1>6. VnodeOf[t] # y /\ vn_refcount[y] \in 0..(MaxRefs + 1)
  BY <1>3, Constants
<1>7. Count(VnodeOf', y) = IF y = x THEN Count(VnodeOf, y) + 1 ELSE Count(VnodeOf, y)
  BY <1>4, <1>6 DEF CountChange
<1> QED
  BY SMT, <1>1, <1>2, <1>5, <1>6, <1>7, Constants

\* vnode_decref with one reference less keeps the counts of the vnodes.
LEMMA VnodesDown ==
  ASSUME AInv, BInv, NEW x \in Vnodes, vnode_decref(x),
         NEW t \in Tokens, \A r \in Tokens \ {t} : VnodeOf'[r] = VnodeOf[r], VnodeOf[t] = x
  PROVE  VnodeOf'[t] = NULL => VnodeCounted'
<1> SUFFICES ASSUME VnodeOf'[t] = NULL, NEW y \in Vnodes
             PROVE  Count(VnodeOf', y) <= vn_refcount'[y] /\ vn_refcount'[y] <= MaxRefs
  BY DEF VnodeCounted
<1>1. Count(VnodeOf, y) <= vn_refcount[y] /\ vn_refcount[y] <= MaxRefs
  BY DEF BInv, VnodeCounted
<1>2. Count(VnodeOf, y) \in Nat /\ Count(VnodeOf', y) \in Nat
  BY CountNat
<1>3. vn_refcount \in [Vnodes -> 0..(MaxRefs + 1)]
  BY DEF AInv, TypeOK
<1>4. CountChange(VnodeOf, VnodeOf', t, y)
  BY CountOne
<1>5. vn_refcount'[y] = IF y = x THEN vn_refcount[y] - 1 ELSE vn_refcount[y]
  BY <1>3 DEF vnode_decref
<1>6. NULL # y /\ vn_refcount[y] \in 0..(MaxRefs + 1)
  BY <1>3, Constants
<1>7. Count(VnodeOf', y) = IF y = x THEN Count(VnodeOf, y) - 1 ELSE Count(VnodeOf, y)
  BY <1>4, <1>6 DEF CountChange
<1> QED
  BY SMT, <1>1, <1>2, <1>5, <1>6, <1>7, Constants

\* A vnode with a reference is there.
LEMMA VnodeThere ==
  ASSUME AInv, BInv, NEW t \in Tokens, VnodeOf[t] \in Vnodes
  PROVE  vn_refcount[VnodeOf[t]] # 0
<1>1. Count(VnodeOf, VnodeOf[t]) # 0 /\ Count(VnodeOf, VnodeOf[t]) \in Nat
  BY CountNat
<1>2. /\ Count(VnodeOf, VnodeOf[t]) <= vn_refcount[VnodeOf[t]]
      /\ vn_refcount[VnodeOf[t]] \in 0..(MaxRefs + 1)
  BY DEF BInv, VnodeCounted, AInv, TypeOK
<1> QED
  BY SMT, <1>1, <1>2

\* A slot with a reference is open.
LEMMA SlotThere ==
  ASSUME AInv, BInv, NEW t \in Tokens, SlotOf[t] \in Files
  PROVE  /\ vn[SlotOf[t]] \in Vnodes /\ of_lock[SlotOf[t]] # "none"
         /\ countRef[SlotOf[t]] = Count(SlotOf, SlotOf[t])
<1>1. Count(SlotOf, SlotOf[t]) # 0
  BY CountNat
<1> QED
  BY <1>1 DEF BInv, Counted, AInv, TypeOK

\* A descriptor leads to an open file with a vnode.
LEMMA FdThere ==
  ASSUME AInv, BInv, NEW p \in Users, NEW f \in Fds, fileTable[p][f] # NULL
  PROVE  /\ vn[fileTable[p][f]] \in Vnodes /\ of_lock[fileTable[p][f]] # "none"
         /\ vn_refcount[vn[fileTable[p][f]]] # 0 /\ fileTable[p][f] \in Files
<1> DEFINE i == fileTable[p][f]
<1>1. PICK q \in Users, g \in Fds : SlotOf[<<q, g>>] = i
  BY Used
<1>2. i \in Files /\ <<q, g>> \in Tokens
  BY FdTyped, TokenParts
<1>3. vn[i] \in Vnodes /\ of_lock[i] # "none"
  BY <1>1, <1>2, SlotThere
<1>4. ~Dupping(q, g) /\ fileTable[q][g] = i
  <2>1. SlotOf[<<q, g>>] = IF Dupping(q, g) \/ Copying(q, g) THEN NULL ELSE fileTable[q][g]
    BY MapParts
  <2> QED
    BY <1>1, <2>1
<1>5. VnodeOf[<<q, g>>] = vn[i]
  <2>1. VnodeOf[<<q, g>>] = IF fileTable[q][g] = NULL \/ Dupping(q, g) THEN NULL ELSE vn[fileTable[q][g]]
    BY MapParts
  <2> QED
    BY <1>4, <2>1
<1> QED
  BY <1>2, <1>3, <1>5, VnodeThere

\* No reference changes.
TokPcs == {"u_incr", "o_fd", "c_lock", "o_slot", "c_rel", "c_vfs", "f_write"}
\* A step that touches no table and enters no call in hand changes no reference.
LEMMA SameMaps ==
  ASSUME UNCHANGED <<fileTable, vn>>,
         \A b \in Users :
           \/ pc'[b] = pc[b] /\ of'[b] = of[b] /\ fd'[b] = fd[b] /\ v'[b] = v[b] /\ other'[b] = other[b]
           \/ pc[b] \notin TokPcs /\ pc'[b] \notin TokPcs
           \/ pc[b] = "c_rel" /\ pc'[b] = "c_vfs" /\ v'[b] = v[b]
  PROVE  \A r \in Tokens : SlotOf'[r] = SlotOf[r] /\ VnodeOf'[r] = VnodeOf[r]
<1> SUFFICES ASSUME NEW p \in Users, NEW f \in Fds
             PROVE  /\ SlotOf'[<<p, f>>] = SlotOf[<<p, f>>] /\ VnodeOf'[<<p, f>>] = VnodeOf[<<p, f>>]
                    /\ SlotOf'[<<p, -1>>] = SlotOf[<<p, -1>>] /\ VnodeOf'[<<p, -1>>] = VnodeOf[<<p, -1>>]
  <2> SUFFICES ASSUME NEW r \in Tokens PROVE SlotOf'[r] = SlotOf[r] /\ VnodeOf'[r] = VnodeOf[r]
    OBVIOUS
  <2>1. PICK p \in Users, f \in Fds \cup {-1} : r = <<p, f>>
    BY TokenParts
  <2>2. CASE f \in Fds
    BY <2>1, <2>2
  <2>3. CASE f = -1
    <3>1. 0 \in Fds
      BY Constants
    <3> QED
      BY <2>1, <2>3, <3>1
  <2> QED
    BY <2>2, <2>3
<1>1. Dupping(p, f)' <=> Dupping(p, f)
  BY DEF Dupping, TokPcs
<1>2. Copying(p, f)' <=> Copying(p, f)
  BY DEF Copying, TokPcs
<1>3. /\ SlotOf[<<p, -1>>] = (IF pc[p] \in {"o_fd", "c_lock"} THEN of[p] ELSE NULL)
      /\ VnodeOf[<<p, -1>>] = (IF pc[p] = "c_lock" THEN vn[of[p]]
                               ELSE IF pc[p] \in {"o_slot", "o_fd", "c_rel", "c_vfs"} THEN v[p] ELSE NULL)
      /\ SlotOf[<<p, f>>] = (IF Dupping(p, f) \/ Copying(p, f) THEN NULL ELSE fileTable[p][f])
      /\ VnodeOf[<<p, f>>] = IF fileTable[p][f] = NULL \/ Dupping(p, f) THEN NULL ELSE vn[fileTable[p][f]]
  BY MapParts
<1>4. /\ SlotOf'[<<p, -1>>] = (IF pc'[p] \in {"o_fd", "c_lock"} THEN of'[p] ELSE NULL)
      /\ VnodeOf'[<<p, -1>>] = (IF pc'[p] = "c_lock" THEN vn'[of'[p]]
                               ELSE IF pc'[p] \in {"o_slot", "o_fd", "c_rel", "c_vfs"} THEN v'[p] ELSE NULL)
      /\ SlotOf'[<<p, f>>] = (IF Dupping(p, f)' \/ Copying(p, f)' THEN NULL ELSE fileTable'[p][f])
      /\ VnodeOf'[<<p, f>>] = IF fileTable'[p][f] = NULL \/ Dupping(p, f)' THEN NULL ELSE vn'[fileTable'[p][f]]
  BY MapPartsNext
<1>5. SlotOf'[<<p, f>>] = SlotOf[<<p, f>>] /\ VnodeOf'[<<p, f>>] = VnodeOf[<<p, f>>]
  BY <1>1, <1>2, <1>3, <1>4
<1>6. SlotOf'[<<p, -1>>] = SlotOf[<<p, -1>>]
  BY <1>3, <1>4 DEF TokPcs
<1>7. VnodeOf'[<<p, -1>>] = VnodeOf[<<p, -1>>]
  <2>1. CASE pc'[p] = pc[p] /\ of'[p] = of[p] /\ v'[p] = v[p]
    BY SMT, <1>3, <1>4, <2>1
  <2>2. CASE ~(pc'[p] = pc[p] /\ of'[p] = of[p] /\ v'[p] = v[p])
    BY <1>3, <1>4, <2>2 DEF TokPcs
  <2> QED
    BY <2>1, <2>2
<1> QED
  BY <1>5, <1>6, <1>7

\* A step that changes no reference.
LEMMA QuietB ==
  ASSUME AInv, BInv, NEW a \in Actors, Stays(a),
         \A r \in Tokens : SlotOf'[r] = SlotOf[r] /\ VnodeOf'[r] = VnodeOf[r],
         UNCHANGED <<countRef, vn, vn_refcount, fault>>,
         \A j \in Files : vn[j] # NULL /\ of_lock[j] # "none" => of_lock'[j] # "none",
         \A b \in Users \ {a} : pc[b] \in ClosePcs => of_lock'[of[b]] = of_lock[of[b]],
         pc'[a] # "o_fd",
         a \in Users /\ pc'[a] \in ClosePcs =>
           /\ pc[a] \in ClosePcs /\ of'[a] = of[a] /\ pc'[a] # "c_rel" /\ of_lock'[of[a]] = "free"
  PROVE  BInv'
<1>1. \A i : Count(SlotOf', i) = Count(SlotOf, i) /\ Count(VnodeOf', i) = Count(VnodeOf, i)
  <2> TAKE i
  <2>0. (\A r \in Tokens : SlotOf'[r] = SlotOf[r]) /\ \A r \in Tokens : VnodeOf'[r] = VnodeOf[r]
    OBVIOUS
  <2>1. Count(SlotOf', i) = Count(SlotOf, i)
    BY <2>0 DEF Count
  <2>2. Count(VnodeOf', i) = Count(VnodeOf, i)
    BY <2>0 DEF Count
  <2> QED
    BY <2>1, <2>2
<1>2. Counted'
  <2> SUFFICES ASSUME NEW i \in Files, Count(SlotOf', i) # 0
               PROVE  countRef'[i] = Count(SlotOf', i) /\ vn'[i] # NULL /\ of_lock'[i] # "none"
    BY DEF Counted
  <2>1. countRef[i] = Count(SlotOf, i) /\ vn[i] # NULL /\ of_lock[i] # "none"
    BY <1>1 DEF BInv, Counted
  <2> QED
    BY <1>1, <2>1
<1>3. VnodeCounted'
  BY <1>1 DEF BInv, VnodeCounted
<1>4. Opening'
  BY OpeningStep
<1>5. Closing' /\ ClosingOnce'
  <2>1. \A b \in Users : pc[b] \in ClosePcs => vn'[of[b]] = NULL
    BY DEF BInv, Closing
  <2>2. a \in Users /\ pc'[a] \in ClosePcs => \A b \in Users \ {a} : pc[b] \in ClosePcs => of[b] # of'[a]
    BY DEF BInv, ClosingOnce
  <2> QED
    BY <2>1, <2>2, ClosingStep
<1> QED
  BY <1>2, <1>3, <1>4, <1>5 DEF BInv

\* The same for a step of one thread.
LEMMA AloneMaps ==
  ASSUME NEW a \in Actors, Alone(a), \A b \in Actors \ {a} : other'[b] = other[b],
         UNCHANGED <<fileTable, vn>>,
         a \in Users => \/ pc[a] \notin TokPcs /\ pc'[a] \notin TokPcs
                        \/ pc[a] = "c_rel" /\ pc'[a] = "c_vfs" /\ v'[a] = v[a]
  PROVE  \A r \in Tokens : SlotOf'[r] = SlotOf[r] /\ VnodeOf'[r] = VnodeOf[r]
<1>1. \A b \in Users :
        \/ pc'[b] = pc[b] /\ of'[b] = of[b] /\ fd'[b] = fd[b] /\ v'[b] = v[b] /\ other'[b] = other[b]
        \/ pc[b] \notin TokPcs /\ pc'[b] \notin TokPcs
        \/ pc[b] = "c_rel" /\ pc'[b] = "c_vfs" /\ v'[b] = v[b]
  BY DEF Alone, Actors
<1> QED
  BY <1>1, SameMaps

\* The same with of_lock as it was.
LEMMA IdleB ==
  ASSUME AInv, BInv, NEW a \in Actors, Alone(a), \A b \in Actors \ {a} : other'[b] = other[b],
         UNCHANGED <<fileTable, vn, countRef, of_lock, vn_refcount, fault>>,
         pc[a] \notin TokPcs, pc'[a] \notin TokPcs, pc'[a] # "c_destroy"
  PROVE  BInv'
<1>1. pc'[a] # "o_fd" /\ pc'[a] \notin ClosePcs
  BY DEF TokPcs, ClosePcs
<1>2. \A r \in Tokens : SlotOf'[r] = SlotOf[r] /\ VnodeOf'[r] = VnodeOf[r]
  BY AloneMaps
<1>3. Stays(a)
  BY StaysAlone
<1> QED
  BY <1>1, <1>2, <1>3, QuietB

\* The end of a process keeps the counts: its descriptors stay in its table.
LEMMA DieB ==
  ASSUME AInv, BInv, NEW a \in Users, pc[a] \in {"user", "std"}, Die(a),
         fd' = [fd EXCEPT ![a] = 0] \/ fd' = fd,
         UNCHANGED <<fileTable, file_vars, vn_refcount, ft_copy_lock, of, v, old, other, cnt, fault, raced>>
  PROVE  BInv'
<1>0. TypeOK /\ a \in Actors
  BY DEF AInv, Actors
<1>1. Alone(a) /\ pc'[a] = "none"
  BY <1>0 DEF Alone, TypeOK, Die, Goto
<1> QED
  BY <1>0, <1>1, IdleB DEF file_vars, TokPcs

\* The references change at most at the places F of a.
ButFor(s, z, a, F) == \A r \in Tokens : (\A f \in F : r # <<a, f>>) => z[r] = s[r]

\* When no reference to a slot changes, neither does its count.
LEMMA CountedSame ==
  ASSUME BInv, \A r \in Tokens : SlotOf'[r] = SlotOf[r], UNCHANGED <<countRef, vn>>,
         \A j \in Files : vn[j] # NULL /\ of_lock[j] # "none" => of_lock'[j] # "none"
  PROVE  Counted'
<1> SUFFICES ASSUME NEW i \in Files, Count(SlotOf', i) # 0
             PROVE  countRef'[i] = Count(SlotOf', i) /\ vn'[i] # NULL /\ of_lock'[i] # "none"
  BY DEF Counted
<1>1. Count(SlotOf', i) = Count(SlotOf, i)
  BY DEF Count
<1>2. countRef[i] = Count(SlotOf, i) /\ vn[i] # NULL /\ of_lock[i] # "none"
  BY <1>1 DEF BInv, Counted
<1> QED
  BY <1>1, <1>2

\* A reference to a vnode is given up without vnode_decref.
LEMMA VnodesDrop ==
  ASSUME AInv, BInv, NEW t \in Tokens, \A r \in Tokens \ {t} : VnodeOf'[r] = VnodeOf[r],
         VnodeOf'[t] = NULL, UNCHANGED vn_refcount
  PROVE  VnodeCounted'
<1>1. ASSUME NEW x \in Vnodes
      PROVE  Count(VnodeOf', x) = Count(VnodeOf, x) \/ Count(VnodeOf', x) = Count(VnodeOf, x) - 1
  <2>1. CountChange(VnodeOf, VnodeOf', t, x)
    BY CountOne
  <2>2. VnodeOf'[t] # x
    BY Constants
  <2> QED
    BY <2>1, <2>2 DEF CountChange
<1> QED
  BY <1>1, VnodesKept

\* A step that changes no slot and starts no close keeps the close phases.
LEMMA ClosingIdle ==
  ASSUME BInv, NEW a \in Actors, Stays(a), UNCHANGED <<vn, of_lock>>, pc'[a] \notin ClosePcs
  PROVE  Closing' /\ ClosingOnce'
<1>1. \A b \in Users : pc[b] \in ClosePcs => vn'[of[b]] = NULL
  BY DEF BInv, Closing
<1> QED
  BY <1>1, ClosingStep

\* A step that gives no slot a new reference keeps the slot of an opener its own.
LEMMA OpeningIdle ==
  ASSUME AInv, BInv, NEW a \in Actors, Stays(a), UNCHANGED vn, pc'[a] # "o_fd",
         \A r \in Tokens : SlotOf'[r] \in {SlotOf[r], NULL}
  PROVE  Opening'
BY OpeningStep

\* One slot's references change.
LEMMA OneSlot ==
  ASSUME NEW t \in Tokens, \A r \in Tokens \ {t} : SlotOf'[r] = SlotOf[r], NEW i \in Files,
         SlotOf[t] \in {i, NULL}, SlotOf'[t] \in {i, NULL}
  PROVE  /\ \A j \in Files \ {i} : Count(SlotOf', j) = Count(SlotOf, j)
         /\ CountChange(SlotOf, SlotOf', t, i)
<1>1. ASSUME NEW j \in Files PROVE CountChange(SlotOf, SlotOf', t, j)
  BY CountOne
<1>2. ASSUME NEW j \in Files \ {i} PROVE Count(SlotOf', j) = Count(SlotOf, j)
  <2>1. SlotOf[t] # j /\ SlotOf'[t] # j
    <3>1. j # i /\ j # NULL
      BY Constants
    <3> QED
      BY <3>1
  <2> QED
    BY <1>1, <2>1 DEF CountChange
<1> QED
  BY <1>1, <1>2

\* countRef as a natural number.
LEMMA MinusOne ==
  ASSUME NEW c \in Nat, 0 < c, c < CountMod
  PROVE  Minus1(c) = c - 1
BY SMT, Constants DEF Minus1

\* Every reference to a slot is a reference to its vnode.
LEMMA SlotVnode ==
  ASSUME AInv, BInv, NEW r \in Tokens, SlotOf[r] \in Files
  PROVE  VnodeOf[r] = vn[SlotOf[r]]
<1>1. PICK p \in Users, f \in Fds \cup {-1} : r = <<p, f>>
  BY TokenParts
<1>2. CASE f = -1
  <2>1. SlotOf[<<p, -1>>] \in Files
    BY <1>1, <1>2
  <2>2. pc[p] \in {"o_fd", "c_lock"} /\ SlotOf[<<p, -1>>] = of[p]
    BY <2>1, MapParts, Constants
  <2>3. VnodeOf[<<p, -1>>] = vn[of[p]]
    BY <2>2, MapParts DEF BInv, Opening
  <2> QED
    BY SMT, <1>1, <1>2, <2>2, <2>3
<1>3. CASE f \in Fds
  <2>1. SlotOf[<<p, f>>] \in Files
    BY <1>1
  <2>2. SlotOf[<<p, f>>] = fileTable[p][f] /\ ~Dupping(p, f) /\ fileTable[p][f] # NULL
    <3>1. SlotOf[<<p, f>>] = IF Dupping(p, f) \/ Copying(p, f) THEN NULL ELSE fileTable[p][f]
      BY <1>3, MapParts
    <3>2. SlotOf[<<p, f>>] # NULL
      BY <2>1, Constants
    <3> QED
      BY <3>1, <3>2
  <2>3. VnodeOf[<<p, f>>] = vn[fileTable[p][f]]
    BY <1>3, <2>2, MapParts
  <2> QED
    BY SMT, <1>1, <2>2, <2>3
<1> QED
  BY <1>2, <1>3

\* So there is room to count one more.
LEMMA Room ==
  ASSUME AInv, BInv, NEW i \in Files, vn[i] \in Vnodes,
         vn_refcount[vn[i]] < MaxRefs \/ \E t \in Tokens : SlotOf[t] # i /\ VnodeOf[t] = vn[i]
  PROVE  (Count(SlotOf, i) + 1) % CountMod = Count(SlotOf, i) + 1
<1> DEFINE A == {r \in Tokens : SlotOf[r] = i}
           B == {r \in Tokens : VnodeOf[r] = vn[i]}
<1>1. IsFiniteSet(A) /\ IsFiniteSet(B) /\ Count(SlotOf, i) \in Nat /\ Count(VnodeOf, vn[i]) \in Nat
  <2>1. Count(SlotOf, i) \in Nat /\ Count(VnodeOf, vn[i]) \in Nat
    BY CountNat
  <2>2. A \in SUBSET Tokens /\ B \in SUBSET Tokens
    OBVIOUS
  <2> QED
    BY <2>1, <2>2, TokensFinite, FS_Subset
<1>2. \A r \in A : r \in B
  <2> SUFFICES ASSUME NEW r \in Tokens, SlotOf[r] = i PROVE VnodeOf[r] = vn[i]
    OBVIOUS
  <2>1. VnodeOf[r] = vn[SlotOf[r]]
    BY SlotVnode
  <2> QED
    BY SMT, <2>1
<1>3. Count(SlotOf, i) = Cardinality(A) /\ Count(VnodeOf, vn[i]) = Cardinality(B)
  BY DEF Count
<1>4. /\ Count(VnodeOf, vn[i]) <= vn_refcount[vn[i]] /\ vn_refcount[vn[i]] <= MaxRefs
      /\ vn_refcount[vn[i]] \in 0..(MaxRefs + 1)
  BY DEF BInv, VnodeCounted, AInv, TypeOK
<1>5. Cardinality(A) <= Cardinality(B)
  <2>1. A \in SUBSET B
    BY <1>2
  <2> QED
    BY <1>1, <2>1, FS_Subset
<1>6. ASSUME NEW t \in Tokens, SlotOf[t] # i, VnodeOf[t] = vn[i] PROVE Cardinality(A) + 1 <= Cardinality(B)
  <2>1. A \cup {t} \in SUBSET B /\ t \notin A
    BY <1>2, <1>6
  <2>2. Cardinality(A \cup {t}) <= Cardinality(B)
    BY <1>1, <2>1, FS_Subset
  <2>3. Cardinality(A \cup {t}) = Cardinality(A) + 1
    BY <1>1, <2>1, FS_AddElement
  <2> QED
    BY <2>2, <2>3
<1> HIDE DEF A, B
<1>7. Count(SlotOf, i) + 1 < CountMod
  BY SMT, <1>1, <1>3, <1>4, <1>5, <1>6, Constants
<1> QED
  BY SMT, <1>1, <1>7, Constants

\* The maps at one descriptor, before and after a step.
FdMaps(p, f) ==
  /\ SlotOf[<<p, f>>] = IF Dupping(p, f) \/ Copying(p, f) THEN NULL ELSE fileTable[p][f]
  /\ VnodeOf[<<p, f>>] = IF fileTable[p][f] = NULL \/ Dupping(p, f) THEN NULL ELSE vn[fileTable[p][f]]

\* open, close, dup2 and the first opens of a process, step by step, keep what is
\* counted right, unless the step is the race.
LEMMA CallsB ==
  \A a \in Users :
    /\ AInv /\ BInv /\ ~raced'
    /\ \/ sys_open(a) \/ OpenSlot(a) \/ OpenFd(a) \/ std_open(a)
       \/ sys_close(a) \/ CloseLock(a) \/ CloseVfs(a) \/ CloseDestroy(a)
       \/ sys_dup2(a) \/ DupIncr(a)
    => BInv'
\* A reference that moves changes no count.
<1>CountMoves. ASSUME NEW s, NEW z, NEW t \in Tokens, NEW u \in Tokens, Moves(s, z, t, u)
    PROVE  \A i : Count(z, i) = Count(s, i)
  <2> USE <1>CountMoves
  <2> TAKE i
  <2>0. z[u] = s[t] /\ z[t] = s[u] /\ \A r \in Tokens \ {t, u} : z[r] = s[r]
    BY DEF Moves
  <2> DEFINE m == [r \in Tokens |-> IF r = t THEN s[u] ELSE s[r]]
  <2>1. CASE t = u
    BY <2>0, <2>1 DEF Count
  <2>2. CASE t # u
    <3>1. /\ \A r \in Tokens \ {t} : m[r] = s[r] 
          /\ \A r \in Tokens \ {u} : z[r] = m[r]
          /\ m[t] = s[u] /\ m[u] = s[u] /\ z[u] = s[t]
      BY <2>0, <2>2
    <3> HIDE DEF m
    <3>2. CountChange(s, m, t, i) /\ CountChange(m, z, u, i)
      BY <3>1, CountOne
    <3>4. Count(s, i) \in Nat /\ Count(m, i) \in Nat /\ Count(z, i) \in Nat
      BY CountNat
    <3> QED
      BY SMT, <3>1, <3>2, <3>4 DEF CountChange
  <2> QED
    BY <2>1, <2>2
\* Two references to i.
<1>CountTwo. ASSUME NEW s, NEW i, NEW t \in Tokens, NEW u \in Tokens, t # u, s[t] = i, s[u] = i
    PROVE  Count(s, i) > 1
  <2> USE <1>CountTwo
  <2> DEFINE A == {r \in Tokens : s[r] = i}
  <2>1. IsFiniteSet(A) /\ Cardinality(A) \in Nat /\ t \in A /\ u \in A \ {t}
    BY CountNat DEF Count
  <2>2. IsFiniteSet(A \ {t}) /\ Cardinality(A \ {t}) = Cardinality(A) - 1
    BY <2>1, FS_RemoveElement
  <2>3. Cardinality(A \ {t}) # 0 /\ Cardinality(A \ {t}) \in Nat
    BY <2>1, <2>2, FS_EmptySet, FS_CardinalityType
  <2> QED
    BY SMT, <2>1, <2>2, <2>3 DEF Count
\* What a thread does with its own locals and descriptors leaves the references of
\* the others alone.
<1>OthersSlots. ASSUME NEW a \in Actors, Alone(a), pc[a] # "f_write", pc'[a] # "f_write",
           \A b \in Actors \ {a} : other'[b] = other[b],
           NEW p \in Users, p # a, fileTable'[p] = fileTable[p]
    PROVE  \A f \in Fds \cup {-1} : SlotOf'[<<p, f>>] = SlotOf[<<p, f>>]
  <2> USE <1>OthersSlots
  <2>1. pc'[p] = pc[p] /\ of'[p] = of[p] /\ fd'[p] = fd[p]
    BY DEF Alone, Actors
  <2>2. ASSUME NEW f \in Fds PROVE SlotOf'[<<p, f>>] = SlotOf[<<p, f>>]
    <3>1. Dupping(p, f)' <=> Dupping(p, f)
      BY <2>1 DEF Dupping
    <3>2. Copying(p, f)' <=> Copying(p, f)
      BY CopyingSame
    <3>3. SlotOf[<<p, f>>] = IF Dupping(p, f) \/ Copying(p, f) THEN NULL ELSE fileTable[p][f]
      BY MapParts
    <3>4. SlotOf'[<<p, f>>] = IF Dupping(p, f)' \/ Copying(p, f)' THEN NULL ELSE fileTable'[p][f]
      BY MapPartsNext
    <3> QED
      BY <3>1, <3>2, <3>3, <3>4
  <2>3. SlotOf'[<<p, -1>>] = SlotOf[<<p, -1>>]
    <3>1. SlotOf[<<p, -1>>] = (IF pc[p] \in {"o_fd", "c_lock"} THEN of[p] ELSE NULL)
      BY MapParts
    <3>2. SlotOf'[<<p, -1>>] = (IF pc'[p] \in {"o_fd", "c_lock"} THEN of'[p] ELSE NULL)
      BY MapPartsNext
    <3> QED
      BY <2>1, <3>1, <3>2
  <2> QED
    BY <2>2, <2>3
\* A step of one thread leaves the vnode references of the other processes alone.
<1>OthersVnodes. ASSUME NEW a \in Actors, Alone(a), NEW p \in Users, p # a, fileTable'[p] = fileTable[p],
           \A f \in Fds : fileTable[p][f] # NULL => vn'[fileTable[p][f]] = vn[fileTable[p][f]],
           pc[p] = "c_lock" => vn'[of[p]] = vn[of[p]]
    PROVE  \A f \in Fds \cup {-1} : VnodeOf'[<<p, f>>] = VnodeOf[<<p, f>>]
  <2> USE <1>OthersVnodes
  <2>1. pc'[p] = pc[p] /\ of'[p] = of[p] /\ fd'[p] = fd[p] /\ v'[p] = v[p]
    BY DEF Alone, Actors
  <2>2. ASSUME NEW f \in Fds PROVE VnodeOf'[<<p, f>>] = VnodeOf[<<p, f>>]
    <3>1. Dupping(p, f)' <=> Dupping(p, f)
      BY <2>1 DEF Dupping
    <3>2. VnodeOf[<<p, f>>] = IF fileTable[p][f] = NULL \/ Dupping(p, f) THEN NULL ELSE vn[fileTable[p][f]]
      BY MapParts
    <3>3. VnodeOf'[<<p, f>>] = IF fileTable'[p][f] = NULL \/ Dupping(p, f)' THEN NULL ELSE vn'[fileTable'[p][f]]
      BY MapPartsNext
    <3> QED
      BY SMT, <3>1, <3>2, <3>3
  <2>3. VnodeOf'[<<p, -1>>] = VnodeOf[<<p, -1>>]
    <3>1. VnodeOf[<<p, -1>>] = (IF pc[p] = "c_lock" THEN vn[of[p]]
                                ELSE IF pc[p] \in {"o_slot", "o_fd", "c_rel", "c_vfs"} THEN v[p] ELSE NULL)
      BY MapParts
    <3>2. VnodeOf'[<<p, -1>>] = (IF pc'[p] = "c_lock" THEN vn'[of'[p]]
                                 ELSE IF pc'[p] \in {"o_slot", "o_fd", "c_rel", "c_vfs"} THEN v'[p] ELSE NULL)
      BY MapPartsNext
    <3> QED
      BY SMT, <2>1, <3>1, <3>2
  <2> QED
    BY <2>2, <2>3
\* Outside fork the references of a process are those of its own table and of its
\* own call.
<1>OwnRow. ASSUME AInv, NEW a \in Users, Alone(a), pc[a] # "none", pc[a] # "f_write", pc'[a] # "f_write",
           UNCHANGED other
    PROVE  RowSlots(a) /\ RowSlots(a)' /\ RowVnodes(a) /\ RowVnodes(a)'
  <2> USE <1>OwnRow
  <2>1. \A f \in Fds : ~Copying(a, f) /\ ~Copying(a, f)'
    BY RunsCopying, CopyingSame DEF Actors
  <2>2. RowSlots(a)
    BY <2>1, MapParts DEF RowSlots
  <2>3. RowSlots(a)'
    BY <2>1, MapPartsNext DEF RowSlots
  <2>4. RowVnodes(a)
    BY MapParts DEF RowVnodes
  <2>5. RowVnodes(a)'
    BY MapPartsNext DEF RowVnodes
  <2> QED
    BY <2>2, <2>3, <2>4, <2>5
\* A thread works on its own descriptors: the references of the others stay.
<1>OwnSlots. ASSUME NEW a \in Users, Alone(a), pc[a] # "f_write", pc'[a] # "f_write", UNCHANGED other,
           \A p \in Users \ {a} : fileTable'[p] = fileTable[p], NEW F,
           \A f \in (Fds \cup {-1}) \ F : SlotOf'[<<a, f>>] = SlotOf[<<a, f>>]
    PROVE  ButFor(SlotOf, SlotOf', a, F)
  <2> USE <1>OwnSlots
  <2> SUFFICES ASSUME NEW r \in Tokens, \A f \in F : r # <<a, f>> PROVE SlotOf'[r] = SlotOf[r]
    BY DEF ButFor
  <2>1. PICK p \in Users, f \in Fds \cup {-1} : r = <<p, f>>
    BY TokenParts
  <2>2. CASE p = a
    <3>1. f \notin F
      BY <2>1, <2>2
    <3> QED
      BY <2>1, <2>2, <3>1
  <2>3. CASE p # a
    <3>1. a \in Actors /\ fileTable'[p] = fileTable[p] /\ \A b \in Actors \ {a} : other'[b] = other[b]
      BY <2>3 DEF Actors
    <3>2. \A g \in Fds \cup {-1} : SlotOf'[<<p, g>>] = SlotOf[<<p, g>>]
      BY <2>3, <3>1, <1>OthersSlots
    <3> QED
      BY <2>1, <3>2
  <2> QED
    BY <2>2, <2>3
\* A step that changes only descriptors F of its own table changes only their
\* references.
<1>OwnVnodes. ASSUME NEW a \in Users, Alone(a), UNCHANGED vn,
           \A p \in Users \ {a} : fileTable'[p] = fileTable[p], NEW F,
           \A f \in (Fds \cup {-1}) \ F : VnodeOf'[<<a, f>>] = VnodeOf[<<a, f>>]
    PROVE  ButFor(VnodeOf, VnodeOf', a, F)
  <2> USE <1>OwnVnodes
  <2> SUFFICES ASSUME NEW r \in Tokens, \A f \in F : r # <<a, f>> PROVE VnodeOf'[r] = VnodeOf[r]
    BY DEF ButFor
  <2>1. PICK p \in Users, f \in Fds \cup {-1} : r = <<p, f>>
    BY TokenParts
  <2>2. CASE p = a
    <3>1. f \notin F
      BY <2>1, <2>2
    <3> QED
      BY <2>1, <2>2, <3>1
  <2>3. CASE p # a
    <3>1. a \in Actors /\ fileTable'[p] = fileTable[p]
      BY <2>3 DEF Actors
    <3>2. \A g \in Fds \cup {-1} : VnodeOf'[<<p, g>>] = VnodeOf[<<p, g>>]
      BY <2>3, <3>1, <1>OthersVnodes
    <3> QED
      BY <2>1, <3>2
  <2> QED
    BY <2>2, <2>3
\* A descriptor that a leaves alone.
<1>RowSame. ASSUME NEW a \in Users, RowSlots(a), RowSlots(a)', RowVnodes(a), RowVnodes(a)', NEW f \in Fds,
           fileTable'[a][f] = fileTable[a][f], Dupping(a, f)' <=> Dupping(a, f),
           fileTable[a][f] # NULL => vn'[fileTable[a][f]] = vn[fileTable[a][f]]
    PROVE  SlotOf'[<<a, f>>] = SlotOf[<<a, f>>] /\ VnodeOf'[<<a, f>>] = VnodeOf[<<a, f>>]
  <2> USE <1>RowSame
  <2>1. SlotOf'[<<a, f>>] = SlotOf[<<a, f>>]
    BY DEF RowSlots
  <2>2. VnodeOf[<<a, f>>] = IF fileTable[a][f] = NULL \/ Dupping(a, f) THEN NULL ELSE vn[fileTable[a][f]]
    BY DEF RowVnodes
  <2>3. VnodeOf'[<<a, f>>] = IF fileTable'[a][f] = NULL \/ Dupping(a, f)' THEN NULL ELSE vn'[fileTable'[a][f]]
    BY DEF RowVnodes
  <2>4. VnodeOf'[<<a, f>>] = VnodeOf[<<a, f>>]
    BY SMT, <2>2, <2>3
  <2> QED
    BY <2>1, <2>4
\* A reference that moves from one place to another keeps the counts of the
\* slots.
<1>CountedMoves. ASSUME BInv, NEW t \in Tokens, NEW u \in Tokens, Moves(SlotOf, SlotOf', t, u),
           UNCHANGED <<countRef, vn, of_lock>>
    PROVE  Counted'
  <2> USE <1>CountedMoves
  <2>1. \A i : Count(SlotOf', i) = Count(SlotOf, i)
    BY <1>CountMoves
  <2> QED
    BY <2>1 DEF BInv, Counted
\* A reference that moves from one place to another keeps the counts of the
\* vnodes.
<1>VnodesMove. ASSUME AInv, BInv, NEW t \in Tokens, NEW u \in Tokens, Moves(VnodeOf, VnodeOf', t, u),
           UNCHANGED vn_refcount
    PROVE  VnodeCounted'
  <2> USE <1>VnodesMove
  <2>1. \A i : Count(VnodeOf', i) = Count(VnodeOf, i)
    BY <1>CountMoves
  <2> QED
    BY <2>1 DEF BInv, VnodeCounted
\* vfs_open of sys_open, which takes a reference to the vnode, keeps the counts.
<1>SysOpenB. ASSUME AInv, BInv, NEW a \in Users, sys_open(a)
    PROVE  BInv'
  <2> USE <1>SysOpenB
  <2>0. TypeOK /\ a \in Actors /\ pc[a] = "user"
    BY DEF AInv, Actors, sys_open
  <2>1. PICK x \in Vnodes :
          vn_refcount[x] < MaxRefs /\ vnode_incref(x) /\ v' = [v EXCEPT ![a] = x]
    BY DEF sys_open
  <2>2. /\ pc' = [pc EXCEPT ![a] = "o_slot"]
        /\ UNCHANGED <<fileTable, file_vars, ft_copy_lock, state, parent, of, fd, old, other, cnt, fault, raced>>
    BY DEF sys_open, Goto
  <2>3. Alone(a) /\ pc'[a] = "o_slot" /\ v'[a] = x /\ Stays(a)
    <3>1. Alone(a) /\ pc'[a] = "o_slot" /\ v'[a] = x
      BY <2>0, <2>1, <2>2 DEF Alone, TypeOK
    <3> QED
      BY <2>0, <3>1, StaysAlone
  <2>4. RowSlots(a) /\ RowSlots(a)' /\ RowVnodes(a) /\ RowVnodes(a)'
    BY <2>0, <2>2, <2>3, <1>OwnRow
  <2>5. \A f \in Fds : ~Dupping(a, f) /\ ~Dupping(a, f)'
    BY <2>0, <2>3 DEF Dupping
  <2>6. \A f \in Fds : SlotOf'[<<a, f>>] = SlotOf[<<a, f>>] /\ VnodeOf'[<<a, f>>] = VnodeOf[<<a, f>>]
    BY <2>2, <2>4, <2>5, <1>RowSame DEF file_vars
  <2>7. /\ SlotOf'[<<a, -1>>] = NULL /\ SlotOf[<<a, -1>>] = NULL
        /\ VnodeOf[<<a, -1>>] = NULL /\ VnodeOf'[<<a, -1>>] = x
    BY <2>0, <2>3, <2>4 DEF RowSlots, RowVnodes
  <2>8. \A r \in Tokens : SlotOf'[r] = SlotOf[r]
    <3>1. \A f \in (Fds \cup {-1}) \ {} : SlotOf'[<<a, f>>] = SlotOf[<<a, f>>]
      BY <2>6, <2>7
    <3>2. ButFor(SlotOf, SlotOf', a, {})
      BY <2>0, <2>2, <2>3, <3>1, <1>OwnSlots
    <3> QED
      BY <3>2 DEF ButFor
  <2>9. \A r \in Tokens \ {<<a, -1>>} : VnodeOf'[r] = VnodeOf[r]
    <3>1. \A f \in (Fds \cup {-1}) \ {-1} : VnodeOf'[<<a, f>>] = VnodeOf[<<a, f>>]
      BY <2>6
    <3>2. ButFor(VnodeOf, VnodeOf', a, {-1})
      BY <2>2, <2>3, <3>1, <1>OwnVnodes DEF file_vars
    <3> QED
      BY <3>2 DEF ButFor
  <2>10. VnodeCounted'
    <3>1. <<a, -1>> \in Tokens
      BY TokenParts
    <3> QED
      BY <2>1, <2>7, <2>9, <3>1, VnodesUp
  <2>11. Counted'
    BY <2>2, <2>8, CountedSame DEF file_vars
  <2>12. Opening' /\ Closing' /\ ClosingOnce'
    BY <2>0, <2>2, <2>3, <2>8, OpeningIdle, ClosingIdle DEF file_vars, ClosePcs
  <2> QED
    BY <2>2, <2>10, <2>11, <2>12 DEF BInv
\* The vnodes of the others, when the slots that others refer to keep theirs.
<1>OwnVnodesFew. ASSUME AInv, NEW a \in Users, Alone(a),
           \A r \in Tokens : r # <<a, -1>> /\ SlotOf[r] \in Files => vn'[SlotOf[r]] = vn[SlotOf[r]],
           \A p \in Users \ {a} : fileTable'[p] = fileTable[p], NEW F,
           \A f \in (Fds \cup {-1}) \ F : VnodeOf'[<<a, f>>] = VnodeOf[<<a, f>>]
    PROVE  ButFor(VnodeOf, VnodeOf', a, F)
  <2> USE <1>OwnVnodesFew
  <2> SUFFICES ASSUME NEW r \in Tokens, \A f \in F : r # <<a, f>> PROVE VnodeOf'[r] = VnodeOf[r]
    BY DEF ButFor
  <2>1. PICK p \in Users, f \in Fds \cup {-1} : r = <<p, f>>
    BY TokenParts
  <2>2. CASE p = a
    <3>1. f \notin F
      BY <2>1, <2>2
    <3> QED
      BY <2>1, <2>2, <3>1
  <2>3. CASE p # a
    <3>1. a \in Actors /\ fileTable'[p] = fileTable[p]
      BY <2>3 DEF Actors
    <3>2. ASSUME NEW g \in Fds, fileTable[p][g] # NULL PROVE vn'[fileTable[p][g]] = vn[fileTable[p][g]]
      <4>1. PICK q \in Users, h \in Fds : SlotOf[<<q, h>>] = fileTable[p][g]
        BY <3>2, Used
      <4>2. <<q, h>> \in Tokens /\ <<q, h>> # <<a, -1>> /\ fileTable[p][g] \in Files
        <5>1. <<q, h>> \in Tokens /\ fileTable[p][g] \in Files
          BY <3>2, TokenParts, FdTyped
        <5>2. h # -1
          BY Constants
        <5> QED
          BY SMT, <5>1, <5>2
      <4> QED
        BY SMT, <4>1, <4>2
    <3>3. pc[p] = "c_lock" => vn'[of[p]] = vn[of[p]]
      <4> SUFFICES ASSUME pc[p] = "c_lock" PROVE vn'[of[p]] = vn[of[p]]
        OBVIOUS
      <4>1. SlotOf[<<p, -1>>] = of[p] /\ of[p] \in Files /\ <<p, -1>> \in Tokens
        BY MapParts, TokenParts DEF AInv, Locals, FileInHand
      <4>2. <<p, -1>> # <<a, -1>>
        BY SMT, <2>3
      <4> QED
        BY SMT, <4>1, <4>2
    <3>4. \A g \in Fds \cup {-1} : VnodeOf'[<<p, g>>] = VnodeOf[<<p, g>>]
      BY <2>3, <3>1, <3>2, <3>3, <1>OthersVnodes
    <3> QED
      BY <2>1, <3>4
  <2> QED
    BY <2>2, <2>3
\* A thread works on its own descriptors F: every other reference stays.
<1>OwnMaps. ASSUME AInv, NEW a \in Users, Alone(a), pc[a] # "none", pc[a] # "f_write", pc'[a] # "f_write",
           UNCHANGED other,
           \A r \in Tokens : r # <<a, -1>> /\ SlotOf[r] \in Files => vn'[SlotOf[r]] = vn[SlotOf[r]],
           \A p \in Users \ {a} : fileTable'[p] = fileTable[p], NEW F, -1 \in F,
           \A f \in Fds \ F : fileTable'[a][f] = fileTable[a][f] /\ (Dupping(a, f)' <=> Dupping(a, f))
    PROVE  /\ RowSlots(a) /\ RowSlots(a)' /\ RowVnodes(a) /\ RowVnodes(a)'
           /\ ButFor(SlotOf, SlotOf', a, F) /\ ButFor(VnodeOf, VnodeOf', a, F)
  <2> USE <1>OwnMaps
  <2>1. RowSlots(a) /\ RowSlots(a)' /\ RowVnodes(a) /\ RowVnodes(a)'
    BY <1>OwnRow
  <2>2. ASSUME NEW f \in (Fds \cup {-1}) \ F
        PROVE  SlotOf'[<<a, f>>] = SlotOf[<<a, f>>] /\ VnodeOf'[<<a, f>>] = VnodeOf[<<a, f>>]
    <3>1. f \in Fds /\ fileTable'[a][f] = fileTable[a][f] /\ (Dupping(a, f)' <=> Dupping(a, f))
      OBVIOUS
    <3>2. ASSUME fileTable[a][f] # NULL PROVE vn'[fileTable[a][f]] = vn[fileTable[a][f]]
      <4>1. PICK q \in Users, h \in Fds : SlotOf[<<q, h>>] = fileTable[a][f]
        BY <3>1, <3>2, Used
      <4>2. <<q, h>> \in Tokens /\ fileTable[a][f] \in Files
        BY <3>1, <3>2, TokenParts, FdTyped
      <4>3. <<q, h>> # <<a, -1>>
        <5>1. h # -1
          BY Constants
        <5> QED
          BY SMT, <5>1
      <4> QED
        BY SMT, <4>1, <4>2, <4>3
    <3> QED
      BY <2>1, <3>1, <3>2, <1>RowSame
  <2>3. ButFor(SlotOf, SlotOf', a, F)
    BY <2>2, <1>OwnSlots
  <2>4. ButFor(VnodeOf, VnodeOf', a, F)
    BY <2>2, <1>OwnVnodesFew
  <2> QED
    BY <2>1, <2>3, <2>4
\* A slot is filled for a reference t that was not counted before.
<1>FillB. ASSUME AInv, BInv, NEW a \in Users, Alone(a), NEW i \in Files, vn[i] = NULL, NEW x \in Vnodes,
           FillSlot(i, x), ~raced', NEW t \in Tokens, \A r \in Tokens \ {t} : SlotOf'[r] = SlotOf[r],
           SlotOf[t] = NULL, SlotOf'[t] = i, pc'[a] \in {"o_fd", "std", "user"},
           pc'[a] = "o_fd" => of'[a] = i /\ t = <<a, -1>> /\ v'[a] = x
    PROVE  Counted' /\ Opening' /\ Closing' /\ ClosingOnce'
  <2> USE <1>FillB
  <2>0. a \in Actors /\ Stays(a)
    BY StaysAlone DEF Actors
  <2>1. /\ \A j \in Files \ {i} : /\ of_lock'[j] = of_lock[j] /\ vn'[j] = vn[j]
                                  /\ offset'[j] = offset[j] /\ countRef'[j] = countRef[j]
        /\ of_lock'[i] = "free" /\ vn'[i] = x /\ countRef'[i] = 1
    BY FillFacts
  <2>2. \A b \in Users : pc[b] \in ClosePcs => of[b] # i
    BY DEF FillSlot, ClosePcs
  <2>3. Count(SlotOf, i) = 0
    BY DEF BInv, Counted
  <2>4. /\ \A j \in Files \ {i} : Count(SlotOf', j) = Count(SlotOf, j)
        /\ CountChange(SlotOf, SlotOf', t, i)
    BY OneSlot
  <2>5. Counted'
    <3>1. Count(SlotOf', i) = 1
      <4>1. NULL # i
        BY Constants
      <4>2. Count(SlotOf', i) = Count(SlotOf, i) + 1
        BY <2>4, <4>1 DEF CountChange
      <4> QED
        BY SMT, <2>3, <4>2
    <3>2. vn'[i] # NULL /\ of_lock'[i] # "none"
      BY <2>1, Constants
    <3> QED
      BY <2>1, <2>4, <3>1, <3>2, CountedStep
  <2>6. \A r \in Tokens : SlotOf[r] # i
    BY <2>3, CountNat
  <2>7. Opening'
    <3>1. \A b \in Users \ {a} : pc[b] = "o_fd" => vn'[of[b]] = vn[of[b]]
      <4> SUFFICES ASSUME NEW b \in Users, pc[b] = "o_fd" PROVE vn'[of[b]] = vn[of[b]]
        OBVIOUS
      <4>1. of[b] \in Files /\ v[b] \in Vnodes /\ vn[of[b]] = v[b]
        BY DEF AInv, Locals, FileInHand, VnodeInHand, BInv, Opening
      <4>2. of[b] # i
        BY <4>1, Constants
      <4> QED
        BY <2>1, <4>1, <4>2
    <3>2. \A r \in Tokens : SlotOf'[r] \in {SlotOf[r], NULL} \/ vn[SlotOf'[r]] = NULL
      OBVIOUS
    <3>3. pc'[a] = "o_fd" => (\A r \in Tokens : SlotOf'[r] = of'[a] => r = <<a, -1>>) /\ vn'[of'[a]] = v'[a]
      BY <2>1, <2>6
    <3> QED
      BY <2>0, <3>1, <3>2, <3>3, OpeningStep
  <2>8. Closing' /\ ClosingOnce'
    <3>1. \A b \in Users \ {a} : pc[b] \in ClosePcs => vn'[of[b]] = NULL /\ of_lock'[of[b]] = of_lock[of[b]]
      <4> SUFFICES ASSUME NEW b \in Users, pc[b] \in ClosePcs
                   PROVE  vn'[of[b]] = NULL /\ of_lock'[of[b]] = of_lock[of[b]]
        OBVIOUS
      <4>1. vn[of[b]] = NULL /\ of[b] \in Files
        BY DEF BInv, Closing, AInv, Locals, FileInHand, ClosePcs
      <4> QED
        BY <2>1, <2>2, <4>1
    <3>2. pc'[a] \notin ClosePcs
      BY DEF ClosePcs
    <3> QED
      BY <2>0, <3>1, <3>2, ClosingStep
  <2> QED
    BY <2>5, <2>7, <2>8
\* No slot that is referred to is free.
<1>FillKeeps. ASSUME AInv, BInv, NEW i \in Files, vn[i] = NULL, NEW x \in Vnodes, FillSlot(i, x)
    PROVE  /\ \A r \in Tokens : SlotOf[r] \in Files => vn'[SlotOf[r]] = vn[SlotOf[r]]
           /\ \A p \in Users, f \in Fds : fileTable[p][f] # NULL =>
                fileTable[p][f] # i /\ vn'[fileTable[p][f]] = vn[fileTable[p][f]]
  <2> USE <1>FillKeeps
  <2>1. \A j \in Files \ {i} : vn'[j] = vn[j]
    BY FillFacts
  <2>2. ASSUME NEW r \in Tokens, SlotOf[r] \in Files PROVE vn'[SlotOf[r]] = vn[SlotOf[r]]
    <3>1. SlotOf[r] # i
      BY <2>2, SlotThere, Constants
    <3> QED
      BY <2>1, <2>2, <3>1
  <2>3. ASSUME NEW p \in Users, NEW f \in Fds, fileTable[p][f] # NULL
        PROVE  fileTable[p][f] # i /\ vn'[fileTable[p][f]] = vn[fileTable[p][f]]
    <3>1. fileTable[p][f] # i /\ fileTable[p][f] \in Files
      BY <2>3, FdThere, Constants
    <3> QED
      BY <2>1, <3>1
  <2> QED
    BY <2>2, <2>3
\* sys_open gives the empty slot its first reference, the one in hand.
<1>OpenSlotB. ASSUME AInv, BInv, NEW a \in Users, OpenSlot(a), ~raced'
    PROVE  BInv'
  <2> USE <1>OpenSlotB
  <2>0. TypeOK /\ Owners /\ a \in Actors /\ pc[a] = "o_slot" /\ v[a] \in Vnodes
    BY DEF AInv, Actors, OpenSlot, Locals, VnodeInHand
  <2> DEFINE t == <<a, -1>>
  <2>1. t \in Tokens
    BY TokenParts
  <2>2. CASE FreeFiles # {}
    <3> DEFINE i == Min(FreeFiles)
    <3>1. i \in Files /\ vn[i] = NULL
      BY <2>2, FreeFilesTyped
    <3>2. /\ FillSlot(i, v[a]) /\ of' = [of EXCEPT ![a] = i] /\ pc' = [pc EXCEPT ![a] = "o_fd"]
          /\ UNCHANGED <<fileTable, vn_refcount, ft_copy_lock, state, parent, fd, v, old, other, cnt, fault>>
      BY <2>2 DEF OpenSlot, Goto
    <3> HIDE DEF i
    <3>3. Alone(a) /\ pc'[a] = "o_fd" /\ of'[a] = i
      BY <2>0, <3>2 DEF Alone, TypeOK
    <3>4. RowSlots(a) /\ RowSlots(a)' /\ RowVnodes(a) /\ RowVnodes(a)'
      BY <2>0, <3>2, <3>3, <1>OwnRow
    <3>5. \A f \in Fds : ~Dupping(a, f) /\ ~Dupping(a, f)'
      BY <2>0, <3>3 DEF Dupping
    <3>6. /\ \A r \in Tokens : SlotOf[r] \in Files => vn'[SlotOf[r]] = vn[SlotOf[r]]
          /\ \A p \in Users, f \in Fds : fileTable[p][f] # NULL =>
               fileTable[p][f] # i /\ vn'[fileTable[p][f]] = vn[fileTable[p][f]]
      BY <2>0, <3>1, <3>2, <1>FillKeeps
    <3>7. \A f \in Fds : SlotOf'[<<a, f>>] = SlotOf[<<a, f>>] /\ VnodeOf'[<<a, f>>] = VnodeOf[<<a, f>>]
      BY <3>2, <3>4, <3>5, <3>6, <1>RowSame
    <3>8. SlotOf[t] = NULL /\ SlotOf'[t] = i /\ VnodeOf[t] = v[a] /\ VnodeOf'[t] = v[a]
      BY <2>0, <3>2, <3>3, <3>4 DEF RowSlots, RowVnodes
    <3>9. \A r \in Tokens \ {t} : SlotOf'[r] = SlotOf[r]
      <4>1. \A f \in (Fds \cup {-1}) \ {-1} : SlotOf'[<<a, f>>] = SlotOf[<<a, f>>]
        BY <3>7
      <4>2. ButFor(SlotOf, SlotOf', a, {-1})
        BY <2>0, <3>2, <3>3, <4>1, <1>OwnSlots
      <4> QED
        BY <4>2 DEF ButFor
    <3>10. \A r \in Tokens : VnodeOf'[r] = VnodeOf[r]
      <4>1. \A f \in (Fds \cup {-1}) \ {} : VnodeOf'[<<a, f>>] = VnodeOf[<<a, f>>]
        BY <3>7, <3>8
      <4>2. ButFor(VnodeOf, VnodeOf', a, {})
        BY <3>2, <3>3, <3>6, <4>1, <1>OwnVnodesFew
      <4> QED
        BY <4>2 DEF ButFor
    <3>11. VnodeCounted'
      <4>1. \A x : Count(VnodeOf', x) = Count(VnodeOf, x)
        BY <3>10 DEF Count
      <4> QED
        BY <3>2, <4>1 DEF BInv, VnodeCounted
    <3>12. Counted' /\ Opening' /\ Closing' /\ ClosingOnce'
      BY <2>0, <2>1, <3>1, <3>2, <3>3, <3>8, <3>9, <1>FillB
    <3> QED
      BY <3>2, <3>11, <3>12 DEF BInv
  <2>3. CASE FreeFiles = {}
    <3>0. VnodeOf[t] = v[a]
      BY <2>0, MapParts
    <3>1. vn_refcount[v[a]] # 0
      BY <2>0, <2>1, <3>0, VnodeThere
    <3>2. /\ vnode_decref(v[a]) /\ Return(a)
          /\ UNCHANGED <<fileTable, file_vars, ft_copy_lock, state, parent, fault, raced>>
      BY <2>0, <2>3, <3>1, Constants DEF OpenSlot, WithVnode
    <3>3. Alone(a) /\ pc'[a] = "user" /\ other' = other /\ Stays(a)
      <4>1. Alone(a) /\ pc'[a] = "user" /\ other' = other
        BY <2>0, <3>2, ReturnFacts DEF OwnPcs
      <4> QED
        BY <2>0, <4>1, StaysAlone
    <3>4. RowSlots(a) /\ RowSlots(a)' /\ RowVnodes(a) /\ RowVnodes(a)'
      BY <2>0, <3>3, <1>OwnRow
    <3>5. \A f \in Fds : ~Dupping(a, f) /\ ~Dupping(a, f)'
      BY <2>0, <3>3 DEF Dupping
    <3>6. \A f \in Fds : SlotOf'[<<a, f>>] = SlotOf[<<a, f>>] /\ VnodeOf'[<<a, f>>] = VnodeOf[<<a, f>>]
      BY <3>2, <3>4, <3>5, <1>RowSame DEF file_vars
    <3>7. SlotOf[t] = NULL /\ SlotOf'[t] = NULL /\ VnodeOf'[t] = NULL
      BY <2>0, <3>3, <3>4 DEF RowSlots, RowVnodes
    <3>8. \A r \in Tokens : SlotOf'[r] = SlotOf[r]
      <4>1. \A f \in (Fds \cup {-1}) \ {} : SlotOf'[<<a, f>>] = SlotOf[<<a, f>>]
        BY <3>6, <3>7
      <4>2. ButFor(SlotOf, SlotOf', a, {})
        BY <2>0, <3>2, <3>3, <4>1, <1>OwnSlots
      <4> QED
        BY <4>2 DEF ButFor
    <3>9. \A r \in Tokens \ {t} : VnodeOf'[r] = VnodeOf[r]
      <4>1. \A f \in (Fds \cup {-1}) \ {-1} : VnodeOf'[<<a, f>>] = VnodeOf[<<a, f>>]
        BY <3>6
      <4>2. ButFor(VnodeOf, VnodeOf', a, {-1})
        BY <3>2, <3>3, <4>1, <1>OwnVnodes DEF file_vars
      <4> QED
        BY <4>2 DEF ButFor
    <3>10. VnodeCounted'
      BY <2>0, <2>1, <3>0, <3>2, <3>7, <3>9, VnodesDown
    <3>11. Counted'
      BY <3>2, <3>8, CountedSame DEF file_vars
    <3>12. Opening' /\ Closing' /\ ClosingOnce'
      BY <2>0, <3>2, <3>3, <3>8, OpeningIdle, ClosingIdle DEF file_vars, ClosePcs
    <3> QED
      BY <3>2, <3>10, <3>11, <3>12 DEF BInv
  <2> QED
    BY <2>2, <2>3
\* A reference moves from the descriptor g of a into its hand, or back.
<1>MovesB. ASSUME AInv, BInv, NEW a \in Users, Stays(a), NEW g \in Fds,
           ButFor(SlotOf, SlotOf', a, {-1, g}), ButFor(VnodeOf, VnodeOf', a, {-1, g}),
           SlotOf'[<<a, g>>] = SlotOf[<<a, -1>>], SlotOf'[<<a, -1>>] = SlotOf[<<a, g>>],
           VnodeOf'[<<a, g>>] = VnodeOf[<<a, -1>>], VnodeOf'[<<a, -1>>] = VnodeOf[<<a, g>>],
           UNCHANGED <<file_vars, vn_refcount, fault>>, pc'[a] \notin ClosePcs, pc'[a] # "o_fd"
    PROVE  BInv'
  <2> USE <1>MovesB
  <2> DEFINE t == <<a, -1>>
             u == <<a, g>>
  <2>0. t \in Tokens /\ u \in Tokens /\ a \in Actors
    BY TokenParts DEF Actors
  <2>1. \A r \in Tokens : r # t /\ r # u => SlotOf'[r] = SlotOf[r] /\ VnodeOf'[r] = VnodeOf[r]
    BY DEF ButFor
  <2>2. Moves(SlotOf, SlotOf', t, u) /\ Moves(VnodeOf, VnodeOf', t, u)
    BY <2>1 DEF Moves
  <2>3. Counted' /\ VnodeCounted'
    BY <2>0, <2>2, <1>CountedMoves, <1>VnodesMove DEF file_vars
  <2>4. Closing' /\ ClosingOnce'
    BY <2>0, ClosingIdle DEF file_vars
  <2>5. Opening'
    <3>1. \A r \in Tokens : \/ SlotOf'[r] \in {SlotOf[r], NULL}
                            \/ vn[SlotOf'[r]] = NULL
                            \/ \E q \in Tokens : SlotOf[q] = SlotOf'[r] /\ \A b \in Users \ {a} : q # <<b, -1>>
      <4>1. \A b \in Users \ {a} : t # <<b, -1>> /\ u # <<b, -1>>
        BY SMT, Constants
      <4> QED
        BY <2>0, <2>1, <4>1
    <3> QED
      BY <2>0, <3>1, OpeningStep DEF file_vars
  <2> QED
    BY <2>3, <2>4, <2>5 DEF BInv
\* The reference in hand moves to the descriptor, or, with EMFILE, only the vnode
\* is given back.
<1>OpenFdB. ASSUME AInv, BInv, NEW a \in Users, OpenFd(a)
    PROVE  BInv'
  <2> USE <1>OpenFdB
  <2> DEFINE t == <<a, -1>>
  <2>0. /\ TypeOK /\ Owners /\ a \in Actors /\ pc[a] = "o_fd" /\ v[a] \in Vnodes /\ of[a] \in Files
        /\ vn[of[a]] = v[a] /\ \A r \in Tokens : SlotOf[r] = of[a] => r = t
    BY DEF AInv, Actors, OpenFd, Locals, VnodeInHand, FileInHand, BInv, Opening
  <2>1. t \in Tokens /\ SlotOf[t] = of[a] /\ VnodeOf[t] = v[a]
    BY <2>0, TokenParts, MapParts
  <2>2. vn_refcount[v[a]] # 0
    BY <2>0, <2>1, VnodeThere
  <2>3. /\ IF FreeFds(a) # {}
           THEN fileTable' = [fileTable EXCEPT ![a][Min(FreeFds(a))] = of[a]] /\ UNCHANGED vn_refcount
           ELSE vnode_decref(v[a]) /\ UNCHANGED fileTable
        /\ Return(a) /\ UNCHANGED <<file_vars, ft_copy_lock, state, parent, fault, raced>>
    BY <2>0, <2>2, Constants DEF OpenFd, WithVnode
  <2>4. Alone(a) /\ pc'[a] = "user" /\ other' = other
    BY <2>0, <2>3, ReturnFacts DEF OwnPcs
  <2>5. Stays(a) /\ pc'[a] \notin ClosePcs
    BY <2>0, <2>4, StaysAlone DEF ClosePcs
  <2>6. \A f \in Fds : ~Dupping(a, f) /\ ~Dupping(a, f)'
    BY <2>0, <2>4 DEF Dupping
  <2>7. CASE FreeFds(a) # {}
    <3>1. PICK g \in Fds : g = Min(FreeFds(a)) /\ fileTable[a][g] = NULL
      BY <2>7, FreeFdsTyped
    <3>2. fileTable' = [fileTable EXCEPT ![a][g] = of[a]] /\ UNCHANGED vn_refcount
      BY <2>3, <2>7, <3>1
    <3>3. FdSet(a, g, of[a])
      BY <2>0, <3>1, <3>2, SetFd
    <3>4. \A f \in Fds \ {-1, g} : fileTable'[a][f] = fileTable[a][f] /\ (Dupping(a, f)' <=> Dupping(a, f))
      BY <2>6, <3>3 DEF FdSet
    <3>5. /\ RowSlots(a) /\ RowSlots(a)' /\ RowVnodes(a) /\ RowVnodes(a)'
          /\ ButFor(SlotOf, SlotOf', a, {-1, g}) /\ ButFor(VnodeOf, VnodeOf', a, {-1, g})
      BY <2>0, <2>3, <2>4, <3>3, <3>4, <1>OwnMaps DEF FdSet, file_vars
    <3>6. SlotOf[<<a, g>>] = NULL /\ VnodeOf[<<a, g>>] = NULL
      BY <3>1, <3>5 DEF RowSlots, RowVnodes
    <3>7. SlotOf'[t] = NULL /\ VnodeOf'[t] = NULL
      BY <2>4, <3>5 DEF RowSlots, RowVnodes
    <3>8. SlotOf'[<<a, g>>] = of[a]
      BY <2>6, <3>1, <3>3, <3>5 DEF RowSlots, FdSet
    <3>9. VnodeOf'[<<a, g>>] = v[a]
      <4>1. VnodeOf'[<<a, g>>] = IF fileTable'[a][g] = NULL \/ Dupping(a, g)' THEN NULL ELSE vn'[fileTable'[a][g]]
        BY <3>5 DEF RowVnodes
      <4>2. fileTable'[a][g] = of[a] /\ of[a] # NULL /\ ~Dupping(a, g)' /\ vn' = vn
        BY <2>0, <2>3, <2>6, <3>3, Constants DEF FdSet, file_vars
      <4>3. vn[of[a]] = v[a]
        BY <2>0
      <4> QED
        BY SMT, <4>1, <4>2, <4>3
    <3> QED
      BY <2>1, <2>3, <2>4, <2>5, <3>1, <3>2, <3>5, <3>6, <3>7, <3>8, <3>9, <1>MovesB
  <2>8. CASE FreeFds(a) = {}
    <3>1. vnode_decref(v[a]) /\ UNCHANGED fileTable
      BY <2>3, <2>8
    <3>2. /\ RowSlots(a) /\ RowSlots(a)' /\ RowVnodes(a) /\ RowVnodes(a)'
          /\ ButFor(SlotOf, SlotOf', a, {-1}) /\ ButFor(VnodeOf, VnodeOf', a, {-1})
      BY <2>0, <2>3, <2>4, <2>6, <3>1, <1>OwnMaps DEF file_vars
    <3>3. SlotOf'[t] = NULL /\ VnodeOf'[t] = NULL
      BY <2>4, <3>2 DEF RowSlots, RowVnodes
    <3>4. \A r \in Tokens \ {t} : SlotOf'[r] = SlotOf[r] /\ VnodeOf'[r] = VnodeOf[r]
      BY <3>2 DEF ButFor
    <3>5. VnodeCounted'
      BY <2>0, <2>1, <3>1, <3>3, <3>4, VnodesDown
    <3>6. Counted'
      <4>1. \A j \in Files \ {of[a]} : Count(SlotOf', j) = Count(SlotOf, j)
        BY <2>0, <2>1, <3>3, <3>4, OneSlot
      <4>2. Count(SlotOf', of[a]) = 0
        <5>1. \A r \in Tokens : SlotOf'[r] # of[a]
          BY <2>0, <3>3, <3>4, Constants
        <5> QED
          BY <5>1, CountNat
      <4> QED
        BY <2>0, <2>3, <4>1, <4>2, CountedStep DEF file_vars
    <3>7. Opening' /\ Closing' /\ ClosingOnce'
      BY <2>0, <2>3, <2>4, <2>5, <3>3, <3>4, OpeningIdle, ClosingIdle DEF file_vars
    <3> QED
      BY <2>3, <3>5, <3>6, <3>7 DEF BInv
  <2> QED
    BY <2>7, <2>8
\* The descriptor g of a goes out of the table and into its hand.
<1>TakeB. ASSUME AInv, BInv, NEW a \in Users, pc[a] = "user", Alone(a), UNCHANGED other, NEW g \in Fds,
           fileTable[a][g] # NULL, FdSet(a, g, NULL), of'[a] = fileTable[a][g], pc'[a] = "c_lock",
           UNCHANGED <<file_vars, vn_refcount, fault>>
    PROVE  BInv'
  <2> USE <1>TakeB
  <2> DEFINE t == <<a, -1>>
  <2>0. a \in Actors /\ Stays(a) /\ pc'[a] \notin ClosePcs
    BY StaysAlone DEF Actors, ClosePcs
  <2>1. \A f \in Fds : ~Dupping(a, f) /\ ~Dupping(a, f)'
    BY DEF Dupping
  <2>2. \A f \in Fds \ {-1, g} : fileTable'[a][f] = fileTable[a][f] /\ (Dupping(a, f)' <=> Dupping(a, f))
    BY <2>1 DEF FdSet
  <2>3. /\ RowSlots(a) /\ RowSlots(a)' /\ RowVnodes(a) /\ RowVnodes(a)'
        /\ ButFor(SlotOf, SlotOf', a, {-1, g}) /\ ButFor(VnodeOf, VnodeOf', a, {-1, g})
    BY <2>2, <1>OwnMaps DEF FdSet, file_vars
  <2>4. SlotOf[t] = NULL /\ VnodeOf[t] = NULL
    BY <2>3 DEF RowSlots, RowVnodes
  <2>5. SlotOf'[<<a, g>>] = NULL /\ VnodeOf'[<<a, g>>] = NULL
    BY <2>1, <2>3 DEF RowSlots, RowVnodes, FdSet
  <2>6. SlotOf[<<a, g>>] = fileTable[a][g] /\ SlotOf'[t] = fileTable[a][g]
    BY <2>1, <2>3 DEF RowSlots
  <2>7. VnodeOf[<<a, g>>] = vn[fileTable[a][g]]
    BY <2>1, <2>3 DEF RowVnodes
  <2>8. VnodeOf'[t] = vn[fileTable[a][g]]
    <3>1. VnodeOf'[t] = vn'[of'[a]] /\ vn' = vn
      BY <2>3 DEF RowVnodes, file_vars
    <3> QED
      BY SMT, <3>1
  <2> QED
    BY <2>0, <2>3, <2>4, <2>5, <2>6, <2>7, <2>8, <1>MovesB
\* The reference of the descriptor moves to the hand of sys_close.
<1>SysCloseB. ASSUME AInv, BInv, NEW a \in Users, sys_close(a)
    PROVE  BInv'
  <2> USE <1>SysCloseB
  <2>0. TypeOK /\ a \in Actors /\ pc[a] = "user"
    BY DEF AInv, Actors, sys_close
  <2>1. PICK f \in Fds : /\ fileTable[a][f] # NULL
                         /\ of' = [of EXCEPT ![a] = fileTable[a][f]]
                         /\ fileTable' = [fileTable EXCEPT ![a][f] = NULL]
    BY DEF sys_close
  <2>2. /\ pc' = [pc EXCEPT ![a] = "c_lock"]
        /\ UNCHANGED <<file_vars, vn_refcount, fd, v, old, other, cnt, fault>>
    BY DEF sys_close, Goto
  <2>3. Alone(a) /\ pc'[a] = "c_lock" /\ of'[a] = fileTable[a][f]
    BY <2>0, <2>1, <2>2 DEF Alone, TypeOK
  <2>4. FdSet(a, f, NULL)
    BY <2>1, SetFd
  <2> QED
    BY <2>0, <2>1, <2>2, <2>3, <2>4, <1>TakeB
\* dup2 moves the reference of newfd to its hand, or stores oldfd there without
\* counting it yet.
<1>SysDup2B. ASSUME AInv, BInv, NEW a \in Users, sys_dup2(a)
    PROVE  BInv'
  <2> USE <1>SysDup2B
  <2>0. TypeOK /\ a \in Actors /\ pc[a] = "user"
    BY DEF AInv, Actors, sys_dup2
  <2>1. PICK oldfd \in Fds, newfd \in Fds :
         /\ oldfd # newfd /\ fileTable[a][oldfd] # NULL
         /\ old' = [old EXCEPT ![a] = fileTable[a][oldfd]]
         /\ fd' = [fd EXCEPT ![a] = newfd]
         /\ IF fileTable[a][newfd] = NULL
            THEN /\ fileTable' = [fileTable EXCEPT ![a][newfd] = fileTable[a][oldfd]]
                 /\ pc' = [pc EXCEPT ![a] = "u_incr"]
                 /\ UNCHANGED of
            ELSE /\ of' = [of EXCEPT ![a] = fileTable[a][newfd]]
                 /\ fileTable' = [fileTable EXCEPT ![a][newfd] = NULL]
                 /\ pc' = [pc EXCEPT ![a] = "c_lock"]
    BY DEF sys_dup2, Goto
  <2>2. UNCHANGED <<file_vars, vn_refcount, v, other, cnt, fault>>
    BY DEF sys_dup2
  <2>3. CASE fileTable[a][newfd] # NULL
    <3>1. Alone(a) /\ pc'[a] = "c_lock" /\ of'[a] = fileTable[a][newfd]
      BY <2>0, <2>1, <2>2, <2>3 DEF Alone, TypeOK
    <3>2. FdSet(a, newfd, NULL)
      BY <2>1, <2>3, SetFd
    <3> QED
      BY <2>0, <2>2, <2>3, <3>1, <3>2, <1>TakeB
  <2>4. CASE fileTable[a][newfd] = NULL
    <3>1. Alone(a) /\ pc'[a] = "u_incr" /\ fd'[a] = newfd
      BY <2>0, <2>1, <2>2, <2>4 DEF Alone, TypeOK
    <3>2. FdSet(a, newfd, fileTable[a][oldfd])
      BY <2>1, <2>4, SetFd, FdTyped
    <3>3. \A f \in Fds : ~Dupping(a, f) /\ (Dupping(a, f)' <=> f = newfd)
      BY <2>0, <3>1 DEF Dupping
    <3>4. \A f \in Fds \ {-1, newfd} : fileTable'[a][f] = fileTable[a][f] /\ (Dupping(a, f)' <=> Dupping(a, f))
      BY <3>2, <3>3 DEF FdSet
    <3>5. /\ RowSlots(a) /\ RowSlots(a)' /\ RowVnodes(a) /\ RowVnodes(a)'
          /\ ButFor(SlotOf, SlotOf', a, {-1, newfd}) /\ ButFor(VnodeOf, VnodeOf', a, {-1, newfd})
      BY <2>0, <2>2, <3>1, <3>2, <3>4, <1>OwnMaps DEF FdSet, file_vars
    <3>6. /\ SlotOf[<<a, -1>>] = NULL /\ VnodeOf[<<a, -1>>] = NULL
          /\ SlotOf'[<<a, -1>>] = NULL /\ VnodeOf'[<<a, -1>>] = NULL
      BY <2>0, <3>1, <3>5 DEF RowSlots, RowVnodes
    <3>7. SlotOf[<<a, newfd>>] = NULL /\ VnodeOf[<<a, newfd>>] = NULL
      BY <2>4, <3>5 DEF RowSlots, RowVnodes
    <3>8. SlotOf'[<<a, newfd>>] = NULL /\ VnodeOf'[<<a, newfd>>] = NULL
      BY <3>3, <3>5 DEF RowSlots, RowVnodes
    <3>9. Stays(a) /\ pc'[a] \notin ClosePcs
      BY <2>0, <3>1, StaysAlone DEF ClosePcs
    <3> QED
      BY <2>2, <3>1, <3>5, <3>6, <3>7, <3>8, <3>9, <1>MovesB
  <2> QED
    BY <2>3, <2>4
\* DropDone: nothing that is counted changes but the reference in hand.
<1>DropDoneMaps. ASSUME AInv, NEW a \in Users, pc[a] \in {"c_lock", "c_destroy"}, DropDone(a), UNCHANGED vn
    PROVE  /\ Alone(a) /\ pc'[a] \in {"user", "u_incr"} /\ other' = other
           /\ ButFor(SlotOf, SlotOf', a, {-1}) /\ ButFor(VnodeOf, VnodeOf', a, {-1})
           /\ SlotOf'[<<a, -1>>] = NULL /\ VnodeOf'[<<a, -1>>] = NULL
  <2> USE <1>DropDoneMaps
  <2>0. TypeOK /\ DupAt(a) /\ a \in Actors
    BY DEF AInv, Actors, Tables, Dups
  <2>1. /\ Alone(a) /\ pc'[a] \in {"user", "u_incr"} /\ other' = other
        /\ \A p \in Users \ {a} : fileTable'[p] = fileTable[p]
    BY DropDoneFacts
  <2>2. \A f \in Fds : ~Dupping(a, f)
    BY DEF Dupping
  <2>3. pc[a] # "none" /\ pc[a] # "f_write" /\ pc'[a] # "f_write"
    BY <2>1
  <2>4. RowSlots(a) /\ RowSlots(a)' /\ RowVnodes(a) /\ RowVnodes(a)'
    BY <2>1, <2>3, <1>OwnRow
  <2>5. SlotOf'[<<a, -1>>] = NULL /\ VnodeOf'[<<a, -1>>] = NULL
    BY <2>1, <2>4 DEF RowSlots, RowVnodes
  <2>6. \A f \in Fds : SlotOf'[<<a, f>>] = SlotOf[<<a, f>>] /\ VnodeOf'[<<a, f>>] = VnodeOf[<<a, f>>]
    <3>1. CASE old[a] = NULL
      <4>1. UNCHANGED fileTable /\ Return(a)
        BY <3>1 DEF DropDone
      <4>2. pc'[a] = "user"
        BY <2>0, <4>1, ReturnFacts DEF AInv, OwnPcs
      <4>3. \A f \in Fds : ~Dupping(a, f)'
        BY <4>2 DEF Dupping
      <4> QED
        BY <2>2, <2>4, <4>1, <4>3, <1>RowSame
    <3>2. CASE old[a] # NULL
      <4>1. PICK g \in Fds : g = fd[a]
        BY <2>0 DEF TypeOK
      <4>2. fileTable' = [fileTable EXCEPT ![a][g] = old[a]] /\ pc' = [pc EXCEPT ![a] = "u_incr"] /\ fd' = fd
        BY <3>2, <4>1 DEF DropDone, Goto
      <4>3. FdSet(a, g, old[a])
        BY <2>0, <4>2, SetFd DEF TypeOK
      <4>4. pc'[a] = "u_incr" /\ fd'[a] = g /\ fileTable[a][g] = NULL
        BY <2>0, <3>2, <4>1, <4>2 DEF TypeOK, DupAt
      <4>5. \A f \in Fds : Dupping(a, f)' <=> f = g
        BY <4>4 DEF Dupping
      <4>6. ASSUME NEW f \in Fds, f # g
            PROVE  SlotOf'[<<a, f>>] = SlotOf[<<a, f>>] /\ VnodeOf'[<<a, f>>] = VnodeOf[<<a, f>>]
        <5>1. fileTable'[a][f] = fileTable[a][f]
          BY <4>3, <4>6 DEF FdSet
        <5> QED
          BY <2>2, <2>4, <4>5, <4>6, <5>1, <1>RowSame
      <4>7. SlotOf'[<<a, g>>] = NULL /\ VnodeOf'[<<a, g>>] = NULL
        BY <2>4, <4>5 DEF RowSlots, RowVnodes
      <4>8. SlotOf[<<a, g>>] = NULL /\ VnodeOf[<<a, g>>] = NULL
        BY <2>4, <4>4 DEF RowSlots, RowVnodes
      <4> QED
        BY <4>6, <4>7, <4>8
    <3> QED
      BY <3>1, <3>2
  <2>7. ButFor(SlotOf, SlotOf', a, {-1})
    <3>1. \A f \in (Fds \cup {-1}) \ {-1} : SlotOf'[<<a, f>>] = SlotOf[<<a, f>>]
      BY <2>6
    <3> QED
      BY <2>1, <2>3, <3>1, <1>OwnSlots
  <2>8. ButFor(VnodeOf, VnodeOf', a, {-1})
    <3>1. \A f \in (Fds \cup {-1}) \ {-1} : VnodeOf'[<<a, f>>] = VnodeOf[<<a, f>>]
      BY <2>6
    <3> QED
      BY <2>1, <3>1, <1>OwnVnodes
  <2> QED
    BY <2>1, <2>5, <2>7, <2>8
\* The decrement takes one reference from the slot; the last one empties the
\* slot.
<1>CloseLockB. ASSUME AInv, BInv, NEW a \in Users, CloseLock(a)
    PROVE  BInv'
  <2> USE <1>CloseLockB
  <2> DEFINE t == <<a, -1>>
  <2>0. TypeOK /\ a \in Actors /\ pc[a] = "c_lock" /\ of[a] \in Files
    BY DEF AInv, Actors, CloseLock, Locals, FileInHand
  <2>1. PICK i \in Files : i = of[a]
    BY <2>0
  <2>2. t \in Tokens /\ SlotOf[t] = i /\ VnodeOf[t] = vn[i]
    BY <2>0, <2>1, TokenParts, MapParts
  <2>3. vn[i] \in Vnodes /\ of_lock[i] # "none" /\ countRef[i] = Count(SlotOf, i) /\ Count(SlotOf, i) # 0
    BY <2>2, SlotThere, CountNat
  <2>4. DropRef(a) /\ UNCHANGED <<offset, vn_refcount, ft_copy_lock, state, parent, fault, raced>>
    BY <2>1, <2>3 DEF CloseLock, WithLock
  <2>5. Minus1(countRef[i]) = Count(SlotOf, i) - 1 /\ Count(SlotOf, i) \in Nat
    <3>1. countRef[i] \in 0..(CountMod - 1) /\ Count(SlotOf, i) \in Nat
      BY <2>0, CountNat DEF TypeOK
    <3> QED
      BY SMT, <2>3, <3>1, Constants, MinusOne
  <2>6. countRef'[i] = Count(SlotOf, i) - 1 /\ \A j \in Files \ {i} : countRef'[j] = countRef[j]
    <3>1. countRef' = [countRef EXCEPT ![i] = Minus1(countRef[i])]
      BY <2>1, <2>4 DEF DropRef
    <3>2. countRef \in [Files -> 0..(CountMod - 1)]
      BY <2>0 DEF TypeOK
    <3> QED
      BY <2>5, <3>1, <3>2
  <2>7. CASE Minus1(countRef[i]) > 0
    <3>1. DropDone(a) /\ UNCHANGED <<vn, of_lock>>
      BY <2>1, <2>4, <2>7 DEF DropRef
    <3>2. /\ Alone(a) /\ pc'[a] \in {"user", "u_incr"} /\ other' = other
          /\ ButFor(SlotOf, SlotOf', a, {-1}) /\ ButFor(VnodeOf, VnodeOf', a, {-1})
          /\ SlotOf'[t] = NULL /\ VnodeOf'[t] = NULL
      BY <2>0, <3>1, <1>DropDoneMaps
    <3>3. Stays(a) /\ pc'[a] \notin ClosePcs /\ pc'[a] # "o_fd"
      BY <2>0, <3>2, StaysAlone DEF ClosePcs
    <3>4. \A r \in Tokens \ {t} : SlotOf'[r] = SlotOf[r] /\ VnodeOf'[r] = VnodeOf[r]
      BY <3>2 DEF ButFor
    <3>5. VnodeCounted'
      BY <2>2, <2>4, <3>2, <3>4, VnodesDrop
    <3>6. Counted'
      <4>1. (\A j \in Files \ {i} : Count(SlotOf', j) = Count(SlotOf, j)) /\ CountChange(SlotOf, SlotOf', t, i)
        BY <2>2, <3>2, <3>4, OneSlot
      <4>2. Count(SlotOf', i) = Count(SlotOf, i) - 1
        BY <2>2, <3>2, <4>1, Constants DEF CountChange
      <4>3. vn'[i] # NULL /\ of_lock'[i] # "none"
        BY <2>3, <3>1, Constants
      <4> QED
        BY <2>6, <3>1, <4>1, <4>2, <4>3, CountedStep
    <3>7. Opening' /\ Closing' /\ ClosingOnce'
      BY <2>0, <3>1, <3>2, <3>3, <3>4, OpeningIdle, ClosingIdle
    <3> QED
      BY <2>4, <3>5, <3>6, <3>7 DEF BInv
  <2>8. CASE ~(Minus1(countRef[i]) > 0)
    <3>1. /\ v' = [v EXCEPT ![a] = vn[i]] /\ vn' = [vn EXCEPT ![i] = NULL]
          /\ of_lock' = [of_lock EXCEPT ![i] = a] /\ pc' = [pc EXCEPT ![a] = "c_rel"]
          /\ UNCHANGED <<fileTable, of, fd, old, other, cnt>>
      BY <2>1, <2>4, <2>8 DEF DropRef, Goto
    <3>2. Alone(a) /\ pc'[a] = "c_rel" /\ v'[a] = vn[i] /\ of'[a] = i
      BY <2>0, <2>1, <3>1 DEF Alone, TypeOK
    <3>3. /\ \A j \in Files \ {i} : vn'[j] = vn[j] /\ of_lock'[j] = of_lock[j]
          /\ vn'[i] = NULL /\ of_lock'[i] = a
      BY <2>0, <3>1 DEF TypeOK
    <3>4. Count(SlotOf, i) = 1
      BY SMT, <2>3, <2>5, <2>8
    <3>5. \A r \in Tokens \ {t} : SlotOf[r] # i
      <4> SUFFICES ASSUME NEW r \in Tokens, r # t, SlotOf[r] = i PROVE FALSE
        OBVIOUS
      <4>1. Count(SlotOf, i) > 1
        BY <2>2, <1>CountTwo
      <4> QED
        BY SMT, <3>4, <4>1
    <3>6. /\ RowSlots(a) /\ RowSlots(a)' /\ RowVnodes(a) /\ RowVnodes(a)'
          /\ ButFor(SlotOf, SlotOf', a, {-1}) /\ ButFor(VnodeOf, VnodeOf', a, {-1})
      <4>1. \A f \in Fds \ {-1} : fileTable'[a][f] = fileTable[a][f] /\ (Dupping(a, f)' <=> Dupping(a, f))
        BY <2>0, <3>1, <3>2 DEF Dupping
      <4>2. \A r \in Tokens : r # t /\ SlotOf[r] \in Files => vn'[SlotOf[r]] = vn[SlotOf[r]]
        BY <3>3, <3>5
      <4> QED
        BY <2>0, <3>1, <3>2, <4>1, <4>2, <1>OwnMaps
    <3>7. SlotOf'[t] = NULL /\ VnodeOf'[t] = vn[i]
      BY <3>2, <3>6 DEF RowSlots, RowVnodes
    <3>8. /\ \A r \in Tokens \ {t} : SlotOf'[r] = SlotOf[r]
          /\ \A r \in Tokens : VnodeOf'[r] = VnodeOf[r]
      BY <2>2, <3>6, <3>7 DEF ButFor
    <3>9. VnodeCounted'
      <4>1. \A x : Count(VnodeOf', x) = Count(VnodeOf, x)
        BY <3>8 DEF Count
      <4> QED
        BY <2>4, <4>1 DEF BInv, VnodeCounted
    <3>10. Counted'
      <4>1. \A j \in Files \ {i} : Count(SlotOf', j) = Count(SlotOf, j)
        BY <2>2, <3>7, <3>8, OneSlot
      <4>2. Count(SlotOf', i) = 0
        <5>1. \A r \in Tokens : SlotOf'[r] # i
          BY <3>5, <3>7, <3>8, Constants
        <5> QED
          BY <5>1, CountNat
      <4> QED
        BY <2>6, <3>3, <4>1, <4>2, CountedStep
    <3>11. Stays(a)
      BY <2>0, <3>2, StaysAlone
    <3>12. Opening'
      <4>1. \A b \in Users \ {a} : pc[b] = "o_fd" => vn'[of[b]] = vn[of[b]]
        <5> SUFFICES ASSUME NEW b \in Users, b # a, pc[b] = "o_fd" PROVE vn'[of[b]] = vn[of[b]]
          OBVIOUS
        <5>1. of[b] \in Files /\ SlotOf[<<b, -1>>] = of[b] /\ <<b, -1>> \in Tokens
          BY MapParts, TokenParts DEF AInv, Locals, FileInHand
        <5>2. <<b, -1>> # t
          BY SMT
        <5> QED
          BY <3>3, <3>5, <5>1, <5>2
      <4>2. \A r \in Tokens : SlotOf'[r] \in {SlotOf[r], NULL}
        BY <3>7, <3>8
      <4> QED
        BY <2>0, <3>2, <3>11, <4>1, <4>2, OpeningStep
    <3>13. \A b \in Users : pc[b] \in ClosePcs => of[b] # i /\ of[b] \in Files /\ vn[of[b]] = NULL
      BY <2>3, Constants DEF BInv, Closing, AInv, Locals, FileInHand, ClosePcs
    <3>14. Closing' /\ ClosingOnce'
      <4>1. \A b \in Users \ {a} : pc[b] \in ClosePcs => vn'[of[b]] = NULL /\ of_lock'[of[b]] = of_lock[of[b]]
        BY <3>3, <3>13
      <4>2. /\ vn'[of'[a]] = NULL /\ of_lock'[of'[a]] = a /\ v'[a] \in Vnodes
            /\ \A b \in Users \ {a} : pc[b] \in ClosePcs => of[b] # of'[a]
        BY <2>3, <3>2, <3>3, <3>13
      <4> QED
        BY <2>0, <3>2, <3>11, <4>1, <4>2, ClosingStep
    <3> QED
      BY <2>4, <3>9, <3>10, <3>12, <3>14 DEF BInv
  <2> QED
    BY <2>7, <2>8
\* vfs_close gives up the reference to the vnode that the closer had in hand.
<1>CloseVfsB. ASSUME AInv, BInv, NEW a \in Users, CloseVfs(a)
    PROVE  BInv'
  <2> USE <1>CloseVfsB
  <2> DEFINE t == <<a, -1>>
  <2>0. TypeOK /\ a \in Actors /\ pc[a] = "c_vfs" /\ v[a] \in Vnodes
    BY DEF AInv, Actors, CloseVfs, Locals, VnodeInHand
  <2>1. t \in Tokens /\ VnodeOf[t] = v[a]
    BY <2>0, TokenParts, MapParts
  <2>2. vn_refcount[v[a]] # 0
    BY <2>0, <2>1, VnodeThere
  <2>3. /\ vnode_decref(v[a]) /\ pc' = [pc EXCEPT ![a] = "c_destroy"]
        /\ UNCHANGED <<fileTable, file_vars, ft_copy_lock, state, parent, of, fd, v, old, other, cnt, fault, raced>>
    BY <2>0, <2>2, Constants DEF CloseVfs, WithVnode, Goto
  <2>4. Alone(a) /\ pc'[a] = "c_destroy"
    BY <2>0, <2>3 DEF Alone, TypeOK
  <2>5. Stays(a)
    BY <2>0, <2>4, StaysAlone
  <2>6. /\ RowSlots(a) /\ RowSlots(a)' /\ RowVnodes(a) /\ RowVnodes(a)'
        /\ ButFor(SlotOf, SlotOf', a, {-1}) /\ ButFor(VnodeOf, VnodeOf', a, {-1})
    <3>1. \A f \in Fds \ {-1} : fileTable'[a][f] = fileTable[a][f] /\ (Dupping(a, f)' <=> Dupping(a, f))
      BY <2>0, <2>3, <2>4 DEF Dupping
    <3> QED
      BY <2>0, <2>3, <2>4, <3>1, <1>OwnMaps DEF file_vars
  <2>7. SlotOf[t] = NULL /\ SlotOf'[t] = NULL /\ VnodeOf'[t] = NULL
    BY <2>0, <2>4, <2>6 DEF RowSlots, RowVnodes
  <2>8. /\ \A r \in Tokens : SlotOf'[r] = SlotOf[r]
        /\ \A r \in Tokens \ {t} : VnodeOf'[r] = VnodeOf[r]
    BY <2>6, <2>7 DEF ButFor
  <2>9. VnodeCounted'
    BY <2>0, <2>1, <2>3, <2>7, <2>8, VnodesDown
  <2>10. Counted'
    BY <2>3, <2>8, CountedSame DEF file_vars
  <2>11. Opening'
    BY <2>0, <2>3, <2>4, <2>5, <2>8, OpeningIdle DEF file_vars
  <2>12. Closing' /\ ClosingOnce'
    <3>1. vn' = vn /\ of_lock' = of_lock /\ of' = of
      BY <2>3 DEF file_vars
    <3>2. vn[of[a]] = NULL /\ of_lock[of[a]] = "free"
      BY <2>0 DEF BInv, Closing, ClosePcs
    <3>3. \A b \in Users \ {a} : pc[b] \in ClosePcs => of[b] # of[a] /\ vn[of[b]] = NULL
      BY <2>0 DEF BInv, Closing, ClosingOnce, ClosePcs
    <3> QED
      BY <2>0, <2>4, <2>5, <3>1, <3>2, <3>3, ClosingStep
  <2> QED
    BY <2>3, <2>9, <2>10, <2>11, <2>12 DEF BInv
\* lock_destroy of the last close hits the lock of a slot that no reference is
\* left to.
<1>CloseDestroyB. ASSUME AInv, BInv, NEW a \in Users, CloseDestroy(a)
    PROVE  BInv'
  <2> USE <1>CloseDestroyB
  <2> DEFINE t == <<a, -1>>
  <2>0. /\ TypeOK /\ a \in Actors /\ pc[a] = "c_destroy" /\ of[a] \in Files
        /\ vn[of[a]] = NULL /\ of_lock[of[a]] = "free"
    BY DEF AInv, Actors, CloseDestroy, Locals, FileInHand, BInv, Closing, ClosePcs
  <2>1. /\ of_lock' = [of_lock EXCEPT ![of[a]] = "none"] /\ DropDone(a)
        /\ UNCHANGED <<vn, offset, countRef, vn_refcount, ft_copy_lock, state, parent, fault, raced>>
    BY <2>0 DEF CloseDestroy
  <2>2. \A j \in Files \ {of[a]} : of_lock'[j] = of_lock[j]
    BY <2>0, <2>1 DEF TypeOK
  <2>3. /\ Alone(a) /\ pc'[a] \in {"user", "u_incr"} /\ other' = other
        /\ ButFor(SlotOf, SlotOf', a, {-1}) /\ ButFor(VnodeOf, VnodeOf', a, {-1})
        /\ SlotOf'[t] = NULL /\ VnodeOf'[t] = NULL
    BY <2>0, <2>1, <1>DropDoneMaps
  <2>4. Stays(a) /\ pc'[a] \notin ClosePcs /\ pc'[a] # "o_fd"
    BY <2>0, <2>3, StaysAlone DEF ClosePcs
  <2>5. SlotOf[t] = NULL /\ VnodeOf[t] = NULL
    BY <2>0, MapParts
  <2>6. \A r \in Tokens : SlotOf'[r] = SlotOf[r] /\ VnodeOf'[r] = VnodeOf[r]
    BY <2>3, <2>5 DEF ButFor
  <2>7. VnodeCounted'
    <3>1. \A x : Count(VnodeOf', x) = Count(VnodeOf, x)
      BY <2>6 DEF Count
    <3> QED
      BY <2>1, <3>1 DEF BInv, VnodeCounted
  <2>8. Counted'
    BY <2>0, <2>1, <2>2, <2>6, CountedSame
  <2>9. Opening'
    BY <2>0, <2>1, <2>4, <2>6, OpeningIdle
  <2>10. Closing' /\ ClosingOnce'
    <3>1. \A b \in Users \ {a} : pc[b] \in ClosePcs => of[b] # of[a] /\ of[b] \in Files /\ vn[of[b]] = NULL
      BY <2>0 DEF BInv, Closing, ClosingOnce, ClosePcs, AInv, Locals, FileInHand
    <3>2. \A b \in Users \ {a} : pc[b] \in ClosePcs => vn'[of[b]] = NULL /\ of_lock'[of[b]] = of_lock[of[b]]
      BY <2>1, <2>2, <3>1
    <3> QED
      BY <2>0, <2>4, <3>2, ClosingStep
  <2> QED
    BY <2>1, <2>7, <2>8, <2>9, <2>10 DEF BInv
\* The increment of dup2, under of_lock, counts the descriptor that it stored.
<1>DupIncrB. ASSUME AInv, BInv, NEW a \in Users, DupIncr(a)
    PROVE  BInv'
  <2> USE <1>DupIncrB
  <2>0. TypeOK /\ Owners /\ DupAt(a) /\ a \in Actors /\ pc[a] = "u_incr"
    BY DEF AInv, Actors, DupIncr, Tables, Dups
  <2>1. PICK i \in Files, g \in Fds, f \in Fds : 
          i = old[a] /\ g = fd[a] /\ f # g /\ fileTable[a][f] = i /\ fileTable[a][g] = i
    <3>1. old[a] \in Files /\ fd[a] \in Fds
      BY <2>0 DEF DupAt, TypeOK
    <3> QED
      BY <2>0, <3>1 DEF DupAt
  <2>2. i # NULL /\ vn[i] \in Vnodes /\ of_lock[i] # "none" /\ vn_refcount[vn[i]] # 0
    <3>1. fileTable[a][f] # NULL
      BY <2>1, Constants
    <3>2. /\ vn[fileTable[a][f]] \in Vnodes /\ of_lock[fileTable[a][f]] # "none"
          /\ vn_refcount[vn[fileTable[a][f]]] # 0
      BY <3>1, FdThere
    <3> QED
      BY SMT, <2>1, <3>1, <3>2
  <2>3. /\ vn_refcount[vn[i]] < MaxRefs
        /\ countRef' = [countRef EXCEPT ![i] = (@ + 1) % CountMod]
        /\ vnode_incref(vn[i]) /\ Return(a)
        /\ UNCHANGED <<fileTable, vn, offset, of_lock, ft_copy_lock, state, parent, fault, raced>>
    BY <2>1, <2>2, Constants DEF DupIncr, WithLock, WithVnode
  <2>4. Alone(a) /\ pc'[a] = "user" /\ other' = other
    BY <2>0, <2>3, ReturnFacts DEF OwnPcs
  <2>5. Stays(a) /\ pc'[a] \notin ClosePcs
    BY <2>0, <2>4, StaysAlone DEF ClosePcs
  <2>6. \A h \in Fds : ~Dupping(a, h)' /\ (Dupping(a, h) <=> h = g)
    BY <2>0, <2>1, <2>4 DEF Dupping
  <2>7. /\ RowSlots(a) /\ RowSlots(a)' /\ RowVnodes(a) /\ RowVnodes(a)'
        /\ ButFor(SlotOf, SlotOf', a, {-1, g}) /\ ButFor(VnodeOf, VnodeOf', a, {-1, g})
    <3>1. \A h \in Fds \ {-1, g} : fileTable'[a][h] = fileTable[a][h] /\ (Dupping(a, h)' <=> Dupping(a, h))
      BY <2>3, <2>6
    <3> QED
      BY <2>0, <2>3, <2>4, <3>1, <1>OwnMaps
  <2> DEFINE u == <<a, g>>
  <2>8. /\ SlotOf[<<a, -1>>] = NULL /\ VnodeOf[<<a, -1>>] = NULL
        /\ SlotOf'[<<a, -1>>] = NULL /\ VnodeOf'[<<a, -1>>] = NULL
    BY <2>0, <2>4, <2>7 DEF RowSlots, RowVnodes
  <2>9. \A r \in Tokens \ {u} : SlotOf'[r] = SlotOf[r] /\ VnodeOf'[r] = VnodeOf[r]
    BY <2>7, <2>8 DEF ButFor
  <2>10. SlotOf[u] = NULL /\ VnodeOf[u] = NULL
    BY <2>6, <2>7 DEF RowSlots, RowVnodes
  <2>11. SlotOf'[u] = i
    BY <2>1, <2>3, <2>6, <2>7 DEF RowSlots
  <2>12. VnodeOf'[u] = vn[i]
    <3>1. VnodeOf'[u] = vn'[fileTable'[a][g]]
      BY <2>1, <2>2, <2>3, <2>6, <2>7 DEF RowVnodes
    <3> QED
      BY <2>1, <2>3, <3>1
  <2>13. u \in Tokens /\ <<a, f>> \in Tokens /\ SlotOf[<<a, f>>] = i
    BY <2>1, <2>6, <2>7, TokenParts DEF RowSlots
  <2>14. VnodeCounted'
    BY <2>2, <2>3, <2>9, <2>10, <2>12, <2>13, VnodesUp
  <2>15. Counted'
    <3>1. (\A j \in Files \ {i} : Count(SlotOf', j) = Count(SlotOf, j)) /\ CountChange(SlotOf, SlotOf', u, i)
      BY <2>9, <2>10, <2>11, <2>13, OneSlot
    <3>2. Count(SlotOf', i) = Count(SlotOf, i) + 1
      BY <2>2, <2>10, <2>11, <3>1 DEF CountChange
    <3>3. countRef[i] = Count(SlotOf, i)
      BY <2>13, CountNat DEF BInv, Counted
    <3>4. (Count(SlotOf, i) + 1) % CountMod = Count(SlotOf, i) + 1
      BY <2>2, <2>3, Room
    <3>5. countRef'[i] = (countRef[i] + 1) % CountMod /\ \A j \in Files \ {i} : countRef'[j] = countRef[j]
      BY <2>0, <2>3 DEF TypeOK
    <3>6. countRef'[i] = Count(SlotOf', i)
      BY <3>2, <3>3, <3>4, <3>5
    <3>7. vn'[i] # NULL /\ of_lock'[i] # "none"
      BY <2>2, <2>3, Constants
    <3> QED
      BY <2>3, <3>1, <3>5, <3>6, <3>7, CountedStep
  <2>16. Opening'
    <3>1. \A b \in Users : <<a, f>> # <<b, -1>>
      BY SMT, Constants
    <3>2. \A r \in Tokens : \/ SlotOf'[r] \in {SlotOf[r], NULL}
                            \/ vn[SlotOf'[r]] = NULL
                            \/ \E q \in Tokens : SlotOf[q] = SlotOf'[r] /\ \A b \in Users \ {a} : q # <<b, -1>>
      BY <2>9, <2>11, <2>13, <3>1
    <3> QED
      BY <2>0, <2>3, <2>4, <2>5, <3>2, OpeningStep
  <2>17. Closing' /\ ClosingOnce'
    BY <2>0, <2>3, <2>5, ClosingIdle
  <2> QED
    BY <2>3, <2>14, <2>15, <2>16, <2>17 DEF BInv
\* The console is opened for the first three descriptors, each with a slot and a
\* count of its own.
<1>StdOpenB. ASSUME AInv, BInv, NEW a \in Users, std_open(a), ~raced'
    PROVE  BInv'
  <2> USE <1>StdOpenB
  <2>0. TypeOK /\ Tables /\ a \in Actors /\ pc[a] = "std"
    BY DEF AInv, Actors, std_open
  <2>1. UNCHANGED <<ft_copy_lock, of, v, old, other, cnt, fault>>
    BY DEF std_open
  <2>2. CASE Die(a) /\ fd' = [fd EXCEPT ![a] = 0] /\ UNCHANGED <<fileTable, file_vars, vn_refcount, raced>>
    BY <2>0, <2>1, <2>2, DieB
  <2>3. CASE ~(Die(a) /\ fd' = [fd EXCEPT ![a] = 0] /\ UNCHANGED <<fileTable, file_vars, vn_refcount, raced>>)
    <3>1. PICK x \in Vnodes :
            /\ FreeFiles # {} /\ vn_refcount[x] < MaxRefs /\ FillSlot(Min(FreeFiles), x) /\ vnode_incref(x)
            /\ fileTable' = [fileTable EXCEPT ![a][fd[a]] = Min(FreeFiles)]
            /\ IF fd[a] + 1 < FirstFd
               THEN fd' = [fd EXCEPT ![a] = fd[a] + 1] /\ UNCHANGED pc
               ELSE fd' = [fd EXCEPT ![a] = 0] /\ pc' = [pc EXCEPT ![a] = "user"]
      BY <2>3 DEF std_open, Goto
    <3>2. PICK i \in Files, g \in Fds : i = Min(FreeFiles) /\ g = fd[a] /\ vn[i] = NULL
      BY <2>0, <3>1, FreeFilesTyped DEF TypeOK
    <3>3. fileTable[a][g] = NULL
      <4>1. g >= g
        BY SMT, Constants
      <4> QED
        BY <2>0, <3>2, <4>1 DEF Tables, StdOpens
    <3>4. Alone(a) /\ pc'[a] \in {"std", "user"}
      <4>1. CASE fd[a] + 1 < FirstFd
        BY <2>0, <2>1, <3>1, <4>1 DEF Alone, TypeOK
      <4>2. CASE ~(fd[a] + 1 < FirstFd)
        BY <2>0, <2>1, <3>1, <4>2 DEF Alone, TypeOK
      <4> QED
        BY <4>1, <4>2
    <3>5. FdSet(a, g, i) /\ FillSlot(i, x)
      BY <3>1, <3>2, SetFd
    <3>6. \A f \in Fds : ~Dupping(a, f) /\ ~Dupping(a, f)'
      BY <2>0, <3>4 DEF Dupping
    <3>7. /\ RowSlots(a) /\ RowSlots(a)' /\ RowVnodes(a) /\ RowVnodes(a)'
          /\ ButFor(SlotOf, SlotOf', a, {-1, g}) /\ ButFor(VnodeOf, VnodeOf', a, {-1, g})
      <4>1. \A f \in Fds \ {-1, g} : fileTable'[a][f] = fileTable[a][f] /\ (Dupping(a, f)' <=> Dupping(a, f))
        BY <3>5, <3>6 DEF FdSet
      <4>2. \A r \in Tokens : SlotOf[r] \in Files => vn'[SlotOf[r]] = vn[SlotOf[r]]
        BY <3>2, <3>5, <1>FillKeeps
      <4>3. \A p \in Users \ {a} : fileTable'[p] = fileTable[p]
        BY <3>5 DEF FdSet
      <4>4. pc[a] # "none" /\ pc[a] # "f_write" /\ pc'[a] # "f_write"
        BY <2>0, <3>4
      <4> QED
        BY <2>1, <3>4, <4>1, <4>2, <4>3, <4>4, <1>OwnMaps
    <3> DEFINE u == <<a, g>>
    <3>8. /\ SlotOf[<<a, -1>>] = NULL /\ VnodeOf[<<a, -1>>] = NULL
          /\ SlotOf'[<<a, -1>>] = NULL /\ VnodeOf'[<<a, -1>>] = NULL
      BY <2>0, <3>4, <3>7 DEF RowSlots, RowVnodes
    <3>9. \A r \in Tokens \ {u} : SlotOf'[r] = SlotOf[r] /\ VnodeOf'[r] = VnodeOf[r]
      BY <3>7, <3>8 DEF ButFor
    <3>10. SlotOf[u] = NULL /\ VnodeOf[u] = NULL /\ u \in Tokens
      BY <3>3, <3>7, TokenParts DEF RowSlots, RowVnodes
    <3>11. fileTable'[a][g] = i /\ i # NULL /\ vn'[i] = x
      BY <3>5, FillFacts, Constants DEF FdSet
    <3>12. SlotOf'[u] = i
      BY <3>6, <3>7, <3>11 DEF RowSlots
    <3>13. VnodeOf'[u] = x
      <4>1. VnodeOf'[u] = IF fileTable'[a][g] = NULL \/ Dupping(a, g)' THEN NULL ELSE vn'[fileTable'[a][g]]
        BY <3>7 DEF RowVnodes
      <4>2. ~Dupping(a, g)'
        BY <3>6
      <4> QED
        BY SMT, <3>11, <4>1, <4>2
    <3>14. VnodeCounted'
      BY <3>1, <3>9, <3>10, <3>13, VnodesUp
    <3>15. Counted' /\ Opening' /\ Closing' /\ ClosingOnce'
      <4>1. pc'[a] \in {"o_fd", "std", "user"} /\ pc'[a] # "o_fd"
        BY <3>4
      <4> QED
        BY <3>2, <3>4, <3>5, <3>9, <3>10, <3>12, <4>1, <1>FillB
    <3> QED
      BY <2>1, <3>14, <3>15 DEF BInv
  <2> QED
    BY <2>2, <2>3
<1> TAKE a \in Users
<1> HAVE /\ AInv /\ BInv /\ ~raced'
         /\ \/ sys_open(a) \/ OpenSlot(a) \/ OpenFd(a) \/ std_open(a)
            \/ sys_close(a) \/ CloseLock(a) \/ CloseVfs(a) \/ CloseDestroy(a)
            \/ sys_dup2(a) \/ DupIncr(a)
<1>1. CASE sys_open(a) \/ OpenSlot(a) \/ OpenFd(a) \/ std_open(a)
  BY <1>1, <1>SysOpenB, <1>OpenSlotB, <1>OpenFdB, <1>StdOpenB
<1>2. CASE sys_close(a) \/ CloseLock(a) \/ CloseVfs(a) \/ CloseDestroy(a)
  BY <1>2, <1>SysCloseB, <1>CloseLockB, <1>CloseVfsB, <1>CloseDestroyB
<1>3. CASE sys_dup2(a) \/ DupIncr(a)
  BY <1>3, <1>SysDup2B, <1>DupIncrB
<1> QED
  BY <1>1, <1>2, <1>3
=============================================================================
