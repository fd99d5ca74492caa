--------------------------- MODULE LamebusProofs ---------------------------
(***************************************************************************)
(* Theorems about Lamebus, for any cards in the slots, any number of       *)
(* threads, requests and sectors, and any limit on duds.                   *)
(***************************************************************************)
EXTENDS Lamebus, FiniteSetTheorems, WellFoundedInduction, TLAPS

\* What autoconf has done so far: a slot in use has its own driver's handler, or
\* is the one being attached; a driver is left behind with no card of it unmarked.
BootOk ==
  /\ lb_inuse \subseteq Slots /\ lb_func \in [Slots -> {"none", "lhd", "ltimer"}]
  /\ lb_boot \in [driver : 1..3, slot : Slots \cup {-1}, marked : BOOLEAN]
  /\ \A s \in Slots : lb_func[s] # "none" => lb_func[s] = LbCards[s] /\ s \in lb_inuse
  /\ \A s \in lb_inuse : lb_func[s] # "none" \/ (s = lb_boot.slot /\ lb_boot.marked)
  /\ lb_boot.slot = -1 => ~lb_boot.marked
  /\ lb_boot.slot # -1 =>
       /\ lb_boot.driver <= 2 /\ LbCards[lb_boot.slot] = Drivers[lb_boot.driver]
       /\ lb_func[lb_boot.slot] = "none"
       /\ lb_boot.slot \in lb_inuse <=> lb_boot.marked
  /\ lb_boot.driver > 1 => \A s \in Slots : LbCards[s] = "lhd" => s \in lb_inuse

\* The pass of lamebus_interrupt: what it has yet to serve is still asserted, is
\* in its copy of the lines and is not behind it.
PassOk ==
  /\ lb_lines \subseteq Slots /\ lb_served \subseteq lb_lines
  /\ lb_irq \in [pc : {"off", "trap", "slots", "handler"}, slot : Nat, irqs : SUBSET Slots, dud : BOOLEAN]
  /\ lb_duds \in Nat /\ lb_panic \in BOOLEAN
  /\ lb_irq.pc \in {"slots", "handler"} =>
       /\ lb_irq.slot >= 1 /\ lb_served \subseteq lb_irq.irqs
       /\ \A s \in lb_served : s >= lb_irq.slot
  /\ lb_irq.pc = "handler" => lb_irq.slot \in Slots /\ lb_func[lb_irq.slot] # "none"
  /\ lb_panic => lb_irq.pc = "off" /\ lb_duds > MaxDuds

LbStates == [pc : {"idle", "next", "clear", "wait", "moveout"}, write : BOOLEAN, sector : Int,
             left : Int, n : Int, ok : BOOLEAN]
LbValues == LbThreads \cup {0}
Busy(t) == lh_thr[t].pc \in {"clear", "wait", "moveout"}

\* The card holds the outcome of thread t's operation.
Answer(t) ==
  /\ lh_sect = lh_thr[t].sector /\ lh_buf = lh_disk[lh_sect]
  /\ lh_thr[t].write => lh_disk[lh_sect] = t

\* The operation of a thread at P(lh_done) is under way, done, or reported.
Request(t) ==
  \/ /\ lh_stat = "working" /\ lh_done = 0
     /\ lh_sect = lh_thr[t].sector /\ lh_iswrite = lh_thr[t].write
     /\ lh_thr[t].write => lh_buf = t
  \/ /\ lh_stat \in {"ok", "media"} /\ lh_done = 0 /\ DiskSlot \in lb_lines
     /\ lh_stat = "ok" => Answer(t)
  \/ /\ lh_stat = "idle" /\ lh_done = 1
     /\ lh_result = "ok" => Answer(t)

DiskType ==
  /\ lh_thr \in [LbThreads -> LbStates]
  /\ lh_stat \in {"idle", "working", "ok", "media"} /\ lh_clear \in {0, 1} /\ lh_done \in {0, 1}
  /\ lh_iswrite \in BOOLEAN /\ lh_buf \in LbValues /\ lh_disk \in [LbSectors -> LbValues]

\* The disk: one thread at a time between P(lh_clear) and V(lh_clear), and the
\* card idle unless that thread waits for it.
DiskOk ==
  /\ DiskType
  /\ \A t \in LbThreads : lh_thr[t].pc # "idle" =>
       /\ Booted /\ lh_thr[t].sector \in LbSectors /\ lh_thr[t].left >= 1
       /\ lh_thr[t].sector + lh_thr[t].left - 1 \in LbSectors
  /\ \A t, u \in LbThreads : Busy(t) /\ Busy(u) => t = u
  /\ \A t \in LbThreads : Busy(t) => lh_clear = 0
  /\ (\A t \in LbThreads : lh_thr[t].pc # "wait") => lh_stat = "idle" /\ lh_done = 0
  /\ \A t \in LbThreads : lh_thr[t].pc = "wait" => Request(t)
  /\ \A t \in LbThreads : lh_thr[t].pc = "moveout" /\ lh_thr[t].ok => Answer(t)

LbInv == BootOk /\ PassOk /\ DiskOk
-----------------------------------------------------------------------------
\* The slots of the bus are numbered from 1; the disk's and the timer's are the
\* only ones with their cards, which lamebus_probe finds.
LEMMA SlotFacts ==
  /\ Slots \subseteq Nat /\ Slots = 1..Len(LbCards) /\ -1 \notin Slots
  /\ \A k \in Nat : k >= 1 /\ k \notin Slots => \A s \in Slots : s < k
  /\ DiskSlot \in Slots /\ LbCards[DiskSlot] = "lhd"
  /\ \A s \in Slots : LbCards[s] = "lhd" => s = DiskSlot
  /\ \A s \in Slots : LbCards[s] = "ltimer" => s = TimerSlot
<1>1. Len(LbCards) \in Nat /\ Slots = 1..Len(LbCards)
  BY LamebusAssumption DEF Slots
<1>2. /\ Slots \subseteq Nat /\ -1 \notin Slots
      /\ \A k \in Nat : k >= 1 /\ k \notin Slots => \A s \in Slots : s < k
  BY <1>1
<1>3. DiskSlot \in Slots /\ LbCards[DiskSlot] = "lhd"
  BY LamebusAssumption DEF DiskSlot
<1>4. \A s \in Slots : LbCards[s] = "lhd" => s = DiskSlot
  BY <1>3, LamebusAssumption
<1>5. \A s \in Slots : LbCards[s] = "ltimer" => s = TimerSlot
  <2> SUFFICES ASSUME NEW s \in Slots, LbCards[s] = "ltimer" PROVE s = TimerSlot
    OBVIOUS
  <2>1. TimerSlot \in Slots /\ LbCards[TimerSlot] = "ltimer"
    BY DEF TimerSlot
  <2> QED
    BY <2>1, LamebusAssumption
<1> QED
  BY <1>1, <1>2, <1>3, <1>4, <1>5

\* lamebus_init, config_lhd and config_ltimer leave an idle bus and an idle disk.
LEMMA InitLbInv == lamebus_init => LbInv
<1> SUFFICES ASSUME lamebus_init PROVE LbInv
  OBVIOUS
<1> USE DEF lamebus_init
<1>1. BootOk
  BY SlotFacts DEF BootOk
<1>2. PassOk
  <2>1. lb_irq \in [pc : {"off", "trap", "slots", "handler"}, slot : Nat, irqs : SUBSET Slots, dud : BOOLEAN]
    BY DEF NoPass
  <2>2. lb_irq.pc = "off"
    BY DEF NoPass
  <2> QED
    BY <2>1, <2>2 DEF PassOk
<1>3. DiskOk
  <2>1. LhIdle \in LbStates /\ LhIdle.pc = "idle"
    BY LamebusAssumption DEF LhIdle, LbStates
  <2>2. DiskType
    BY <2>1 DEF DiskType, LbValues
  <2>3. \A t \in LbThreads : lh_thr[t].pc = "idle"
    BY <2>1
  <2> QED
    BY <2>2, <2>3 DEF DiskOk, Busy
<1> QED
  BY <1>1, <1>2, <1>3 DEF LbInv
-----------------------------------------------------------------------------
\* What a step leaves of the three parts when it touches none of their variables.
LEMMA BootSame == BootOk /\ UNCHANGED lb_bus => BootOk'
  BY DEF BootOk, lb_bus

\* A line more, or a line less that the pass has not to serve, does not disturb it.
LEMMA PassSame ==
  ASSUME PassOk, UNCHANGED <<lb_irq, lb_duds, lb_panic, lb_served, lb_func>>,
         lb_lines' \subseteq Slots, lb_served \subseteq lb_lines'
  PROVE  PassOk'
  BY DEF PassOk

\* The interrupt code and the other cards leave the disk alone as long as its line
\* stays asserted.
LEMMA DiskSame ==
  ASSUME DiskOk, UNCHANGED lh_vars, Booted => Booted', DiskSlot \in lb_lines => DiskSlot \in lb_lines'
  PROVE  DiskOk'
<1>1. DiskType'
  BY DEF DiskOk, DiskType, lh_vars
<1>2. \A t \in LbThreads : (Answer(t) <=> Answer(t)') /\ (Request(t) => Request(t)') /\ (Busy(t) <=> Busy(t)')
  BY DEF lh_vars, Answer, Request, Busy
<1> QED
  BY <1>1, <1>2 DEF DiskOk, lh_vars
-----------------------------------------------------------------------------
\* lamebus_probe finds a free slot with the driver's card, or there is none left.
LEMMA ProbeFacts ==
  ASSUME NEW found, found = lamebus_probe(Drivers[lb_boot.driver])
  PROVE  /\ found \subseteq Slots /\ \A s \in found : s \notin lb_inuse /\ LbCards[s] = Drivers[lb_boot.driver]
         /\ found # {} => (CHOOSE s \in found : \A u \in found : s <= u) \in found
         /\ found = {} => \A s \in Slots : LbCards[s] = Drivers[lb_boot.driver] => s \in lb_inuse
<1>1. /\ found \subseteq Slots /\ \A s \in found : s \notin lb_inuse /\ LbCards[s] = Drivers[lb_boot.driver]
      /\ found = {} => \A s \in Slots : LbCards[s] = Drivers[lb_boot.driver] => s \in lb_inuse
  BY Zenon DEF lamebus_probe
<1>2. ASSUME found # {} PROVE \E s \in found : \A u \in found : s <= u
  <2> DEFINE R == OpToRel(<, Nat)
  <2>1. IsWellFoundedOn(R, Nat)
    BY NatLessThanWellFounded
  <2>2. ASSUME NEW a \in Nat, NEW b \in Nat, a < b PROVE <<a, b>> \in R
    BY <2>2 DEF OpToRel
  <2> HIDE DEF R
  <2>3. found \in SUBSET Nat
    BY <1>1, SlotFacts
  <2>4. PICK x \in found : \A y \in found : ~(<<y, x>> \in R)
    BY <1>2, <2>1, <2>3, WFMin
  <2>5. ASSUME NEW y \in found PROVE x <= y
    <3>1. x \in Nat /\ y \in Nat
      BY <2>3
    <3>2. ~(y < x)
      BY <2>2, <2>4, <3>1
    <3> QED
      BY <3>1, <3>2
  <2> QED
    BY <2>5
<1> QED
  BY <1>1, <1>2

\* autoconf: the bus is built up one slot at a time, and never panics.
LEMMA AutoconfInv ==
  ASSUME LbInv, Autoconf
  PROVE  LbInv'
<1>0. /\ BootOk /\ PassOk /\ DiskOk /\ ~Booted
      /\ UNCHANGED <<lb_lines, lb_irq, lb_duds, lb_served, lh_vars, lb_ticks>>
  BY DEF LbInv, Autoconf
<1>1. lb_boot.driver \in {1, 2}
  BY <1>0 DEF BootOk, Booted, Drivers
<1>2. Drivers[1] = "lhd" /\ Drivers[2] = "ltimer" /\ Drivers[lb_boot.driver] \in {"lhd", "ltimer"}
  BY <1>1 DEF Drivers
<1>3. BootOk' /\ (lb_panic' => lb_panic) /\ lb_panic' \in BOOLEAN
      /\ \A s \in Slots : lb_func[s] # "none" => lb_func'[s] # "none"
  <2> DEFINE found == lamebus_probe(Drivers[lb_boot.driver])
  <2>0. /\ found \subseteq Slots /\ \A s \in found : s \notin lb_inuse /\ LbCards[s] = Drivers[lb_boot.driver]
        /\ found # {} => (CHOOSE s \in found : \A u \in found : s <= u) \in found
        /\ found = {} => \A s \in Slots : LbCards[s] = Drivers[lb_boot.driver] => s \in lb_inuse
    BY ProbeFacts
  <2>1. CASE /\ lb_boot.slot = -1 /\ found = {}
             /\ lb_boot' = [driver |-> lb_boot.driver + 1, slot |-> -1, marked |-> FALSE]
             /\ UNCHANGED <<lb_inuse, lb_func, lb_panic>>
    <3> HIDE DEF found
    <3>1. lb_boot' \in [driver : 1..3, slot : Slots \cup {-1}, marked : BOOLEAN]
      BY <1>1, <2>1
    <3>2. lb_boot'.slot = -1 /\ ~lb_boot'.marked /\ lb_boot'.driver = lb_boot.driver + 1
      BY <2>1
    <3>3. \A s \in Slots : LbCards[s] = "lhd" => s \in lb_inuse
      BY <1>0, <1>1, <1>2, <2>0, <2>1 DEF BootOk
    <3> QED
      BY <1>0, <2>1, <3>1, <3>2, <3>3 DEF BootOk, PassOk
  <2>2. CASE /\ lb_boot.slot = -1 /\ found # {}
             /\ lb_boot' = [lb_boot EXCEPT !.slot = CHOOSE s \in found : \A u \in found : s <= u]
             /\ UNCHANGED <<lb_inuse, lb_func, lb_panic>>
    <3> HIDE DEF found
    <3>1. PICK s \in found : lb_boot' = [lb_boot EXCEPT !.slot = s]
      BY <2>0, <2>2
    <3>2. s \in Slots /\ s # -1 /\ s \notin lb_inuse /\ LbCards[s] = Drivers[lb_boot.driver]
      BY <2>0, SlotFacts
    <3>3. /\ lb_boot' \in [driver : 1..3, slot : Slots \cup {-1}, marked : BOOLEAN]
          /\ lb_boot'.slot = s /\ lb_boot'.marked = lb_boot.marked /\ lb_boot'.driver = lb_boot.driver
      BY <1>0, <3>1, <3>2 DEF BootOk
    <3>4. ~lb_boot.marked /\ lb_func[s] = "none"
      BY <1>0, <2>2, <3>2 DEF BootOk
    <3>5. lb_boot.driver <= 2
      BY <1>1
    <3>6. BootOk'
      BY <1>0, <2>2, <3>2, <3>3, <3>4, <3>5, Zenon DEF BootOk
    <3> QED
      BY <1>0, <2>2, <3>6 DEF PassOk
  <2>3. CASE /\ lb_boot.slot # -1 /\ ~lb_boot.marked
             /\ lb_panic' = (lb_panic \/ lb_boot.slot \in lb_inuse)
             /\ lb_inuse' = lb_inuse \cup {lb_boot.slot}
             /\ lb_boot' = [lb_boot EXCEPT !.marked = TRUE]
             /\ UNCHANGED lb_func
    <3>1. /\ lb_boot' \in [driver : 1..3, slot : Slots \cup {-1}, marked : BOOLEAN]
          /\ lb_boot'.slot = lb_boot.slot /\ lb_boot'.marked /\ lb_boot'.driver = lb_boot.driver
          /\ lb_boot.slot \in Slots
      BY <1>0, <2>3 DEF BootOk
    <3>2. lb_boot.slot \notin lb_inuse
      BY <1>0, <2>3 DEF BootOk
    <3>3. lb_panic' => lb_panic /\ lb_panic' \in BOOLEAN
      BY <1>0, <2>3, <3>2 DEF PassOk
    <3>4. BootOk'
      BY <1>0, <2>3, <3>1, <3>2 DEF BootOk
    <3> QED
      BY <1>0, <2>3, <3>2, <3>3, <3>4 DEF PassOk
  <2>4. CASE /\ lb_boot.marked
             /\ lb_panic' = (lb_panic \/ lb_boot.slot \notin lb_inuse \/ lb_func[lb_boot.slot] # "none")
             /\ lb_func' = [lb_func EXCEPT ![lb_boot.slot] = Drivers[lb_boot.driver]]
             /\ lb_boot' = [lb_boot EXCEPT !.slot = -1, !.marked = FALSE]
             /\ UNCHANGED lb_inuse
    <3>1. lb_boot.slot # -1 /\ lb_boot.slot \in Slots
      BY <1>0, <2>4 DEF BootOk
    <3>2. /\ lb_boot.slot \in lb_inuse /\ lb_func[lb_boot.slot] = "none"
          /\ LbCards[lb_boot.slot] = Drivers[lb_boot.driver]
      BY <1>0, <2>4, <3>1 DEF BootOk
    <3>3. /\ lb_boot' \in [driver : 1..3, slot : Slots \cup {-1}, marked : BOOLEAN]
          /\ lb_boot'.slot = -1 /\ ~lb_boot'.marked /\ lb_boot'.driver = lb_boot.driver
      BY <1>0, <2>4 DEF BootOk
    <3>4. lb_func' \in [Slots -> {"none", "lhd", "ltimer"}]
      BY <1>0, <1>2, <2>4 DEF BootOk
    <3>5. \A s \in Slots : lb_func'[s] = IF s = lb_boot.slot THEN LbCards[s] ELSE lb_func[s]
      BY <1>0, <2>4, <3>2 DEF BootOk
    <3>6. BootOk'
      BY <1>0, <1>2, <2>4, <3>2, <3>3, <3>4, <3>5 DEF BootOk
    <3> QED
      BY <1>0, <1>2, <2>4, <3>2, <3>5, <3>6 DEF PassOk
  <2> QED
    BY <2>1, <2>2, <2>3, <2>4 DEF Autoconf
<1>4. PassOk'
  BY <1>0, <1>3 DEF PassOk
<1>5. DiskOk'
  BY <1>0, DiskSame
<1> QED
  BY <1>3, <1>4, <1>5 DEF LbInv
-----------------------------------------------------------------------------
\* A card other than the disk asserts its line or drops it.
LEMMA CardTicksInv ==
  ASSUME LbInv, CardTicks
  PROVE  LbInv'
<1>0. /\ BootOk /\ PassOk /\ DiskOk /\ lb_served' = lb_served \cap lb_lines'
      /\ UNCHANGED <<lb_bus, lb_irq, lb_duds, lb_panic, lh_vars>>
  BY DEF LbInv, CardTicks
<1>1. PICK s \in Slots :
        \/ LbCards[s] = "ltimer" /\ s \notin lb_lines /\ lb_lines' = lb_lines \cup {s}
        \/ LbCards[s] = "other" /\ lb_lines' = (lb_lines \ {s}) \cup ({s} \ lb_lines)
  BY DEF CardTicks
<1>2. s # DiskSlot
  BY <1>1, SlotFacts
<1>3. lb_lines' \subseteq Slots /\ (DiskSlot \in lb_lines => DiskSlot \in lb_lines')
  BY <1>0, <1>1, <1>2 DEF PassOk
<1>4. PassOk'
  BY <1>0, <1>3 DEF PassOk, lb_bus
<1>5. DiskOk'
  BY <1>0, <1>3, DiskSame DEF Booted, lb_bus
<1> QED
  BY <1>0, <1>4, <1>5, BootSame DEF LbInv

\* mips_interrupt: the processor traps and no pass runs yet.
LEMMA LineTrapsInv ==
  ASSUME LbInv, LineTraps
  PROVE  LbInv'
<1>0. /\ BootOk /\ PassOk /\ DiskOk /\ ~lb_panic /\ lb_irq' = [NoPass EXCEPT !.pc = "trap"]
      /\ UNCHANGED <<lb_bus, lb_lines, lb_duds, lb_panic, lb_served, lh_vars, lb_ticks>>
  BY DEF LbInv, LineTraps
<1>1. /\ lb_irq' \in [pc : {"off", "trap", "slots", "handler"}, slot : Nat, irqs : SUBSET Slots, dud : BOOLEAN]
      /\ lb_irq'.pc = "trap"
  BY <1>0 DEF NoPass
<1>2. PassOk'
  BY <1>0, <1>1 DEF PassOk
<1>3. DiskOk'
  BY <1>0, DiskSame DEF Booted, lb_bus
<1> QED
  BY <1>0, <1>2, <1>3, BootSame DEF LbInv

\* lamebus_interrupt: the pass has every asserted line to serve, from slot 1 on.
LEMMA InterruptInv ==
  ASSUME LbInv, lamebus_interrupt
  PROVE  LbInv'
<1>0. /\ BootOk /\ PassOk /\ DiskOk /\ lb_irq.pc = "trap"
      /\ lb_irq' = [pc |-> "slots", slot |-> 1, irqs |-> lb_lines, dud |-> lb_lines = {}]
      /\ lb_duds' = lb_duds + (IF lb_lines = {} THEN 1 ELSE 0) /\ lb_served' = lb_lines
      /\ UNCHANGED <<lb_bus, lb_lines, lb_panic, lh_vars, lb_ticks>>
  BY DEF LbInv, lamebus_interrupt
<1>1. /\ lb_irq' \in [pc : {"off", "trap", "slots", "handler"}, slot : Nat, irqs : SUBSET Slots, dud : BOOLEAN]
      /\ lb_irq'.pc = "slots" /\ lb_irq'.slot = 1 /\ lb_irq'.irqs = lb_lines
  BY <1>0 DEF PassOk
<1>2. lb_duds' \in Nat /\ ~lb_panic
  BY <1>0 DEF PassOk
<1>3. \A s \in lb_served' : s >= 1
  BY <1>0, SlotFacts DEF PassOk
<1>4. PassOk'
  BY <1>0, <1>1, <1>2, <1>3 DEF PassOk
<1>5. DiskOk'
  BY <1>0, DiskSame DEF Booted, lb_bus
<1> QED
  BY <1>0, <1>4, <1>5, BootSame DEF LbInv

\* A slot that is not asserted, or a dud, is passed by and is not served later; the
\* handler is called for a slot that has one.
LEMMA NextSlotInv ==
  ASSUME LbInv, NextSlot
  PROVE  LbInv'
<1> DEFINE s == lb_irq.slot
           asserted == s \in lb_irq.irqs
           dud == asserted /\ (s \notin lb_inuse \/ lb_func[s] = "none")
<1>0. /\ BootOk /\ PassOk /\ DiskOk /\ lb_irq.pc = "slots" /\ s \in Slots
      /\ lb_duds' = IF dud THEN lb_duds + 1 ELSE lb_duds
      /\ lb_irq' = IF asserted /\ ~dud THEN [lb_irq EXCEPT !.pc = "handler"]
                   ELSE [lb_irq EXCEPT !.slot = @ + 1, !.dud = @ \/ dud]
      /\ lb_served' = IF dud THEN lb_served \ {s} ELSE lb_served
      /\ UNCHANGED <<lb_bus, lb_lines, lb_panic, lh_vars, lb_ticks>>
  BY DEF LbInv, NextSlot
<1>1. /\ lb_irq \in [pc : {"off", "trap", "slots", "handler"}, slot : Nat, irqs : SUBSET Slots, dud : BOOLEAN]
      /\ s \in Nat /\ s >= 1 /\ lb_served \subseteq lb_irq.irqs /\ lb_served \subseteq Slots
      /\ \A u \in lb_served : u >= s
      /\ ~lb_panic /\ lb_duds \in Nat
  BY <1>0, SlotFacts DEF PassOk
<1>2. dud \in BOOLEAN
  OBVIOUS
<1> HIDE DEF dud
<1>3. ASSUME asserted /\ ~dud PROVE PassOk'
  <2>0. lb_irq' = [lb_irq EXCEPT !.pc = "handler"]
    BY <1>0, <1>3, Zenon
  <2>1. /\ lb_irq' \in [pc : {"off", "trap", "slots", "handler"}, slot : Nat, irqs : SUBSET Slots, dud : BOOLEAN]
        /\ lb_irq'.pc = "handler" /\ lb_irq'.slot = s /\ lb_irq'.irqs = lb_irq.irqs
    BY <1>1, <2>0
  <2>2. lb_func[s] # "none" /\ lb_func' = lb_func
    BY <1>0, <1>3, Zenon DEF dud, lb_bus
  <2>3. lb_duds' = lb_duds /\ lb_served' = lb_served
    BY <1>0, <1>3, Zenon
  <2>4. UNCHANGED <<lb_lines, lb_panic>>
    BY <1>0
  <2>5. PassOk'
    BY <1>0, <1>1, <2>1, <2>2, <2>3, <2>4 DEF PassOk
  <2> QED
    BY <2>5
<1>4. ASSUME ~(asserted /\ ~dud) PROVE PassOk'
  <2>1. /\ lb_irq' \in [pc : {"off", "trap", "slots", "handler"}, slot : Nat, irqs : SUBSET Slots, dud : BOOLEAN]
        /\ lb_irq'.pc = "slots" /\ lb_irq'.slot = s + 1 /\ lb_irq'.irqs = lb_irq.irqs
    <3>1. lb_irq' = [lb_irq EXCEPT !.slot = @ + 1, !.dud = @ \/ dud]
      BY <1>0, <1>4, Zenon
    <3>2. lb_irq.slot + 1 \in Nat /\ (lb_irq.dud \/ dud) \in BOOLEAN
      BY <1>1
    <3> QED
      BY <1>0, <1>1, <3>1, <3>2
  <2>2. s \notin lb_served'
    BY <1>0, <1>1, <1>4
  <2>3. lb_served' \subseteq lb_served
    BY <1>0
  <2>4. \A u \in lb_served' : u >= s + 1
    BY <1>1, <2>2, <2>3, SlotFacts
  <2>5. lb_duds' \in Nat /\ s + 1 >= 1 /\ ~lb_panic'
    BY <1>0, <1>1
  <2>6. UNCHANGED <<lb_lines, lb_panic>>
    BY <1>0
  <2>7. PassOk'
    BY <1>0, <1>1, <2>1, <2>3, <2>4, <2>5, <2>6 DEF PassOk
  <2> QED
    BY <2>7
<1>5. DiskOk'
  BY <1>0, DiskSame DEF Booted, lb_bus
<1> QED
  BY <1>0, <1>3, <1>4, <1>5, BootSame DEF LbInv

\* The end of a pass: only duds, counted, make the bus panic.
LEMMA PassEndsInv ==
  ASSUME LbInv, PassEnds
  PROVE  LbInv'
<1>0. /\ BootOk /\ PassOk /\ DiskOk /\ lb_irq.pc = "slots"
      /\ lb_duds' = IF ~lb_irq.dud THEN 0 ELSE lb_duds
      /\ lb_panic' = (lb_panic \/ lb_duds' > MaxDuds) /\ lb_irq' = NoPass
      /\ UNCHANGED <<lb_bus, lb_lines, lb_served, lh_vars, lb_ticks>>
  BY DEF LbInv, PassEnds
<1>1. /\ lb_irq' \in [pc : {"off", "trap", "slots", "handler"}, slot : Nat, irqs : SUBSET Slots, dud : BOOLEAN]
      /\ lb_irq'.pc = "off"
  BY <1>0 DEF NoPass
<1>2. ~lb_panic /\ lb_duds' \in Nat
  BY <1>0 DEF PassOk
<1>3. lb_panic' = (lb_duds' > MaxDuds)
  BY <1>0, <1>2 DEF PassOk
<1>4. PassOk'
  BY <1>0, <1>1, <1>2, <1>3 DEF PassOk
<1>5. DiskOk'
  BY <1>0, DiskSame DEF Booted, lb_bus
<1> QED
  BY <1>0, <1>4, <1>5, BootSame DEF LbInv
-----------------------------------------------------------------------------
\* The handlers: the line they drop is that of the slot they are called for, and
\* an operation of the disk that has ended is reported once.
LEMMA HandlerInv ==
  ASSUME LbInv, Handler
  PROVE  LbInv'
<1> DEFINE s == lb_irq.slot
<1>0. /\ BootOk /\ PassOk /\ DiskOk /\ lb_irq.pc = "handler"
      /\ IF lb_func[s] = "lhd" THEN lhd_irq ELSE ltimer_irq
      /\ lb_irq' = [lb_irq EXCEPT !.pc = "slots", !.slot = @ + 1, !.irqs = lb_lines']
      /\ lb_served' = lb_served \ {s}
      /\ UNCHANGED <<lb_bus, lb_duds, lb_panic, lb_ticks>>
  BY DEF LbInv, Handler
<1>1. /\ lb_irq \in [pc : {"off", "trap", "slots", "handler"}, slot : Nat, irqs : SUBSET Slots, dud : BOOLEAN]
      /\ s \in Slots /\ s \in Nat /\ s >= 1 /\ lb_served \subseteq Slots /\ lb_served \subseteq lb_lines
      /\ \A u \in lb_served : u >= s
      /\ ~lb_panic /\ lb_duds \in Nat /\ lb_lines \subseteq Slots
  BY <1>0, SlotFacts DEF PassOk
<1>2. lb_func[s] = LbCards[s] /\ lb_func[s] \in {"lhd", "ltimer"}
  BY <1>0, <1>1 DEF BootOk, PassOk
<1>3. /\ lb_lines \ {s} \subseteq lb_lines' /\ lb_lines' \subseteq lb_lines
      /\ lb_func[s] = "lhd" => s = DiskSlot
      /\ lb_func[s] # "lhd" => s = TimerSlot /\ s # DiskSlot
  <2>1. CASE lb_func[s] = "lhd"
    <3>1. s = DiskSlot
      BY <1>1, <1>2, <2>1, SlotFacts
    <3>2. lb_lines' = lb_lines \/ lb_lines' = lb_lines \ {DiskSlot}
      BY <1>0, <2>1 DEF lhd_irq
    <3> QED
      BY <2>1, <3>1, <3>2
  <2>2. CASE lb_func[s] # "lhd"
    <3>1. LbCards[s] = "ltimer"
      BY <1>2, <2>2
    <3>2. s = TimerSlot /\ s # DiskSlot
      BY <1>1, <3>1, SlotFacts
    <3>3. lb_lines' = lb_lines \ {TimerSlot}
      BY <1>0, <2>2 DEF ltimer_irq
    <3> QED
      BY <2>2, <3>2, <3>3
  <2> QED
    BY <2>1, <2>2
<1>4. PassOk'
  <2>1. lb_irq.slot + 1 \in Nat /\ lb_lines' \in SUBSET Slots
    BY <1>1, <1>3
  <2>2. /\ lb_irq' \in [pc : {"off", "trap", "slots", "handler"}, slot : Nat, irqs : SUBSET Slots, dud : BOOLEAN]
        /\ lb_irq'.pc = "slots" /\ lb_irq'.slot = s + 1 /\ lb_irq'.irqs = lb_lines'
    BY <1>0, <1>1, <2>1
  <2>3. lb_served' \subseteq lb_lines'
    BY <1>0, <1>1, <1>3
  <2>4. \A u \in lb_served' : u >= s + 1
    BY <1>0, <1>1, SlotFacts
  <2>5. s + 1 >= 1 /\ lb_duds' \in Nat /\ lb_panic' \in BOOLEAN /\ ~lb_panic'
    BY <1>0, <1>1 DEF PassOk
  <2> QED
    BY <2>1, <2>2, <2>3, <2>4, <2>5 DEF PassOk
<1>5. DiskOk'
  <2>1. CASE lb_func[s] = "lhd" /\ lh_stat \in {"ok", "media"}
    <3>1. /\ lh_stat' = "idle" /\ lh_result' = lh_stat /\ lh_done' = lh_done + 1
          /\ UNCHANGED <<lh_sect, lh_iswrite, lh_buf, lh_disk, lh_clear, lh_thr>>
      BY <1>0, <2>1 DEF lhd_irq
    <3>2. PICK t \in LbThreads : lh_thr[t].pc = "wait"
      BY <1>0, <2>1 DEF DiskOk
    <3>3. \A u \in LbThreads : (Answer(u) <=> Answer(u)') /\ (Busy(u) <=> Busy(u)')
      BY <3>1 DEF Answer, Busy
    <3>4. Request(t)
      BY <1>0, <3>2 DEF DiskOk
    <3>5. lh_done = 0 /\ (lh_stat = "ok" => Answer(t))
      BY <2>1, <3>4 DEF Request
    <3>6. Request(t)'
      BY <3>1, <3>3, <3>5 DEF Request
    <3>7. \A u \in LbThreads : lh_thr[u].pc = "wait" => u = t
      BY <1>0, <3>2 DEF DiskOk, Busy
    <3>8. DiskType' /\ (Booted <=> Booted')
      BY <1>0, <3>1, <3>5 DEF DiskOk, DiskType, Booted, lb_bus
    <3>9. lh_clear' = lh_clear /\ \A u \in LbThreads : lh_thr'[u] = lh_thr[u]
      BY <3>1
    <3> QED
      BY <1>0, <3>2, <3>3, <3>6, <3>7, <3>8, <3>9, Zenon DEF DiskOk
  <2>2. CASE ~(lb_func[s] = "lhd" /\ lh_stat \in {"ok", "media"})
    <3>1. UNCHANGED lh_vars
      BY <1>0, <2>2 DEF lhd_irq, ltimer_irq, lh_vars
    <3>2. DiskSlot \in lb_lines => DiskSlot \in lb_lines'
      <4>1. CASE lb_func[s] = "lhd"
        BY <1>0, <2>2, <4>1 DEF lhd_irq
      <4>2. CASE lb_func[s] # "lhd"
        BY <1>3, <4>2
      <4> QED
        BY <4>1, <4>2
    <3> QED
      BY <1>0, <3>1, <3>2, DiskSame DEF Booted, lb_bus
  <2> QED
    BY <2>1, <2>2
<1> QED
  BY <1>0, <1>4, <1>5, BootSame DEF LbInv

\* The disk ends an operation, well or not: the sector and the buffer agree if well.
LEMMA DiskEndsInv ==
  ASSUME LbInv, DiskEnds
  PROVE  LbInv'
<1>0. /\ BootOk /\ PassOk /\ DiskOk /\ lh_stat = "working"
      /\ lb_lines' = lb_lines \cup {DiskSlot}
      /\ UNCHANGED <<lb_bus, lb_pass, lh_sect, lh_iswrite, lh_clear, lh_done, lh_result, lh_thr, lb_ticks>>
  BY DEF LbInv, DiskEnds
<1>1. PICK r \in {"ok", "media"} :
        /\ lh_stat' = r
        /\ lh_disk' = IF r = "ok" /\ lh_iswrite THEN [lh_disk EXCEPT ![lh_sect] = lh_buf] ELSE lh_disk
        /\ lh_buf' = IF r = "ok" /\ ~lh_iswrite THEN lh_disk[lh_sect] ELSE lh_buf
  BY DEF DiskEnds
<1>2. PICK t \in LbThreads : lh_thr[t].pc = "wait"
  BY <1>0 DEF DiskOk
<1>3. /\ lh_done = 0 /\ lh_sect = lh_thr[t].sector /\ lh_iswrite = lh_thr[t].write
      /\ lh_thr[t].write => lh_buf = t
      /\ lh_sect \in LbSectors
  <2>1. Request(t)
    BY <1>0, <1>2 DEF DiskOk
  <2>2. lh_thr[t].sector \in LbSectors
    BY <1>0, <1>2 DEF DiskOk
  <2> QED
    BY <1>0, <2>1, <2>2 DEF Request
<1>4. \A u \in LbThreads : Busy(u) => u = t
  BY <1>0, <1>2 DEF DiskOk, Busy
<1>5. /\ lh_disk \in [LbSectors -> LbValues] /\ lh_buf \in LbValues /\ lh_iswrite \in BOOLEAN
      /\ lh_disk' \in [LbSectors -> LbValues] /\ lh_buf' \in LbValues
  BY <1>0, <1>1, <1>3 DEF DiskOk, DiskType
<1>6. r = "ok" => Answer(t)'
  <2> SUFFICES ASSUME r = "ok" PROVE Answer(t)'
    OBVIOUS
  <2>1. CASE lh_iswrite
    <3>1. lh_disk' = [lh_disk EXCEPT ![lh_sect] = lh_buf] /\ lh_buf' = lh_buf
      BY <1>1, <2>1
    <3> QED
      BY <1>0, <1>3, <1>5, <2>1, <3>1 DEF Answer
  <2>2. CASE ~lh_iswrite
    <3>1. lh_disk' = lh_disk /\ lh_buf' = lh_disk[lh_sect]
      BY <1>1, <2>2
    <3> QED
      BY <1>0, <1>3, <1>5, <2>2, <3>1 DEF Answer
  <2> QED
    BY <2>1, <2>2
<1>7. Request(t)'
  BY <1>0, <1>1, <1>3, <1>6 DEF Request
<1>8. DiskOk'
  <2>1. DiskType'
    BY <1>0, <1>1, <1>5 DEF DiskOk, DiskType
  <2>2. \A u \in LbThreads : lh_thr'[u] = lh_thr[u] /\ (Busy(u) <=> Busy(u)')
    BY <1>0 DEF Busy
  <2>3. \A u \in LbThreads : lh_thr[u].pc \in {"wait", "moveout"} => u = t
    BY <1>4 DEF Busy
  <2>4. (Booted <=> Booted') /\ lh_clear' = lh_clear
    BY <1>0 DEF Booted, lb_bus
  <2>5. lh_thr[t].pc # "moveout"
    BY <1>2
  <2> QED
    BY <1>0, <1>2, <1>7, <2>1, <2>2, <2>3, <2>4, <2>5, Zenon DEF DiskOk
<1>9. PassOk'
  <2>1. UNCHANGED <<lb_irq, lb_duds, lb_panic, lb_served, lb_func>>
    BY <1>0 DEF lb_bus, lb_pass
  <2>2. lb_lines' \subseteq Slots /\ lb_served \subseteq lb_lines'
    BY <1>0, SlotFacts DEF PassOk
  <2> QED
    BY <1>0, <2>1, <2>2, PassSame
<1> QED
  BY <1>0, <1>8, <1>9, BootSame DEF LbInv
-----------------------------------------------------------------------------
\* A step of lhd_io other than the handlers' leaves the bus and the pass alone.
LEMMA BusKept ==
  ASSUME LbInv, UNCHANGED <<lb_bus, lb_lines, lb_pass>>
  PROVE  BootOk' /\ PassOk' /\ (Booted <=> Booted')
<1>1. BootOk /\ PassOk
  BY DEF LbInv
<1>2. UNCHANGED <<lb_irq, lb_duds, lb_panic, lb_served, lb_func>> /\ UNCHANGED lb_bus
  BY DEF lb_bus, lb_pass
<1>3. PassOk'
  BY <1>1, <1>2, PassSame DEF PassOk
<1> QED
  BY <1>1, <1>2, <1>3, BootSame DEF Booted, lb_bus

\* lhd_io takes a request of sectors that are all on the disk.
LEMMA LhdIoInv ==
  ASSUME LbInv, NEW t \in LbThreads, lhd_io(t)
  PROVE  LbInv'
<1>0. /\ DiskOk /\ Booted /\ lh_thr[t].pc = "idle"
      /\ UNCHANGED <<lb_bus, lb_lines, lb_pass, lh_card, lh_clear, lh_done, lh_result, lb_ticks>>
  BY DEF LbInv, lhd_io
<1>1. PICK w \in BOOLEAN, s \in LbSectors, len \in 1..Cardinality(LbSectors) :
        /\ s + len - 1 \in LbSectors
        /\ lh_thr' = [lh_thr EXCEPT ![t] = [pc |-> "next", write |-> w, sector |-> s, left |-> len,
                                            n |-> lh_thr[t].n - 1, ok |-> TRUE]]
  BY DEF lhd_io
<1>2. lh_thr \in [LbThreads -> LbStates] /\ s \in Int /\ len \in Int /\ len >= 1
  BY <1>0, LamebusAssumption DEF DiskOk, DiskType
<1>3. lh_thr[t].n - 1 \in Int
  BY <1>2 DEF LbStates
<1> DEFINE z == [pc |-> "next", write |-> w, sector |-> s, left |-> len, n |-> lh_thr[t].n - 1, ok |-> TRUE]
<1>5. z \in LbStates /\ z.pc = "next" /\ z.sector = s /\ z.left = len
  BY <1>2, <1>3 DEF LbStates
<1>6. lh_thr' = [lh_thr EXCEPT ![t] = z]
  BY <1>1
<1> HIDE DEF z
<1>7. lh_thr' \in [LbThreads -> LbStates] /\ \A u \in LbThreads : lh_thr'[u] = IF u = t THEN z ELSE lh_thr[u]
  BY <1>2, <1>5, <1>6
<1>8. DiskType'
  BY <1>0, <1>7 DEF DiskOk, DiskType, lh_card
<1>9. \A u \in LbThreads : u # t => (Answer(u) <=> Answer(u)') /\ (Request(u) <=> Request(u)')
  BY <1>0, <1>7 DEF Answer, Request, lh_card
<1>10. \A u \in LbThreads : Busy(u) <=> Busy(u)'
  BY <1>0, <1>5, <1>7 DEF Busy
<1>11. UNCHANGED <<lh_stat, lh_done, lh_clear>> /\ Booted'
  BY <1>0 DEF lh_card, Booted, lb_bus
<1>12. \A u \in LbThreads : lh_thr'[u].pc = "wait" <=> lh_thr[u].pc = "wait"
  BY <1>0, <1>5, <1>7
<1>13. DiskOk'
  <2>1. \A u \in LbThreads : lh_thr'[u].pc # "idle" =>
          /\ Booted' /\ lh_thr'[u].sector \in LbSectors /\ lh_thr'[u].left >= 1
          /\ lh_thr'[u].sector + lh_thr'[u].left - 1 \in LbSectors
    BY <1>0, <1>1, <1>2, <1>5, <1>7, <1>11 DEF DiskOk
  <2>2. \A u \in LbThreads : lh_thr'[u].pc \in {"wait", "moveout"} => u # t /\ lh_thr'[u] = lh_thr[u]
    BY <1>5, <1>7
  <2> QED
    BY <1>0, <1>8, <1>9, <1>10, <1>11, <1>12, <2>1, <2>2, Zenon DEF DiskOk
<1> QED
  BY <1>0, <1>13, BusKept DEF LbInv

\* A thread between P(lh_clear) and V(lh_clear) and not at P(lh_done) is alone with
\* an idle card.
LEMMA Alone ==
  ASSUME DiskOk, NEW t \in LbThreads, Busy(t), lh_thr[t].pc # "wait"
  PROVE  /\ lh_clear = 0 /\ lh_stat = "idle" /\ lh_done = 0
         /\ \A u \in LbThreads : Busy(u) => u = t
<1>1. lh_clear = 0 /\ \A u \in LbThreads : Busy(u) => u = t
  BY DEF DiskOk
<1>2. \A u \in LbThreads : lh_thr[u].pc # "wait"
  BY <1>1 DEF Busy
<1> QED
  BY <1>1, <1>2 DEF DiskOk

\* A thread that has left lhd_io is idle again, with the requests it had left.
LEMMA IdleAgain ==
  ASSUME NEW n \in Int
  PROVE  [LhIdle EXCEPT !.n = n] \in LbStates /\ [LhIdle EXCEPT !.n = n].pc = "idle"
<1>1. LhIdle \in LbStates /\ LhIdle.pc = "idle"
  BY LamebusAssumption DEF LhIdle, LbStates
<1> QED
  BY <1>1 DEF LbStates

\* What DiskOk says once thread t is in state z and no other thread holds the card.
LEMMA ThreadTo ==
  ASSUME DiskOk, NEW t \in LbThreads, NEW z \in LbStates, lh_thr' = [lh_thr EXCEPT ![t] = z],
         \A u \in LbThreads : Busy(u) => u = t,
         Booted, Booted', DiskType',
         z.pc # "idle" => /\ z.sector \in LbSectors /\ z.left >= 1
                          /\ z.sector + z.left - 1 \in LbSectors,
         z.pc \in {"clear", "wait", "moveout"} => lh_clear' = 0,
         z.pc # "wait" => lh_stat' = "idle" /\ lh_done' = 0,
         z.pc = "wait" => Request(t)',
         z.pc = "moveout" /\ z.ok => Answer(t)'
  PROVE  DiskOk'
<1>1. \A u \in LbThreads : lh_thr'[u] = IF u = t THEN z ELSE lh_thr[u]
  BY DEF DiskOk, DiskType
<1>2. \A u \in LbThreads : lh_thr'[u].pc # "idle" =>
        /\ Booted' /\ lh_thr'[u].sector \in LbSectors /\ lh_thr'[u].left >= 1
        /\ lh_thr'[u].sector + lh_thr'[u].left - 1 \in LbSectors
  BY <1>1, Zenon DEF DiskOk
<1>3. \A u \in LbThreads : Busy(u)' => u = t
  BY <1>1, Zenon DEF Busy
<1>4. \A u \in LbThreads : Busy(u)' => lh_clear' = 0
  BY <1>1, <1>3, Zenon DEF Busy
<1>5. (\A u \in LbThreads : lh_thr'[u].pc # "wait") => lh_stat' = "idle" /\ lh_done' = 0
  BY <1>1, Zenon
<1>6. \A u \in LbThreads : (lh_thr'[u].pc = "wait" => Request(u)') /\ (lh_thr'[u].pc = "moveout" /\ lh_thr'[u].ok => Answer(u)')
  BY <1>1, <1>3 DEF Busy
<1> QED
  BY <1>2, <1>3, <1>4, <1>5, <1>6, Zenon DEF DiskOk

\* P(lh_clear): the card is free, and is the thread's.
LEMMA ClearIOInv ==
  ASSUME LbInv, NEW t \in LbThreads, ClearIO(t)
  PROVE  LbInv'
<1>0. /\ DiskOk /\ lh_thr[t].pc = "next" /\ lh_clear > 0 /\ lh_clear' = lh_clear - 1
      /\ lh_thr' = [lh_thr EXCEPT ![t].pc = "clear"]
      /\ UNCHANGED <<lb_bus, lb_lines, lb_pass, lh_card, lh_done, lh_result, lb_ticks>>
  BY DEF LbInv, ClearIO, LhGo
<1>1. lh_clear = 1 /\ lh_clear' = 0 /\ lh_thr \in [LbThreads -> LbStates]
  BY <1>0 DEF DiskOk, DiskType
<1> DEFINE z == [lh_thr[t] EXCEPT !.pc = "clear"]
<1>2. z \in LbStates /\ z.pc = "clear" /\ z.sector = lh_thr[t].sector /\ z.left = lh_thr[t].left
  BY <1>1 DEF LbStates
<1>3. lh_thr' = [lh_thr EXCEPT ![t] = z]
  BY <1>0, <1>1
<1> HIDE DEF z
<1>4. \A u \in LbThreads : ~Busy(u)
  BY <1>0, <1>1 DEF DiskOk
<1>5. \A u \in LbThreads : lh_thr[u].pc # "wait"
  BY <1>4 DEF Busy
<1>6. lh_stat' = "idle" /\ lh_done' = 0 /\ Booted /\ Booted'
  BY <1>0, <1>5 DEF DiskOk, lh_card, Booted, lb_bus
<1>7. DiskType'
  BY <1>0, <1>1, <1>2, <1>3 DEF DiskOk, DiskType, lh_card
<1>8. /\ z.sector \in LbSectors /\ z.left >= 1 /\ z.sector + z.left - 1 \in LbSectors
  BY <1>0, <1>2 DEF DiskOk
<1>9. DiskOk'
  BY <1>0, <1>1, <1>2, <1>3, <1>4, <1>6, <1>7, <1>8, ThreadTo
<1> QED
  BY <1>0, <1>9, BusKept DEF LbInv

\* uiomove fails: the card is given back untouched.
LEMMA MoveFailsInv ==
  ASSUME LbInv, NEW t \in LbThreads, MoveFails(t)
  PROVE  LbInv'
<1>0. /\ DiskOk /\ lh_thr[t].pc = "clear" /\ lh_clear' = lh_clear + 1
      /\ lh_thr' = [lh_thr EXCEPT ![t] = [LhIdle EXCEPT !.n = lh_thr[t].n]]
      /\ UNCHANGED <<lb_bus, lb_lines, lb_pass, lh_card, lh_done, lh_result, lb_ticks>>
  BY DEF LbInv, MoveFails
<1>1. /\ lh_clear = 0 /\ lh_stat = "idle" /\ lh_done = 0
      /\ \A u \in LbThreads : Busy(u) => u = t
  BY <1>0, Alone DEF Busy
<1> DEFINE z == [LhIdle EXCEPT !.n = lh_thr[t].n]
<1>2. lh_thr \in [LbThreads -> LbStates]
  BY <1>0 DEF DiskOk, DiskType
<1>3. z \in LbStates /\ z.pc = "idle"
  <2>1. lh_thr[t].n \in Int
    BY <1>2 DEF LbStates
  <2> QED
    BY <2>1, IdleAgain
<1> HIDE DEF z
<1>4. lh_stat' = "idle" /\ lh_done' = 0 /\ lh_clear' = 1
  BY <1>0, <1>1 DEF lh_card
<1>5. DiskType'
  BY <1>0, <1>2, <1>3, <1>4 DEF DiskOk, DiskType, lh_card, z
<1>6. Booted /\ Booted'
  BY <1>0 DEF DiskOk, Booted, lb_bus
<1>7. lh_thr' = [lh_thr EXCEPT ![t] = z]
  BY <1>0 DEF z
<1>8. DiskOk'
  BY <1>0, <1>1, <1>3, <1>4, <1>5, <1>6, <1>7, ThreadTo
<1> QED
  BY <1>0, <1>8, BusKept DEF LbInv

\* The registers are written and the card starts the thread's operation.
LEMMA StartIOInv ==
  ASSUME LbInv, NEW t \in LbThreads, StartIO(t)
  PROVE  LbInv'
<1>0. /\ DiskOk /\ lh_thr[t].pc = "clear"
      /\ lh_buf' = IF lh_thr[t].write THEN t ELSE lh_buf
      /\ lh_sect' = lh_thr[t].sector /\ lh_iswrite' = lh_thr[t].write /\ lh_stat' = "working"
      /\ lh_thr' = [lh_thr EXCEPT ![t].pc = "wait"]
      /\ UNCHANGED <<lb_bus, lb_lines, lb_pass, lh_disk, lh_clear, lh_done, lh_result, lb_ticks>>
  BY DEF LbInv, StartIO, LhGo
<1>1. /\ lh_clear = 0 /\ lh_stat = "idle" /\ lh_done = 0
      /\ \A u \in LbThreads : Busy(u) => u = t
  BY <1>0, Alone DEF Busy
<1> DEFINE z == [lh_thr[t] EXCEPT !.pc = "wait"]
<1>2. lh_thr \in [LbThreads -> LbStates]
  BY <1>0 DEF DiskOk, DiskType
<1>3. /\ z \in LbStates /\ z.pc = "wait" /\ z.sector = lh_thr[t].sector /\ z.left = lh_thr[t].left
      /\ z.write = lh_thr[t].write /\ lh_thr[t].write \in BOOLEAN
  BY <1>2 DEF LbStates
<1>4. lh_thr' = [lh_thr EXCEPT ![t] = z]
  BY <1>0, <1>2
<1> HIDE DEF z
<1>5. lh_thr'[t] = z /\ lh_thr' \in [LbThreads -> LbStates]
  BY <1>2, <1>3, <1>4
<1>6. Request(t)'
  BY <1>0, <1>1, <1>3, <1>5 DEF Request
<1>7. DiskType'
  BY <1>0, <1>3, <1>5 DEF DiskOk, DiskType, LbValues
<1>8. /\ Booted /\ Booted' /\ z.sector \in LbSectors /\ z.left >= 1 /\ z.sector + z.left - 1 \in LbSectors
  BY <1>0, <1>3 DEF DiskOk, Booted, lb_bus
<1>9. DiskOk'
  <2>1. lh_clear' = 0 /\ z.pc # "idle" /\ z.pc # "moveout"
    BY <1>0, <1>1, <1>3
  <2> QED
    BY <1>0, <1>1, <1>3, <1>4, <1>6, <1>7, <1>8, <2>1, ThreadTo
<1> QED
  BY <1>0, <1>9, BusKept DEF LbInv

\* P(lh_done): the result is the thread's own, and the card still has its data.
LEMMA AwaitIOInv ==
  ASSUME LbInv, NEW t \in LbThreads, AwaitIO(t)
  PROVE  LbInv'
<1>0. /\ DiskOk /\ lh_thr[t].pc = "wait" /\ lh_done > 0 /\ lh_done' = lh_done - 1
      /\ lh_thr' = [lh_thr EXCEPT ![t].pc = "moveout", ![t].ok = (lh_result = "ok")]
      /\ UNCHANGED <<lb_bus, lb_lines, lb_pass, lh_card, lh_clear, lh_result, lb_ticks>>
  BY DEF LbInv, AwaitIO
<1>1. lh_stat = "idle" /\ lh_done = 1 /\ (lh_result = "ok" => Answer(t))
  <2>1. Request(t)
    BY <1>0 DEF DiskOk
  <2> QED
    BY <1>0, <2>1 DEF Request
<1>2. lh_thr \in [LbThreads -> LbStates]
  BY <1>0 DEF DiskOk, DiskType
<1> DEFINE z == [lh_thr[t] EXCEPT !.pc = "moveout", !.ok = (lh_result = "ok")]
<1>3. /\ z \in LbStates /\ z.pc = "moveout" /\ z.sector = lh_thr[t].sector /\ z.left = lh_thr[t].left
      /\ z.write = lh_thr[t].write /\ (z.ok <=> lh_result = "ok")
  BY <1>2 DEF LbStates
<1>4. lh_thr' = [lh_thr EXCEPT ![t] = z]
  BY <1>0, <1>2
<1> HIDE DEF z
<1>5. lh_thr'[t] = z /\ lh_thr' \in [LbThreads -> LbStates]
  BY <1>2, <1>3, <1>4
<1>6. z.ok => Answer(t)'
  BY <1>0, <1>1, <1>3, <1>5 DEF Answer, lh_card
<1>7. lh_done' = 0 /\ lh_stat' = "idle" /\ Busy(t)
  BY <1>0, <1>1 DEF lh_card, Busy
<1>8. DiskType'
  BY <1>0, <1>5, <1>7 DEF DiskOk, DiskType, lh_card
<1>9. /\ Booted /\ Booted' /\ z.sector \in LbSectors /\ z.left >= 1 /\ z.sector + z.left - 1 \in LbSectors
      /\ lh_clear' = 0 /\ \A u \in LbThreads : Busy(u) => u = t
  BY <1>0, <1>3, <1>7 DEF DiskOk, Booted, lb_bus
<1>10. DiskOk'
  <2>1. z.pc # "wait"
    BY <1>3
  <2> QED
    BY <1>0, <1>3, <1>4, <1>6, <1>7, <1>8, <1>9, <2>1, ThreadTo
<1> QED
  BY <1>0, <1>10, BusKept DEF LbInv

\* V(lh_clear): the request goes on to its next sector, which is on the disk, or ends.
LEMMA EndIOInv ==
  ASSUME LbInv, NEW t \in LbThreads, EndIO(t)
  PROVE  LbInv'
<1> DEFINE next == [lh_thr[t] EXCEPT !.pc = "next", !.sector = lh_thr[t].sector + 1, !.left = lh_thr[t].left - 1]
           idle == [LhIdle EXCEPT !.n = lh_thr[t].n]
<1>0. /\ DiskOk /\ lh_thr[t].pc = "moveout" /\ lh_clear' = lh_clear + 1
      /\ UNCHANGED <<lb_bus, lb_lines, lb_pass, lh_card, lh_done, lh_result, lb_ticks>>
  BY DEF LbInv, EndIO
<1>1. /\ lh_clear = 0 /\ lh_stat = "idle" /\ lh_done = 0
      /\ \A u \in LbThreads : Busy(u) => u = t
  BY <1>0, Alone DEF Busy
<1>2. lh_thr \in [LbThreads -> LbStates] /\ lh_thr[t].left \in Int /\ lh_thr[t].sector \in Int
  BY <1>0 DEF DiskOk, DiskType, LbStates
<1>3. PICK z : /\ lh_thr' = [lh_thr EXCEPT ![t] = z]
               /\ z = idle \/ (z = next /\ lh_thr[t].left > 1)
  <2>1. PICK moved \in {lh_thr[t].ok, lh_thr[t].ok /\ lh_thr[t].write} :
          lh_thr' = [lh_thr EXCEPT ![t] = IF moved /\ lh_thr[t].left > 1 THEN next ELSE idle]
    BY Zenon DEF EndIO
  <2> HIDE DEF next, idle
  <2>2. CASE moved /\ lh_thr[t].left > 1
    BY <2>1, <2>2, Zenon
  <2>3. CASE ~(moved /\ lh_thr[t].left > 1)
    BY <2>1, <2>3, Zenon
  <2> QED
    BY <2>2, <2>3
<1>4. idle \in LbStates /\ idle.pc = "idle"
  <2>1. lh_thr[t].n \in Int
    BY <1>2 DEF LbStates
  <2> QED
    BY <2>1, IdleAgain
<1>5. next \in LbStates /\ next.pc = "next" /\ next.sector = lh_thr[t].sector + 1 /\ next.left = lh_thr[t].left - 1
  <2>1. lh_thr[t] \in LbStates /\ lh_thr[t].sector + 1 \in Int /\ lh_thr[t].left - 1 \in Int
    BY <1>2
  <2> QED
    BY <2>1 DEF LbStates
<1> HIDE DEF idle, next
<1>6. z \in LbStates /\ z.pc \in {"idle", "next"}
  BY <1>3, <1>4, <1>5
<1>7. z.pc # "idle" => /\ z.sector \in LbSectors /\ z.left >= 1
                       /\ z.sector + z.left - 1 \in LbSectors
  <2> SUFFICES ASSUME z.pc # "idle"
               PROVE  /\ z.sector \in LbSectors /\ z.left >= 1
                      /\ z.sector + z.left - 1 \in LbSectors
    OBVIOUS
  <2> DEFINE a == lh_thr[t].sector
             n == lh_thr[t].left
  <2>1. /\ z.sector = a + 1 /\ z.left = n - 1 /\ n > 1 /\ a \in Int /\ n \in Int
    BY <1>2, <1>3, <1>4, <1>5
  <2>2. a \in LbSectors /\ a + n - 1 \in LbSectors
    BY <1>0 DEF DiskOk
  <2> HIDE DEF a, n
  <2>3. a..(a + n - 1) \subseteq LbSectors
    BY <2>2, LamebusAssumption
  <2>4. a + 1 \in a..(a + n - 1) /\ (a + 1) + (n - 1) - 1 = a + n - 1
    BY <2>1
  <2> QED
    BY <2>1, <2>2, <2>3, <2>4
<1>8. lh_stat' = "idle" /\ lh_done' = 0 /\ lh_clear' = 1 /\ Booted /\ Booted'
  BY <1>0, <1>1 DEF DiskOk, lh_card, Booted, lb_bus
<1>9. DiskType'
  BY <1>0, <1>2, <1>3, <1>6, <1>8 DEF DiskOk, DiskType, lh_card
<1>10. DiskOk'
  <2>1. z.pc \notin {"clear", "wait", "moveout"}
    BY <1>6
  <2> QED
    BY <1>0, <1>1, <1>3, <1>6, <1>7, <1>8, <1>9, <2>1, ThreadTo
<1> QED
  BY <1>0, <1>10, BusKept DEF LbInv
-----------------------------------------------------------------------------
\* Every step of the boot, the cards, the interrupt code and the threads keeps LbInv.
LEMMA NextLbInv == LbInv /\ [LamebusNext]_lb_vars => LbInv'
<1> SUFFICES ASSUME LbInv, [LamebusNext]_lb_vars PROVE LbInv'
  OBVIOUS
<1>1. CASE Autoconf \/ CardTicks \/ DiskEnds \/ LineTraps
  BY <1>1, AutoconfInv, CardTicksInv, DiskEndsInv, LineTrapsInv, Zenon
<1>2. CASE lamebus_interrupt \/ NextSlot \/ Handler \/ PassEnds
  BY <1>2, InterruptInv, NextSlotInv, HandlerInv, PassEndsInv, Zenon
<1>3. ASSUME NEW t \in LbThreads,
             lhd_io(t) \/ ClearIO(t) \/ MoveFails(t) \/ StartIO(t) \/ AwaitIO(t) \/ EndIO(t)
      PROVE  LbInv'
  BY <1>3, LhdIoInv, ClearIOInv, MoveFailsInv, StartIOInv, AwaitIOInv, EndIOInv, Zenon
<1>4. CASE UNCHANGED lb_vars
  <2>1. UNCHANGED <<lb_bus, lb_lines, lb_pass>> /\ UNCHANGED lh_vars
    BY <1>4 DEF lb_vars, lh_vars
  <2>2. DiskOk'
    BY <2>1, BusKept, DiskSame DEF LbInv
  <2> QED
    BY <2>1, <2>2, BusKept DEF LbInv
<1> QED
  BY <1>1, <1>2, <1>3, <1>4 DEF LamebusNext

\* What the invariant says of the threads at the disk: the slot of the disk has
\* lhd_irq attached by then.
LEMMA LbInvSafe == LbInv => BusSafe
<1> SUFFICES ASSUME LbInv PROVE BusSafe
  OBVIOUS
<1>0. BootOk /\ PassOk /\ DiskOk
  BY DEF LbInv
<1> DEFINE B == {t \in LbThreads : lh_thr[t].pc \in {"clear", "wait", "moveout"}}
<1>1. Cardinality(B) <= 1
  <2>1. CASE B = {}
    BY <2>1, FS_EmptySet
  <2>2. CASE B # {}
    <3>1. PICK t \in B : TRUE
      BY <2>2
    <3>2. ASSUME NEW u \in B PROVE u = t
      <4>1. t \in LbThreads /\ Busy(t) /\ u \in LbThreads /\ Busy(u)
        BY <3>1 DEF Busy
      <4> QED
        BY <1>0, <4>1, Zenon DEF DiskOk
    <3>3. B = {t}
      BY <3>1, <3>2
    <3> HIDE DEF B
    <3>4. Cardinality({t}) = 1
      BY FS_Singleton
    <3> QED
      BY <3>3, <3>4
  <2> QED
    BY <2>1, <2>2
<1>2. DiskIsMine
  BY <1>0, <1>1 DEF DiskIsMine, DiskOk, Answer
<1>3. Booted => lb_func[DiskSlot] = "lhd"
  <2> SUFFICES ASSUME Booted PROVE lb_func[DiskSlot] = "lhd"
    OBVIOUS
  <2>1. lb_boot.driver = 3
    BY <1>0 DEF Booted, Drivers, BootOk
  <2>2. lb_boot.slot = -1 /\ ~lb_boot.marked
    BY <1>0, <2>1 DEF BootOk
  <2>3. DiskSlot \in lb_inuse
    BY <1>0, <2>1, SlotFacts DEF BootOk
  <2> QED
    BY <1>0, <2>2, <2>3, SlotFacts DEF BootOk
<1>4. DiskAnswers
  <2> SUFFICES ASSUME NEW t \in LbThreads, lh_thr[t].pc = "wait"
               PROVE  \/ lh_stat = "working" \/ lh_done = 1
                      \/ lh_stat \in {"ok", "media"} /\ DiskSlot \in lb_lines /\ lb_func[DiskSlot] = "lhd"
    BY DEF DiskAnswers
  <2>1. Request(t) /\ Booted
    BY <1>0 DEF DiskOk
  <2> QED
    BY <1>3, <2>1 DEF Request
<1>5. PassServesAll
  <2> SUFFICES ASSUME lb_irq.pc = "slots", lb_irq.slot \notin Slots PROVE lb_served = {}
    BY DEF PassServesAll
  <2>1. lb_irq.slot \in Nat /\ lb_irq.slot >= 1 /\ lb_served \subseteq Slots /\ \A s \in lb_served : s >= lb_irq.slot
    BY <1>0 DEF PassOk
  <2>2. \A s \in Slots : s < lb_irq.slot /\ s \in Nat
    BY <2>1, SlotFacts
  <2> QED
    BY <2>1, <2>2
<1>6. PanicsOnlyOnDuds
  BY <1>0 DEF PassOk, PanicsOnlyOnDuds
<1> QED
  BY <1>2, <1>4, <1>5, <1>6 DEF BusSafe

\* The bus, the disk and its threads, whatever the cards and however many threads:
\* lh_clear keeps the card to one thread whose answer is its own, a thread at
\* P(lh_done) has an answer coming, a pass of lamebus_interrupt serves every line
\* asserted when it began, and only unanswered interrupts make the bus panic.
THEOREM BusSafety == LamebusSpec => []BusSafe
<1>1. lamebus_init => LbInv
  BY InitLbInv
<1>2. LbInv /\ [LamebusNext]_lb_vars => LbInv'
  BY NextLbInv
<1>3. LbInv => BusSafe
  BY LbInvSafe
<1> QED
  BY <1>1, <1>2, <1>3, PTL DEF LamebusSpec
=============================================================================
