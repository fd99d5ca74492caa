------------------------------ MODULE Lamebus ------------------------------
(***************************************************************************)
(* The bus (kern/dev/lamebus/lamebus.c) with the disk (lhd.c) and the      *)
(* timer (ltimer.c) on it.                                                 *)
(*                                                                         *)
(* At boot the drivers probe the slots, mark the ones they take and attach *)
(* their interrupt handlers; threads then read and write the disk.  The    *)
(* cards are external, as their registers are used: a card asserts its     *)
(* line until the condition is cleared (level triggered), and one card has *)
(* no driver.                                                              *)
(***************************************************************************)
EXTENDS Integers, Sequences, FiniteSets

CONSTANTS LbCards,      \* the card in each slot: "lhd", "ltimer", "other", "none"
          LbThreads, LbSectors, LbIOs,  \* threads, sectors of the disk, requests of a thread
          MaxDuds,      \* the duds lamebus_interrupt stands (10000)
          MaxTicks      \* bound on the ticks of the timer and of the other card

Slots == DOMAIN LbCards
DiskSlot == CHOOSE s \in Slots : LbCards[s] = "lhd"
TimerSlot == CHOOSE s \in Slots : LbCards[s] = "ltimer"

\* One disk, at most one timer, and sectors numbered without gaps.
ASSUME LamebusAssumption ==
  /\ LbCards \in Seq({"lhd", "ltimer", "other", "none"})
  /\ \E s \in Slots : LbCards[s] = "lhd"
  /\ \A s, u \in Slots : LbCards[s] = LbCards[u] /\ LbCards[s] \in {"lhd", "ltimer"} => s = u
  /\ LbSectors \subseteq Int /\ \A a, b \in LbSectors : a..b \subseteq LbSectors
  /\ LbIOs \in Nat /\ MaxDuds \in Nat
Drivers == <<"lhd", "ltimer">>

VARIABLES lb_inuse,     \* ls_slotsinuse
          lb_func,      \* ls_irqfuncs: the driver attached to each slot, or "none"
          lb_boot,      \* what autoconf does next
          lb_lines,     \* the slots that assert an interrupt
          lb_irq,       \* lamebus_interrupt: where it is, its slot and its copy of the lines
          lb_duds, lb_panic,
          lh_stat, lh_sect, lh_iswrite, lh_buf, \* the disk's registers and its buffer
          lh_disk,      \* the sectors
          lh_clear, lh_done, lh_result, \* the driver's semaphores and result
          lh_thr,       \* the threads in lhd_io
          lb_ticks, lb_served  \* timer ticks handled; slots the present pass has yet to serve
lb_bus == <<lb_inuse, lb_func, lb_boot>>
lb_pass == <<lb_irq, lb_duds, lb_panic, lb_served>>
lb_vars == <<lb_bus, lb_lines, lb_pass, lh_stat, lh_sect, lh_iswrite, lh_buf, lh_disk, lh_clear,
             lh_done, lh_result, lh_thr, lb_ticks>>
lh_vars == <<lh_stat, lh_sect, lh_iswrite, lh_buf, lh_disk, lh_clear, lh_done, lh_result, lh_thr>>

LhIdle == [pc |-> "idle", write |-> FALSE, sector |-> 0, left |-> 0, n |-> LbIOs, ok |-> TRUE]
NoPass == [pc |-> "off", slot |-> 0, irqs |-> {}, dud |-> FALSE]
-----------------------------------------------------------------------------
\* lamebus_init, config_lhd, config_ltimer.
lamebus_init ==
  /\ lb_inuse = {} /\ lb_func = [s \in Slots |-> "none"] /\ lb_boot = [driver |-> 1, slot |-> -1, marked |-> FALSE]
  /\ lb_lines = {} /\ lb_irq = NoPass
  /\ lb_duds = 0 /\ lb_panic = FALSE /\ lb_served = {}
  /\ lh_stat = "idle" /\ lh_sect = 0 /\ lh_iswrite = FALSE /\ lh_buf = 0
  /\ lh_disk = [s \in LbSectors |-> 0] /\ lh_clear = 1 /\ lh_done = 0 /\ lh_result = "none"
  /\ lh_thr = [t \in LbThreads |-> LhIdle] /\ lb_ticks = 0

Booted == lb_boot.driver > Len(Drivers)

\* Mutant of lamebus_probe: a slot in use is found again.
ProbeAgain(id) == {s \in Slots : LbCards[s] = id}

\* lamebus_probe: the slots not in use with the card looked for; the lowest is taken.
lamebus_probe(id) == {s \in Slots \ lb_inuse : LbCards[s] = id}

\* autoconf: each driver probes until nothing is found, marking and attaching.
Autoconf ==
  /\ ~Booted
  /\ LET found == lamebus_probe(Drivers[lb_boot.driver]) IN
     \/ /\ lb_boot.slot = -1 /\ found = {}
        /\ lb_boot' = [driver |-> lb_boot.driver + 1, slot |-> -1, marked |-> FALSE]
        /\ UNCHANGED <<lb_inuse, lb_func, lb_panic>>
     \/ /\ lb_boot.slot = -1 /\ found # {}
        /\ lb_boot' = [lb_boot EXCEPT !.slot = CHOOSE s \in found : \A u \in found : s <= u]
        /\ UNCHANGED <<lb_inuse, lb_func, lb_panic>>
     \/ /\ lb_boot.slot # -1 /\ ~lb_boot.marked              \* lamebus_mark
        /\ lb_panic' = (lb_panic \/ lb_boot.slot \in lb_inuse)
        /\ lb_inuse' = lb_inuse \cup {lb_boot.slot}
        /\ lb_boot' = [lb_boot EXCEPT !.marked = TRUE]
        /\ UNCHANGED lb_func
     \/ /\ lb_boot.marked                                    \* lamebus_attach_interrupt
        /\ lb_panic' = (lb_panic \/ lb_boot.slot \notin lb_inuse \/ lb_func[lb_boot.slot] # "none")
        /\ lb_func' = [lb_func EXCEPT ![lb_boot.slot] = Drivers[lb_boot.driver]]
        /\ lb_boot' = [lb_boot EXCEPT !.slot = -1, !.marked = FALSE]
        /\ UNCHANGED lb_inuse
  /\ UNCHANGED <<lb_lines, lb_irq, lb_duds, lb_served, lh_vars, lb_ticks>>
-----------------------------------------------------------------------------
\* External: the timer expires, and the card without a driver asserts its line or
\* drops it; the disk ends an operation, which may fail.
CardTicks ==
  /\ lb_ticks < MaxTicks
  /\ \E s \in Slots :
       \/ LbCards[s] = "ltimer" /\ s \notin lb_lines /\ lb_lines' = lb_lines \cup {s}
       \/ LbCards[s] = "other" /\ lb_lines' = (lb_lines \ {s}) \cup ({s} \ lb_lines)
  /\ lb_ticks' = lb_ticks + 1
  /\ lb_served' = lb_served \cap lb_lines'
  /\ UNCHANGED <<lb_bus, lb_irq, lb_duds, lb_panic, lh_vars>>

DiskEnds ==
  /\ lh_stat = "working"
  /\ \E r \in {"ok", "media"} :
       /\ lh_stat' = r
       /\ lh_disk' = IF r = "ok" /\ lh_iswrite THEN [lh_disk EXCEPT ![lh_sect] = lh_buf] ELSE lh_disk
       /\ lh_buf' = IF r = "ok" /\ ~lh_iswrite THEN lh_disk[lh_sect] ELSE lh_buf
  /\ lb_lines' = lb_lines \cup {DiskSlot}
  /\ UNCHANGED <<lb_bus, lb_pass, lh_sect, lh_iswrite, lh_clear, lh_done, lh_result, lh_thr, lb_ticks>>

\* mips_interrupt: a line is asserted and the processor traps.
LineTraps ==
  /\ lb_irq.pc = "off" /\ lb_lines # {} /\ ~lb_panic
  /\ lb_irq' = [NoPass EXCEPT !.pc = "trap"]
  /\ UNCHANGED <<lb_bus, lb_lines, lb_duds, lb_panic, lb_served, lh_vars, lb_ticks>>

\* lamebus_interrupt: the lines are read under ls_lock; none asserted is a stray.
lamebus_interrupt ==
  /\ lb_irq.pc = "trap"
  /\ lb_irq' = [pc |-> "slots", slot |-> 1, irqs |-> lb_lines, dud |-> lb_lines = {}]
  /\ lb_duds' = lb_duds + (IF lb_lines = {} THEN 1 ELSE 0)
  /\ lb_served' = lb_lines
  /\ UNCHANGED <<lb_bus, lb_lines, lb_panic, lh_vars, lb_ticks>>

\* The next slot of the pass: not asserted, a dud, or one to call the handler of,
\* for which ls_lock is dropped.
NextSlot ==
  /\ lb_irq.pc = "slots" /\ lb_irq.slot \in Slots
  /\ LET s == lb_irq.slot
         asserted == s \in lb_irq.irqs
         dud == asserted /\ (s \notin lb_inuse \/ lb_func[s] = "none") IN
     /\ lb_duds' = IF dud THEN lb_duds + 1 ELSE lb_duds
     /\ lb_irq' = IF asserted /\ ~dud THEN [lb_irq EXCEPT !.pc = "handler"]
                  ELSE [lb_irq EXCEPT !.slot = @ + 1, !.dud = @ \/ dud]
     /\ lb_served' = IF dud THEN lb_served \ {s} ELSE lb_served
  /\ UNCHANGED <<lb_bus, lb_lines, lb_panic, lh_vars, lb_ticks>>

\* Mutant of lhd_irq: the status is cleared before it is looked at.
IrqClearsFirst ==
  /\ lh_stat' = "idle" /\ lb_lines' = lb_lines \ {DiskSlot}
  /\ UNCHANGED <<lh_result, lh_done, lh_sect, lh_iswrite, lh_buf, lh_disk, lh_clear, lh_thr>>

\* lhd_irq: a finished operation is acknowledged and its result reported.
lhd_irq ==
  /\ IF lh_stat \in {"ok", "media"}
     THEN /\ lh_stat' = "idle"
          /\ lh_result' = lh_stat
          /\ lh_done' = lh_done + 1
          /\ lb_lines' = lb_lines \ {DiskSlot}
     ELSE UNCHANGED <<lh_stat, lh_result, lh_done, lb_lines>>
  /\ UNCHANGED <<lh_sect, lh_iswrite, lh_buf, lh_disk, lh_clear, lh_thr>>

\* ltimer_irq: reading the register clears it; timerclock wakes the sleepers.
ltimer_irq == lb_lines' = lb_lines \ {TimerSlot} /\ UNCHANGED lh_vars

\* Mutant of Handler: the search stops at the first card it served.
HandlerOnce ==
  /\ lb_irq.pc = "handler"
  /\ IF lb_func[lb_irq.slot] = "lhd" THEN lhd_irq ELSE ltimer_irq
  /\ lb_irq' = [lb_irq EXCEPT !.pc = "slots", !.slot = Len(LbCards) + 1]
  /\ lb_served' = lb_served \ {lb_irq.slot}
  /\ UNCHANGED <<lb_bus, lb_duds, lb_panic, lb_ticks>>

\* The handler, then the lines again and on to the next slot.
Handler ==
  /\ lb_irq.pc = "handler"
  /\ IF lb_func[lb_irq.slot] = "lhd" THEN lhd_irq ELSE ltimer_irq
  /\ lb_irq' = [lb_irq EXCEPT !.pc = "slots", !.slot = @ + 1, !.irqs = lb_lines']
  /\ lb_served' = lb_served \ {lb_irq.slot}
  /\ UNCHANGED <<lb_bus, lb_duds, lb_panic, lb_ticks>>

\* The end of the pass: a pass without a dud clears the count.
PassEnds ==
  /\ lb_irq.pc = "slots" /\ lb_irq.slot \notin Slots
  /\ lb_duds' = IF ~lb_irq.dud THEN 0 ELSE lb_duds
  /\ lb_panic' = (lb_panic \/ lb_duds' > MaxDuds)
  /\ lb_irq' = NoPass
  /\ UNCHANGED <<lb_bus, lb_lines, lb_served, lh_vars, lb_ticks>>
-----------------------------------------------------------------------------
LhGo(t, pc) == lh_thr' = [lh_thr EXCEPT ![t].pc = pc]
lh_card == <<lh_stat, lh_sect, lh_iswrite, lh_buf, lh_disk>>

\* lhd_io: a request of whole sectors of the disk (others are refused before they
\* touch anything).
lhd_io(t) ==
  /\ Booted /\ lh_thr[t].pc = "idle" /\ lh_thr[t].n > 0
  /\ \E w \in BOOLEAN, s \in LbSectors, len \in 1..Cardinality(LbSectors) :
       /\ s + len - 1 \in LbSectors
       /\ lh_thr' = [lh_thr EXCEPT ![t] = [pc |-> "next", write |-> w, sector |-> s, left |-> len,
                                           n |-> lh_thr[t].n - 1, ok |-> TRUE]]
  /\ UNCHANGED <<lb_bus, lb_lines, lb_pass, lh_card, lh_clear, lh_done, lh_result, lb_ticks>>

\* The next sector: P(lh_clear).  The data of a write goes to the card, or uiomove
\* fails and lh_clear is given back.
ClearIO(t) ==
  /\ lh_thr[t].pc = "next" /\ lh_clear > 0 /\ lh_clear' = lh_clear - 1
  /\ LhGo(t, "clear")
  /\ UNCHANGED <<lb_bus, lb_lines, lb_pass, lh_card, lh_done, lh_result, lb_ticks>>

MoveFails(t) ==
  /\ lh_thr[t].pc = "clear" /\ lh_thr[t].write
  /\ lh_clear' = lh_clear + 1
  /\ lh_thr' = [lh_thr EXCEPT ![t] = [LhIdle EXCEPT !.n = lh_thr[t].n]]
  /\ UNCHANGED <<lb_bus, lb_lines, lb_pass, lh_card, lh_done, lh_result, lb_ticks>>

StartIO(t) ==
  /\ lh_thr[t].pc = "clear"
  /\ lh_buf' = IF lh_thr[t].write THEN t ELSE lh_buf
  /\ lh_sect' = lh_thr[t].sector /\ lh_iswrite' = lh_thr[t].write /\ lh_stat' = "working"
  /\ LhGo(t, "wait")
  /\ UNCHANGED <<lb_bus, lb_lines, lb_pass, lh_disk, lh_clear, lh_done, lh_result, lb_ticks>>

\* Mutant of AwaitIO: the next thread is let in before the buffer is read.
AwaitEarly(t) ==
  /\ lh_thr[t].pc = "wait" /\ lh_done > 0
  /\ lh_done' = lh_done - 1 /\ lh_clear' = lh_clear + 1
  /\ lh_thr' = [lh_thr EXCEPT ![t].pc = "moveout", ![t].ok = (lh_result = "ok")]
  /\ UNCHANGED <<lb_bus, lb_lines, lb_pass, lh_card, lh_result, lb_ticks>>

\* P(lh_done), and the result the handler saved.
AwaitIO(t) ==
  /\ lh_thr[t].pc = "wait" /\ lh_done > 0
  /\ lh_done' = lh_done - 1
  /\ lh_thr' = [lh_thr EXCEPT ![t].pc = "moveout", ![t].ok = (lh_result = "ok")]
  /\ UNCHANGED <<lb_bus, lb_lines, lb_pass, lh_card, lh_clear, lh_result, lb_ticks>>

\* A read takes its data off the card, which may fail too; V(lh_clear).  The request
\* ends at an error or at its last sector.
EndIO(t) ==
  /\ lh_thr[t].pc = "moveout"
  /\ LET r == lh_thr[t] IN
     \E moved \in {r.ok, r.ok /\ r.write} :
       lh_thr' = [lh_thr EXCEPT ![t] =
         IF moved /\ r.left > 1 THEN [r EXCEPT !.pc = "next", !.sector = r.sector + 1, !.left = r.left - 1]
         ELSE [LhIdle EXCEPT !.n = r.n]]
  /\ lh_clear' = lh_clear + 1
  /\ UNCHANGED <<lb_bus, lb_lines, lb_pass, lh_card, lh_done, lh_result, lb_ticks>>

LamebusNext ==
  \/ Autoconf \/ CardTicks \/ DiskEnds \/ LineTraps \/ lamebus_interrupt \/ NextSlot \/ Handler \/ PassEnds
  \/ \E t \in LbThreads : lhd_io(t) \/ ClearIO(t) \/ MoveFails(t) \/ StartIO(t) \/ AwaitIO(t) \/ EndIO(t)
LamebusSpec == lamebus_init /\ [][LamebusNext]_lb_vars
-----------------------------------------------------------------------------
\* lh_clear keeps the card to one thread from the write of its registers to the
\* read of its buffer: a thread whose operation ended well finds on the card the
\* sector it asked for, or has its data on the disk.
DiskIsMine ==
  /\ Cardinality({t \in LbThreads : lh_thr[t].pc \in {"clear", "wait", "moveout"}}) <= 1
  /\ \A t \in LbThreads : (lh_thr[t].pc = "moveout" /\ lh_thr[t].ok) =>
       /\ lh_sect = lh_thr[t].sector /\ lh_buf = lh_disk[lh_sect]
       /\ lh_thr[t].write => lh_disk[lh_sect] = t

\* A thread waiting for the disk is waiting for something: the operation runs, or
\* its line is asserted to a slot with a handler, or its result is there.
DiskAnswers ==
  \A t \in LbThreads : lh_thr[t].pc = "wait" =>
    \/ lh_stat = "working" \/ lh_done = 1
    \/ lh_stat \in {"ok", "media"} /\ DiskSlot \in lb_lines /\ lb_func[DiskSlot] = "lhd"

\* A pass over the slots serves every line that was asserted when it began, even
\* though ls_lock is dropped and the lines are read again at each handler.
PassServesAll ==
  (lb_irq.pc = "slots" /\ lb_irq.slot \notin Slots) => lb_served = {}

\* The bus panics only over interrupts nobody answers, never because a driver finds
\* its slot taken or its handler already attached.
PanicsOnlyOnDuds ==
  lb_panic => lb_duds > MaxDuds

\* Threads share the disk and the processor's one interrupt line without losing
\* an answer, mixing up two, or taking a served line for a dud.
BusSafe == DiskIsMine /\ DiskAnswers /\ PassServesAll /\ PanicsOnlyOnDuds
=============================================================================
