------------------------------ MODULE Console ------------------------------
(***************************************************************************)
(* The console (kern/dev/generic/console.c) on the serial port             *)
(* (kern/dev/lamebus/lser.c), with kprintf's use of it.                    *)
(*                                                                         *)
(* Threads write through con_io under con_userlock_write, the kernel       *)
(* through kprintf under kprintf_lock, and code that may not sleep prints  *)
(* by polling.  A thread reads through con_io under con_userlock_read, the *)
(* menu through kgets under no lock.  The serial port is external, as its  *)
(* registers are used: it holds one character until it is sent, then is    *)
(* ready, and interrupts while ready or forced, and enabled.               *)
(*                                                                         *)
(* The second part is the text: what a line typed at the menu or at the    *)
(* shell becomes, and what text becomes on the screen: kgets               *)
(* (kern/lib/kgets.c), getcmd (userland/bin/sh/sh.c) and the screen device *)
(* (kern/dev/lamebus/lscreen.c).                                           *)
(***************************************************************************)
EXTENDS Integers, Sequences, FiniteSets, SequencesExt

CONSTANTS CoWriters, CoReaders, \* threads in con_io, writing and reading
          CoText,               \* what a writer writes; NL is a newline
          CoKernel, CoPolled,   \* what kprintf prints, sleeping and polling
          CoBoot,               \* what is printed before the console is found
          CoActive,             \* which threads run together, and what is typed then
          CoWant,               \* uio_resid of a reader
          CONSOLE_INPUT_BUFFER_SIZE

NL == 10
CR == 13
Kprintf == "kprintf"    \* the thread in kprintf, the one that polls, the menu
Poller == "poller"
Kgets == "kgets"
CoNone == "none"

VARIABLES co_wsem, co_rsem,      \* cs_wsem, cs_rsem
          co_wlock, co_rlock,    \* con_userlock_write, con_userlock_read
          co_buf, co_head, co_tail, \* cs_gotchars
          co_chip,               \* the port: its character, ready, enabled, forced, typed
          co_wbusy, co_lslock,   \* ls_wbusy; whether a polling writer holds ls_lock
          co_irq,                \* the interrupt handler after it dropped ls_lock
          co_thr,                \* per thread: where it is, what is left, what it holds
          co_sent,               \* the characters on the wire, with their writers
          co_accepted, co_got,   \* the input taken into the buffer, and read from it
          co_panic, co_raced
co_vars == <<co_wsem, co_rsem, co_wlock, co_rlock, co_buf, co_head, co_tail, co_chip,
             co_wbusy, co_lslock, co_irq, co_thr, co_sent, co_accepted, co_got,
             co_panic, co_raced>>
co_input == <<co_rsem, co_rlock, co_buf, co_head, co_tail, co_accepted, co_got, co_raced>>

\* A newline goes out as a return and a newline.
Expand(text) == FlattenSeq([i \in DOMAIN text |-> IF text[i] = NL THEN <<CR, NL>> ELSE <<text[i]>>])
CoPrinters == CoWriters \cup {Kprintf}
CoGetters == CoReaders \cup {Kgets}
CoThreads == CoPrinters \cup CoGetters \cup {Poller}
TextOf(t) ==
  CASE t \in CoWriters -> Expand(CoText) [] t = Kprintf -> CoBoot \o CoKernel
    [] t = Poller -> CoPolled [] OTHER -> <<>>
-----------------------------------------------------------------------------
\* config_lser and config_con; what putch_delayed kept is printed first, by the
\* thread that found the console.
config_con ==
  /\ co_wsem = 1 /\ co_rsem = 0 /\ co_wlock = CoNone /\ co_rlock = CoNone
  /\ co_buf = [i \in 0..(CONSOLE_INPUT_BUFFER_SIZE - 1) |-> 0] /\ co_head = 0 /\ co_tail = 0
  /\ co_wbusy = FALSE /\ co_lslock = FALSE /\ co_irq = [pc |-> "off", start |-> FALSE, in |-> <<>>]
  /\ \E active \in CoActive :
       /\ co_thr = [t \in CoThreads |-> [pc |-> IF t \in active.threads THEN "begin" ELSE "end",
                                         left |-> TextOf(t), held |-> 0, read |-> <<>>]]
       /\ co_chip = [ch |-> <<>>, ready |-> FALSE, enable |-> TRUE, force |-> FALSE,
                     typed |-> active.typed, rx |-> <<>>]
  /\ co_sent = <<>> /\ co_accepted = <<>> /\ co_got = <<>>
  /\ co_panic = FALSE /\ co_raced = FALSE

CoGo(t, pc) == co_thr' = [co_thr EXCEPT ![t].pc = pc]

\* Mutant of BeginPrint: a writer does not wait for con_userlock_write.
BeginUnlocked(t) ==
  /\ co_thr[t].pc = "begin"
  /\ CoGo(t, "print")
  /\ UNCHANGED <<co_wsem, co_wlock, co_input, co_chip, co_wbusy, co_lslock, co_irq, co_sent, co_panic>>

\* con_io writing, and kprintf: the lock, if it is a user's, then for each
\* character P(cs_wsem) and cs_send.  uiomove may fail at any character.
BeginPrint(t) ==
  /\ co_thr[t].pc = "begin"
  /\ t \in CoWriters => co_wlock = CoNone
  /\ co_wlock' = IF t \in CoWriters THEN t ELSE co_wlock
  /\ CoGo(t, "print")
  /\ UNCHANGED <<co_wsem, co_input, co_chip, co_wbusy, co_lslock, co_irq, co_sent, co_panic>>

EndPrint(t) ==
  /\ co_thr[t].pc = "print" /\ (co_thr[t].left = <<>> \/ t \in CoWriters)
  /\ co_wlock' = IF t \in CoWriters THEN CoNone ELSE co_wlock
  /\ CoGo(t, "end")
  /\ UNCHANGED <<co_wsem, co_input, co_chip, co_wbusy, co_lslock, co_irq, co_sent, co_panic>>

putch_intr(t) ==
  /\ co_thr[t].pc = "print" /\ co_thr[t].left # <<>>
  /\ co_wsem > 0 /\ co_wsem' = co_wsem - 1
  /\ CoGo(t, "send")
  /\ UNCHANGED <<co_wlock, co_input, co_chip, co_wbusy, co_lslock, co_irq, co_sent, co_panic>>

\* The port takes a character; one that is still there would be overwritten.
Put(t, ch) == [co_chip EXCEPT !.ch = <<<<t, ch>>>>]

lser_write(t) ==
  /\ co_thr[t].pc = "send" /\ ~co_lslock
  /\ co_panic' = (co_panic \/ co_wbusy)
  /\ co_wbusy' = TRUE
  /\ co_chip' = Put(t, Head(co_thr[t].left))
  /\ co_thr' = [co_thr EXCEPT ![t].left = Tail(@), ![t].pc = "print"]
  /\ UNCHANGED <<co_wsem, co_wlock, co_input, co_lslock, co_irq, co_sent>>
-----------------------------------------------------------------------------
\* Mutant of PolledClear: the interrupt still to come is cleared with the rest.
PolledClearAll ==
  /\ co_thr[Poller].pc = "clear" /\ (co_wbusy => co_chip.ready)
  /\ co_chip' = [co_chip EXCEPT !.ready = FALSE, !.enable = FALSE, !.force = FALSE]
  /\ co_thr' = [co_thr EXCEPT ![Poller].pc = "poll1", ![Poller].held = 0]
  /\ UNCHANGED <<co_wsem, co_wlock, co_input, co_wbusy, co_lslock, co_irq, co_sent, co_panic>>

\* lser_writepolled under ls_lock.  If a character is on its way, wait for it and
\* leave its interrupt asserted; if not, no interrupt is wanted.
PolledStart ==
  /\ co_thr[Poller].pc \in {"begin", "print"} /\ co_thr[Poller].left # <<>> /\ ~co_lslock
  /\ co_lslock' = TRUE
  /\ CoGo(Poller, "clear")
  /\ UNCHANGED <<co_wsem, co_wlock, co_input, co_chip, co_wbusy, co_irq, co_sent, co_panic>>

PolledClear ==
  /\ co_thr[Poller].pc = "clear" /\ (co_wbusy => co_chip.ready)
  /\ co_chip' = IF co_wbusy THEN [co_chip EXCEPT !.ready = FALSE, !.force = TRUE, !.enable = TRUE]
                ELSE [co_chip EXCEPT !.ready = FALSE, !.enable = FALSE, !.force = FALSE]
  /\ co_thr' = [co_thr EXCEPT ![Poller].pc = "poll1", ![Poller].held = IF co_wbusy THEN 1 ELSE 0]
  /\ UNCHANGED <<co_wsem, co_wlock, co_input, co_wbusy, co_lslock, co_irq, co_sent, co_panic>>

\* Send it and poll until it is sent.
PolledSend ==
  /\ co_thr[Poller].pc = "poll1"
  /\ co_chip' = Put(Poller, Head(co_thr[Poller].left))
  /\ co_thr' = [co_thr EXCEPT ![Poller].left = Tail(@), ![Poller].pc = "poll2"]
  /\ UNCHANGED <<co_wsem, co_wlock, co_input, co_wbusy, co_lslock, co_irq, co_sent, co_panic>>

PolledEnd ==
  /\ co_thr[Poller].pc = "poll2" /\ co_chip.ready
  /\ co_chip' = IF co_thr[Poller].held = 1 THEN co_chip
                ELSE [co_chip EXCEPT !.ready = FALSE, !.enable = TRUE, !.force = FALSE]
  /\ co_lslock' = FALSE
  /\ CoGo(Poller, "print")
  /\ UNCHANGED <<co_wsem, co_wlock, co_input, co_wbusy, co_irq, co_sent, co_panic>>
-----------------------------------------------------------------------------
\* External: the port sends its character, and takes one that is typed.
PortSends ==
  /\ co_chip.ch # <<>>
  /\ co_sent' = co_sent \o co_chip.ch
  /\ co_chip' = [co_chip EXCEPT !.ch = <<>>, !.ready = TRUE]
  /\ UNCHANGED <<co_wsem, co_wlock, co_input, co_wbusy, co_lslock, co_irq, co_thr, co_panic>>

PortTakes ==
  /\ co_chip.typed # <<>> /\ co_chip.rx = <<>>
  /\ co_chip' = [co_chip EXCEPT !.rx = <<Head(co_chip.typed)>>, !.typed = Tail(@)]
  /\ UNCHANGED <<co_wsem, co_wlock, co_input, co_wbusy, co_lslock, co_irq, co_thr, co_sent, co_panic>>

\* lser_irq: under ls_lock both conditions are read and cleared.
lser_irq ==
  LET w == co_chip.ready \/ co_chip.force IN
  /\ co_irq.pc = "off" /\ ~co_lslock
  /\ (co_chip.enable /\ w) \/ co_chip.rx # <<>>
  /\ co_irq' = [pc |-> "start", start |-> w, in |-> co_chip.rx]
  /\ co_wbusy' = IF w THEN FALSE ELSE co_wbusy
  /\ co_chip' = IF w THEN [co_chip EXCEPT !.ready = FALSE, !.force = FALSE, !.enable = TRUE, !.rx = <<>>]
                ELSE [co_chip EXCEPT !.rx = <<>>]
  /\ UNCHANGED <<co_wsem, co_wlock, co_input, co_lslock, co_thr, co_sent, co_panic>>

\* con_start, from the handler: V(cs_wsem).
con_start ==
  /\ co_irq.pc = "start"
  /\ co_wsem' = IF co_irq.start THEN co_wsem + 1 ELSE co_wsem
  /\ co_irq' = [co_irq EXCEPT !.pc = "input"]
  /\ UNCHANGED <<co_wlock, co_input, co_chip, co_wbusy, co_lslock, co_thr, co_sent, co_panic>>

\* Mutant of con_input: the test for a full buffer is one slot short.
InputOverrun ==
  /\ co_irq.pc = "input"
  /\ co_irq' = [pc |-> "off", start |-> FALSE, in |-> <<>>]
  /\ LET next == (co_head + 1) % CONSOLE_INPUT_BUFFER_SIZE
         take == co_irq.in # <<>> IN
     /\ co_buf' = IF take THEN [co_buf EXCEPT ![co_head] = co_irq.in[1]] ELSE co_buf
     /\ co_head' = IF take THEN next ELSE co_head
     /\ co_rsem' = IF take THEN co_rsem + 1 ELSE co_rsem
     /\ co_accepted' = IF take THEN co_accepted \o co_irq.in ELSE co_accepted
  /\ UNCHANGED <<co_wsem, co_wlock, co_rlock, co_tail, co_got, co_raced, co_chip, co_wbusy,
                 co_lslock, co_thr, co_sent, co_panic>>

\* con_input: the character goes into the ring unless it is full.
con_input ==
  /\ co_irq.pc = "input"
  /\ co_irq' = [pc |-> "off", start |-> FALSE, in |-> <<>>]
  /\ LET next == (co_head + 1) % CONSOLE_INPUT_BUFFER_SIZE
         take == co_irq.in # <<>> /\ next # co_tail IN
     /\ co_buf' = IF take THEN [co_buf EXCEPT ![co_head] = co_irq.in[1]] ELSE co_buf
     /\ co_head' = IF take THEN next ELSE co_head
     /\ co_rsem' = IF take THEN co_rsem + 1 ELSE co_rsem
     /\ co_accepted' = IF take THEN co_accepted \o co_irq.in ELSE co_accepted
  /\ UNCHANGED <<co_wsem, co_wlock, co_rlock, co_tail, co_got, co_raced, co_chip, co_wbusy,
                 co_lslock, co_thr, co_sent, co_panic>>
-----------------------------------------------------------------------------
co_output == <<co_wsem, co_wlock, co_chip, co_wbusy, co_lslock, co_irq, co_sent, co_panic>>

\* con_io reading: under the lock, characters until the count or a newline.
BeginRead(t) ==
  /\ co_thr[t].pc = "begin"
  /\ t \in CoReaders => co_rlock = CoNone
  /\ co_rlock' = IF t \in CoReaders THEN t ELSE co_rlock
  /\ CoGo(t, "getch")
  /\ UNCHANGED <<co_output, co_rsem, co_buf, co_head, co_tail, co_accepted, co_got, co_raced>>

\* getch_intr: P(cs_rsem), then the character, then the tail; nothing but the lock
\* of con_io keeps two readers apart, and the menu does not take it.
GetchP(t) ==
  /\ co_thr[t].pc = "getch"
  /\ co_rsem > 0 /\ co_rsem' = co_rsem - 1
  /\ CoGo(t, "char")
  /\ co_raced' = (co_raced \/ \E u \in CoGetters : co_thr[u].pc \in {"char", "tail"})
  /\ UNCHANGED <<co_output, co_rlock, co_buf, co_head, co_tail, co_accepted, co_got>>

GetchChar(t) ==
  /\ co_thr[t].pc = "char"
  /\ co_thr' = [co_thr EXCEPT ![t].held = co_buf[co_tail], ![t].pc = "tail"]
  /\ UNCHANGED <<co_output, co_input>>

GetchTail(t) ==
  /\ co_thr[t].pc = "tail"
  /\ co_tail' = (co_tail + 1) % CONSOLE_INPUT_BUFFER_SIZE
  /\ co_got' = Append(co_got, co_thr[t].held)
  /\ LET ch == IF co_thr[t].held = CR THEN NL ELSE co_thr[t].held
         read == Append(co_thr[t].read, ch)
         more == ch # NL /\ Len(read) < CoWant IN
     /\ co_thr' = [co_thr EXCEPT ![t].read = read, ![t].held = 0, ![t].pc = IF more THEN "getch" ELSE "end"]
     /\ co_rlock' = IF t \in CoReaders /\ ~more THEN CoNone ELSE co_rlock
  /\ UNCHANGED <<co_output, co_rsem, co_buf, co_head, co_accepted, co_raced>>

ConsoleNext ==
  \/ \E t \in CoPrinters : BeginPrint(t) \/ putch_intr(t) \/ lser_write(t) \/ EndPrint(t)
  \/ PolledStart \/ PolledClear \/ PolledSend \/ PolledEnd
  \/ PortSends \/ PortTakes \/ lser_irq \/ con_start \/ con_input
  \/ \E t \in CoGetters : BeginRead(t) \/ GetchP(t) \/ GetchChar(t) \/ GetchTail(t)

ConsoleSpec == config_con /\ [][ConsoleNext]_co_vars

\* The runs keep to one reader at a time (the menu waits for its programs).
OneGetter == ~co_raced
-----------------------------------------------------------------------------
\* cs_wsem, ls_wbusy and the interrupt agree however printing by interrupt and by
\* polling interleave: lser_write never finds the port busy ("This should not
\* happen"), and when nothing is being sent a printer can go on, so no interrupt
\* the semaphore waits for was cleared by the one that polls.
PortClearToWrite ==
  /\ ~co_panic
  /\ (co_wsem = 0 /\ co_irq.pc = "off" /\ ~co_lslock
       /\ \A t \in CoPrinters : co_thr[t].pc # "send")
        => co_wbusy /\ (co_chip.ch # <<>> \/ (co_chip.enable /\ (co_chip.ready \/ co_chip.force)))

Wire(t) == SelectSeq(co_sent, LAMBDA x : x[1] = t)

\* Every character goes over the wire once and in the order its writer wrote it,
\* and the writes of users are atomic: a write is not begun within another.
OutputWhole ==
  /\ \A t \in CoPrinters \cup {Poller} :
       LET out == [i \in DOMAIN Wire(t) |-> Wire(t)[i][2]]
           mine == SelectSeq(co_chip.ch, LAMBDA x : x[1] = t) IN
       Len(out) + Len(mine) + Len(co_thr[t].left) = Len(TextOf(t))
         /\ out = SubSeq(TextOf(t), 1, Len(out))
  /\ LET us == SelectSeq(co_sent, LAMBDA x : x[1] \in CoWriters) IN
     \A i, j \in DOMAIN us : (i < j /\ us[i][1] = us[j][1]) => \A k \in i..j : us[k][1] = us[i][1]

\* The ring gives back what was put into it, in order and once; the semaphore
\* counts what is in it, and a full ring drops the character typed, not one kept.
InputFaithful ==
  /\ co_got = SubSeq(co_accepted, 1, Len(co_got))
  /\ LET taken == Cardinality({t \in CoGetters : co_thr[t].pc \in {"char", "tail"}}) IN
     co_rsem + taken = Len(co_accepted) - Len(co_got)
-----------------------------------------------------------------------------
CONSTANTS KgMax,                  \* maxlen of kgets, len of getcmd
          KgKeys, MaxKeys,        \* what is typed, and how much of it
          ScrWidth, ScrHeight,    \* ls_width, ls_height
          ScrChars, MaxChars      \* what is written to the screen, and how much

\* The keys with a meaning; every other key stands for itself.
Space == 32
Backspace == 8
CtrlC == 3
CtrlR == 18
CtrlU == 21
CtrlW == 23
Newline == 10
IsText(ch) == ch >= 32 /\ ch < 127

VARIABLES kg_who,                            \* who reads the line: "kgets" or "getcmd"
          kg_buf, kg_row, kg_done, kg_keys,  \* buf[0..pos), the echo's last row, keys typed
          scr_text, scr_cx, scr_cy, scr_out  \* ls_screen, ls_cx, ls_cy; the text written
ct_vars == <<kg_who, kg_buf, kg_row, kg_done, kg_keys, scr_text, scr_cx, scr_cy, scr_out>>
scr_vars == <<scr_text, scr_cx, scr_cy, scr_out>>
-----------------------------------------------------------------------------
\* The row as the terminal shows it: its characters and the cursor.
Shown(row, ch) ==
  CASE ch = Newline -> [text |-> <<>>, at |-> 0]
    [] ch = Backspace -> [row EXCEPT !.at = IF @ > 0 THEN @ - 1 ELSE 0]
    [] OTHER -> [text |-> SubSeq(row.text, 1, row.at) \o <<ch>> \o SubSeq(row.text, row.at + 2, Len(row.text)),
                 at |-> row.at + 1]
putch(row, chars) == FoldLeft(Shown, row, chars)

\* Mutant of backsp: the character is not overwritten.
BackspBare(row) == putch(row, <<Backspace>>)

backsp(row) == putch(row, <<Backspace, Space, Backspace>>)
RECURSIVE Backsp(_, _)
Backsp(row, n) == IF n = 0 THEN row ELSE Backsp(backsp(row), n - 1)

\* How much of the line ^W erases: blanks at its end, then the word before them.
RECURSIVE WordEnd(_), WordBegin(_)
WordEnd(s) == IF s # <<>> /\ Last(s) = Space THEN WordEnd(Front(s)) ELSE s
WordBegin(s) == IF s # <<>> /\ Last(s) # Space THEN WordBegin(Front(s)) ELSE s

\* One key of kgets.
kgets(ch) ==
  /\ kg_who = "kgets" /\ ~kg_done /\ kg_keys < MaxKeys
  /\ kg_keys' = kg_keys + 1
  /\ kg_done' = (ch \in {Newline, CtrlC})
  /\ LET pos == Len(kg_buf)
         kept == WordBegin(WordEnd(kg_buf)) IN
     \/ /\ ch = Newline
        /\ UNCHANGED kg_buf /\ kg_row' = putch(kg_row, <<Newline>>)
     \/ /\ IsText(ch) /\ pos < KgMax - 1
        /\ kg_buf' = Append(kg_buf, ch) /\ kg_row' = putch(kg_row, <<ch>>)
     \/ /\ ch = Backspace /\ pos > 0
        /\ kg_buf' = Front(kg_buf) /\ kg_row' = backsp(kg_row)
     \/ /\ ch = CtrlC
        /\ kg_buf' = <<>> /\ kg_row' = putch(kg_row, <<94, 67, Newline>>)
     \/ /\ ch = CtrlR
        /\ UNCHANGED kg_buf /\ kg_row' = putch(kg_row, <<94, 82, Newline>> \o kg_buf)
     \/ /\ ch = CtrlU
        /\ kg_buf' = <<>> /\ kg_row' = Backsp(kg_row, pos)
     \/ /\ ch = CtrlW
        /\ kg_buf' = kept /\ kg_row' = Backsp(kg_row, pos - Len(kept))
     \/ /\ (IsText(ch) /\ pos >= KgMax - 1) \/ (ch = Backspace /\ pos = 0)   \* beep
        /\ UNCHANGED <<kg_buf, kg_row>>
  /\ UNCHANGED <<kg_who, scr_vars>>

\* One key of the shell's getcmd, which knows only text, backspace and newline.
getcmd(ch) ==
  /\ kg_who = "getcmd" /\ ~kg_done /\ kg_keys < MaxKeys
  /\ kg_keys' = kg_keys + 1
  /\ kg_done' = (ch = Newline)
  /\ LET pos == Len(kg_buf) IN
     \/ /\ ch = Backspace /\ pos > 0
        /\ kg_buf' = Front(kg_buf) /\ kg_row' = backsp(kg_row)
     \/ /\ ch = Newline
        /\ UNCHANGED kg_buf /\ kg_row' = putch(kg_row, <<Newline>>)
     \/ /\ IsText(ch) /\ pos < KgMax - 1
        /\ kg_buf' = Append(kg_buf, ch) /\ kg_row' = putch(kg_row, <<ch>>)
     \/ /\ ~(ch = Backspace /\ pos > 0) /\ ch # Newline /\ ~(IsText(ch) /\ pos < KgMax - 1)  \* bell
        /\ UNCHANGED <<kg_buf, kg_row>>
  /\ UNCHANGED <<kg_who, scr_vars>>
-----------------------------------------------------------------------------
Cells == 0..(ScrWidth * ScrHeight - 1)

\* Mutant of lscreen_newline: the cursor goes on below the last row.
NewlineDown(s) == [s EXCEPT !.cy = @ + 1, !.cx = 0]

\* A newline scrolls the last row up or moves down.
lscreen_newline(s) ==
  IF s.cy >= ScrHeight - 1
  THEN [s EXCEPT !.cx = 0,
                 !.text = [i \in Cells |-> IF i < ScrWidth * (ScrHeight - 1) THEN @[i + ScrWidth] ELSE 0]]
  ELSE [s EXCEPT !.cy = @ + 1, !.cx = 0]

\* A character goes to the cursor, on the next row if this one is full.
lscreen_char(s, ch) ==
  LET t == IF s.cx >= ScrWidth THEN lscreen_newline(s) ELSE s IN
  [t EXCEPT !.text[t.cy * ScrWidth + t.cx] = ch, !.cx = @ + 1]

lscreen_write(ch) ==
  /\ Len(scr_out) < MaxChars
  /\ LET s == [text |-> scr_text, cx |-> scr_cx, cy |-> scr_cy]
         t == IF ch = Newline THEN lscreen_newline(s) ELSE lscreen_char(s, ch) IN
     scr_text' = t.text /\ scr_cx' = t.cx /\ scr_cy' = t.cy
  /\ scr_out' = Append(scr_out, ch)
  /\ UNCHANGED <<kg_who, kg_buf, kg_row, kg_done, kg_keys>>

config_lscreen ==
  /\ scr_text = [i \in Cells |-> 0] /\ scr_cx = 0 /\ scr_cy = 0 /\ scr_out = <<>>
ConsoleTextInit ==
  /\ kg_who \in {"kgets", "getcmd"}
  /\ kg_buf = <<>> /\ kg_row = [text |-> <<>>, at |-> 0] /\ kg_done = FALSE /\ kg_keys = 0
  /\ config_lscreen
\* Either a line is typed or text is written.
ConsoleTextNext ==
  \/ scr_out = <<>> /\ \E ch \in KgKeys : kgets(ch)
  \/ scr_out = <<>> /\ \E ch \in KgKeys : getcmd(ch)
  \/ kg_keys = 0 /\ kg_who = "kgets" /\ \E ch \in ScrChars : lscreen_write(ch)
ConsoleTextSpec == ConsoleTextInit /\ [][ConsoleTextNext]_ct_vars
-----------------------------------------------------------------------------
\* The echo shows what is in the buffer, whatever was typed and erased: the cursor
\* stands after the last character kept and only blanks follow it; and there is
\* always room for the 0 that ends the string.
EchoIsLine ==
  /\ Len(kg_buf) <= KgMax - 1
  /\ ~kg_done => /\ kg_row.at = Len(kg_buf)
                 /\ SubSeq(kg_row.text, 1, kg_row.at) = kg_buf
                 /\ \A i \in (kg_row.at + 1)..Len(kg_row.text) : kg_row.text[i] = Space

\* The rows of a text, wrapped at the width of the screen.
AddChar(rows, ch) ==
  IF ch = Newline THEN Append(rows, <<>>)
  ELSE IF Len(Last(rows)) = ScrWidth THEN Append(rows, <<ch>>)
  ELSE [rows EXCEPT ![Len(rows)] = Append(@, ch)]
RowsOf(text) == FoldLeft(AddChar, <<<<>>>>, text)

\* The screen shows the last rows of all that was written, and the cursor is on
\* it (at most one past the end of its row): scrolling loses only the top row.
ScreenShowsText ==
  LET rows == RowsOf(scr_out)
      top == IF Len(rows) > ScrHeight THEN Len(rows) - ScrHeight ELSE 0 IN
  /\ scr_cx <= ScrWidth /\ scr_cy < ScrHeight
  /\ scr_cy = Len(rows) - top - 1 /\ scr_cx = Len(Last(rows))
  /\ \A y \in 0..(ScrHeight - 1), x \in 0..(ScrWidth - 1) :
       scr_text[y * ScrWidth + x] =
         IF top + y + 1 <= Len(rows) /\ x + 1 <= Len(rows[top + y + 1]) THEN rows[top + y + 1][x + 1] ELSE 0
=============================================================================
