------------------------------ MODULE LibcText ------------------------------
(***************************************************************************)
(* The C library functions the kernel and the programs share (common/libc):*)
(* the guts of printf with snprintf on top, atoi, strtok_r, memcpy and     *)
(* memmove.  Characters are one-letter strings and NUL; lt_part says which *)
(* function a behaviour calls, with every input of the small sets below.   *)
(***************************************************************************)
EXTENDS Integers, Sequences, FiniteSets, SequencesExt, FiniteSetsExt

CONSTANTS LtFormats,    \* printf formats, sequences of characters
          LtInts,       \* the integers printed
          LtLongBits,   \* bits of the widest integer
          LtBufs,       \* sizes of the buffer given to snprintf
          LtTexts,      \* strings for strtok_r
          LtMemory      \* bytes of memory for memmove; a word has two

NUL == "NUL"
DigitChars == <<"0", "1", "2", "3", "4", "5", "6", "7", "8", "9", "a", "b", "c", "d", "e", "f">>
DigitOf(ch) == (CHOOSE i \in 1..16 : DigitChars[i] = ch) - 1
IsDigit(ch) == ch \in {DigitChars[i] : i \in 1..10}

VARIABLES lt_part, lt_in, pf, lt_out, tk
lt_vars == <<lt_part, lt_in, pf, lt_out, tk>>
-----------------------------------------------------------------------------
\* __pf_endfield: the state of a format, reset after each field.
__pf_endfield ==
  [in_pct |-> FALSE, size |-> "INTSZ", spacing |-> 0, rightspc |-> FALSE, fillchar |-> " ",
   altformat |-> FALSE]

\* __snprintf_send and __pf_print: the text goes to the buffer while there is room,
\* and is counted anyway.
Send(out, txt) ==
  LET room == out.buflen - Len(out.buf) IN
  [out EXCEPT !.charcount = @ + Len(txt), !.all = @ \o txt,
              !.buf = @ \o SubSeq(txt, 1, Min({room, Len(txt)}))]

\* Mutant of __pf_modifier: a zero is always the padding character.
ModifierZero(p, ch) ==
  CASE ch = "#" -> [p EXCEPT !.altformat = TRUE]
    [] ch = "-" -> [p EXCEPT !.rightspc = TRUE]
    [] ch = "l" -> [p EXCEPT !.size = IF @ = "LONGSZ" THEN "LLONGSZ" ELSE "LONGSZ"]
    [] ch = "z" -> [p EXCEPT !.size = "SIZETSZ"]
    [] ch = "0" -> [p EXCEPT !.fillchar = "0"]
    [] OTHER -> [p EXCEPT !.spacing = @ * 10 + DigitOf(ch)]

__pf_modifier(p, ch) ==
  CASE ch = "#" -> [p EXCEPT !.altformat = TRUE]
    [] ch = "-" -> [p EXCEPT !.rightspc = TRUE]
    [] ch = "l" -> [p EXCEPT !.size = IF @ = "LONGSZ" THEN "LLONGSZ" ELSE "LONGSZ"]
    [] ch = "z" -> [p EXCEPT !.size = "SIZETSZ"]
    [] ch = "0" -> IF p.spacing > 0 THEN [p EXCEPT !.spacing = @ * 10]
                   ELSE [p EXCEPT !.fillchar = "0"]
    [] OTHER -> [p EXCEPT !.spacing = @ * 10 + DigitOf(ch)]

\* __pf_printstuff with __pf_fill.
__pf_printstuff(p, prefix, stuff) ==
  LET len == Len(prefix) + Len(stuff)
      pad == [i \in 1..(IF p.spacing > len THEN p.spacing - len ELSE 0) |-> p.fillchar] IN
  IF p.rightspc THEN prefix \o stuff \o pad
  ELSE IF p.fillchar = "0" THEN prefix \o pad \o stuff
  ELSE pad \o prefix \o stuff

\* __pf_getnum: a signed number as its sign and an unsigned magnitude.
__pf_getnum(ch, arg) ==
  IF ch = "d" THEN [sign |-> arg < 0, num |-> (IF arg < 0 THEN -arg ELSE arg) % 2^LtLongBits]
  ELSE [sign |-> FALSE, num |-> arg % 2^LtLongBits]

\* __pf_setbase and __pf_printnum: the digits from the last one up, at least one.
BaseOf(ch) == IF ch \in {"d", "u"} THEN 10 ELSE IF ch \in {"x", "p"} THEN 16 ELSE 8
__pf_printnum(p, ch, n) ==
  LET base == BaseOf(ch)
      Text[x \in 0..(2^LtLongBits)] ==
        IF x < base THEN <<DigitChars[x + 1]>>
        ELSE Append(Text[x \div base], DigitChars[(x % base) + 1])
      bprefix == IF ~(p.altformat \/ ch = "p") \/ base = 10 THEN <<>>
                 ELSE IF base = 16 THEN <<"0", "x">> ELSE <<"0">> IN
  __pf_printstuff(p, (IF n.sign THEN <<"-">> ELSE <<>>) \o bprefix, Text[n.num])

\* __pf_send: one character of the format.
__pf_send(p, out, ch, arg) ==
  IF ~p.in_pct
  THEN IF ch = "%" THEN [pf |-> [p EXCEPT !.in_pct = TRUE], out |-> out]
       ELSE [pf |-> p, out |-> Send(out, <<ch>>)]
  ELSE IF ch \in {"#", "-", "l", "z"} \/ IsDigit(ch) THEN [pf |-> __pf_modifier(p, ch), out |-> out]
  ELSE [pf |-> __pf_endfield,
        out |-> Send(out, IF ch \in {"d", "o", "u", "p", "x"}
                          THEN __pf_printnum(p, ch, __pf_getnum(ch, arg))
                          ELSE __pf_printstuff(p, <<>>, IF ch = "s" THEN <<"s", "t", "r">> ELSE <<ch>>))]

\* Mutant of vsnprintf: no room is kept for the terminator.
VsnprintfFull(len) == [buf |-> <<>>, buflen |-> len, charcount |-> 0, all |-> <<>>]

\* vsnprintf: one byte of the buffer is kept for the terminator.
vsnprintf(len) ==
  [buf |-> <<>>, buflen |-> IF len = 0 THEN 0 ELSE len - 1, charcount |-> 0, all |-> <<>>]

\* __vprintf: the format, character by character.
__vprintf ==
  /\ lt_part = "printf" /\ lt_in.at <= Len(lt_in.fmt)
  /\ LET s == __pf_send(pf, lt_out, lt_in.fmt[lt_in.at], lt_in.arg) IN
     pf' = s.pf /\ lt_out' = s.out
  /\ lt_in' = [lt_in EXCEPT !.at = @ + 1]
  /\ UNCHANGED <<lt_part, tk>>

\* Mutant of atoi: the sign is lost behind spaces.
AtoiNoSign(text) ==
  LET digits == SelectSeq(text, IsDigit)
      V[k \in 0..Len(digits)] == IF k = 0 THEN 0 ELSE V[k - 1] * 10 + DigitOf(digits[k]) IN
  V[Len(digits)]

\* atoi: skip spaces, take a sign, then digits up to anything else.
atoi(text) ==
  LET start == CHOOSE i \in 1..(Len(text) + 1) :
                 /\ i = Len(text) + 1 \/ text[i] # " "
                 /\ \A j \in 1..(i - 1) : text[j] = " "
      signed == start <= Len(text) /\ text[start] \in {"-", "+"}
      first == IF signed THEN start + 1 ELSE start
      V[k \in first..(Len(text) + 1), v \in 0..(10^6)] ==
        IF k > Len(text) THEN v
        ELSE IF ~IsDigit(text[k]) THEN v ELSE V[k + 1, v * 10 + DigitOf(text[k])] IN
  IF signed /\ text[start] = "-" THEN -V[first, 0] ELSE V[first, 0]
-----------------------------------------------------------------------------
\* strtok_r with separator " ": tk.str is the string in memory, tk.context where the
\* next call starts (0 is NULL), tk.words what the calls returned.
Char(i) == IF i > Len(tk.str) THEN NUL ELSE tk.str[i]

\* Mutant of strtok_r: only one separator is skipped.
StrtokOneSep ==
  /\ lt_part = "strtok" /\ tk.context # 0
  /\ LET head == IF Char(tk.context) = " " THEN tk.context + 1 ELSE tk.context
         tail == Min({i \in head..(Len(tk.str) + 1) : Char(i) \in {NUL, " "}}) IN
     tk' = IF Char(head) = NUL THEN [tk EXCEPT !.context = 0]
           ELSE [tk EXCEPT !.words = Append(@, SubSeq(tk.str, head, tail - 1)),
                           !.context = IF Char(tail) = NUL THEN 0 ELSE tail + 1,
                           !.str = IF Char(tail) = NUL THEN @ ELSE [@ EXCEPT ![tail] = NUL]]
  /\ UNCHANGED <<lt_part, lt_in, pf, lt_out>>

strtok_r ==
  /\ lt_part = "strtok" /\ tk.context # 0
  /\ LET head == Min({i \in tk.context..(Len(tk.str) + 1) : Char(i) # " "})
         tail == Min({i \in head..(Len(tk.str) + 1) : Char(i) \in {NUL, " "}}) IN
     tk' = IF Char(head) = NUL THEN [tk EXCEPT !.context = 0]
           ELSE [tk EXCEPT !.words = Append(@, SubSeq(tk.str, head, tail - 1)),
                           !.context = IF Char(tail) = NUL THEN 0 ELSE tail + 1,
                           !.str = IF Char(tail) = NUL THEN @ ELSE [@ EXCEPT ![tail] = NUL]]
  /\ UNCHANGED <<lt_part, lt_in, pf, lt_out>>
-----------------------------------------------------------------------------
\* memcpy and memmove copy words when everything is aligned, else bytes.  Unit i
\* of the copy covers the bytes i*w .. i*w+w-1.
Unit(dst, src, len) == IF dst % 2 = 0 /\ src % 2 = 0 /\ len % 2 = 0 THEN 2 ELSE 1
MoveUnit(mem, dst, src, w, i) ==
  [b \in DOMAIN mem |-> IF b \in (dst + i * w)..(dst + i * w + w - 1) THEN mem[b - dst + src] ELSE mem[b]]
memcpy(mem, dst, src, len) ==
  LET w == Unit(dst, src, len)
      F[i \in 0..(len \div w)] == IF i = 0 THEN mem ELSE MoveUnit(F[i - 1], dst, src, w, i - 1) IN
  F[len \div w]

\* Mutant of memmove: always front to back.
MemmoveForward(mem, dst, src, len) == memcpy(mem, dst, src, len)

memmove(mem, dst, src, len) ==
  LET w == Unit(dst, src, len)
      n == len \div w
      G[i \in 0..n] == IF i = 0 THEN mem ELSE MoveUnit(G[i - 1], dst, src, w, n - i) IN
  IF dst < src THEN memcpy(mem, dst, src, len) ELSE G[n]

MoveCall ==
  /\ lt_part = "memmove" /\ lt_in = [len |-> -1]
  /\ \E dst, src \in 0..(LtMemory - 1), len \in 0..LtMemory :
       /\ dst + len <= LtMemory /\ src + len <= LtMemory
       /\ lt_in' = [dst |-> dst, src |-> src, len |-> len,
                    mem |-> memmove([b \in 0..(LtMemory - 1) |-> b], dst, src, len)]
  /\ UNCHANGED <<lt_part, pf, lt_out, tk>>
-----------------------------------------------------------------------------
LibcInit ==
  /\ lt_part \in {"printf", "strtok", "memmove"}
  /\ pf = __pf_endfield
  /\ \/ /\ lt_part = "printf"
        /\ \E f \in LtFormats, x \in LtInts, n \in LtBufs :
             /\ ("d" \notin Range(f)) => x >= 0
             /\ lt_in = [fmt |-> f, arg |-> x, len |-> n, at |-> 1]
             /\ lt_out = vsnprintf(n)
        /\ tk = [context |-> 0]
     \/ /\ lt_part = "strtok" /\ lt_in = [len |-> -1] /\ lt_out = vsnprintf(0)
        /\ \E s \in LtTexts : tk = [str |-> s, orig |-> s, context |-> 1, words |-> <<>>]
     \/ lt_part = "memmove" /\ lt_in = [len |-> -1] /\ lt_out = vsnprintf(0) /\ tk = [context |-> 0]
LibcNext == __vprintf \/ strtok_r \/ MoveCall
-----------------------------------------------------------------------------
Printed == lt_part = "printf" /\ lt_in.at > Len(lt_in.fmt)
Zeros(f) == \E i \in 1..Len(f) : f[i] = "0" /\ \A j \in 1..(i - 1) : ~(IsDigit(f[j]) /\ f[j] # "0")

\* What printf prints for %d, in a field of any width and padded with spaces or
\* zeros, atoi reads back as the same number.  (A field that is both left-aligned
\* and zero-padded is not one: the zeros go to the right of the digits.)
PrintedReadsBack ==
  (Printed /\ Last(lt_in.fmt) = "d" /\ ~("-" \in Range(lt_in.fmt) /\ Zeros(lt_in.fmt))) =>
    atoi(lt_out.all) = lt_in.arg

FieldWidth(f) == atoi(SelectSeq(f, IsDigit))

\* A number printed in any base has exactly the width asked for, or the length of
\* the number with its sign and prefix where that is longer.
PrintedFillsField ==
  (Printed /\ Head(lt_in.fmt) = "%") =>
    LET plain == SelectSeq(lt_in.fmt, LAMBDA c : c \notin {"-"} /\ ~IsDigit(c))
        F[i \in 0..Len(plain)] ==
          IF i = 0 THEN [pf |-> __pf_endfield, out |-> vsnprintf(0)]
          ELSE __pf_send(F[i - 1].pf, F[i - 1].out, plain[i], lt_in.arg) IN
    lt_out.charcount = Max({FieldWidth(lt_in.fmt), F[Len(plain)].out.charcount})

\* snprintf stores the first len-1 characters of the text, so that the terminator
\* fits, and returns the length of the whole text.
SnprintfFits ==
  Printed => /\ Len(lt_out.buf) + 1 <= Max({lt_in.len, 1})
             /\ lt_out.buf = SubSeq(lt_out.all, 1, Len(lt_out.buf))
             /\ lt_out.charcount = Len(lt_out.all)
             /\ Len(lt_out.all) < lt_in.len => lt_out.buf = lt_out.all

\* The words strtok_r returns over its calls are the runs between separators, in
\* order, although it writes terminators into the string as it goes.
WordsAreRuns ==
  (lt_part = "strtok" /\ tk.context = 0) =>
    LET s == tk.orig
        runs == {r \in (1..Len(s)) \X (1..Len(s)) :
                   /\ r[1] <= r[2] /\ \A i \in r[1]..r[2] : s[i] # " "
                   /\ (r[1] = 1 \/ s[r[1] - 1] = " ") /\ (r[2] = Len(s) \/ s[r[2] + 1] = " ")} IN
    /\ Len(tk.words) = Cardinality(runs)
    /\ \A r \in runs :
         tk.words[Cardinality({q \in runs : q[1] <= r[1]})] = SubSeq(s, r[1], r[2])

\* memmove leaves at the destination what was at the source, however the two
\* overlap and whether it copies words or bytes.
MemmoveCopies ==
  (lt_part = "memmove" /\ lt_in.len >= 0) =>
    \A b \in 0..(LtMemory - 1) :
      lt_in.mem[b] = IF b \in lt_in.dst..(lt_in.dst + lt_in.len - 1) THEN b - lt_in.dst + lt_in.src ELSE b

\* The text functions of the C library do what their callers count on, at the
\* edges of fields, buffers and words.
TextRight ==
  PrintedReadsBack /\ PrintedFillsField /\ SnprintfFits /\ WordsAreRuns /\ MemmoveCopies
=============================================================================
