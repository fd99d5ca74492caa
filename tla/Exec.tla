-------------------------------- MODULE Exec --------------------------------
(***************************************************************************)
(* The argument block of a new program: copy_args, align_arg,              *)
(* adjust_kargbuf and sys_execv of kern/syscall/proc_syscalls.c, with the  *)
(* static buffers karg and kargbuf that all processes share.               *)
(*                                                                         *)
(* Memory is kept by words: a word holds a pointer <<"ptr", a>> or the     *)
(* k-th word <<s, k>> of a string.  A string is <<name, bytes>> with the   *)
(* NUL counted.  The address space side of execv is in VM.                 *)
(***************************************************************************)
EXTENDS Naturals, Sequences, FiniteSets

CONSTANTS ExProcs, Strings,
          MaxArgs,        \* bound: arguments of one execv
          ARG_MAX,        \* bytes of karg and of kargbuf
          USERSTACK       \* the address above the user stack

VARIABLES karg, kargbuf,  \* the static buffers
          ex_pc, ex_args, ex_i, ex_len, ex_tot, ex_off, ex_nlast,
          ex_stack,       \* what execv copied out: words from stackptr up
          ex_spoiled      \* history: two calls overlapped, or a block outgrew kargbuf

ex_local == <<ex_pc, ex_args, ex_i, ex_len, ex_tot, ex_off, ex_nlast>>
ex_vars == <<karg, kargbuf, ex_local, ex_stack, ex_spoiled>>

PtrSize == 4                                    \* sizeof(char *)
BufWords == 0..(ARG_MAX \div PtrSize - 1)
EmptyArg == <<"none", 0>>
ArgLists == UNION {[1..n -> Strings] : n \in 0..MaxArgs}

\* get_aligned_len and align_arg: the length rounded up to a multiple of 4.
align_arg(s) == IF s[2] % PtrSize = 0 THEN s[2] ELSE s[2] + (PtrSize - (s[2] % PtrSize))

ExecInit ==
  /\ karg = EmptyArg /\ kargbuf = [w \in BufWords |-> EmptyArg]
  /\ ex_pc = [p \in ExProcs |-> "user"] /\ ex_args = [p \in ExProcs |-> <<>>]
  /\ ex_i = [p \in ExProcs |-> 0] /\ ex_len = [p \in ExProcs |-> 0]
  /\ ex_tot = [p \in ExProcs |-> 0] /\ ex_off = [p \in ExProcs |-> 0]
  /\ ex_nlast = [p \in ExProcs |-> 0]
  /\ ex_stack = [p \in ExProcs |-> <<>>] /\ ex_spoiled = FALSE

ExSet(f, p, v) == [f EXCEPT ![p] = v]
InExecv(p) == ex_pc[p] \notin {"user", "running", "wild"}

\* sys_execv reaches copy_args with the caller's vector; the caller may be a
\* program that an earlier execv started.
ExecCall(p, args) ==
  /\ ~InExecv(p) /\ ex_pc[p] # "wild"
  /\ ex_pc' = ExSet(ex_pc, p, "fetch1")
  /\ ex_args' = ExSet(ex_args, p, args)
  /\ ex_len' = ExSet(ex_len, p, 0)
  /\ ex_stack' = ExSet(ex_stack, p, <<>>)
  /\ ex_spoiled' = (ex_spoiled \/ \E q \in ExProcs : InExecv(q))
  /\ UNCHANGED <<karg, kargbuf, ex_i, ex_tot, ex_off, ex_nlast>>

\* execv returns -1 with the error of copy_args.
ExecFails(p) ==
  /\ ex_pc' = ExSet(ex_pc, p, "user")
  /\ ex_args' = ExSet(ex_args, p, <<>>)
  /\ ex_i' = ExSet(ex_i, p, 0) /\ ex_len' = ExSet(ex_len, p, 0) /\ ex_tot' = ExSet(ex_tot, p, 0)
  /\ ex_off' = ExSet(ex_off, p, 0) /\ ex_nlast' = ExSet(ex_nlast, p, 0)

\* copyin of the pointer and copyinstr into karg, in both loops: the NULL ends
\* the loop, a string longer than karg is ENAMETOOLONG.  The second loop does not
\* ask whether pointers, strings and padding fit kargbuf: where they do not, it
\* writes past the array ("wild", followed no further).
FetchArg(p) ==
  /\ ex_pc[p] \in {"fetch1", "fetch2"}
  /\ LET i == ex_i[p] + 1
         first == ex_pc[p] = "fetch1"
         argc == Len(ex_args[p]) IN
     CASE i > argc /\ first ->
            /\ ex_pc' = ExSet(ex_pc, p, IF ex_len[p] + PtrSize > ARG_MAX THEN "wild" ELSE "fetch2")
            /\ ex_len' = ExSet(ex_len, p, ex_len[p] + PtrSize)
            /\ ex_i' = ExSet(ex_i, p, 0)
            /\ ex_off' = ExSet(ex_off, p, (argc + 1) * PtrSize)
            /\ UNCHANGED <<karg, kargbuf, ex_args, ex_tot, ex_nlast>>
       [] i > argc /\ ~first ->
            /\ ex_pc' = ExSet(ex_pc, p, "load")
            /\ kargbuf' = [kargbuf EXCEPT ![argc] = <<"ptr", 0>>]
            /\ UNCHANGED <<karg, ex_args, ex_i, ex_len, ex_tot, ex_off, ex_nlast>>
       [] i <= argc /\ ex_args[p][i][2] > ARG_MAX ->
            ExecFails(p) /\ UNCHANGED <<karg, kargbuf>>
       [] i <= argc /\ ex_args[p][i][2] <= ARG_MAX ->
            /\ karg' = ex_args[p][i]
            /\ ex_pc' = ExSet(ex_pc, p, IF first THEN "measure" ELSE "store")
            /\ UNCHANGED <<kargbuf, ex_args, ex_i, ex_len, ex_tot, ex_off, ex_nlast>>
  /\ ex_spoiled' = (ex_spoiled \/ ex_pc'[p] = "wild")
  /\ UNCHANGED ex_stack

\* First loop: the length is that of karg, the ARG_MAX test that of the
\* caller's string; it counts the strings alone.
MeasureArg(p) ==
  /\ ex_pc[p] = "measure"
  /\ LET tot == ex_tot[p] + ex_args[p][ex_i[p] + 1][2] IN
     IF tot > ARG_MAX
     THEN ExecFails(p)
     ELSE /\ ex_tot' = ExSet(ex_tot, p, tot)
          /\ ex_len' = ExSet(ex_len, p, ex_len[p] + align_arg(karg) + PtrSize)
          /\ ex_i' = ExSet(ex_i, p, ex_i[p] + 1)
          /\ ex_pc' = ExSet(ex_pc, p, "fetch1")
          /\ UNCHANGED <<ex_args, ex_off, ex_nlast>>
  /\ UNCHANGED <<karg, kargbuf, ex_stack, ex_spoiled>>

\* buf with the words of s from byte offset at on.
WithString(buf, at, s) ==
  [w \in DOMAIN buf |->
     IF w >= at \div PtrSize /\ w < (at + align_arg(s)) \div PtrSize
     THEN <<s[1], w - at \div PtrSize>> ELSE buf[w]]

\* Mutant of StoreArg: the offset advances by the length of this argument
\* where the code adds that of the previous one.
StoreArgShifted(p) ==
  /\ ex_pc[p] = "store"
  /\ LET offset == ex_off[p] + align_arg(karg) IN
     /\ kargbuf' = [WithString(kargbuf, ex_off[p] + ex_nlast[p], karg)
                      EXCEPT ![ex_i[p]] = <<"ptr", offset>>]
     /\ ex_off' = ExSet(ex_off, p, offset)
  /\ ex_nlast' = ExSet(ex_nlast, p, align_arg(karg))
  /\ ex_i' = ExSet(ex_i, p, ex_i[p] + 1)
  /\ ex_pc' = ExSet(ex_pc, p, "fetch2")
  /\ UNCHANGED <<karg, ex_args, ex_len, ex_tot, ex_stack, ex_spoiled>>

\* Second loop: *p_begin = offset, and karg goes to p_end, which is where the
\* offset points.
StoreArg(p) ==
  /\ ex_pc[p] = "store"
  /\ LET offset == ex_off[p] + ex_nlast[p] IN
     /\ kargbuf' = [WithString(kargbuf, offset, karg) EXCEPT ![ex_i[p]] = <<"ptr", offset>>]
     /\ ex_off' = ExSet(ex_off, p, offset)
  /\ ex_nlast' = ExSet(ex_nlast, p, align_arg(karg))
  /\ ex_i' = ExSet(ex_i, p, ex_i[p] + 1)
  /\ ex_pc' = ExSet(ex_pc, p, "fetch2")
  /\ UNCHANGED <<karg, ex_args, ex_len, ex_tot, ex_stack, ex_spoiled>>

\* load_elf and as_define_stack succeed, or the call fails and returns.
LoadDone(p) ==
  /\ ex_pc[p] = "load"
  /\ \/ ex_pc' = ExSet(ex_pc, p, "adjust") /\ UNCHANGED <<ex_args, ex_i, ex_len, ex_tot, ex_off, ex_nlast>>
     \/ ExecFails(p)
  /\ UNCHANGED <<karg, kargbuf, ex_stack, ex_spoiled>>

\* adjust_kargbuf: offsets become addresses on the new stack.
adjust_kargbuf(p) ==
  /\ ex_pc[p] = "adjust"
  /\ LET stackptr == USERSTACK - ex_len[p] IN
     kargbuf' = [w \in BufWords |->
       IF w < Len(ex_args[p]) /\ kargbuf[w][1] = "ptr"
       THEN <<"ptr", stackptr + kargbuf[w][2]>> ELSE kargbuf[w]]
  /\ ex_pc' = ExSet(ex_pc, p, "out")
  /\ UNCHANGED <<karg, ex_args, ex_i, ex_len, ex_tot, ex_off, ex_nlast, ex_stack, ex_spoiled>>

\* copyout(kargbuf, stackptr, buflen) and the jump to user mode.
CopyoutArgs(p) ==
  /\ ex_pc[p] = "out"
  /\ ex_stack' = ExSet(ex_stack, p, [w \in 0..(ex_len[p] \div PtrSize - 1) |-> kargbuf[w]])
  /\ ex_pc' = ExSet(ex_pc, p, "running")
  /\ ex_i' = ExSet(ex_i, p, 0) /\ ex_tot' = ExSet(ex_tot, p, 0)
  /\ ex_off' = ExSet(ex_off, p, 0) /\ ex_nlast' = ExSet(ex_nlast, p, 0)
  /\ UNCHANGED <<karg, kargbuf, ex_args, ex_len, ex_spoiled>>

ExecNext ==
  \E p \in ExProcs :
    \/ \E args \in ArgLists : ExecCall(p, args)
    \/ FetchArg(p) \/ MeasureArg(p) \/ StoreArg(p) \/ LoadDone(p)
    \/ adjust_kargbuf(p) \/ CopyoutArgs(p)

ExecSpec == ExecInit /\ [][ExecNext]_ex_vars
-----------------------------------------------------------------------------
\* The program that starts finds argv as its caller passed it: argv[i] points
\* at the i-th string, whole and inside the block that ends at USERSTACK,
\* argv[argc] is NULL.  It holds while no two calls of execv overlap: karg and
\* kargbuf are shared and nothing serialises the calls.
ArgvFaithful ==
  \A p \in ExProcs : ex_pc[p] = "running" /\ ~ex_spoiled =>
    LET args == ex_args[p]
        n == Len(args)
        stackptr == USERSTACK - ex_len[p]
        At(a) == (a - stackptr) \div PtrSize IN
    /\ stackptr % PtrSize = 0
    /\ ex_stack[p][n] = <<"ptr", 0>>
    /\ \A i \in 1..n :
         /\ ex_stack[p][i - 1][1] = "ptr"
         /\ LET a == ex_stack[p][i - 1][2] IN
            /\ a % PtrSize = 0 /\ stackptr + (n + 1) * PtrSize <= a
            /\ a + args[i][2] <= USERSTACK
            /\ \A k \in 0..((args[i][2] - 1) \div PtrSize) : ex_stack[p][At(a) + k] = <<args[i][1], k>>
=============================================================================
