------------------------------- MODULE Shell -------------------------------
(***************************************************************************)
(* The user's shell, userland/bin/sh/sh.c: its table of background jobs,   *)
(* the commands that run, forget and wait for children, and what it says   *)
(* about how they ended.  The kernel's side of fork, _exit, a fatal fault  *)
(* and waitpid is kern/syscall/proc_syscalls.c and kern/arch/mips/locore/  *)
(* trap.c.  A pid is given out again once its process has been waited for, *)
(* so a stale entry of the table would name somebody else's process.       *)
(***************************************************************************)
EXTENDS Integers, Sequences, FiniteSets, TLC

CONSTANTS ShPids,       \* pids fork may return
          MAXBG,        \* slots of bgpids
          NARG_MAX,     \* words of a command line
          ShWords,      \* atoi of the words that are numbers: word -> pid
          ShLines,      \* the command lines typed
          ShCodes,      \* what programs pass to _exit
          ShSignals,    \* and what kills them
          MaxShJobs     \* bound on the programs started

SIGSEGV == 11
WEXITED == 0
WSIGNALED == 1
WCORED == 2
NoPid == 0

VARIABLES sh_mode,      \* "interactive" or "-c"
          sh_pc,        \* where the shell is
          sh_args,      \* args[0..nargs)
          sh_i,         \* i of the loops over bgpids
          sh_bg,        \* bgpids
          sh_pid,       \* the pid of the command in the foreground
          sh_asleep,    \* waitpid sleeps in proc_wait
          sh_ei,        \* the exitinfo of the command
          sh_kids,      \* pid -> the child: in the background?, its state and how it ended
          sh_jobs,      \* children started so far
          sh_report     \* what was printed about the child last waited for, and how it ended
sh_vars == <<sh_mode, sh_pc, sh_args, sh_i, sh_bg, sh_pid, sh_asleep, sh_ei, sh_kids, sh_jobs, sh_report>>
-----------------------------------------------------------------------------
\* The kernel.
\* _MKWAIT_EXIT, _MKWAIT_SIG and _MKWAIT_CORE.
MkWait(what, val) == 4 * val + what

\* A child ends: by _exit, which wakes its parent, or killed by a fault, which
\* does not.
sys__exit(kid, code) == [kid EXCEPT !.state = "woken", !.status = MkWait(WEXITED, code), !.how = <<"Exit", code>>]
kill_curthread(kid, sig) ==
  [kid EXCEPT !.state = "silent",
     !.status = MkWait(IF sig = SIGSEGV THEN WCORED ELSE WSIGNALED, sig),
     !.how = <<IF sig = SIGSEGV THEN "Core" ELSE "Signal", sig>>]

\* execvp goes through the directories of PATH until one has the program or
\* fails for another reason than its absence.
execvp(dirs) == \E d \in DOMAIN dirs : dirs[d] = "ok" /\ \A e \in 1..(d - 1) : dirs[e] = "ENOENT"
\* The child's side of docommand, and the program it becomes.
ChildRuns(p) ==
  /\ \/ /\ sh_kids[p].state = "fork"
        /\ \E dirs \in [1..2 -> {"ok", "ENOENT", "E2BIG"}] :
             sh_kids' = [sh_kids EXCEPT ![p] =
                           IF execvp(dirs) THEN [@ EXCEPT !.state = "run"] ELSE sys__exit(@, 1)]
     \/ /\ sh_kids[p].state = "run"
        /\ \/ \E code \in ShCodes : sh_kids' = [sh_kids EXCEPT ![p] = sys__exit(@, code)]
           \/ \E sig \in ShSignals : sh_kids' = [sh_kids EXCEPT ![p] = kill_curthread(@, sig)]
  /\ UNCHANGED <<sh_mode, sh_pc, sh_args, sh_i, sh_bg, sh_pid, sh_asleep, sh_ei, sh_jobs, sh_report>>

Ended(p) == sh_kids[p].state \in {"woken", "silent"}
Mine(p) == p \in DOMAIN sh_kids
\* proc_destroy: the pid is free again.
Reap(p) == [q \in DOMAIN sh_kids \ {p} |-> sh_kids[q]]
-----------------------------------------------------------------------------
\* exitinfo_exit; val has eight bits.
ExitInfo(val) == [val |-> val % 256, signaled |-> FALSE, coredump |-> FALSE]

\* Mutant of readstatus: a core dump is not told from a plain signal.
ReadstatusNoCore(status) ==
  [val |-> (status \div 4) % 256, signaled |-> status % 4 # WEXITED, coredump |-> FALSE]

readstatus(status) ==
  [val |-> (status \div 4) % 256,
   signaled |-> status % 4 \in {WSIGNALED, WCORED}, coredump |-> status % 4 = WCORED]

\* What printstatus prints; "" is nothing.
printstatus(ei, printexitzero) ==
  IF ei.signaled /\ ei.coredump THEN <<"Signal, core dumped", ei.val>>
  ELSE IF ei.signaled THEN <<"Signal", ei.val>>
  ELSE IF printexitzero \/ ei.val # 0 THEN <<"Exit", ei.val>>
  ELSE <<"", 0>>

can_bg == \E i \in 1..MAXBG : sh_bg[i] = NoPid
remember_bg(p) ==
  LET i == CHOOSE j \in 1..MAXBG : sh_bg[j] = NoPid /\ \A k \in 1..(j - 1) : sh_bg[k] # NoPid
  IN  [sh_bg EXCEPT ![i] = p]
ShAtoi(w) == IF w \in DOMAIN ShWords THEN ShWords[w] ELSE 0
-----------------------------------------------------------------------------
\* waitpid(p, &status, 0): an error at once for a process that is not the
\* shell's child, the status at once of one that has ended; else a sleep, from
\* which only _exit wakes.
WaitSleeps(p) ==
  /\ Mine(p) /\ ~Ended(p) /\ ~sh_asleep
  /\ sh_asleep' = TRUE
  /\ UNCHANGED <<sh_mode, sh_pc, sh_args, sh_i, sh_bg, sh_pid, sh_ei, sh_kids, sh_jobs, sh_report>>
WaitReturns(p) ==
  /\ Mine(p) => Ended(p) /\ (sh_asleep => sh_kids[p].state = "woken")
  /\ sh_asleep' = FALSE
  /\ sh_kids' = Reap(p)
\* What is then printed about it.
Report(p, printexitzero) ==
  sh_report' = IF Mine(p) THEN [said |-> printstatus(readstatus(sh_kids[p].status), printexitzero),
                                how |-> sh_kids[p].how]
               ELSE sh_report

\* Back from docommand: interactive polls the background jobs, main -c exits.
CommandDone(ei) ==
  /\ sh_pc' = IF sh_mode = "-c" THEN "exit" ELSE "poll"
  /\ sh_i' = 1
  /\ sh_ei' = IF sh_mode = "-c" THEN ExitInfo(IF ei.signaled \/ ei.val # 0 THEN 1 ELSE 0) ELSE ei

interactive ==
  /\ sh_pc = "prompt"
  /\ \E line \in ShLines : sh_args' = line
  /\ sh_pc' = "command"
  /\ UNCHANGED <<sh_mode, sh_i, sh_bg, sh_pid, sh_asleep, sh_ei, sh_kids, sh_jobs, sh_report>>
-----------------------------------------------------------------------------
\* Commands that are answered at once: an empty line, one too long, cd, and the
\* wrong use of a builtin.
Quick(args) ==
  args # <<>> => \/ Len(args) > NARG_MAX
                 \/ args[1] \in {"cd", "chdir"}
                 \/ args[1] \in {"wait", "exit"} /\ Len(args) > 2
cmd_chdir ==
  /\ sh_pc = "command" /\ Quick(sh_args)
  /\ \E fails \in BOOLEAN :   \* chdir
       CommandDone(ExitInfo(
         IF sh_args # <<>> /\ (Len(sh_args) # 2 \/ sh_args[1] \notin {"cd", "chdir"} \/ fails) THEN 1 ELSE 0))
  /\ UNCHANGED <<sh_mode, sh_args, sh_bg, sh_pid, sh_asleep, sh_kids, sh_jobs, sh_report>>

cmd_exit ==
  /\ sh_pc = "command" /\ ~Quick(sh_args) /\ sh_args[1] = "exit"
  /\ sh_pc' = "exit" /\ sh_ei' = ExitInfo(IF Len(sh_args) = 2 THEN ShAtoi(sh_args[2]) ELSE 0)
  /\ UNCHANGED <<sh_mode, sh_args, sh_i, sh_bg, sh_pid, sh_asleep, sh_kids, sh_jobs, sh_report>>

\* Mutant of WaitOne: a job waited for by its pid stays in the table.
WaitOneKeeps ==
  /\ sh_pc = "command" /\ ~Quick(sh_args) /\ sh_args[1] = "wait" /\ Len(sh_args) = 2
  /\ LET p == ShAtoi(sh_args[2]) IN
     \/ WaitSleeps(p)
     \/ /\ WaitReturns(p) /\ Report(p, TRUE) /\ CommandDone(ExitInfo(0))
        /\ UNCHANGED <<sh_mode, sh_args, sh_bg, sh_pid, sh_jobs>>

\* cmd_wait pid: the job is forgotten even if waitpid fails.
WaitOne ==
  /\ sh_pc = "command" /\ ~Quick(sh_args) /\ sh_args[1] = "wait" /\ Len(sh_args) = 2
  /\ LET p == ShAtoi(sh_args[2]) IN
     \/ WaitSleeps(p)
     \/ /\ WaitReturns(p) /\ Report(p, TRUE)
        /\ sh_bg' = [i \in 1..MAXBG |-> IF sh_bg[i] = p THEN NoPid ELSE sh_bg[i]]
        /\ CommandDone(ExitInfo(0))
        /\ UNCHANGED <<sh_mode, sh_args, sh_pid, sh_jobs>>

\* cmd_wait: with a pid, or for every job in turn.
cmd_wait ==
  \/ WaitOne
  \/ /\ sh_pc = "command" /\ sh_args = <<"wait">>
     /\ sh_pc' = "waitall" /\ sh_i' = 1
     /\ UNCHANGED <<sh_mode, sh_args, sh_bg, sh_pid, sh_asleep, sh_ei, sh_kids, sh_jobs, sh_report>>
  \/ /\ sh_pc = "waitall" /\ sh_i > MAXBG
     /\ CommandDone(ExitInfo(0))
     /\ UNCHANGED <<sh_mode, sh_args, sh_bg, sh_pid, sh_asleep, sh_kids, sh_jobs, sh_report>>
  \/ /\ sh_pc = "waitall" /\ sh_i <= MAXBG /\ sh_bg[sh_i] = NoPid
     /\ sh_i' = sh_i + 1
     /\ UNCHANGED <<sh_mode, sh_pc, sh_args, sh_bg, sh_pid, sh_asleep, sh_ei, sh_kids, sh_jobs, sh_report>>
  \/ /\ sh_pc = "waitall" /\ sh_i <= MAXBG /\ sh_bg[sh_i] # NoPid
     /\ LET p == sh_bg[sh_i] IN
        \/ WaitSleeps(p)
        \/ /\ WaitReturns(p) /\ Report(p, TRUE)
           /\ sh_bg' = [sh_bg EXCEPT ![sh_i] = NoPid]
           /\ sh_i' = sh_i + 1
           /\ UNCHANGED <<sh_mode, sh_pc, sh_args, sh_pid, sh_ei, sh_jobs>>

\* waitpoll and dowaitpoll, a slot at a time: waitpid with WNOHANG does not sleep,
\* and only a job that was found is forgotten.
waitpoll ==
  /\ sh_pc = "poll"
  /\ IF sh_i > MAXBG THEN sh_pc' = "prompt" /\ UNCHANGED <<sh_i, sh_bg, sh_kids, sh_report>>
     ELSE /\ sh_i' = sh_i + 1 /\ UNCHANGED sh_pc
          /\ LET p == sh_bg[sh_i] IN
             IF p # NoPid /\ Mine(p) /\ Ended(p)
             THEN sh_bg' = [sh_bg EXCEPT ![sh_i] = NoPid] /\ sh_kids' = Reap(p) /\ Report(p, TRUE)
             ELSE UNCHANGED <<sh_bg, sh_kids, sh_report>>
  /\ UNCHANGED <<sh_mode, sh_args, sh_pid, sh_asleep, sh_ei, sh_jobs>>

\* docommand: a program is run, in the background if the last word is "&".
docommand ==
  \/ /\ sh_pc = "command" /\ ~Quick(sh_args) /\ sh_args[1] \notin {"wait", "exit"}
     /\ LET bg == sh_args[Len(sh_args)] = "&" IN
        \/ /\ bg /\ ~can_bg
           /\ CommandDone(ExitInfo(1)) /\ UNCHANGED <<sh_bg, sh_pid, sh_kids, sh_jobs>>
        \/ /\ bg => can_bg    \* fork fails
           /\ CommandDone(ExitInfo(255)) /\ UNCHANGED <<sh_bg, sh_pid, sh_kids, sh_jobs>>
        \/ /\ bg => can_bg
           /\ sh_jobs < MaxShJobs /\ sh_jobs' = sh_jobs + 1
           /\ \E p \in ShPids \ DOMAIN sh_kids :
                /\ sh_kids' = (p :> [bg |-> bg, state |-> "fork", status |-> 0, how |-> <<"">>]) @@ sh_kids
                /\ IF bg THEN sh_bg' = remember_bg(p) /\ CommandDone(ExitInfo(0)) /\ UNCHANGED sh_pid
                   ELSE sh_pid' = p /\ sh_pc' = "fg" /\ UNCHANGED <<sh_bg, sh_i, sh_ei>>
     /\ UNCHANGED <<sh_mode, sh_args, sh_asleep, sh_report>>
  \/ /\ sh_pc = "fg"
     /\ \/ WaitSleeps(sh_pid)
        \/ /\ WaitReturns(sh_pid) /\ Report(sh_pid, FALSE)
           /\ CommandDone(IF Mine(sh_pid) THEN readstatus(sh_kids[sh_pid].status) ELSE ExitInfo(255))
           /\ UNCHANGED <<sh_mode, sh_args, sh_bg, sh_pid, sh_jobs>>

main ==
  /\ sh_mode \in {"interactive", "-c"}
  /\ IF sh_mode = "-c" THEN sh_pc = "command" /\ sh_args \in ShLines
     ELSE sh_pc = "prompt" /\ sh_args = <<>>
  /\ sh_i = 1 /\ sh_bg = [i \in 1..MAXBG |-> NoPid] /\ sh_pid = NoPid /\ sh_asleep = FALSE
  /\ sh_ei = ExitInfo(0) /\ sh_kids = <<>> /\ sh_jobs = 0
  /\ sh_report = [said |-> <<"", 0>>, how |-> <<"Exit", 0>>]
ShellNext ==
  \/ interactive \/ cmd_chdir \/ cmd_exit \/ cmd_wait \/ waitpoll \/ docommand
  \/ \E p \in DOMAIN sh_kids : ChildRuns(p)
ShellSpec == main /\ [][ShellNext]_sh_vars
-----------------------------------------------------------------------------
\* The table of jobs is exactly the shell's background children: a child is in
\* one slot from fork until it has been waited for, so "wait" forgets none, and a
\* slot never keeps a pid the kernel may have given to another process.  Nor is a
\* child of the foreground left behind when the next command is read.
JobTableExact ==
  /\ {sh_bg[i] : i \in 1..MAXBG} \ {NoPid} = {p \in DOMAIN sh_kids : sh_kids[p].bg}
  /\ \A i, j \in 1..MAXBG : i # j /\ sh_bg[i] = sh_bg[j] => sh_bg[i] = NoPid
  /\ \A p \in DOMAIN sh_kids : ~sh_kids[p].bg => sh_pc = "fg" /\ p = sh_pid

\* What the shell prints about a child is how that child ended, through the
\* kernel's encoding and the shell's eight bits of it: a signal is a signal, a
\* core dump is told, and nothing is printed only for an exit with 0 (modulo 256).
ReportTrue ==
  LET said == sh_report.said[1]
      how == sh_report.how IN
  /\ (said = "Signal, core dumped") = (how[1] = "Core")
  /\ (said = "Signal") = (how[1] = "Signal")
  /\ said = "" => how[2] % 256 = 0
  /\ said # "" => sh_report.said[2] = how[2] % 256
=============================================================================
