------------------------------ MODULE MCKernel ------------------------------
(***************************************************************************)
(* The components of the kernel that have a module of their own, for TLC.  *)
(* They share no variable here, so a behaviour is one of one component,    *)
(* chosen at the start; the others stay in their first state.              *)
(***************************************************************************)
EXTENDS Heap, VM, Exec, Spinlock, ThreadList, Semfs, VfsTable, VfsPath,
        Emu, Console, SynchTests, Lamebus, KernLib

\* Values of the constants that a configuration file cannot write.
PerPageHere == <<2, 3>>
RegionsHere == <<"a", "s">>
StringsHere == {<<"b", 5>>, <<"c", 15>>, <<"d", 29>>}
DevSpecsHere ==
  {[name |-> "lhd0", rawname |-> "lhd0raw", volname |-> "vol", dev |-> TRUE],
   [name |-> "lhd1", rawname |-> "lhd1raw", volname |-> "lhd0", dev |-> TRUE],
   [name |-> "lhd0raw", rawname |-> "", volname |-> "", dev |-> TRUE],
   [name |-> "emu0", rawname |-> "", volname |-> "", dev |-> FALSE]}
VpFsHere == [v \in {"d", "e", "f"} |-> CASE v = "d" -> "A" [] v = "e" -> "B" [] v = "f" -> "none"]
EmEntriesHere == (10 :> <<11, 12>>) @@ (12 :> <<13>>) @@ (13 :> <<>>)
EmHasHere == <<{13}, {11, 12}>>
EmOpsHere == <<1, 1>>
CoTextHere == <<1, NL>>
CoKernelHere == <<2>>
CoPolledHere == <<3>>
CoBootHere == <<4>>
CoActiveHere ==
  {[threads |-> {"w1", Kprintf, Poller}, typed |-> <<>>],
   [threads |-> {"w1", "w2"}, typed |-> <<>>],
   [threads |-> {"r1", Kgets}, typed |-> <<5, 6, NL, 7>>],
   [threads |-> {"r1", Poller}, typed |-> <<5, 6>>]}
CardsHere == <<"ltimer", "other", "lhd">>
UioLensHere == {<<0>>, <<2, 0, 3>>, <<1, 1, 2>>}

VARIABLE part   \* the component of this behaviour

Parts == {"heap", "vm", "exec", "spinlock", "threadlist", "semfs",
          "usersem", "vfstable", "vfspath", "emu", "console", "text", "synchtests",
          "lamebus", "kernlib"}

kernel_vars == <<part, kh_vars, vm_vars, ex_vars, sp_vars, tl_vars, sf_vars, us_vars,
                 vt_vars, vp_vars, em_vars, co_vars, ct_vars, ss_vars, lb_vars, kl_vars>>

\* A component with several first states keeps one of them in the behaviours of
\* the others.
KernelInit ==
  /\ part \in Parts
  /\ HeapInit /\ VMInit /\ ExecInit /\ SpinlockInit /\ ThreadListInit
  /\ SemfsInit /\ UserSemInit /\ VfsTableInit /\ lamebus_init
  /\ VfsPathInit /\ emufs_addtovfs
  /\ config_con /\ (part # "console" => co_chip.typed = <<>> /\ co_thr["w2"].pc = "begin")
  /\ ConsoleTextInit /\ (part # "text" => kg_who = "kgets")
  /\ SynchTestsInit /\ (part # "synchtests" => ss_test = "semtest")
  /\ KernLibInit /\ (part # "kernlib" => kl_part = "array")

KernelNext ==
  /\ UNCHANGED part
  /\ IF part = "heap" THEN HeapNext ELSE UNCHANGED kh_vars
  /\ IF part = "vm" THEN VMNext ELSE UNCHANGED vm_vars
  /\ IF part = "exec" THEN ExecNext ELSE UNCHANGED ex_vars
  /\ IF part = "spinlock" THEN SpinlockNext ELSE UNCHANGED sp_vars
  /\ IF part = "threadlist" THEN ThreadListNext ELSE UNCHANGED tl_vars
  /\ IF part = "semfs" THEN SemfsNext ELSE UNCHANGED sf_vars
  /\ IF part = "usersem" THEN UserSemNext ELSE UNCHANGED us_vars
  /\ IF part = "vfstable" THEN VfsTableNext ELSE UNCHANGED vt_vars
  /\ IF part = "vfspath" THEN VfsPathNext ELSE UNCHANGED vp_vars
  /\ IF part = "emu" THEN EmuNext ELSE UNCHANGED em_vars
  /\ IF part = "console" THEN ConsoleNext ELSE UNCHANGED co_vars
  /\ IF part = "text" THEN ConsoleTextNext ELSE UNCHANGED ct_vars
  /\ IF part = "synchtests" THEN SynchTestsNext ELSE UNCHANGED ss_vars
  /\ IF part = "lamebus" THEN LamebusNext ELSE UNCHANGED lb_vars
  /\ IF part = "kernlib" THEN KernLibNext ELSE UNCHANGED kl_vars

KernelSpec == KernelInit /\ [][KernelNext]_kernel_vars

\* The states after a race the code does not survive are not followed: two execs
\* in one static buffer, semfs_remove against semfs_reclaim, an emufs handle
\* closed under a creat, two readers of the console's ring.
Kept == ~ex_spoiled /\ NoRace /\ EmKept /\ OneGetter

-----------------------------------------------------------------------------
\* The lists, arrays, bitmaps and copies everything else is built from behave as
\* sequences, sets and blocks of memory, over any sequence of calls, and the
\* kernel's tests of them pass.
LibrarySound ==
  /\ ListIsSequence /\ ArrayIsSequence /\ BitmapIsSet
  /\ UioCountsBytes /\ CopyStaysInUserSpace /\ LibTestsPass

\* A name leads to one device and one vnode, every vfs_ call gives back the
\* references it took, and a file system in use stays mounted.
VfsSafe == UsedStaysMounted /\ NamesUnambiguous /\ PathRefsBalance /\ PathSplit

\* What is written to the console goes out once and in order and shows on the
\* screen; what is typed comes in once and in order and is what the echo shows.
ConsoleFaithful ==
  /\ PortClearToWrite /\ OutputWhole /\ InputFaithful
  /\ EchoIsLine /\ ScreenShowsText
=============================================================================
