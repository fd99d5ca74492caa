------------------------------ MODULE MCSystem ------------------------------
(***************************************************************************)
(* What lies below and above the kernel's subsystems, for TLC: the         *)
(* allocator of physical pages on its own, the scheduler of the processors, *)
(* the file system with its tools, the user programs and the C library.    *)
(* As in MCKernel a behaviour is one of one component, chosen at the start. *)
(***************************************************************************)
EXTENDS Frames, Sched, SfsVolume, Frack, Psort, UserMalloc, SbrkTest, Longlong, LibcText,
        Shell, UserTests

\* Values of the constants that a configuration file cannot write.
BootThreadHere == [c \in 0..1 |-> IF c = 0 THEN "t1" ELSE "t2"]
SfExtentsHere == {<<0, 3>>, <<4, 4>>, <<6, 6>>, <<14, 2>>}
LlValuesHere == {0, 1, 2, 3, 4, 5, 15, 16, 17, 19, 21, 35, 39, 63, 64, 65, 71, 79, 100, 127,
                 128, 129, 130, 168, 192, 193, 224, 240, 241, 254, 255}
LtFormatsHere ==
  {<<"%", "d">>, <<"%", "4", "d">>, <<"%", "0", "4", "d">>, <<"%", "-", "4", "d">>,
   <<"%", "-", "0", "3", "d">>, <<"%", "1", "0", "d">>, <<"%", "l", "l", "d">>, <<"%", "x">>,
   <<"%", "#", "0", "6", "x">>, <<"%", "#", "o">>, <<"%", "p">>, <<"%", "5", "u">>,
   <<"%", "5", "s">>, <<"%", "-", "5", "c">>, <<"a", "%", "%", "b">>, <<"%", "z", "u">>,
   <<"%", "3", "k">>}
LtIntsHere == {-128, -17, -1, 0, 5, 10, 127}
LtTextsHere == UNION {[1..n -> {"a", " "}] : n \in 0..5}
ShWordsHere == ("2" :> 2) @@ ("9" :> 9)
ShLinesHere == {<<"prog">>, <<"prog", "&">>, <<"wait">>, <<"wait", "2">>, <<"wait", "9">>,
                <<"exit", "9">>, <<"prog", "a", "b", "c">>}

VARIABLE part   \* the component of this behaviour

Parts == {"frames", "sched", "sfs", "frack", "psort", "malloc", "sbrk", "longlong", "libc",
          "shell", "usertests"}

system_vars == <<part, fr_vars, sc_vars, sfvars, frvars, ps_vars, um_vars, sb_vars, ll_call, lt_vars,
                   sh_vars, ft_vars, ut_vars>>

\* A component with several first states keeps one of them in the behaviours of
\* the others.
SystemInit ==
  /\ part \in Parts
  /\ ram_bootstrap /\ SchedInit /\ SfInit /\ FrInit /\ PsortInit /\ UserMallocInit /\ LongInit
  /\ SbrkTestInit /\ (part # "sbrk" => sb_fault = "none")
  /\ LibcInit /\ (part # "libc" => lt_part = "memmove")
  /\ main /\ (part # "shell" => sh_mode = "interactive")
  /\ UserTestsInit /\ (part # "usertests" => ft_prog = "bigfork" /\ ut_prog = "basetest")

SystemNext ==
  /\ UNCHANGED part
  /\ IF part = "frames" THEN FramesNext ELSE UNCHANGED fr_vars
  /\ IF part = "sched" THEN SchedNext ELSE UNCHANGED sc_vars
  /\ IF part = "sfs" THEN SfNext ELSE UNCHANGED sfvars
  /\ IF part = "frack" THEN FrNext ELSE UNCHANGED frvars
  /\ IF part = "psort" THEN PsortNext ELSE UNCHANGED ps_vars
  /\ IF part = "malloc" THEN UserMallocNext ELSE UNCHANGED um_vars
  /\ IF part = "sbrk" THEN SbrkTestNext ELSE UNCHANGED sb_vars
  /\ IF part = "longlong" THEN LongNext ELSE UNCHANGED ll_call
  /\ IF part = "libc" THEN LibcNext ELSE UNCHANGED lt_vars
  /\ IF part = "shell" THEN ShellNext ELSE UNCHANGED sh_vars
  /\ IF part = "usertests" THEN UserTestsNext ELSE UNCHANGED <<ft_vars, ut_vars>>

SystemSpec == SystemInit /\ [][SystemNext]_system_vars

-----------------------------------------------------------------------------
\* malloc and free keep the heap of a program, and the tests of malloc and of
\* sbrk pass what is right and catch what is not.
UserHeapRight ==
  HeapTiles /\ DataIntact /\ MalloctestPasses /\ SbrkTestRight /\ SbrkTestCatches

=============================================================================
