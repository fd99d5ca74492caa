---------------------------- MODULE MemoryProofs ----------------------------
(***************************************************************************)
(* Proofs about Frames and VM, for every number of frames, threads, pages  *)
(* of a request, processes, processors and regions.                        *)
(*                                                                         *)
(* FramesInv strengthens the invariants of Frames by what a frame handed   *)
(* out before vm_bootstrap is (its size is never recorded, so it never     *)
(* comes back), and by what a thread in the middle of a call knows of its  *)
(* block.  VMInv says of the address spaces at every place of fork, execv  *)
(* and exit that they share no frame and hold all the frames handed out.   *)
(***************************************************************************)
EXTENDS Frames, VM, TLAPS

\* A block inside the memory handed out, all of it before vm_bootstrap or all
\* of it after.
WholeBlock(a, n) ==
  /\ FirstFree <= a /\ a + n <= firstpaddr
  /\ a \in fr_boot => Block(a, n) \subseteq fr_boot
  /\ a \notin fr_boot => Block(a, n) \cap fr_boot = {}

BootSound ==
  /\ fr_boot \subseteq FirstFree..(firstpaddr - 1)
  /\ fr_boot \cap FreeFrames = {}
  /\ ~allocTableActive => /\ fr_boot = FirstFree..(firstpaddr - 1)
                          /\ \A i \in Frame : ~freeRamFrames[i] /\ allocSize[i] = 0

HeldSound == \A b \in fr_held : b[2] # 0 /\ WholeBlock(b[1], b[2])

CallSound(t) ==
  /\ fr_pc[t] \in {"find", "steal", "size"} => fr_np[t] # 0
  /\ fr_pc[t] = "steal" => fr_addr[t] = 0
  /\ (fr_pc[t] = "size" /\ fr_addr[t] # 0) =>
       /\ WholeBlock(fr_addr[t], fr_np[t])
       /\ fr_addr[t] \in fr_boot <=> ~allocTableActive
  /\ fr_pc[t] = "kfree" =>
       /\ allocTableActive /\ fr_addr[t] \in Frame
       /\ WholeBlock(fr_addr[t], allocSize[fr_addr[t]])
       /\ fr_addr[t] \in fr_boot <=> allocSize[fr_addr[t]] = 0
  /\ fr_pc[t] = "give" =>
       /\ allocTableActive /\ fr_addr[t] \in Frame
       /\ WholeBlock(fr_addr[t], fr_np[t])
       /\ fr_addr[t] \in fr_boot <=> fr_np[t] = 0

FramesInv ==
  /\ FramesTypeOK
  /\ BootSound
  /\ HeldSound
  /\ \A t \in Threads : CallSound(t)
  /\ FramesDisjoint
  /\ AllocSizeTrue
  /\ NoFrameLost
-----------------------------------------------------------------------------
\* The frames of a block and their number.
LEMMA BlockFacts ==
  ASSUME NEW a \in Nat, NEW n \in Nat
  PROVE  /\ Block(a, n) \subseteq Nat
         /\ Block(a, 0) = {}
         /\ n # 0 => a \in Block(a, n)
BY DEF Block

\* A block from before or from after vm_bootstrap lies in the memory handed out.
LEMMA WholeInside ==
  ASSUME FramesAssumption, FramesTypeOK, NEW a \in Nat, NEW n \in Nat, WholeBlock(a, n)
  PROVE  /\ Block(a, n) \subseteq FirstFree..(firstpaddr - 1)
         /\ Block(a, n) \subseteq Frame
BY DEF Block, WholeBlock, FramesTypeOK, Frame, FramesAssumption

\* The first frame of a block that somebody owns.
LEMMA HeldFacts ==
  ASSUME FramesAssumption, FramesInv, NEW b \in fr_held
  PROVE  /\ b[1] \in Nat /\ b[2] \in Nat /\ b = <<b[1], b[2]>> /\ b[1] \in Frame /\ b[1] # 0
         /\ b[1] \in Block(b[1], b[2])
         /\ Block(b[1], b[2]) \subseteq HeldFrames
         /\ Block(b[1], b[2]) \subseteq FirstFree..(firstpaddr - 1)
<1>1. b[1] \in Nat /\ b[2] \in Nat /\ b = <<b[1], b[2]>>
  BY DEF FramesInv, FramesTypeOK
<1>2. b[2] # 0 /\ WholeBlock(b[1], b[2])
  BY Zenon DEF FramesInv, HeldSound
<1>3. b[1] \in Block(b[1], b[2])
  BY Zenon, <1>1, <1>2, BlockFacts
<1>4. /\ Block(b[1], b[2]) \subseteq FirstFree..(firstpaddr - 1)
      /\ Block(b[1], b[2]) \subseteq Frame
  BY Zenon, <1>1, <1>2, WholeInside DEF FramesInv
<1>5. b[1] # 0
  BY <1>1, <1>2 DEF WholeBlock, FramesAssumption
<1> QED  BY Zenon, <1>1, <1>3, <1>4, <1>5 DEF HeldFrames

\* What a call of the allocator has in hand, at each of its places.
LEMMA CallFacts ==
  ASSUME FramesAssumption, FramesInv, NEW t \in Threads
  PROVE  /\ fr_addr[t] \in Nat /\ fr_np[t] \in Nat
         /\ fr_pc[t] \in {"kfree", "give"} => fr_addr[t] \in Frame
         /\ fr_pc[t] = "kfree" => allocSize[fr_addr[t]] \in Nat
         /\ (fr_pc[t] = "size" /\ fr_addr[t] # 0) =>
              fr_addr[t] \in InTransit(t) /\ fr_addr[t] \in Frame
         /\ (fr_pc[t] \in {"kfree", "give"} /\ fr_addr[t] \notin fr_boot) =>
              fr_addr[t] \in InTransit(t)
<1>1. fr_addr[t] \in Nat /\ fr_np[t] \in Nat
  BY Zenon DEF FramesInv, FramesTypeOK
<1>2. fr_pc[t] \in {"kfree", "give"} => fr_addr[t] \in Frame
  BY Zenon DEF FramesInv, CallSound
<1>3. fr_pc[t] = "kfree" => allocSize[fr_addr[t]] \in Nat
  BY Zenon, <1>2 DEF FramesInv, FramesTypeOK
<1>4. ASSUME fr_pc[t] = "size", fr_addr[t] # 0
      PROVE  fr_addr[t] \in InTransit(t) /\ fr_addr[t] \in Frame
  BY Zenon, <1>1, <1>4, BlockFacts, WholeInside DEF FramesInv, CallSound, InTransit
<1>5. ASSUME fr_pc[t] \in {"kfree", "give"}, fr_addr[t] \notin fr_boot
      PROVE  fr_addr[t] \in InTransit(t)
  <2>1. CallSound(t)
    BY Zenon DEF FramesInv
  <2>2. fr_addr[t] # 0 /\ fr_addr[t] \in Nat
    BY <1>1, <1>5, <2>1 DEF CallSound, WholeBlock, FramesAssumption
  <2> QED  BY Zenon, <1>1, <1>3, <1>5, <2>1, <2>2, BlockFacts DEF CallSound, InTransit
<1> QED  BY Zenon, <1>1, <1>2, <1>3, <1>4, <1>5

\* Nothing that the ownership invariants look at has changed.
LEMMA OwnersKept ==
  ASSUME FramesDisjoint, NoFrameLost,
         UNCHANGED <<firstpaddr, fr_held, fr_boot, FreeFrames>>,
         \A u \in Threads : InTransit(u)' = InTransit(u)
  PROVE  FramesDisjoint' /\ NoFrameLost'
<1>1. HeldFrames' = HeldFrames
  BY Zenon DEF HeldFrames
<1>2. {InTransit(u)' : u \in Threads} = {InTransit(u) : u \in Threads}
  BY Zenon
<1>3. FramesDisjoint'
  BY <1>1, <1>2, Zenon DEF FramesDisjoint
<1>4. NoFrameLost'
  BY <1>1, <1>2, Zenon DEF NoFrameLost
<1> QED  BY Zenon, <1>3, <1>4

\* ram_bootstrap: nothing handed out, every thread outside the allocator.
LEMMA InitInv == ASSUME ram_bootstrap PROVE FramesInv
<1> USE FramesAssumption
<1>1. FramesTypeOK
  <2>1. firstpaddr \in FirstFree..nRamFrames
    BY DEF ram_bootstrap, FramesAssumption
  <2>2. fr_pc \in [Threads -> FramePcs] /\ fr_held \subseteq (Nat \X Nat) /\ fr_boot \subseteq Frame
    BY Zenon DEF ram_bootstrap, FramePcs
  <2>3. allocSize \in [Frame -> Nat] /\ fr_np \in [Threads -> Nat] /\ fr_addr \in [Threads -> Nat]
    BY Zenon DEF ram_bootstrap
  <2>4. freeRamFrames \in [Frame -> BOOLEAN] /\ allocTableActive \in BOOLEAN
    BY Zenon DEF ram_bootstrap
  <2> QED  BY <2>1, <2>2, <2>3, <2>4, Zenon DEF FramesTypeOK
<1>2. BootSound /\ HeldSound /\ AllocSizeTrue /\ \A t \in Threads : CallSound(t)
  BY <1>1 DEF ram_bootstrap, BootSound, HeldSound, AllocSizeTrue, CallSound, FreeFrames, FramesAssumption,
              Frame, FramesTypeOK
<1>3. /\ FreeFrames = {} /\ HeldFrames = {}
      /\ \A t \in Threads : InTransit(t) = {}
  BY Zenon DEF ram_bootstrap, FreeFrames, HeldFrames, InTransit
<1>4. FramesDisjoint
  BY ZenonT(60), <1>3 DEF FramesDisjoint, ram_bootstrap
<1>5. NoFrameLost
  BY DEF NoFrameLost, ram_bootstrap, FramesAssumption
<1> QED  BY Zenon, <1>1, <1>2, <1>4, <1>5 DEF FramesInv

\* A thread enters getppages with nothing in hand.
LEMMA PageCallInv ==
  ASSUME FramesInv, NEW t \in Threads, NEW np \in 1..MaxPages, PageCall(t, np)
  PROVE  FramesInv'
<1> USE FramesAssumption DEF FramesInv
<1>1. FramesTypeOK'
  BY DEF PageCall, FramesTypeOK, fr_table, FramesAssumption, FramePcs
<1>2. UNCHANGED <<firstpaddr, fr_held, fr_boot, FreeFrames, allocSize, allocTableActive, freeRamFrames, fr_addr>>
  BY Zenon DEF PageCall, fr_table, FreeFrames
<1>3. /\ fr_pc[t] = "idle" /\ fr_pc'[t] = "find" /\ fr_np'[t] # 0
      /\ \A u \in Threads \ {t} : fr_pc'[u] = fr_pc[u] /\ fr_np'[u] = fr_np[u]
  BY DEF PageCall, FramesTypeOK
<1>4. \A u \in Threads : InTransit(u)' = InTransit(u)
  BY Zenon, <1>2, <1>3 DEF InTransit
<1>5. FramesDisjoint' /\ NoFrameLost'
  BY Zenon, <1>2, <1>4, OwnersKept
<1>6. BootSound' /\ HeldSound' /\ AllocSizeTrue'
  BY <1>2, Zenon DEF BootSound, HeldSound, AllocSizeTrue, WholeBlock
<1>7. ASSUME NEW u \in Threads PROVE CallSound(u)'
  <2>1. CASE u = t
    BY Zenon, <1>3, <2>1 DEF CallSound
  <2>2. CASE u # t
    BY ZenonT(60), <1>2, <1>3, <2>2 DEF CallSound, WholeBlock
  <2> QED  BY Zenon, <2>1, <2>2
<1> QED  BY Zenon, <1>1, <1>5, <1>6, <1>7

\* Its return: the block becomes its caller's.
LEMMA PageReturnInv ==
  ASSUME FramesInv, NEW t \in Threads, PageReturn(t)
  PROVE  FramesInv'
<1> USE FramesAssumption DEF FramesInv
<1>1. FramesTypeOK'
  BY Zenon DEF PageReturn, Leave, FramesTypeOK, fr_table, FramePcs
<1>2. UNCHANGED <<firstpaddr, fr_held, fr_boot, FreeFrames, allocSize, allocTableActive, freeRamFrames>>
  BY Zenon DEF PageReturn, fr_table, FreeFrames
<1>3. /\ fr_pc[t] = "got" /\ fr_pc'[t] = "idle"
      /\ \A u \in Threads \ {t} : fr_pc'[u] = fr_pc[u] /\ fr_np'[u] = fr_np[u] /\ fr_addr'[u] = fr_addr[u]
  BY Zenon DEF PageReturn, Leave, FramesTypeOK
<1>4. \A u \in Threads : InTransit(u)' = InTransit(u)
  BY Zenon, <1>2, <1>3 DEF InTransit
<1>5. FramesDisjoint' /\ NoFrameLost'
  BY Zenon, <1>2, <1>4, OwnersKept
<1>6. BootSound' /\ HeldSound' /\ AllocSizeTrue'
  BY <1>2, Zenon DEF BootSound, HeldSound, AllocSizeTrue, WholeBlock
<1>7. ASSUME NEW u \in Threads PROVE CallSound(u)'
  <2>1. CASE u = t
    BY Zenon, <1>3, <2>1 DEF CallSound
  <2>2. CASE u # t
    BY ZenonT(60), <1>2, <1>3, <2>2 DEF CallSound, WholeBlock
  <2> QED  BY Zenon, <2>1, <2>2
<1> QED  BY Zenon, <1>1, <1>5, <1>6, <1>7

\* free_kpages reads the size of its block under no lock, and it is the right one.
LEMMA FreeKpagesInv ==
  ASSUME FramesInv, NEW t \in Threads, free_kpages(t)
  PROVE  FramesInv'
<1> USE FramesAssumption DEF FramesInv
<1>0. fr_addr[t] \in Frame /\ allocSize[fr_addr[t]] \in Nat /\ fr_addr[t] # 0
  BY CallFacts DEF free_kpages, CallSound, WholeBlock, FramesAssumption
<1>1. FramesTypeOK'
  BY Zenon, <1>0 DEF free_kpages, FramesTypeOK, fr_table, FramePcs
<1>2. UNCHANGED <<firstpaddr, fr_held, fr_boot, FreeFrames, allocSize, allocTableActive, freeRamFrames, fr_addr>>
  BY Zenon DEF free_kpages, fr_table, FreeFrames
<1>3. /\ fr_pc[t] = "kfree" /\ fr_pc'[t] = "give" /\ fr_np'[t] = allocSize[fr_addr[t]]
      /\ \A u \in Threads \ {t} : fr_pc'[u] = fr_pc[u] /\ fr_np'[u] = fr_np[u]
  BY Zenon DEF free_kpages, FramesTypeOK
<1>4. \A u \in Threads : InTransit(u)' = InTransit(u)
  BY Zenon, <1>0, <1>2, <1>3 DEF InTransit
<1>5. FramesDisjoint' /\ NoFrameLost'
  BY Zenon, <1>2, <1>4, OwnersKept
<1>6. BootSound' /\ HeldSound' /\ AllocSizeTrue'
  BY <1>2, Zenon DEF BootSound, HeldSound, AllocSizeTrue, WholeBlock
<1>7. ASSUME NEW u \in Threads PROVE CallSound(u)'
  <2>1. CASE u = t
    <3>1. CallSound(t)
      BY Zenon
    <3> QED  BY Zenon, <1>2, <1>3, <2>1, <3>1 DEF CallSound, WholeBlock
  <2>2. CASE u # t
    BY ZenonT(60), <1>2, <1>3, <2>2 DEF CallSound, WholeBlock
  <2> QED  BY Zenon, <2>1, <2>2
<1> QED  BY Zenon, <1>1, <1>5, <1>6, <1>7

\* getfreeppages found a run: its frames leave the free ones and are in transit.
LEMMA FoundInv ==
  ASSUME FramesInv, NEW t \in Threads, NEW found \in FreeRuns(fr_np[t]),
         fr_pc[t] = "find", allocTableActive,
         freeRamFrames' = [i \in Frame |-> freeRamFrames[i] /\ i \notin Block(found, fr_np[t])],
         allocSize' = [allocSize EXCEPT ![found] = fr_np[t]],
         fr_addr' = [fr_addr EXCEPT ![t] = found],
         fr_pc' = [fr_pc EXCEPT ![t] = "size"],
         UNCHANGED <<firstpaddr, allocTableActive, fr_np, fr_held, fr_boot>>
  PROVE  FramesInv'
<1> USE FramesAssumption DEF FramesInv
<1> DEFINE np == fr_np[t]
           B == Block(found, np)
<1>0. /\ np \in Nat /\ np # 0 /\ found \in Frame /\ found \in Nat
      /\ B \subseteq FreeFrames /\ found \in B
  <2>1. np \in Nat /\ np # 0
    BY Zenon DEF FramesTypeOK, CallSound
  <2>2. found \in Frame /\ found \in Nat /\ found + np <= nRamFrames /\ \A i \in B : freeRamFrames[i]
    BY DEF FreeRuns, Frame
  <2>3. B \subseteq Frame
    BY <2>1, <2>2 DEF Block, Frame, FramesAssumption
  <2> QED  BY Zenon, <2>1, <2>2, <2>3, BlockFacts DEF FreeFrames
<1>1. FramesTypeOK'
  <2>1. freeRamFrames' \in [Frame -> BOOLEAN]
    BY Zenon DEF FramesTypeOK
  <2> QED  BY Zenon, <1>0, <2>1 DEF FramesTypeOK, FramePcs
<1>2. FreeFrames' = FreeFrames \ B /\ HeldFrames' = HeldFrames
  BY Zenon DEF FreeFrames, HeldFrames
<1>3. /\ fr_pc'[t] = "size" /\ fr_addr'[t] = found
      /\ \A u \in Threads \ {t} : fr_pc'[u] = fr_pc[u] /\ fr_addr'[u] = fr_addr[u]
      /\ allocSize'[found] = np /\ \A i \in Frame \ {found} : allocSize'[i] = allocSize[i]
  BY Zenon, <1>0 DEF FramesTypeOK
<1>4. found \notin fr_boot /\ found # 0 /\ B \cap fr_boot = {} /\ B \subseteq FirstFree..(firstpaddr - 1)
  <2>1. FreeFrames \subseteq FirstFree..(firstpaddr - 1)
    BY Zenon DEF FramesDisjoint
  <2>2. found \in FirstFree..(firstpaddr - 1) /\ B \subseteq FirstFree..(firstpaddr - 1)
    BY <1>0, <2>1, Zenon
  <2>3. found # 0
    BY <1>0, <2>2 DEF FramesTypeOK, FramesAssumption
  <2>4. found \notin fr_boot /\ B \cap fr_boot = {}
    BY Zenon, <1>0 DEF BootSound
  <2> QED  BY Zenon, <2>2, <2>3, <2>4
<1>5. \A u \in Threads : fr_pc[u] \in {"kfree", "give"} => fr_addr[u] # found
  <2> SUFFICES ASSUME NEW u \in Threads, fr_pc[u] \in {"kfree", "give"}, fr_addr[u] = found
               PROVE  FALSE
    BY Zenon
  <2>1. found \in InTransit(u)
    BY Zenon, <1>4, CallFacts
  <2>2. InTransit(u) \cap FreeFrames = {}
    BY Zenon DEF FramesDisjoint
  <2> QED  BY Zenon, <1>0, <2>1, <2>2
<1>6. InTransit(t) = {} /\ InTransit(t)' = B
  BY Zenon, <1>0, <1>3, <1>4 DEF InTransit
<1>7. \A u \in Threads \ {t} : InTransit(u)' = InTransit(u)
  BY <1>3, <1>5, CallFacts DEF InTransit
<1>8. FramesDisjoint'
  <2>1. \A b, c \in fr_held' : b # c => (Block(b[1], b[2]) \cap Block(c[1], c[2]) = {})
    BY Zenon DEF FramesDisjoint
  <2>2. \A u, w \in Threads : u # w => InTransit(u)' \cap InTransit(w)' = {}
    BY <1>0, <1>6, <1>7 DEF FramesDisjoint
  <2>3. \A u \in Threads : InTransit(u)' \cap (HeldFrames' \cup FreeFrames') = {}
    BY <1>0, <1>2, <1>6, <1>7 DEF FramesDisjoint
  <2>4. HeldFrames' \cap FreeFrames' = {}
    BY Zenon, <1>2 DEF FramesDisjoint
  <2>5. \A u \in Threads : InTransit(u)' \subseteq FirstFree..(firstpaddr - 1)
    BY Zenon, <1>4, <1>6, <1>7 DEF FramesDisjoint
  <2>6. HeldFrames' \cup FreeFrames' \subseteq FirstFree..(firstpaddr - 1)
    BY Zenon, <1>2 DEF FramesDisjoint
  <2> QED  BY ZenonT(60), <2>1, <2>2, <2>3, <2>4, <2>5, <2>6 DEF FramesDisjoint
<1>9. NoFrameLost'
  <2> SUFFICES ASSUME NEW f \in FirstFree..(firstpaddr - 1)
               PROVE  \/ f \in FreeFrames' \cup HeldFrames' \cup fr_boot'
                      \/ \E u \in Threads : f \in InTransit(u)'
    BY Zenon DEF NoFrameLost
  <2>1. CASE f \in FreeFrames \cup HeldFrames \cup fr_boot
    BY Zenon, <1>2, <1>6, <2>1
  <2>2. CASE \E u \in Threads : f \in InTransit(u)
    BY Zenon, <1>6, <1>7, <2>2
  <2> QED  BY Zenon, <2>1, <2>2 DEF NoFrameLost
<1>10. BootSound'
  BY Zenon, <1>2 DEF BootSound
<1>11. HeldSound' /\ AllocSizeTrue'
  <2>1. HeldSound'
    BY Zenon DEF HeldSound, WholeBlock
  <2>2. ASSUME NEW b \in fr_held PROVE allocSize'[b[1]] = allocSize[b[1]]
    <3>1. b[1] \in HeldFrames /\ b[1] \in Frame
      BY Zenon, HeldFacts
    <3>2. b[1] # found
      BY Zenon, <1>0, <3>1 DEF FramesDisjoint
    <3> QED  BY Zenon, <1>3, <3>1, <3>2
  <2> QED  BY Zenon, <2>1, <2>2 DEF AllocSizeTrue
<1>12. ASSUME NEW u \in Threads PROVE CallSound(u)'
  <2>1. CASE u = t
    <3>1. FirstFree <= found /\ found + np <= firstpaddr
      <4>1. found + np - 1 \in B
        BY <1>0 DEF Block
      <4> QED  BY <1>0, <1>4, <4>1 DEF FramesTypeOK, FramesAssumption
    <3> QED  BY <1>0, <1>3, <1>4, <2>1, <3>1 DEF CallSound, WholeBlock
  <2>2. CASE u # t
    <3>1. fr_pc[u] = "kfree" => allocSize'[fr_addr[u]] = allocSize[fr_addr[u]]
      BY Zenon, <1>3, <1>5, CallFacts
    <3> QED  BY <1>3, <2>2, <3>1 DEF CallSound, WholeBlock
  <2> QED  BY Zenon, <2>1, <2>2
<1> QED  BY Zenon, <1>1, <1>8, <1>9, <1>10, <1>11, <1>12

\* getfreeppages takes freed frames, or finds too few in a row.
LEMMA GetfreeppagesInv ==
  ASSUME FramesInv, NEW t \in Threads, getfreeppages(t)
  PROVE  FramesInv'
<1> USE FramesAssumption
<1>1. CASE fr_pc'[t] = "size"
  <2>1. fr_pc \in [Threads -> FramePcs]
    BY Zenon DEF FramesInv, FramesTypeOK
  <2>2. PICK found \in FreeRuns(fr_np[t]) :
          /\ allocTableActive
          /\ freeRamFrames' = [i \in Frame |-> freeRamFrames[i] /\ i \notin Block(found, fr_np[t])]
          /\ allocSize' = [allocSize EXCEPT ![found] = fr_np[t]]
          /\ fr_addr' = [fr_addr EXCEPT ![t] = found]
          /\ fr_pc' = [fr_pc EXCEPT ![t] = "size"]
    BY Zenon, <1>1, <2>1 DEF getfreeppages
  <2> QED  BY ZenonT(30), <2>2, FoundInv DEF getfreeppages
<1>2. CASE fr_pc'[t] # "size"
  <2> USE DEF FramesInv
  <2>0. fr_pc \in [Threads -> FramePcs] /\ fr_addr \in [Threads -> Nat]
    BY Zenon DEF FramesTypeOK
  <2>1. /\ fr_addr' = [fr_addr EXCEPT ![t] = 0]
        /\ fr_pc' = [fr_pc EXCEPT ![t] = "steal"]
        /\ UNCHANGED <<freeRamFrames, allocSize, firstpaddr, allocTableActive, fr_np, fr_held, fr_boot>>
        /\ fr_pc[t] = "find"
    BY Zenon, <1>2, <2>0 DEF getfreeppages
  <2>2. FramesTypeOK'
    BY Zenon, <2>1 DEF FramesTypeOK, FramePcs
  <2>3. /\ fr_pc'[t] = "steal" /\ fr_addr'[t] = 0
        /\ \A u \in Threads \ {t} : fr_pc'[u] = fr_pc[u] /\ fr_addr'[u] = fr_addr[u]
    BY Zenon, <2>0, <2>1
  <2>4. \A u \in Threads : InTransit(u)' = InTransit(u)
    BY <2>1, <2>3 DEF InTransit
  <2>5. FreeFrames' = FreeFrames
    BY Zenon, <2>1 DEF FreeFrames
  <2>6. FramesDisjoint' /\ NoFrameLost'
    BY Zenon, <2>1, <2>4, <2>5, OwnersKept
  <2>7. BootSound' /\ HeldSound' /\ AllocSizeTrue'
    BY <2>1, <2>5, Zenon DEF BootSound, HeldSound, AllocSizeTrue, WholeBlock
  <2>8. ASSUME NEW u \in Threads PROVE CallSound(u)'
    <3>1. CASE u = t
      BY Zenon, <2>1, <2>3, <3>1 DEF CallSound
    <3>2. CASE u # t
      BY <2>1, <2>3, <3>2 DEF CallSound, WholeBlock
    <3> QED  BY Zenon, <3>1, <3>2
  <2> QED  BY Zenon, <2>2, <2>6, <2>7, <2>8
<1> QED  BY Zenon, <1>1, <1>2

\* ram_stealmem hands out the frames above every block there is.
LEMMA StolenInv ==
  ASSUME FramesInv, NEW t \in Threads, fr_pc[t] = "steal",
         firstpaddr + fr_np[t] <= nRamFrames,
         fr_pc' = [fr_pc EXCEPT ![t] = "size"],
         fr_addr' = [fr_addr EXCEPT ![t] = firstpaddr],
         firstpaddr' = firstpaddr + fr_np[t],
         fr_boot' = IF allocTableActive THEN fr_boot
                    ELSE fr_boot \cup Block(firstpaddr, fr_np[t]),
         UNCHANGED <<freeRamFrames, allocSize, allocTableActive, fr_np, fr_held>>
  PROVE  FramesInv'
<1> USE FramesAssumption DEF FramesInv
<1> DEFINE np == fr_np[t]
           B == Block(firstpaddr, np)
           R == FirstFree..(firstpaddr - 1)
<1>0. /\ np \in Nat /\ np # 0 /\ firstpaddr \in Nat /\ firstpaddr # 0 /\ FirstFree <= firstpaddr
      /\ B \cap R = {} /\ B \subseteq Frame /\ firstpaddr \in B /\ firstpaddr \notin R
      /\ FirstFree..(firstpaddr' - 1) = R \cup B
  <2>1. np \in Nat /\ np # 0
    BY Zenon DEF FramesTypeOK, CallSound
  <2>2. firstpaddr \in Nat /\ firstpaddr # 0 /\ FirstFree <= firstpaddr /\ FirstFree \in Nat /\ nRamFrames \in Nat
    BY DEF FramesTypeOK, FramesAssumption
  <2> QED  BY <2>1, <2>2 DEF Block, Frame
<1>1. FramesTypeOK'
  <2>1. firstpaddr' \in FirstFree..nRamFrames
    BY <1>0 DEF FramesTypeOK, FramesAssumption
  <2>2. fr_boot' \subseteq Frame
    BY Zenon, <1>0 DEF FramesTypeOK
  <2>3. /\ fr_pc' \in [Threads -> FramePcs] /\ fr_np' \in [Threads -> Nat]
        /\ fr_addr' \in [Threads -> Nat]
    BY Zenon, <1>0 DEF FramesTypeOK, FramePcs
  <2> QED  BY <2>1, <2>2, <2>3, Zenon DEF FramesTypeOK
<1>2. FreeFrames' = FreeFrames /\ HeldFrames' = HeldFrames
  BY Zenon DEF FreeFrames, HeldFrames
<1>3. /\ fr_pc'[t] = "size" /\ fr_addr'[t] = firstpaddr
      /\ \A u \in Threads \ {t} : fr_pc'[u] = fr_pc[u] /\ fr_addr'[u] = fr_addr[u]
  BY Zenon DEF FramesTypeOK
<1>4. InTransit(t) = {} /\ InTransit(t)' = B
  BY Zenon, <1>0, <1>3 DEF InTransit
<1>5. \A u \in Threads \ {t} : InTransit(u)' = InTransit(u)
  BY <1>3 DEF InTransit
<1>6. FramesDisjoint'
  <2>1. \A b, c \in fr_held' : b # c => (Block(b[1], b[2]) \cap Block(c[1], c[2]) = {})
    BY Zenon DEF FramesDisjoint
  <2>2. HeldFrames \subseteq R /\ FreeFrames \subseteq R /\ \A u \in Threads : InTransit(u) \subseteq R
    BY Zenon DEF FramesDisjoint
  <2>3. \A u, w \in Threads : u # w => InTransit(u)' \cap InTransit(w)' = {}
    BY <1>0, <1>4, <1>5, <2>2 DEF FramesDisjoint
  <2>4. \A u \in Threads : InTransit(u)' \cap (HeldFrames' \cup FreeFrames') = {}
    BY <1>0, <1>2, <1>4, <1>5, <2>2 DEF FramesDisjoint
  <2>5. HeldFrames' \cap FreeFrames' = {}
    BY Zenon, <1>2 DEF FramesDisjoint
  <2>6. HeldFrames' \cup FreeFrames' \cup UNION {InTransit(u)' : u \in Threads} \subseteq R \cup B
    <3>1. \A u \in Threads : InTransit(u)' \subseteq R \cup B
      BY Zenon, <1>4, <1>5, <2>2
    <3> QED  BY ZenonT(60), <1>2, <2>2, <3>1
  <2> QED  BY <1>0, <2>1, <2>3, <2>4, <2>5, <2>6, Zenon DEF FramesDisjoint
<1>7. NoFrameLost'
  <2>1. R \subseteq FreeFrames' \cup HeldFrames' \cup fr_boot' \cup UNION {InTransit(u)' : u \in Threads}
    BY <1>2, <1>4, <1>5 DEF NoFrameLost
  <2>2. B \subseteq UNION {InTransit(u)' : u \in Threads}
    BY Zenon, <1>4
  <2> QED  BY <1>0, <2>1, <2>2, Zenon DEF NoFrameLost
<1>8. BootSound'
  <2>1. fr_boot' \subseteq R \cup B
    BY Zenon DEF BootSound
  <2>2. fr_boot' \cap FreeFrames' = {}
    BY Zenon, <1>0, <1>2 DEF BootSound, FramesDisjoint
  <2>3. ~allocTableActive => fr_boot' = R \cup B
    BY Zenon DEF BootSound
  <2> QED  BY <1>0, <2>1, <2>2, <2>3, Zenon DEF BootSound
<1>9. ASSUME NEW a \in Nat, NEW n \in Nat, WholeBlock(a, n)
      PROVE  WholeBlock(a, n)' /\ (n # 0 => (a \in fr_boot' <=> a \in fr_boot))
  <2>1. Block(a, n) \subseteq R /\ (n # 0 => a \in Block(a, n))
    BY Zenon, <1>9, WholeInside, BlockFacts
  <2>2. a + n <= firstpaddr'
    BY <1>0, <1>9 DEF WholeBlock
  <2>3. Block(a, n) \cap B = {} /\ (n # 0 => a \notin B)
    BY Zenon, <1>0, <2>1
  <2>4. n = 0 => Block(a, n) = {}
    BY Zenon, BlockFacts
  <2>5. a \in fr_boot' => Block(a, n) \subseteq fr_boot'
    BY Zenon, <1>9, <2>3, <2>4 DEF WholeBlock
  <2>6. a \notin fr_boot' => Block(a, n) \cap fr_boot' = {}
    BY Zenon, <1>9, <2>3 DEF WholeBlock
  <2> QED  BY Zenon, <1>9, <2>2, <2>3, <2>5, <2>6 DEF WholeBlock
<1>10. HeldSound' /\ AllocSizeTrue'
  <2>1. ASSUME NEW b \in fr_held
        PROVE  b[2] # 0 /\ WholeBlock(b[1], b[2])' /\ (b[1] \in fr_boot' <=> b[1] \in fr_boot)
    BY Zenon, <1>9, HeldFacts DEF HeldSound
  <2> QED  BY Zenon, <2>1 DEF HeldSound, AllocSizeTrue
<1>11. ASSUME NEW u \in Threads PROVE CallSound(u)'
  <2>1. CASE u = t
    <3>1. WholeBlock(fr_addr[t], fr_np[t])'
      <4>1. firstpaddr \in fr_boot' => B \subseteq fr_boot'
        BY Zenon, <1>0 DEF BootSound
      <4>2. firstpaddr \notin fr_boot' => B \cap fr_boot' = {}
        BY Zenon, <1>0 DEF BootSound
      <4> QED  BY <1>0, <1>3, <4>1, <4>2 DEF WholeBlock
    <3>2. firstpaddr \in fr_boot' <=> ~allocTableActive
      BY Zenon, <1>0 DEF BootSound
    <3> QED  BY ZenonT(60), <1>0, <1>3, <2>1, <3>1, <3>2 DEF CallSound
  <2>2. CASE u # t
    <3>1. CallSound(u) /\ fr_addr[u] \in Nat /\ fr_np[u] \in Nat
      BY Zenon, CallFacts
    <3>2. fr_pc[u] = "kfree" => allocSize[fr_addr[u]] \in Nat
      BY Zenon, CallFacts
    <3>3. fr_pc'[u] = fr_pc[u] /\ fr_addr'[u] = fr_addr[u] /\ fr_np'[u] = fr_np[u] /\ allocSize' = allocSize
      BY Zenon, <1>3, <2>2
    <3>4. allocTableActive => fr_boot' = fr_boot
      BY Zenon
    <3>5. (fr_pc[u] = "size" /\ fr_addr[u] # 0) =>
            WholeBlock(fr_addr[u], fr_np[u])' /\ (fr_addr[u] \in fr_boot' <=> ~allocTableActive)
      BY Zenon, <1>9, <3>1, <3>3 DEF CallSound
    <3>6. fr_pc[u] = "kfree" => WholeBlock(fr_addr[u], allocSize[fr_addr[u]])'
      BY Zenon, <1>9, <3>1, <3>2, <3>3 DEF CallSound
    <3>7. fr_pc[u] = "give" => WholeBlock(fr_addr[u], fr_np[u])'
      BY Zenon, <1>9, <3>1, <3>3 DEF CallSound
    <3> QED  BY Zenon, <3>1, <3>3, <3>4, <3>5, <3>6, <3>7 DEF CallSound
  <2> QED  BY Zenon, <2>1, <2>2
<1> QED  BY Zenon, <1>1, <1>6, <1>7, <1>8, <1>10, <1>11

\* ram_stealmem takes the next frames, or finds none left.
LEMMA RamStealmemInv ==
  ASSUME FramesInv, NEW t \in Threads, ram_stealmem(t)
  PROVE  FramesInv'
<1> USE FramesAssumption
<1>0. firstpaddr + fr_np[t] \in Nat /\ nRamFrames \in Nat
  BY DEF FramesInv, FramesTypeOK, FramesAssumption
<1>1. CASE firstpaddr + fr_np[t] <= nRamFrames
  <2>1. ~(firstpaddr + fr_np[t] > nRamFrames)
    BY <1>0, <1>1
  <2> QED  BY Zenon, <1>1, <2>1, StolenInv DEF ram_stealmem
<1>2. CASE firstpaddr + fr_np[t] > nRamFrames
  <2> USE DEF FramesInv
  <2>1. /\ fr_pc' = [fr_pc EXCEPT ![t] = "size"] /\ fr_pc[t] = "steal"
        /\ UNCHANGED <<freeRamFrames, allocSize, firstpaddr, allocTableActive, fr_np, fr_held, fr_boot, fr_addr>>
    BY Zenon, <1>2 DEF ram_stealmem
  <2>2. FramesTypeOK'
    BY Zenon, <2>1 DEF FramesTypeOK, FramePcs
  <2>3. /\ fr_pc'[t] = "size" /\ fr_addr[t] = 0 /\ fr_np[t] # 0
        /\ \A u \in Threads \ {t} : fr_pc'[u] = fr_pc[u]
    BY Zenon, <2>1 DEF FramesTypeOK, CallSound
  <2>4. \A u \in Threads : InTransit(u)' = InTransit(u)
    BY Zenon, <2>1, <2>3 DEF InTransit
  <2>5. FreeFrames' = FreeFrames
    BY Zenon, <2>1 DEF FreeFrames
  <2>6. FramesDisjoint' /\ NoFrameLost'
    BY Zenon, <2>1, <2>4, <2>5, OwnersKept
  <2>7. BootSound' /\ HeldSound' /\ AllocSizeTrue'
    BY <2>1, <2>5, Zenon DEF BootSound, HeldSound, AllocSizeTrue, WholeBlock
  <2>8. ASSUME NEW u \in Threads PROVE CallSound(u)'
    <3>1. CASE u = t
      BY Zenon, <2>1, <2>3, <3>1 DEF CallSound
    <3>2. CASE u # t
      BY ZenonT(60), <2>1, <2>3, <3>2 DEF CallSound, WholeBlock
    <3> QED  BY Zenon, <3>1, <3>2
  <2> QED  BY Zenon, <2>2, <2>6, <2>7, <2>8
<1> QED  BY <1>0, <1>1, <1>2

\* getppages returns a block: it is its caller's, and its size is recorded.
LEMMA GotInv ==
  ASSUME FramesInv, NEW t \in Threads, getppages(t), fr_addr[t] # 0
  PROVE  FramesInv'
<1> USE FramesAssumption DEF FramesInv
<1> DEFINE a == fr_addr[t]
           np == fr_np[t]
           B == Block(a, np)
<1>0. /\ fr_pc[t] = "size" /\ np \in Nat /\ np # 0 /\ a \in Nat /\ a \in Frame
      /\ a \in B /\ B = InTransit(t) /\ WholeBlock(a, np) /\ (a \in fr_boot <=> ~allocTableActive)
  <2>1. fr_pc[t] = "size" /\ CallSound(t)
    BY Zenon DEF getppages
  <2> QED  BY Zenon, <2>1, CallFacts DEF CallSound, InTransit
<1>1. /\ fr_pc' = [fr_pc EXCEPT ![t] = "got"] /\ fr_held' = fr_held \cup {<<a, np>>}
      /\ UNCHANGED <<freeRamFrames, firstpaddr, allocTableActive, fr_np, fr_addr, fr_boot>>
      /\ allocSize' = IF allocTableActive THEN [allocSize EXCEPT ![a] = np] ELSE allocSize
  BY Zenon DEF getppages
<1>2. FramesTypeOK'
  BY <1>0, <1>1 DEF FramesTypeOK, FramePcs
<1>3. /\ fr_pc'[t] = "got" /\ \A u \in Threads \ {t} : fr_pc'[u] = fr_pc[u]
      /\ \A i \in Frame \ {a} : allocSize'[i] = allocSize[i]
      /\ allocSize'[a] = IF a \in fr_boot THEN 0 ELSE np
  <2>1. ~allocTableActive => allocSize[a] = 0
    BY Zenon, <1>0 DEF BootSound
  <2> QED  BY Zenon, <1>0, <1>1, <2>1 DEF FramesTypeOK
<1>4. HeldFrames' = HeldFrames \cup B
  <2>1. \A i : i \in HeldFrames <=> \E b \in fr_held : i \in Block(b[1], b[2])
    BY Zenon DEF HeldFrames
  <2>2. \A i : i \in HeldFrames' <=> \E b \in fr_held' : i \in Block(b[1], b[2])
    BY Zenon DEF HeldFrames
  <2>3. <<a, np>>[1] = a /\ <<a, np>>[2] = np
    BY Zenon
  <2>4. \A i : (\E b \in fr_held' : i \in Block(b[1], b[2]))
               <=> ((\E b \in fr_held : i \in Block(b[1], b[2])) \/ i \in B)
    BY <1>1, <2>3, Zenon
  <2> QED  BY <2>1, <2>2, <2>4, Zenon
<1>5. FreeFrames' = FreeFrames
  BY Zenon, <1>1 DEF FreeFrames
<1>6. ASSUME NEW u \in Threads \ {t}, fr_pc[u] = "kfree"
      PROVE  fr_addr[u] \in Frame /\ allocSize'[fr_addr[u]] = allocSize[fr_addr[u]]
  <2>1. allocTableActive /\ a \notin fr_boot
    BY Zenon, <1>0, <1>6 DEF CallSound
  <2>2. fr_addr[u] \in Frame /\ (fr_addr[u] \in fr_boot \/ fr_addr[u] \in InTransit(u))
    BY Zenon, <1>6, CallFacts
  <2>3. InTransit(t) \cap InTransit(u) = {}
    BY Zenon DEF FramesDisjoint
  <2> QED  BY Zenon, <1>0, <1>3, <2>1, <2>2, <2>3
<1>7. InTransit(t)' = {} /\ \A u \in Threads \ {t} : InTransit(u)' = InTransit(u)
  BY <1>1, <1>3, <1>6 DEF InTransit
<1>8. \A b \in fr_held : Block(b[1], b[2]) \cap B = {} /\ b[1] # a /\ b[1] \in Frame
  BY <1>0, HeldFacts DEF FramesDisjoint
<1>9. FramesDisjoint'
  <2>1. ASSUME NEW b \in fr_held', NEW c \in fr_held', b # c
        PROVE  Block(b[1], b[2]) \cap Block(c[1], c[2]) = {}
    <3>1. CASE b \in fr_held /\ c \in fr_held
      BY Zenon, <2>1, <3>1 DEF FramesDisjoint
    <3>2. CASE b = <<a, np>> /\ c \in fr_held
      BY Zenon, <1>8, <3>2
    <3>3. CASE b \in fr_held /\ c = <<a, np>>
      BY Zenon, <1>8, <3>3
    <3> QED  BY Zenon, <1>1, <2>1, <3>1, <3>2, <3>3
  <2>2. \A u, w \in Threads : u # w => InTransit(u)' \cap InTransit(w)' = {}
    BY Zenon, <1>7 DEF FramesDisjoint
  <2>3. \A u \in Threads : InTransit(u)' \cap (HeldFrames' \cup FreeFrames') = {}
    BY <1>0, <1>4, <1>5, <1>7 DEF FramesDisjoint
  <2>4. HeldFrames' \cap FreeFrames' = {}
    BY Zenon, <1>0, <1>4, <1>5 DEF FramesDisjoint
  <2>5. \A u \in Threads : InTransit(u)' \subseteq FirstFree..(firstpaddr' - 1)
    BY Zenon, <1>1, <1>7 DEF FramesDisjoint
  <2>6. HeldFrames' \cup FreeFrames' \subseteq FirstFree..(firstpaddr' - 1)
    BY Zenon, <1>0, <1>1, <1>4, <1>5 DEF FramesDisjoint
  <2> QED  BY ZenonT(60), <2>1, <2>2, <2>3, <2>4, <2>5, <2>6 DEF FramesDisjoint
<1>10. NoFrameLost'
  <2>1. \A u \in Threads : InTransit(u) \subseteq HeldFrames' \cup InTransit(u)'
    BY Zenon, <1>0, <1>4, <1>7
  <2> QED  BY <1>1, <1>4, <1>5, <2>1 DEF NoFrameLost
<1>11. BootSound'
  BY Zenon, <1>0, <1>1, <1>5 DEF BootSound
<1>12. HeldSound' /\ AllocSizeTrue'
  <2>1. ASSUME NEW b \in fr_held'
        PROVE  b[2] # 0 /\ WholeBlock(b[1], b[2]) /\ allocSize'[b[1]] = IF b[1] \in fr_boot THEN 0 ELSE b[2]
    <3>1. CASE b \in fr_held
      BY Zenon, <1>3, <1>8, <3>1 DEF HeldSound, AllocSizeTrue
    <3>2. CASE b = <<a, np>>
      BY Zenon, <1>0, <1>3, <3>2
    <3> QED  BY Zenon, <1>1, <3>1, <3>2
  <2> QED  BY Zenon, <1>1, <2>1 DEF HeldSound, AllocSizeTrue, WholeBlock
<1>13. ASSUME NEW u \in Threads PROVE CallSound(u)'
  <2>1. CASE u = t
    BY Zenon, <1>3, <2>1 DEF CallSound
  <2>2. CASE u # t
    BY <1>1, <1>3, <1>6, <2>2 DEF CallSound, WholeBlock
  <2> QED  BY Zenon, <2>1, <2>2
<1> QED  BY Zenon, <1>2, <1>9, <1>10, <1>11, <1>12, <1>13

\* getppages stores the size of what it got.
LEMMA GetppagesInv ==
  ASSUME FramesInv, NEW t \in Threads, getppages(t)
  PROVE  FramesInv'
<1> USE FramesAssumption DEF FramesInv
<1>1. CASE fr_addr[t] = 0
  <2>1. /\ fr_pc' = [fr_pc EXCEPT ![t] = "got"] /\ fr_pc[t] = "size"
        /\ UNCHANGED <<freeRamFrames, allocSize, firstpaddr, allocTableActive, fr_np, fr_held, fr_boot, fr_addr>>
    BY Zenon, <1>1 DEF getppages
  <2>2. FramesTypeOK'
    BY Zenon, <2>1 DEF FramesTypeOK, FramePcs
  <2>3. fr_pc'[t] = "got" /\ \A u \in Threads \ {t} : fr_pc'[u] = fr_pc[u]
    BY Zenon, <2>1 DEF FramesTypeOK
  <2>4. \A u \in Threads : InTransit(u)' = InTransit(u)
    BY Zenon, <1>1, <2>1, <2>3 DEF InTransit
  <2>5. FreeFrames' = FreeFrames
    BY Zenon, <2>1 DEF FreeFrames
  <2>6. FramesDisjoint' /\ NoFrameLost'
    BY Zenon, <2>1, <2>4, <2>5, OwnersKept
  <2>7. BootSound' /\ HeldSound' /\ AllocSizeTrue'
    BY <2>1, <2>5, Zenon DEF BootSound, HeldSound, AllocSizeTrue, WholeBlock
  <2>8. ASSUME NEW u \in Threads PROVE CallSound(u)'
    <3>1. CASE u = t
      BY Zenon, <2>1, <2>3, <3>1 DEF CallSound
    <3>2. CASE u # t
      BY Zenon, <2>1, <2>3, <3>2 DEF CallSound, WholeBlock
    <3> QED  BY Zenon, <3>1, <3>2
  <2> QED  BY Zenon, <2>2, <2>6, <2>7, <2>8
<1>2. CASE fr_addr[t] # 0
  BY Zenon, <1>2, GotInv
<1> QED  BY Zenon, <1>1, <1>2

\* A caller stops using a block: with the table on it is in transit, or dropped
\* when it is from before vm_bootstrap.
LEMMA HandBack ==
  ASSUME FramesInv, NEW t \in Threads, fr_pc[t] = "idle", NEW b \in fr_held,
         fr_held' = fr_held \ {b},
         UNCHANGED <<freeRamFrames, allocSize, firstpaddr, allocTableActive, fr_boot>>,
         \A u \in Threads \ {t} :
           fr_pc'[u] = fr_pc[u] /\ fr_np'[u] = fr_np[u] /\ fr_addr'[u] = fr_addr[u],
         InTransit(t)' = IF b[1] \in fr_boot THEN {} ELSE Block(b[1], b[2])
  PROVE  FramesDisjoint' /\ NoFrameLost' /\ BootSound' /\ HeldSound' /\ AllocSizeTrue'
<1> USE FramesAssumption DEF FramesInv
<1> DEFINE B == Block(b[1], b[2])
<1>0. B \subseteq HeldFrames /\ WholeBlock(b[1], b[2])
  BY Zenon, HeldFacts DEF HeldSound
<1>1. FreeFrames' = FreeFrames
  BY Zenon DEF FreeFrames
<1>2. HeldFrames' = HeldFrames \ B
  <2>1. \A i : i \in HeldFrames <=> \E c \in fr_held : i \in Block(c[1], c[2])
    BY Zenon DEF HeldFrames
  <2>2. \A i : i \in HeldFrames' <=> \E c \in fr_held' : i \in Block(c[1], c[2])
    BY Zenon DEF HeldFrames
  <2>3. \A c \in fr_held : c # b => \A i \in Block(c[1], c[2]) : i \notin B
    BY Zenon DEF FramesDisjoint
  <2>4. \A i : (\E c \in fr_held' : i \in Block(c[1], c[2]))
               <=> ((\E c \in fr_held : i \in Block(c[1], c[2])) /\ i \notin B)
    BY <2>3, Zenon
  <2> QED  BY <2>1, <2>2, <2>4, Zenon
<1>3. InTransit(t) = {} /\ \A u \in Threads \ {t} : InTransit(u)' = InTransit(u)
  BY Zenon DEF InTransit
<1>4. FramesDisjoint'
  <2>1. \A c, d \in fr_held' : c # d => (Block(c[1], c[2]) \cap Block(d[1], d[2]) = {})
    BY Zenon DEF FramesDisjoint
  <2>2. \A u, w \in Threads : u # w => InTransit(u)' \cap InTransit(w)' = {}
    BY <1>0, <1>3 DEF FramesDisjoint
  <2>3. \A u \in Threads : InTransit(u)' \cap (HeldFrames' \cup FreeFrames') = {}
    BY <1>0, <1>1, <1>2, <1>3 DEF FramesDisjoint
  <2>4. HeldFrames' \cap FreeFrames' = {}
    BY Zenon, <1>1, <1>2 DEF FramesDisjoint
  <2>5. \A u \in Threads : InTransit(u)' \subseteq FirstFree..(firstpaddr' - 1)
    BY <1>0, <1>3 DEF FramesDisjoint
  <2>6. HeldFrames' \cup FreeFrames' \subseteq FirstFree..(firstpaddr' - 1)
    BY Zenon, <1>1, <1>2 DEF FramesDisjoint
  <2> QED  BY <2>1, <2>2, <2>3, <2>4, <2>5, <2>6 DEF FramesDisjoint
<1>5. NoFrameLost'
  <2>1. \A u \in Threads : InTransit(u) \subseteq UNION {InTransit(w)' : w \in Threads}
    BY Zenon, <1>3
  <2>2. B \subseteq fr_boot' \cup UNION {InTransit(w)' : w \in Threads}
    BY Zenon, <1>0 DEF WholeBlock
  <2> QED  BY <1>1, <1>2, <2>1, <2>2 DEF NoFrameLost
<1>6. BootSound'
  BY <1>1, Zenon DEF BootSound
<1>7. HeldSound' /\ AllocSizeTrue'
  BY Zenon DEF HeldSound, AllocSizeTrue, WholeBlock
<1> QED  BY Zenon, <1>4, <1>5, <1>6, <1>7

\* The caller of free_kpages gives up a block of its own.
LEMMA FreeCallInv ==
  ASSUME FramesInv, NEW t \in Threads, NEW first, FreeCall(t, first)
  PROVE  FramesInv'
<1> USE FramesAssumption DEF FramesInv
<1>1. PICK b \in fr_held : b[1] = first /\ fr_held' = fr_held \ {b}
  BY Zenon DEF FreeCall
<1>2. /\ b[1] \in Nat /\ b[1] \in Frame /\ b[1] # 0 /\ b[2] # 0
      /\ allocSize[b[1]] = IF b[1] \in fr_boot THEN 0 ELSE b[2]
      /\ WholeBlock(b[1], b[2])
  BY Zenon, HeldFacts DEF HeldSound, AllocSizeTrue
<1>3. UNCHANGED <<freeRamFrames, allocSize, firstpaddr, allocTableActive, fr_boot, fr_np>> /\ fr_pc[t] = "idle"
  BY Zenon DEF FreeCall, fr_table
<1>4. CASE allocTableActive
  <2>1. fr_addr' = [fr_addr EXCEPT ![t] = first] /\ fr_pc' = [fr_pc EXCEPT ![t] = "kfree"]
    BY Zenon, <1>4 DEF FreeCall
  <2>2. FramesTypeOK'
    BY Zenon, <1>1, <1>2, <1>3, <2>1 DEF FramesTypeOK, FramePcs
  <2>3. /\ fr_pc'[t] = "kfree" /\ fr_addr'[t] = b[1]
        /\ \A u \in Threads \ {t} : fr_pc'[u] = fr_pc[u] /\ fr_np'[u] = fr_np[u] /\ fr_addr'[u] = fr_addr[u]
    BY Zenon, <1>1, <1>3, <2>1 DEF FramesTypeOK
  <2>4. InTransit(t)' = IF b[1] \in fr_boot THEN {} ELSE Block(b[1], b[2])
    BY Zenon, <1>2, <1>3, <2>3, BlockFacts DEF InTransit
  <2>5. FramesDisjoint' /\ NoFrameLost' /\ BootSound' /\ HeldSound' /\ AllocSizeTrue'
    BY Zenon, <1>1, <1>3, <2>3, <2>4, HandBack
  <2>6. ASSUME NEW u \in Threads PROVE CallSound(u)'
    <3>1. CASE u = t
      <4>1. WholeBlock(b[1], allocSize[b[1]])
        <5>1. CASE b[1] \in fr_boot
          <6>1. allocSize[b[1]] = 0 /\ Block(b[1], 0) = {}
            BY Zenon, <1>2, <5>1, BlockFacts
          <6>2. b[1] + 0 <= firstpaddr
            BY <1>2, <5>1 DEF FramesTypeOK, BootSound, FramesAssumption
          <6> QED  BY Zenon, <1>2, <5>1, <6>1, <6>2 DEF WholeBlock
        <5>2. CASE b[1] \notin fr_boot
          BY Zenon, <1>2, <5>2
        <5> QED  BY Zenon, <5>1, <5>2
      <4> QED  BY Zenon, <1>2, <1>3, <1>4, <2>3, <3>1, <4>1 DEF CallSound, WholeBlock
    <3>2. CASE u # t
      BY ZenonT(60), <1>3, <2>3, <3>2 DEF CallSound, WholeBlock
    <3> QED  BY Zenon, <3>1, <3>2
  <2> QED  BY Zenon, <2>2, <2>5, <2>6
<1>5. CASE ~allocTableActive
  <2>1. UNCHANGED <<fr_addr, fr_pc>>
    BY Zenon, <1>5 DEF FreeCall
  <2>2. FramesTypeOK'
    BY Zenon, <1>1, <1>3, <2>1 DEF FramesTypeOK
  <2>3. b[1] \in fr_boot
    BY Zenon, <1>2, <1>5, HeldFacts DEF BootSound
  <2>4. InTransit(t)' = IF b[1] \in fr_boot THEN {} ELSE Block(b[1], b[2])
    BY Zenon, <1>3, <2>1, <2>3 DEF InTransit
  <2>5. FramesDisjoint' /\ NoFrameLost' /\ BootSound' /\ HeldSound' /\ AllocSizeTrue'
    BY Zenon, <1>1, <1>3, <2>1, <2>4, HandBack
  <2>6. \A u \in Threads : CallSound(u)'
    BY Zenon, <1>3, <2>1 DEF CallSound, WholeBlock
  <2> QED  BY Zenon, <2>2, <2>5, <2>6
<1> QED  BY Zenon, <1>4, <1>5

\* as_destroy calls freeppages with the size it knows.
LEMMA GiveCallInv ==
  ASSUME FramesInv, NEW t \in Threads, NEW b \in fr_held, b[1] \notin fr_boot, GiveCall(t, b[1], b[2])
  PROVE  FramesInv'
<1> USE FramesAssumption DEF FramesInv
<1>1. b[1] \in Nat /\ b[2] \in Nat /\ b = <<b[1], b[2]>> /\ b[1] \in Frame /\ b[1] # 0 /\ b[2] # 0
  BY Zenon, HeldFacts DEF HeldSound
<1>2. allocTableActive
  BY Zenon, HeldFacts DEF BootSound
<1>3. /\ fr_held' = fr_held \ {b} /\ fr_pc[t] = "idle"
      /\ fr_addr' = [fr_addr EXCEPT ![t] = b[1]]
      /\ fr_np' = [fr_np EXCEPT ![t] = b[2]]
      /\ fr_pc' = [fr_pc EXCEPT ![t] = "give"]
      /\ UNCHANGED <<freeRamFrames, allocSize, firstpaddr, allocTableActive, fr_boot>>
  BY Zenon, <1>1, <1>2 DEF GiveCall, fr_table
<1>4. FramesTypeOK'
  BY Zenon, <1>1, <1>3 DEF FramesTypeOK, FramePcs
<1>5. /\ fr_pc'[t] = "give" /\ fr_addr'[t] = b[1] /\ fr_np'[t] = b[2]
      /\ \A u \in Threads \ {t} : fr_pc'[u] = fr_pc[u] /\ fr_np'[u] = fr_np[u] /\ fr_addr'[u] = fr_addr[u]
  BY Zenon, <1>3 DEF FramesTypeOK
<1>6. InTransit(t)' = IF b[1] \in fr_boot THEN {} ELSE Block(b[1], b[2])
  BY Zenon, <1>1, <1>5 DEF InTransit
<1>7. FramesDisjoint' /\ NoFrameLost' /\ BootSound' /\ HeldSound' /\ AllocSizeTrue'
  BY Zenon, <1>3, <1>5, <1>6, HandBack
<1>8. ASSUME NEW u \in Threads PROVE CallSound(u)'
  <2>1. CASE u = t
    BY <1>1, <1>2, <1>3, <1>5, <2>1 DEF CallSound, WholeBlock, HeldSound
  <2>2. CASE u # t
    BY <1>3, <1>5, <2>2 DEF CallSound, WholeBlock
  <2> QED  BY Zenon, <2>1, <2>2
<1> QED  BY Zenon, <1>4, <1>7, <1>8

\* freeppages: the frames of the block are free again.
LEMMA FreeppagesInv ==
  ASSUME FramesInv, NEW t \in Threads, freeppages(t)
  PROVE  FramesInv'
<1> USE FramesAssumption DEF FramesInv
<1> DEFINE a == fr_addr[t]
           np == fr_np[t]
           B == Block(a, np)
<1>0. /\ fr_pc[t] = "give" /\ np \in Nat /\ a \in Nat /\ a \in Frame /\ a # 0
      /\ B = InTransit(t) /\ WholeBlock(a, np) /\ (a \in fr_boot <=> np = 0) /\ allocTableActive
  <2>1. fr_pc[t] = "give" /\ CallSound(t)
    BY Zenon DEF freeppages
  <2>2. a # 0
    BY <2>1, CallFacts DEF CallSound, WholeBlock, FramesAssumption
  <2> QED  BY Zenon, <2>1, <2>2, CallFacts DEF CallSound, InTransit
<1>1. /\ freeRamFrames' = [i \in Frame |-> freeRamFrames[i] \/ i \in B]
      /\ allocSize' = [allocSize EXCEPT ![a] = 0]
      /\ fr_pc' = [fr_pc EXCEPT ![t] = "idle"]
      /\ fr_np' = [fr_np EXCEPT ![t] = 0]
      /\ fr_addr' = [fr_addr EXCEPT ![t] = 0]
      /\ UNCHANGED <<firstpaddr, allocTableActive, fr_held, fr_boot>>
  BY Zenon DEF freeppages, Leave
<1>2. FramesTypeOK'
  <2>1. freeRamFrames' \in [Frame -> BOOLEAN]
    BY Zenon, <1>1 DEF FramesTypeOK
  <2> QED  BY Zenon, <1>1, <2>1 DEF FramesTypeOK, FramePcs
<1>3. /\ fr_pc'[t] = "idle"
      /\ \A u \in Threads \ {t} : fr_pc'[u] = fr_pc[u] /\ fr_np'[u] = fr_np[u] /\ fr_addr'[u] = fr_addr[u]
      /\ allocSize'[a] = 0 /\ \A i \in Frame \ {a} : allocSize'[i] = allocSize[i]
  BY Zenon, <1>0, <1>1 DEF FramesTypeOK
<1>4. B \subseteq Frame /\ B \subseteq FirstFree..(firstpaddr - 1) /\ B \cap fr_boot = {}
      /\ (a \in fr_boot \/ a \in B)
  BY Zenon, <1>0, WholeInside, BlockFacts DEF WholeBlock
<1>5. FreeFrames' = FreeFrames \cup B /\ HeldFrames' = HeldFrames
  BY Zenon, <1>1, <1>4 DEF FreeFrames, HeldFrames
<1>6. ASSUME NEW u \in Threads \ {t}, fr_pc[u] = "kfree"
      PROVE  fr_addr[u] \in Frame /\ allocSize'[fr_addr[u]] = allocSize[fr_addr[u]]
  <2>1. fr_addr[u] \in Frame /\ (fr_addr[u] \in fr_boot => allocSize[fr_addr[u]] = 0)
    BY Zenon, <1>6, CallFacts DEF CallSound
  <2>2. CASE fr_addr[u] \in fr_boot
    BY Zenon, <1>3, <2>1, <2>2
  <2>3. CASE fr_addr[u] \notin fr_boot
    <3>1. fr_addr[u] \in InTransit(u) /\ InTransit(t) \cap InTransit(u) = {}
      BY Zenon, <1>6, <2>3, CallFacts DEF FramesDisjoint
    <3>2. fr_addr[u] # a
      BY Zenon, <1>0, <1>4, <2>3, <3>1
    <3> QED  BY Zenon, <1>3, <2>1, <3>2
  <2> QED  BY Zenon, <2>2, <2>3
<1>7. InTransit(t)' = {} /\ \A u \in Threads \ {t} : InTransit(u)' = InTransit(u)
  BY <1>1, <1>3, <1>6 DEF InTransit
<1>8. FramesDisjoint'
  <2>1. \A c, d \in fr_held' : c # d => (Block(c[1], c[2]) \cap Block(d[1], d[2]) = {})
    BY Zenon, <1>1 DEF FramesDisjoint
  <2>2. \A u, w \in Threads : u # w => InTransit(u)' \cap InTransit(w)' = {}
    BY Zenon, <1>7 DEF FramesDisjoint
  <2>3. \A u \in Threads : InTransit(u)' \cap (HeldFrames' \cup FreeFrames') = {}
    BY <1>0, <1>5, <1>7 DEF FramesDisjoint
  <2>4. HeldFrames' \cap FreeFrames' = {}
    BY Zenon, <1>0, <1>5 DEF FramesDisjoint
  <2>5. \A u \in Threads : InTransit(u)' \subseteq FirstFree..(firstpaddr' - 1)
    BY Zenon, <1>1, <1>7 DEF FramesDisjoint
  <2>6. HeldFrames' \cup FreeFrames' \subseteq FirstFree..(firstpaddr' - 1)
    BY Zenon, <1>1, <1>4, <1>5 DEF FramesDisjoint
  <2> QED  BY ZenonT(60), <2>1, <2>2, <2>3, <2>4, <2>5, <2>6 DEF FramesDisjoint
<1>9. NoFrameLost'
  <2>1. \A u \in Threads : InTransit(u) \subseteq FreeFrames' \cup InTransit(u)'
    BY Zenon, <1>0, <1>5, <1>7
  <2> QED  BY <1>1, <1>5, <2>1 DEF NoFrameLost
<1>10. BootSound'
  BY Zenon, <1>0, <1>1, <1>4, <1>5 DEF BootSound
<1>11. HeldSound' /\ AllocSizeTrue'
  <2>1. HeldSound'
    BY Zenon, <1>1 DEF HeldSound, WholeBlock
  <2>2. ASSUME NEW b \in fr_held PROVE allocSize'[b[1]] = allocSize[b[1]]
    <3>1. b[1] \in HeldFrames /\ b[1] \in Frame
      BY Zenon, HeldFacts
    <3>2. CASE b[1] = a
      <4>1. a \in fr_boot
        BY Zenon, <1>0, <1>4, <3>1, <3>2 DEF FramesDisjoint
      <4> QED  BY Zenon, <1>3, <3>2, <4>1 DEF AllocSizeTrue
    <3>3. CASE b[1] # a
      BY Zenon, <1>3, <3>1, <3>3
    <3> QED  BY Zenon, <3>2, <3>3
  <2> QED  BY Zenon, <1>1, <2>1, <2>2 DEF AllocSizeTrue
<1>12. ASSUME NEW u \in Threads PROVE CallSound(u)'
  <2>1. CASE u = t
    BY Zenon, <1>3, <2>1 DEF CallSound
  <2>2. CASE u # t
    BY <1>1, <1>3, <1>6, <2>2 DEF CallSound, WholeBlock
  <2> QED  BY Zenon, <2>1, <2>2
<1> QED  BY Zenon, <1>2, <1>8, <1>9, <1>10, <1>11, <1>12

\* vm_bootstrap: every block so far is from before it, and so are its tables.
LEMMA VmBootstrapInv ==
  ASSUME FramesInv, vm_bootstrap
  PROVE  FramesInv'
<1> USE FramesAssumption DEF FramesInv
<1> DEFINE n == IF firstpaddr + 2 <= nRamFrames THEN 2 ELSE 1
           B == Block(firstpaddr, n)
           R == FirstFree..(firstpaddr - 1)
<1>0. /\ ~allocTableActive /\ \A t \in Threads : fr_pc[t] = "idle"
      /\ firstpaddr' = firstpaddr + n /\ fr_boot' = fr_boot \cup B
      /\ allocTableActive' \in BOOLEAN
      /\ UNCHANGED <<freeRamFrames, allocSize, fr_pc, fr_np, fr_addr, fr_held>>
  BY DEF vm_bootstrap, Quiet, fr_call
<1>1. /\ B \cap R = {} /\ B \subseteq Frame /\ FirstFree..(firstpaddr' - 1) = R \cup B
      /\ firstpaddr' \in FirstFree..nRamFrames
  <2>1. firstpaddr \in Nat /\ FirstFree <= firstpaddr /\ FirstFree \in Nat /\ nRamFrames \in Nat
    BY DEF FramesTypeOK, FramesAssumption
  <2>2. n \in Nat /\ n # 0 /\ firstpaddr + n <= nRamFrames
    BY <2>1 DEF vm_bootstrap
  <2>3. firstpaddr' = firstpaddr + n
    BY Zenon, <1>0
  <2> HIDE DEF n
  <2> QED  BY <2>1, <2>2, <2>3 DEF Block, Frame
<1> HIDE DEF n, B, R
<1>2. FramesTypeOK'
  BY Zenon, <1>0, <1>1 DEF FramesTypeOK
<1>3. fr_boot = R /\ fr_boot' = R \cup B
  BY Zenon, <1>0 DEF BootSound, R
<1>4. /\ FreeFrames' = FreeFrames /\ FreeFrames = {} /\ HeldFrames' = HeldFrames
      /\ \A t \in Threads : InTransit(t)' = {}
  BY Zenon, <1>0 DEF FreeFrames, HeldFrames, InTransit, BootSound
<1>5. ASSUME NEW b \in fr_held
      PROVE  /\ b[1] \in fr_boot /\ b[1] \in fr_boot' /\ Block(b[1], b[2]) \subseteq fr_boot'
             /\ FirstFree <= b[1] /\ b[1] + b[2] <= firstpaddr'
  <2>1. b[1] \in R /\ Block(b[1], b[2]) \subseteq R
    BY Zenon, HeldFacts DEF R
  <2>2. /\ b[1] \in Nat /\ b[2] \in Nat /\ FirstFree <= b[1] /\ b[1] + b[2] <= firstpaddr
        /\ firstpaddr \in Nat /\ n \in Nat
    BY HeldFacts DEF HeldSound, WholeBlock, FramesTypeOK, FramesAssumption, n
  <2>3. b[1] + b[2] <= firstpaddr'
    BY <1>0, <2>2
  <2> QED  BY Zenon, <1>3, <2>1, <2>2, <2>3
<1>6. FramesDisjoint'
  <2>1. HeldFrames \subseteq R
    BY Zenon DEF FramesDisjoint, R
  <2> QED  BY <1>0, <1>1, <1>4, <2>1 DEF FramesDisjoint
<1>7. NoFrameLost'
  BY Zenon, <1>1, <1>3 DEF NoFrameLost
<1>8. BootSound'
  BY Zenon, <1>0, <1>1, <1>3, <1>4 DEF BootSound
<1>9. HeldSound' /\ AllocSizeTrue'
  BY Zenon, <1>0, <1>5 DEF HeldSound, AllocSizeTrue, WholeBlock
<1>10. \A u \in Threads : CallSound(u)'
  BY Zenon, <1>0 DEF CallSound
<1> QED  BY Zenon, <1>2, <1>6, <1>7, <1>8, <1>9, <1>10

\* A step that changes nothing keeps the invariant.
LEMMA StutterInv == ASSUME FramesInv, UNCHANGED fr_vars PROVE FramesInv'
<1>1. UNCHANGED <<freeRamFrames, allocSize, firstpaddr, allocTableActive, fr_pc, fr_np, fr_addr, fr_held, fr_boot>>
  BY Zenon DEF fr_vars, fr_table, fr_call
<1>2. /\ UNCHANGED <<FreeFrames, HeldFrames>> /\ \A u \in Threads : InTransit(u)' = InTransit(u)
  BY Zenon, <1>1 DEF FreeFrames, HeldFrames, InTransit
<1>3. FramesDisjoint' /\ NoFrameLost'
  BY Zenon, <1>1, <1>2, OwnersKept DEF FramesInv
<1>4. BootSound' /\ HeldSound' /\ AllocSizeTrue' /\ FramesTypeOK'
  BY <1>1, <1>2, Zenon DEF BootSound, HeldSound, AllocSizeTrue, WholeBlock, FramesTypeOK, FramesInv
<1>5. \A u \in Threads : CallSound(u)'
  BY ZenonT(60), <1>1 DEF CallSound, WholeBlock, FramesInv
<1> QED  BY Zenon, <1>3, <1>4, <1>5 DEF FramesInv

\* Every step of the allocator keeps the invariant.
LEMMA NextInv == ASSUME FramesInv, [FramesNext]_fr_vars PROVE FramesInv'
<1>1. CASE vm_bootstrap
  BY Zenon, <1>1, VmBootstrapInv
<1>2. ASSUME NEW t \in Threads, FrameStep(t) PROVE FramesInv'
  BY <1>2, GetfreeppagesInv, RamStealmemInv, GetppagesInv, FreeKpagesInv, FreeppagesInv, Zenon DEF FrameStep
<1>3. ASSUME NEW t \in Threads, NEW np \in 1..MaxPages, PageCall(t, np) PROVE FramesInv'
  BY Zenon, <1>3, PageCallInv
<1>4. ASSUME NEW t \in Threads, PageReturn(t) PROVE FramesInv'
  BY Zenon, <1>4, PageReturnInv
<1>5. ASSUME NEW t \in Threads, NEW b \in fr_held, FreeCall(t, b[1]) PROVE FramesInv'
  BY Zenon, <1>5, FreeCallInv
<1>6. ASSUME NEW t \in Threads, NEW b \in fr_held, b[1] \notin fr_boot, GiveCall(t, b[1], b[2]) PROVE FramesInv'
  BY Zenon, <1>6, GiveCallInv
<1>7. CASE UNCHANGED fr_vars
  BY Zenon, <1>7, StutterInv
<1> QED  BY <1>1, <1>2, <1>3, <1>4, <1>5, <1>6, <1>7, Zenon DEF FramesNext

\* The invariant holds in every state of the allocator.
LEMMA SpecInv == FramesSpec => []FramesInv
<1>1. ram_bootstrap => FramesInv
  BY Zenon, InitInv
<1>2. FramesInv /\ [FramesNext]_fr_vars => FramesInv'
  BY Zenon, NextInv
<1> QED  BY <1>1, <1>2, PTL DEF FramesSpec
-----------------------------------------------------------------------------
\* getppages, freeppages, free_kpages and ram_stealmem keep their tables in
\* shape, and ram_stealmem never hands out memory that is not there.
THEOREM FramesTyped == FramesSpec => []FramesTypeOK
<1>1. FramesInv => FramesTypeOK
  BY Zenon DEF FramesInv
<1> QED  BY <1>1, SpecInv, PTL

\* No physical frame has two owners, however the sections of getppages and
\* freeppages (two spinlocks, and free_kpages under none) interleave.
THEOREM FramesExclusive == FramesSpec => []FramesDisjoint
<1>1. FramesInv => FramesDisjoint
  BY Zenon DEF FramesInv
<1> QED  BY <1>1, SpecInv, PTL

\* free_kpages gives back exactly what getppages handed out.
THEOREM FramesSized == FramesSpec => []AllocSizeTrue
<1>1. FramesInv => AllocSizeTrue
  BY Zenon DEF FramesInv
<1> QED  BY <1>1, SpecInv, PTL

\* No frame is lost, except those that free_kpages drops because they were
\* handed out before vm_bootstrap.
THEOREM FramesKept == FramesSpec => []NoFrameLost
<1>1. FramesInv => NoFrameLost
  BY Zenon DEF FramesInv
<1> QED  BY <1>1, SpecInv, PTL

\* The page allocator as its callers need it: one owner per frame, the right
\* size on the way back, no frame lost.
THEOREM FramesAreSafe == FramesSpec => []FramesSafe
<1>1. FramesInv => FramesSafe
  BY Zenon DEF FramesInv, FramesSafe
<1> QED  BY <1>1, SpecInv, PTL
-----------------------------------------------------------------------------
\* The default prover of a leaf that names none.
USE Zenon

\* Address spaces, and those with memory in every region.
Space == [RegionSet -> VmFrames \cup {0}]
Full == [RegionSet -> VmFrames]
VmPcs == {"unborn", "user", "load", "eload", "undo", "argv", "copy", "move", "uncopy", "dead", "gone"}

VmTyped ==
  /\ p_addrspace \in [Procs -> Space \cup {NoAs}] /\ vm_new \in [Procs -> Space \cup {NoAs}]
  /\ vm_pc \in [Procs -> VmPcs] /\ vm_child \in [Procs -> Procs \cup {NoProc}]
  /\ curproc \in [CPUs -> Procs \cup {NoProc}]
  /\ tlb \in [CPUs -> SUBSET (RegionSet \X VmFrames)]
  /\ mem \in [VmFrames -> Procs \cup {Zero}] /\ vm_owned \in SUBSET VmFrames
  /\ vm_kin \in [Procs -> SUBSET Procs]

\* At which places a process has a complete address space, an empty one, and a
\* second one.
Complete == {"user", "argv", "copy", "move", "uncopy"}
Copying == {"copy", "move", "uncopy"}
PlaceOk(p) ==
  /\ vm_pc[p] \in Complete => p_addrspace[p] \in Full
  /\ vm_pc[p] \in {"load", "eload"} => p_addrspace[p] = as_create
  /\ vm_pc[p] \in {"undo", "dead"} => p_addrspace[p] \in Space
  /\ vm_pc[p] \in {"unborn", "gone"} => p_addrspace[p] = NoAs
  /\ vm_pc[p] \in {"eload", "undo"} => vm_new[p] \in Full
  /\ vm_pc[p] = "argv" => vm_new[p] \in Full \cup {NoAs}
  /\ vm_pc[p] = "copy" => vm_new[p] = as_create
  /\ vm_pc[p] = "move" => vm_new[p] \in Full
  /\ vm_pc[p] = "uncopy" => vm_new[p] \in Space
  /\ vm_pc[p] \in {"user", "load", "dead", "unborn", "gone"} => vm_new[p] = NoAs
  /\ vm_child[p] # NoProc <=> vm_pc[p] \in Copying

\* A child that is being made has one parent and no thread.
Children ==
  /\ \A p \in Procs : vm_child[p] # NoProc => vm_pc[vm_child[p]] = "unborn"
  /\ \A p, q \in Procs : vm_child[p] # NoProc /\ vm_child[p] = vm_child[q] => p = q

\* A process runs on one processor, and not before it is born.
OnCpu ==
  /\ \A c, d \in CPUs : curproc[c] # NoProc /\ curproc[c] = curproc[d] => c = d
  /\ \A c \in CPUs : curproc[c] # NoProc => vm_pc[curproc[c]] # "unborn"

\* The TLB under a process with a complete address space has entries of that one
\* only; under an address space without memory it is empty.
TlbOf(c, p) ==
  /\ vm_pc[p] \in Complete => \A e \in tlb[c] : p_addrspace[p][e[1]] = e[2]
  /\ vm_pc[p] \in {"load", "eload"} => tlb[c] = {}
TlbOk(c) == curproc[c] # NoProc => TlbOf(c, curproc[c])

\* The frames of the two address spaces that a process can have: every frame
\* handed out is in one of them, and in no other.
Keys == Procs \X {1, 2}
Held == [k \in Keys |-> FramesOf(IF k[2] = 1 THEN p_addrspace[k[1]] ELSE vm_new[k[1]])]
Partition(F, owned) ==
  /\ owned = UNION {F[k] : k \in Keys}
  /\ \A k, l \in Keys : k # l => F[k] \cap F[l] = {}
Shared == Partition(Held, vm_owned)

\* What a complete address space contains, also the one that execv keeps.
Clean(p, as) == \A r \in RegionSet : mem[as[r]] \in {Zero} \cup vm_kin[p]
ContentOk(p) ==
  /\ p \in vm_kin[p]
  /\ vm_pc[p] \in Complete => Clean(p, p_addrspace[p])
  /\ vm_pc[p] \in {"eload", "undo", "argv"} /\ vm_new[p] # NoAs => Clean(p, vm_new[p])

VMInv ==
  /\ VmTyped /\ Children /\ OnCpu /\ Shared
  /\ \A p \in Procs : PlaceOk(p) /\ ContentOk(p)
  /\ \A c \in CPUs : TlbOk(c)
-----------------------------------------------------------------------------
\* The address space that as_create makes has no frame, and is not the missing one.
LEMMA Spaces0 ==
  /\ as_create \in Space /\ FramesOf(as_create) = {} /\ FramesOf(NoAs) = {}
  /\ NoAs \notin Space /\ NoAs \notin Full /\ as_create # NoAs
<1>1. PICK r \in RegionSet : TRUE
  BY VMAssumption
<1>2. as_create \in Space /\ \A s \in RegionSet : as_create[s] = 0
  BY DEF as_create, Space
<1>3. DOMAIN as_create = RegionSet
  BY DEF as_create
<1>4. NoAs \notin Space /\ NoAs \notin Full
  BY SMT, <1>1 DEF NoAs, Space, Full
<1>5. as_create # NoAs
  BY <1>2, <1>4
<1>6. FramesOf(as_create) = {} /\ FramesOf(NoAs) = {}
  BY <1>2 DEF FramesOf
<1> QED
  BY <1>2, <1>4, <1>5, <1>6

\* The frames of an address space are frames.
LEMMA SpaceFrames ==
  ASSUME NEW as \in Space \cup {NoAs}
  PROVE  FramesOf(as) \subseteq VmFrames
BY Spaces0 DEF FramesOf, Space

\* A complete address space has a frame in each region.
LEMMA FullFrames ==
  ASSUME NEW as \in Full
  PROVE  /\ as \in Space /\ as # NoAs
         /\ \A r \in RegionSet : as[r] \in VmFrames /\ as[r] # 0 /\ as[r] \in FramesOf(as)
<1>1. as \in Space /\ as # NoAs
  BY Spaces0 DEF Space, Full
<1>2. \A r \in RegionSet : as[r] \in VmFrames /\ as[r] # 0
  BY VMAssumption DEF Full
<1> QED
  BY <1>1, <1>2 DEF FramesOf

\* Whatever getppages gives the regions, nobody owned it.
LEMMA FilledFacts ==
  ASSUME vm_owned \in SUBSET VmFrames
  PROVE  /\ Filled \in Space
         /\ FramesOf(Filled) \cap vm_owned = {}
         /\ (\A r \in RegionSet : Filled[r] # 0) => Filled \in Full
<1> DEFINE avail == VmFrames \ vm_owned
           Nth(i) == {f \in avail : Cardinality({g \in avail : g <= f}) = i}
           Slot(r) == CHOOSE i \in DOMAIN Regions : Regions[i] = r
           Got(r) == IF Nth(Slot(r)) = {} THEN 0 ELSE CHOOSE f \in Nth(Slot(r)) : TRUE
<1>1. Filled = [r \in RegionSet |-> Got(r)]
  BY DEF Filled
<1>2. ASSUME NEW r PROVE Got(r) = 0 \/ Got(r) \in avail
  <2>1. Nth(Slot(r)) \subseteq avail
    OBVIOUS
  <2> HIDE DEF Nth, Slot
  <2> QED
    BY <2>1
<1> HIDE DEF Got
<1>3. \A r \in RegionSet : Filled[r] = 0 \/ Filled[r] \in avail
  BY <1>1, <1>2
<1>4. Filled \in Space
  BY <1>1, <1>3 DEF Space
<1>5. FramesOf(Filled) \cap vm_owned = {}
  BY <1>3, <1>4, Spaces0 DEF FramesOf
<1>6. (\A r \in RegionSet : Filled[r] # 0) => Filled \in Full
  BY <1>1, <1>3 DEF Full
<1> QED
  BY <1>4, <1>5, <1>6

\* The two address spaces of a process are two keys, and there are no others.
LEMMA KeyParts ==
  /\ \A p \in Procs : <<p, 1>> \in Keys /\ <<p, 2>> \in Keys
  /\ \A p, q \in Procs : <<p, 1>> # <<q, 2>> /\ (p # q => <<p, 1>> # <<q, 1>> /\ <<p, 2>> # <<q, 2>>)
  /\ \A k \in Keys : \E p \in Procs : k = <<p, 1>> \/ k = <<p, 2>>
BY SMT DEF Keys

\* What they hold, before and after a step.
LEMMA HeldParts ==
  ASSUME NEW p \in Procs
  PROVE  /\ Held[<<p, 1>>] = FramesOf(p_addrspace[p])
         /\ Held[<<p, 2>>] = FramesOf(vm_new[p])
         /\ Held'[<<p, 1>>] = FramesOf(p_addrspace'[p])
         /\ Held'[<<p, 2>>] = FramesOf(vm_new'[p])
<1>1. <<p, 1>> \in Keys /\ <<p, 2>> \in Keys
  BY KeyParts
<1>2. <<p, 1>>[1] = p /\ <<p, 1>>[2] = 1 /\ <<p, 2>>[1] = p /\ <<p, 2>>[2] = 2 /\ 1 # 2
  BY SMT
<1> QED
  BY <1>1, <1>2 DEF Held

\* Frames given to a key that had none.
LEMMA PartitionAdd ==
  ASSUME NEW F, NEW owned, Partition(F, owned), NEW k \in Keys, F[k] = {},
         NEW G, G \cap owned = {},
         NEW H, H[k] = G, \A l \in Keys : l # k => H[l] = F[l],
         NEW all, all = owned \cup G
  PROVE  Partition(H, all)
<1>0. owned = UNION {F[l] : l \in Keys}
  BY DEF Partition
<1>1. \A l \in Keys : F[l] \subseteq owned
  BY <1>0
<1>2. owned \cup G = UNION {H[l] : l \in Keys}
  <2>1. ASSUME NEW x, x \in owned \cup G PROVE \E l \in Keys : x \in H[l]
    <3>1. CASE x \in owned
      <4>1. PICK l \in Keys : x \in F[l]
        BY <1>0, <3>1
      <4> QED
        BY <4>1
    <3> QED
      BY <2>1, <3>1
  <2>2. ASSUME NEW l \in Keys, NEW x \in H[l] PROVE x \in owned \cup G
    BY <1>1
  <2> QED
    BY <2>1, <2>2
<1>3. ASSUME NEW l \in Keys, NEW m \in Keys, l # m PROVE H[l] \cap H[m] = {}
  <2>1. CASE l = k
    BY <1>1, <1>3, <2>1
  <2>2. CASE m = k
    BY <1>1, <1>3, <2>2
  <2>3. CASE l # k /\ m # k
    BY <1>3, <2>3 DEF Partition
  <2> QED
    BY <2>1, <2>2, <2>3
<1> QED
  BY <1>2, <1>3 DEF Partition

\* Frames given back by a key.
LEMMA PartitionDrop ==
  ASSUME NEW F, NEW owned, Partition(F, owned), NEW k \in Keys,
         NEW H, H[k] = {}, \A l \in Keys : l # k => H[l] = F[l]
  PROVE  Partition(H, owned \ F[k])
<1>1. owned \ F[k] = UNION {H[l] : l \in Keys}
  <2>1. ASSUME NEW x, x \in owned \ F[k] PROVE \E l \in Keys : x \in H[l]
    <3>1. PICK l \in Keys : x \in F[l]
      BY <2>1 DEF Partition
    <3> QED
      BY <2>1, <3>1
  <2>2. ASSUME NEW l \in Keys, NEW x \in H[l] PROVE x \in owned \ F[k]
    <3>1. l # k /\ x \in F[l]
      OBVIOUS
    <3>2. F[l] \cap F[k] = {} /\ F[l] \subseteq owned
      BY <3>1 DEF Partition
    <3> QED
      BY <3>1, <3>2
  <2> QED
    BY <2>1, <2>2
<1>2. ASSUME NEW l \in Keys, NEW m \in Keys, l # m PROVE H[l] \cap H[m] = {}
  <2>1. CASE l # k /\ m # k
    BY <1>2, <2>1 DEF Partition
  <2> QED
    BY <2>1
<1> QED
  BY <1>1, <1>2 DEF Partition

\* Frames moved from a key to one that had none.
LEMMA PartitionMove ==
  ASSUME NEW F, NEW owned, Partition(F, owned), NEW k \in Keys, NEW j \in Keys, k # j, F[j] = {},
         NEW H, H[k] = {}, H[j] = F[k], \A l \in Keys : l # k /\ l # j => H[l] = F[l]
  PROVE  Partition(H, owned)
<1>1. owned = UNION {H[l] : l \in Keys}
  <2>1. ASSUME NEW x \in owned PROVE \E l \in Keys : x \in H[l]
    <3>1. PICK l \in Keys : x \in F[l]
      BY DEF Partition
    <3> QED
      BY <3>1
  <2>2. ASSUME NEW l \in Keys, NEW x \in H[l] PROVE x \in owned
    <3>1. \E m \in Keys : x \in F[m]
      OBVIOUS
    <3> QED
      BY <3>1 DEF Partition
  <2> QED
    BY <2>1, <2>2
<1>2. ASSUME NEW l \in Keys, NEW m \in Keys, l # m PROVE H[l] \cap H[m] = {}
  <2>0. \A a, b \in Keys : a # b => F[a] \cap F[b] = {}
    BY DEF Partition
  <2>1. CASE l = j
    BY <1>2, <2>0, <2>1
  <2>2. CASE m = j
    BY <1>2, <2>0, <2>2
  <2>3. CASE l # j /\ m # j
    BY <1>2, <2>0, <2>3
  <2> QED
    BY <2>1, <2>2, <2>3
<1> QED
  BY <1>1, <1>2 DEF Partition

\* The same keys with the same frames.
LEMMA PartitionSame ==
  ASSUME NEW F, NEW owned, Partition(F, owned), NEW H, \A l \in Keys : H[l] = F[l]
  PROVE  Partition(H, owned)
<1>1. {H[l] : l \in Keys} = {F[l] : l \in Keys}
  OBVIOUS
<1> QED
  BY <1>1 DEF Partition

-----------------------------------------------------------------------------
\* A step leaves a process alone.
Same(q) ==
  /\ p_addrspace'[q] = p_addrspace[q] /\ vm_new'[q] = vm_new[q] /\ vm_pc'[q] = vm_pc[q]
  /\ vm_child'[q] = vm_child[q] /\ vm_kin'[q] = vm_kin[q]

\* It keeps its place.
LEMMA SamePlace ==
  ASSUME NEW q \in Procs, PlaceOk(q), Same(q)
  PROVE  PlaceOk(q)'
BY DEF PlaceOk, Same, as_create

\* A complete address space keeps its contents when nobody writes into its frames.
LEMMA CleanSame ==
  ASSUME NEW p, NEW as \in Full, Clean(p, as), vm_kin[p] \subseteq vm_kin'[p],
         \A f \in FramesOf(as) : mem'[f] = mem[f]
  PROVE  \A r \in RegionSet : mem'[as[r]] \in {Zero} \cup vm_kin'[p]
<1>1. ASSUME NEW r \in RegionSet PROVE mem'[as[r]] \in {Zero} \cup vm_kin'[p]
  <2>1. mem'[as[r]] = mem[as[r]]
    BY FullFrames
  <2>2. mem[as[r]] \in {Zero} \cup vm_kin[p]
    BY DEF Clean
  <2> QED
    BY <2>1, <2>2
<1> QED
  BY <1>1

\* So does a process, with both of its address spaces.
LEMMA SameContent ==
  ASSUME NEW q \in Procs, PlaceOk(q), ContentOk(q), Same(q),
         \A f \in FramesOf(p_addrspace[q]) \cup FramesOf(vm_new[q]) : mem'[f] = mem[f]
  PROVE  ContentOk(q)'
<1>1. q \in vm_kin'[q] /\ vm_kin'[q] = vm_kin[q]
  BY DEF ContentOk, Same
<1>2. ASSUME vm_pc[q] \in Complete PROVE Clean(q, p_addrspace[q])'
  <2>1. p_addrspace[q] \in Full /\ Clean(q, p_addrspace[q]) /\ p_addrspace'[q] = p_addrspace[q]
    BY <1>2 DEF PlaceOk, ContentOk, Same
  <2>2. \A r \in RegionSet : mem'[p_addrspace[q][r]] \in {Zero} \cup vm_kin'[q]
    BY <1>1, <2>1, CleanSame
  <2> QED
    BY <2>1, <2>2 DEF Clean
<1>3. ASSUME vm_pc[q] \in {"eload", "undo", "argv"}, vm_new[q] # NoAs PROVE Clean(q, vm_new[q])'
  <2>1. vm_new[q] \in Full /\ Clean(q, vm_new[q]) /\ vm_new'[q] = vm_new[q]
    BY <1>3 DEF PlaceOk, ContentOk, Same
  <2>2. \A r \in RegionSet : mem'[vm_new[q][r]] \in {Zero} \cup vm_kin'[q]
    BY <1>1, <2>1, CleanSame
  <2> QED
    BY <2>1, <2>2 DEF Clean
<1>4. vm_pc'[q] = vm_pc[q] /\ vm_new'[q] = vm_new[q]
  BY DEF Same
<1> QED
  BY <1>1, <1>2, <1>3, <1>4 DEF ContentOk

\* A processor whose process and TLB do not change.
LEMMA SameTlb ==
  ASSUME NEW c \in CPUs, TlbOk(c), curproc'[c] = curproc[c], tlb'[c] = tlb[c],
         curproc[c] # NoProc => /\ p_addrspace'[curproc[c]] = p_addrspace[curproc[c]]
                                /\ vm_pc'[curproc[c]] = vm_pc[curproc[c]]
  PROVE  TlbOk(c)'
BY DEF TlbOk, TlbOf

\* An address space that does not change holds what it held.
LEMMA HeldElse ==
  ASSUME NEW q \in Procs
  PROVE  /\ p_addrspace'[q] = p_addrspace[q] => Held'[<<q, 1>>] = Held[<<q, 1>>]
         /\ vm_new'[q] = vm_new[q] => Held'[<<q, 2>>] = Held[<<q, 2>>]
BY HeldParts

\* One address space of a process changes, and no other.
LEMMA ElseAs ==
  ASSUME NEW p \in Procs,
         \A q \in Procs : vm_new'[q] = vm_new[q] /\ (q # p => p_addrspace'[q] = p_addrspace[q])
  PROVE  \A l \in Keys : l # <<p, 1>> => Held'[l] = Held[l]
<1>1. ASSUME NEW l \in Keys, l # <<p, 1>> PROVE Held'[l] = Held[l]
  <2>1. PICK q \in Procs : l = <<q, 1>> \/ l = <<q, 2>>
    BY KeyParts
  <2>2. CASE l = <<q, 1>>
    BY <1>1, <2>2, HeldElse
  <2>3. CASE l = <<q, 2>>
    BY <2>3, HeldElse
  <2> QED
    BY <2>1, <2>2, <2>3
<1> QED
  BY <1>1

\* The second address space of a process changes, and no other.
LEMMA ElseNew ==
  ASSUME NEW p \in Procs,
         \A q \in Procs : p_addrspace'[q] = p_addrspace[q] /\ (q # p => vm_new'[q] = vm_new[q])
  PROVE  \A l \in Keys : l # <<p, 2>> => Held'[l] = Held[l]
<1>1. ASSUME NEW l \in Keys, l # <<p, 2>> PROVE Held'[l] = Held[l]
  <2>1. PICK q \in Procs : l = <<q, 1>> \/ l = <<q, 2>>
    BY KeyParts
  <2>2. CASE l = <<q, 1>>
    BY <2>2, HeldElse
  <2>3. CASE l = <<q, 2>>
    BY <1>1, <2>3, HeldElse
  <2> QED
    BY <2>1, <2>2, <2>3
<1> QED
  BY <1>1

\* The first address space of q and the second of p change.
LEMMA ElseTwo ==
  ASSUME NEW p \in Procs, NEW q \in Procs,
         \A s \in Procs : s # q => p_addrspace'[s] = p_addrspace[s],
         \A s \in Procs : s # p => vm_new'[s] = vm_new[s]
  PROVE  \A l \in Keys : l # <<p, 2>> /\ l # <<q, 1>> => Held'[l] = Held[l]
<1>1. ASSUME NEW l \in Keys, l # <<p, 2>>, l # <<q, 1>> PROVE Held'[l] = Held[l]
  <2>1. PICK s \in Procs : l = <<s, 1>> \/ l = <<s, 2>>
    BY KeyParts
  <2>2. CASE l = <<s, 1>>
    BY <1>1, <2>2, HeldElse
  <2>3. CASE l = <<s, 2>>
    BY <1>1, <2>3, HeldElse
  <2> QED
    BY <2>1, <2>2, <2>3
<1> QED
  BY <1>1

\* load_elf: the address space of a process gets memory.
LEMMA AsGets ==
  ASSUME Shared, NEW p \in Procs, FramesOf(p_addrspace[p]) = {},
         \A q \in Procs : vm_new'[q] = vm_new[q] /\ (q # p => p_addrspace'[q] = p_addrspace[q]),
         FramesOf(p_addrspace'[p]) \cap vm_owned = {},
         vm_owned' = vm_owned \cup FramesOf(p_addrspace'[p])
  PROVE  Shared'
<1> DEFINE k == <<p, 1>>
           G == FramesOf(p_addrspace'[p])
<1>1. k \in Keys /\ Held[k] = {} /\ Held'[k] = G /\ G \cap vm_owned = {}
  BY KeyParts, HeldParts
<1>2. \A l \in Keys : l # k => Held'[l] = Held[l]
  BY ElseAs
<1>3. vm_owned' = vm_owned \cup G
  OBVIOUS
<1> HIDE DEF k, G
<1>0. Partition(Held, vm_owned)
  BY DEF Shared
<1>4. Partition(Held', vm_owned')
  BY SMT, <1>0, <1>1, <1>2, <1>3, PartitionAdd
<1> QED
  BY <1>3, <1>4 DEF Shared, Partition

\* as_copy: the second address space gets memory.
LEMMA NewGets ==
  ASSUME Shared, NEW p \in Procs, FramesOf(vm_new[p]) = {},
         \A q \in Procs : p_addrspace'[q] = p_addrspace[q] /\ (q # p => vm_new'[q] = vm_new[q]),
         FramesOf(vm_new'[p]) \cap vm_owned = {},
         vm_owned' = vm_owned \cup FramesOf(vm_new'[p])
  PROVE  Shared'
<1> DEFINE k == <<p, 2>>
           G == FramesOf(vm_new'[p])
<1>1. k \in Keys /\ Held[k] = {} /\ Held'[k] = G /\ G \cap vm_owned = {}
  BY KeyParts, HeldParts
<1>2. \A l \in Keys : l # k => Held'[l] = Held[l]
  BY ElseNew
<1>3. vm_owned' = vm_owned \cup G
  OBVIOUS
<1> HIDE DEF k, G
<1>0. Partition(Held, vm_owned)
  BY DEF Shared
<1>4. Partition(Held', vm_owned')
  BY SMT, <1>0, <1>1, <1>2, <1>3, PartitionAdd
<1> QED
  BY <1>3, <1>4 DEF Shared, Partition

\* proc_destroy: the address space of a process gives its memory back.
LEMMA AsLoses ==
  ASSUME Shared, NEW p \in Procs, FramesOf(p_addrspace'[p]) = {},
         \A q \in Procs : vm_new'[q] = vm_new[q] /\ (q # p => p_addrspace'[q] = p_addrspace[q]),
         vm_owned' = vm_owned \ FramesOf(p_addrspace[p])
  PROVE  Shared'
<1> DEFINE k == <<p, 1>>
<1>1. k \in Keys /\ Held'[k] = {} /\ Held[k] = FramesOf(p_addrspace[p])
  BY KeyParts, HeldParts
<1>2. \A l \in Keys : l # k => Held'[l] = Held[l]
  BY ElseAs
<1> HIDE DEF k
<1>3. Partition(Held', vm_owned \ Held[k])
  BY <1>1, <1>2, PartitionDrop DEF Shared
<1> QED
  BY <1>1, <1>3 DEF Shared, Partition

\* execv that succeeds, as_copy that fails: the second one gives its memory back.
LEMMA NewLoses ==
  ASSUME Shared, NEW p \in Procs, FramesOf(vm_new'[p]) = {},
         \A q \in Procs : p_addrspace'[q] = p_addrspace[q] /\ (q # p => vm_new'[q] = vm_new[q]),
         vm_owned' = vm_owned \ FramesOf(vm_new[p])
  PROVE  Shared'
<1> DEFINE k == <<p, 2>>
<1>1. k \in Keys /\ Held'[k] = {} /\ Held[k] = FramesOf(vm_new[p])
  BY KeyParts, HeldParts
<1>2. \A l \in Keys : l # k => Held'[l] = Held[l]
  BY ElseNew
<1> HIDE DEF k
<1>3. Partition(Held', vm_owned \ Held[k])
  BY <1>1, <1>2, PartitionDrop DEF Shared
<1> QED
  BY <1>1, <1>3 DEF Shared, Partition

\* execv keeps the address space of p as the second one.
LEMMA AsToNew ==
  ASSUME Shared, NEW p \in Procs, FramesOf(vm_new[p]) = {},
         vm_new'[p] = p_addrspace[p], FramesOf(p_addrspace'[p]) = {},
         \A s \in Procs : s # p => p_addrspace'[s] = p_addrspace[s],
         \A s \in Procs : s # p => vm_new'[s] = vm_new[s],
         vm_owned' = vm_owned
  PROVE  Shared'
<1> DEFINE k == <<p, 1>>
           j == <<p, 2>>
<1>1. k \in Keys /\ j \in Keys /\ k # j
  BY KeyParts
<1>2. Held[j] = {} /\ Held'[k] = {} /\ Held'[j] = Held[k]
  BY HeldParts
<1>3. \A l \in Keys : l # k /\ l # j => Held'[l] = Held[l]
  BY ElseTwo
<1> HIDE DEF k, j
<1>0. Partition(Held, vm_owned)
  BY DEF Shared
<1>4. Partition(Held', vm_owned)
  BY SMT, <1>0, <1>1, <1>2, <1>3, PartitionMove
<1> QED
  BY <1>4 DEF Shared, Partition

\* fork: the second address space of p becomes the one of q.
LEMMA NewToAs ==
  ASSUME Shared, NEW p \in Procs, NEW q \in Procs, FramesOf(p_addrspace[q]) = {},
         p_addrspace'[q] = vm_new[p], FramesOf(vm_new'[p]) = {},
         \A s \in Procs : s # q => p_addrspace'[s] = p_addrspace[s],
         \A s \in Procs : s # p => vm_new'[s] = vm_new[s],
         vm_owned' = vm_owned
  PROVE  Shared'
<1> DEFINE k == <<p, 2>>
           j == <<q, 1>>
<1>1. k \in Keys /\ j \in Keys /\ k # j
  BY KeyParts
<1>2. Held[j] = {} /\ Held'[k] = {} /\ Held'[j] = Held[k]
  BY HeldParts
<1>3. \A l \in Keys : l # k /\ l # j => Held'[l] = Held[l]
  BY ElseTwo
<1> HIDE DEF k, j
<1>0. Partition(Held, vm_owned)
  BY DEF Shared
<1>4. Partition(Held', vm_owned)
  BY SMT, <1>0, <1>1, <1>2, <1>3, PartitionMove
<1> QED
  BY <1>4 DEF Shared, Partition

\* execv's error path: the address space is dropped and the second one comes back.
LEMMA NewBack ==
  ASSUME Shared, NEW p \in Procs,
         p_addrspace'[p] = vm_new[p], FramesOf(vm_new'[p]) = {},
         \A s \in Procs : s # p => p_addrspace'[s] = p_addrspace[s],
         \A s \in Procs : s # p => vm_new'[s] = vm_new[s],
         vm_owned' = vm_owned \ FramesOf(p_addrspace[p])
  PROVE  Shared'
<1> DEFINE k == <<p, 2>>
           j == <<p, 1>>
           F == [l \in Keys |-> IF l = j THEN {} ELSE Held[l]]
<1>1. k \in Keys /\ j \in Keys /\ k # j
  BY KeyParts
<1>2. Held[j] = FramesOf(p_addrspace[p]) /\ Held'[k] = {} /\ Held'[j] = Held[k]
  BY HeldParts
<1>3. \A l \in Keys : l # k /\ l # j => Held'[l] = Held[l]
  BY ElseTwo
<1> HIDE DEF k, j
<1>4. F[j] = {} /\ \A l \in Keys : l # j => F[l] = Held[l]
  BY <1>1
<1> HIDE DEF F
<1>5. Partition(F, vm_owned \ Held[j])
  BY <1>1, <1>4, PartitionDrop DEF Shared
<1>6. Held'[j] = F[k] /\ \A l \in Keys : l # k /\ l # j => Held'[l] = F[l]
  BY <1>1, <1>2, <1>3, <1>4
<1>7. Partition(Held', vm_owned \ Held[j])
  BY SMT, <1>1, <1>2, <1>4, <1>5, <1>6, PartitionMove
<1> QED
  BY <1>2, <1>7 DEF Shared, Partition

\* Nobody's frames change.
LEMMA SharedSame ==
  ASSUME Shared, vm_owned' = vm_owned,
         \A q \in Procs : /\ FramesOf(p_addrspace'[q]) = FramesOf(p_addrspace[q])
                          /\ FramesOf(vm_new'[q]) = FramesOf(vm_new[q])
  PROVE  Shared'
<1>1. ASSUME NEW l \in Keys PROVE Held'[l] = Held[l]
  <2>1. PICK q \in Procs : l = <<q, 1>> \/ l = <<q, 2>>
    BY KeyParts
  <2> QED
    BY <2>1, HeldParts
<1>2. Partition(Held', vm_owned)
  BY <1>1, PartitionSame DEF Shared
<1> QED
  BY <1>2 DEF Shared, Partition

\* The address spaces of a process share no frame with any other.
LEMMA Apart ==
  ASSUME Shared, NEW p \in Procs, NEW q \in Procs
  PROVE  /\ FramesOf(p_addrspace[p]) \cap FramesOf(vm_new[q]) = {}
         /\ p # q => /\ FramesOf(p_addrspace[p]) \cap FramesOf(p_addrspace[q]) = {}
                     /\ FramesOf(vm_new[p]) \cap FramesOf(vm_new[q]) = {}
         /\ FramesOf(p_addrspace[p]) \subseteq vm_owned /\ FramesOf(vm_new[p]) \subseteq vm_owned
<1>1. /\ \A k, l \in Keys : k # l => Held[k] \cap Held[l] = {}
      /\ vm_owned = UNION {Held[k] : k \in Keys}
  BY DEF Shared, Partition
<1>2. <<p, 1>> \in Keys /\ <<p, 2>> \in Keys /\ <<q, 1>> \in Keys /\ <<q, 2>> \in Keys
  BY KeyParts
<1>3. <<p, 1>> # <<q, 2>> /\ (p # q => <<p, 1>> # <<q, 1>> /\ <<p, 2>> # <<q, 2>>)
  BY KeyParts
<1>4. /\ Held[<<p, 1>>] = FramesOf(p_addrspace[p]) /\ Held[<<p, 2>>] = FramesOf(vm_new[p])
      /\ Held[<<q, 1>>] = FramesOf(p_addrspace[q]) /\ Held[<<q, 2>>] = FramesOf(vm_new[q])
  BY HeldParts
<1>5. Held[<<p, 1>>] \cap Held[<<q, 2>>] = {}
  BY <1>1, <1>2, <1>3
<1>6. p # q => Held[<<p, 1>>] \cap Held[<<q, 1>>] = {} /\ Held[<<p, 2>>] \cap Held[<<q, 2>>] = {}
  BY <1>1, <1>2, <1>3
<1>7. Held[<<p, 1>>] \subseteq vm_owned /\ Held[<<p, 2>>] \subseteq vm_owned
  BY <1>1, <1>2
<1> QED
  BY <1>4, <1>5, <1>6, <1>7

\* Nobody writes into the frames of a process.
Untouched(q) == \A f \in FramesOf(p_addrspace[q]) \cup FramesOf(vm_new[q]) : mem'[f] = mem[f]

\* A step of process p, which changes no other process, keeps the invariant when p
\* itself comes out right.
LEMMA OneProc ==
  ASSUME VMInv, NEW p \in Procs, VmTyped', Shared', curproc' = curproc,
         \A q \in Procs : q # p => Same(q) /\ Untouched(q),
         vm_child'[p] = vm_child[p] \/ vm_child'[p] = NoProc,
         vm_pc[p] # "unborn", vm_pc'[p] # "unborn" \/ Running(p) = {},
         PlaceOk(p)', ContentOk(p)',
         \A c \in CPUs : curproc[c] # p => tlb'[c] = tlb[c],
         \A c \in CPUs : curproc[c] = p => TlbOf(c, p)'
  PROVE  VMInv'
<1>1. Children'
  <2>0. /\ \A q \in Procs : vm_child[q] # NoProc => vm_pc[vm_child[q]] = "unborn"
        /\ \A q, s \in Procs : vm_child[q] # NoProc /\ vm_child[q] = vm_child[s] => q = s
        /\ \A q \in Procs : vm_child[q] \in Procs \cup {NoProc}
    BY DEF VMInv, Children, VmTyped
  <2>1. \A q \in Procs : vm_child'[q] = vm_child[q] \/ vm_child'[q] = NoProc
    BY DEF Same
  <2>2. \A q \in Procs : q # p => vm_pc'[q] = vm_pc[q]
    BY DEF Same
  <2>3. ASSUME NEW q \in Procs, vm_child'[q] # NoProc PROVE vm_pc'[vm_child'[q]] = "unborn"
    <3>1. vm_child'[q] = vm_child[q] /\ vm_child[q] \in Procs /\ vm_pc[vm_child[q]] = "unborn"
      BY <2>0, <2>1, <2>3
    <3> QED
      BY <2>2, <3>1
  <2>4. ASSUME NEW q \in Procs, NEW s \in Procs, vm_child'[q] # NoProc, vm_child'[q] = vm_child'[s]
        PROVE  q = s
    <3>1. vm_child'[q] = vm_child[q] /\ vm_child'[s] = vm_child[s]
      BY <2>1, <2>4
    <3> QED
      BY <2>0, <2>4, <3>1
  <2> QED
    BY <2>3, <2>4 DEF Children
<1>2. OnCpu'
  <2>1. /\ \A c, d \in CPUs : curproc[c] # NoProc /\ curproc[c] = curproc[d] => c = d
        /\ \A c \in CPUs : curproc[c] # NoProc => vm_pc[curproc[c]] # "unborn"
        /\ \A c \in CPUs : curproc[c] \in Procs \cup {NoProc}
    BY DEF VMInv, OnCpu, VmTyped
  <2>2. ASSUME NEW c \in CPUs, curproc'[c] # NoProc PROVE vm_pc'[curproc'[c]] # "unborn"
    <3>1. CASE curproc[c] = p
      BY <3>1 DEF Running
    <3>2. CASE curproc[c] # p
      BY <2>1, <2>2, <3>2 DEF Same
    <3> QED
      BY <3>1, <3>2
  <2> QED
    BY <2>1, <2>2 DEF OnCpu
<1>3. ASSUME NEW q \in Procs PROVE PlaceOk(q)' /\ ContentOk(q)'
  <2>1. CASE q # p
    <3>1. PlaceOk(q) /\ ContentOk(q) /\ Same(q) /\ Untouched(q)
      BY <2>1 DEF VMInv
    <3>2. PlaceOk(q)'
      BY <3>1, SamePlace
    <3>3. ContentOk(q)'
      BY <3>1, SameContent DEF Untouched
    <3> QED
      BY <3>2, <3>3
  <2> QED
    BY <2>1
<1>4. ASSUME NEW c \in CPUs PROVE TlbOk(c)'
  <2>1. CASE curproc[c] = p
    BY <2>1 DEF TlbOk
  <2>2. CASE curproc[c] # p
    <3>1. TlbOk(c) /\ curproc'[c] = curproc[c] /\ tlb'[c] = tlb[c] /\ curproc[c] \in Procs \cup {NoProc}
      BY <2>2 DEF VMInv, VmTyped
    <3>2. curproc[c] # NoProc => /\ p_addrspace'[curproc[c]] = p_addrspace[curproc[c]]
                                 /\ vm_pc'[curproc[c]] = vm_pc[curproc[c]]
      BY <2>2, <3>1 DEF Same
    <3> QED
      BY <3>1, <3>2, SameTlb
  <2> QED
    BY <2>1, <2>2
<1> QED
  BY <1>1, <1>2, <1>3, <1>4 DEF VMInv

\* A step that does not write to memory.
LEMMA MemSame ==
  ASSUME mem' = mem
  PROVE  \A q \in Procs : Untouched(q)
BY DEF Untouched

\* The one processor of a process that runs.
LEMMA RunsOn ==
  ASSUME VMInv, NEW c \in CPUs, NEW d \in CPUs, NEW p \in Procs, curproc[c] = p, curproc[d] = p
  PROVE  c = d
<1>1. p # NoProc
  BY VMAssumption
<1> QED
  BY <1>1 DEF VMInv, OnCpu

-----------------------------------------------------------------------------
\* sys_execv up to as_activate.
LEMMA ExecStartVM ==
  ASSUME VMInv, NEW p \in Procs, NEW c \in CPUs, ExecStart(p, c)
  PROVE  VMInv'
<1>1. /\ vm_pc[p] = "user" /\ curproc[c] = p
      /\ vm_new' = [vm_new EXCEPT ![p] = p_addrspace[p]]
      /\ p_addrspace' = [p_addrspace EXCEPT ![p] = as_create]
      /\ tlb' = [tlb EXCEPT ![c] = {}]
      /\ vm_pc' = [vm_pc EXCEPT ![p] = "eload"]
      /\ vm_child' = vm_child /\ vm_kin' = vm_kin /\ curproc' = curproc /\ mem' = mem /\ vm_owned' = vm_owned
  BY Spaces0 DEF ExecStart, proc_setas, as_activate, VmGoto
<1>2. /\ p_addrspace \in [Procs -> Space \cup {NoAs}] /\ vm_new \in [Procs -> Space \cup {NoAs}]
      /\ vm_pc \in [Procs -> VmPcs] /\ tlb \in [CPUs -> SUBSET (RegionSet \X VmFrames)]
  BY DEF VMInv, VmTyped
<1>3. PlaceOk(p) /\ ContentOk(p) /\ Shared
  BY DEF VMInv
<1>4. p_addrspace[p] \in Full /\ vm_new[p] = NoAs /\ vm_child[p] = NoProc
  BY <1>1, <1>3 DEF PlaceOk, Complete, Copying
<1>5. /\ vm_new'[p] = p_addrspace[p] /\ p_addrspace'[p] = as_create /\ vm_pc'[p] = "eload"
      /\ \A q \in Procs : q # p => Same(q)
  BY <1>1, <1>2 DEF Same
<1>6. VmTyped'
  <2>1. p_addrspace' \in [Procs -> Space \cup {NoAs}] /\ vm_new' \in [Procs -> Space \cup {NoAs}]
    BY <1>1, <1>2, Spaces0
  <2>2. vm_pc' \in [Procs -> VmPcs] /\ tlb' \in [CPUs -> SUBSET (RegionSet \X VmFrames)]
    BY <1>1, <1>2 DEF VmPcs
  <2> QED
    BY <1>1, <2>1, <2>2 DEF VMInv, VmTyped
<1>7. Shared'
  <2>1. FramesOf(vm_new[p]) = {} /\ FramesOf(p_addrspace'[p]) = {}
    BY <1>4, <1>5, Spaces0
  <2>2. /\ \A s \in Procs : s # p => p_addrspace'[s] = p_addrspace[s]
        /\ \A s \in Procs : s # p => vm_new'[s] = vm_new[s]
    BY <1>5 DEF Same
  <2> QED
    BY <1>1, <1>3, <1>5, <2>1, <2>2, AsToNew
<1>8. PlaceOk(p)'
  BY <1>1, <1>4, <1>5 DEF PlaceOk, Complete, Copying, as_create
<1>9. ContentOk(p)'
  <2>1. Clean(p, p_addrspace[p]) /\ p \in vm_kin[p]
    BY <1>1, <1>3 DEF ContentOk, Complete
  <2>2. Clean(p, vm_new[p])'
    BY <1>1, <1>5, <2>1 DEF Clean
  <2> QED
    BY <1>1, <1>5, <2>1, <2>2 DEF ContentOk, Complete
<1>10. \A d \in CPUs : curproc[d] # p => tlb'[d] = tlb[d]
  BY <1>1, <1>2
<1>11. ASSUME NEW d \in CPUs, curproc[d] = p PROVE TlbOf(d, p)'
  <2>1. d = c /\ tlb'[c] = {}
    BY <1>1, <1>2, <1>11, RunsOn
  <2> QED
    BY <2>1 DEF TlbOf
<1>12. \A q \in Procs : q # p => Same(q) /\ Untouched(q)
  BY <1>1, <1>5, MemSame
<1>13. vm_child'[p] = vm_child[p] /\ vm_pc[p] # "unborn" /\ vm_pc'[p] # "unborn"
  BY <1>1, <1>5
<1> QED
  BY <1>1, <1>6, <1>7, <1>8, <1>9, <1>10, <1>11, <1>12, <1>13, OneProc

\* execv's error path.
LEMMA ExecUndoVM ==
  ASSUME VMInv, NEW p \in Procs, NEW c \in CPUs, ExecUndo(p, c)
  PROVE  VMInv'
<1>1. /\ curproc[c] = p
      /\ vm_pc[p] = "undo" \/ (vm_pc[p] = "argv" /\ vm_new[p] # NoAs)
      /\ p_addrspace' = [p_addrspace EXCEPT ![p] = vm_new[p]]
      /\ vm_new' = [vm_new EXCEPT ![p] = NoAs]
      /\ vm_owned' = vm_owned \ FramesOf(p_addrspace[p])
      /\ vm_pc' = [vm_pc EXCEPT ![p] = "user"]
      /\ vm_child' = vm_child /\ vm_kin' = vm_kin /\ curproc' = curproc /\ mem' = mem
  BY DEF ExecUndo, proc_setas, as_destroy, VmGoto
<1>2. /\ p_addrspace \in [Procs -> Space \cup {NoAs}] /\ vm_new \in [Procs -> Space \cup {NoAs}]
      /\ vm_pc \in [Procs -> VmPcs] /\ tlb \in [CPUs -> SUBSET (RegionSet \X VmFrames)]
      /\ vm_owned \in SUBSET VmFrames
  BY DEF VMInv, VmTyped
<1>3. PlaceOk(p) /\ ContentOk(p) /\ Shared
  BY DEF VMInv
<1>4. vm_new[p] \in Full /\ vm_new[p] # NoAs /\ vm_child[p] = NoProc
  BY <1>1, <1>3, Spaces0 DEF PlaceOk, Copying
<1>5. tlb' = [tlb EXCEPT ![c] = {}]
  BY <1>4 DEF ExecUndo, as_activate
<1>6. /\ vm_new'[p] = NoAs /\ p_addrspace'[p] = vm_new[p] /\ vm_pc'[p] = "user"
      /\ \A q \in Procs : q # p => Same(q)
  BY <1>1, <1>2 DEF Same
<1>7. VmTyped'
  <2>1. p_addrspace' \in [Procs -> Space \cup {NoAs}] /\ vm_new' \in [Procs -> Space \cup {NoAs}]
    BY <1>1, <1>2
  <2>2. vm_pc' \in [Procs -> VmPcs] /\ tlb' \in [CPUs -> SUBSET (RegionSet \X VmFrames)]
    BY <1>1, <1>2, <1>5 DEF VmPcs
  <2>3. vm_owned' \in SUBSET VmFrames
    BY <1>1, <1>2
  <2> QED
    BY <1>1, <2>1, <2>2, <2>3 DEF VMInv, VmTyped
<1>8. Shared'
  <2>1. FramesOf(vm_new'[p]) = {}
    BY <1>6, Spaces0
  <2>2. /\ \A s \in Procs : s # p => p_addrspace'[s] = p_addrspace[s]
        /\ \A s \in Procs : s # p => vm_new'[s] = vm_new[s]
    BY <1>6 DEF Same
  <2> QED
    BY <1>1, <1>3, <1>6, <2>1, <2>2, NewBack
<1>9. PlaceOk(p)'
  BY <1>1, <1>4, <1>6 DEF PlaceOk, Complete, Copying
<1>10. ContentOk(p)'
  <2>1. Clean(p, vm_new[p]) /\ p \in vm_kin[p]
    BY <1>1, <1>3, <1>4 DEF ContentOk
  <2>2. Clean(p, p_addrspace[p])'
    BY <1>1, <1>6, <2>1 DEF Clean
  <2> QED
    BY <1>1, <1>6, <2>1, <2>2 DEF ContentOk
<1>11. \A d \in CPUs : curproc[d] # p => tlb'[d] = tlb[d]
  BY <1>1, <1>2, <1>5
<1>12. ASSUME NEW d \in CPUs, curproc[d] = p PROVE TlbOf(d, p)'
  <2>1. d = c /\ tlb'[c] = {}
    BY <1>1, <1>2, <1>5, <1>12, RunsOn
  <2> QED
    BY <2>1 DEF TlbOf
<1>13. \A q \in Procs : q # p => Same(q) /\ Untouched(q)
  BY <1>1, <1>6, MemSame
<1>14. vm_child'[p] = vm_child[p] /\ vm_pc[p] # "unborn" /\ vm_pc'[p] # "unborn"
  BY <1>1, <1>6
<1> QED
  BY <1>1, <1>7, <1>8, <1>9, <1>10, <1>11, <1>12, <1>13, <1>14, OneProc

\* as_prepare_load takes frames that were nobody's, and zeroes no others.
LEMMA PrepareFacts ==
  ASSUME VMInv, NEW p \in Procs, NEW done, NEW failed, as_prepare_load(Filled, done, failed, p)
  PROVE  /\ Filled \in Space /\ FramesOf(Filled) \cap vm_owned = {}
         /\ vm_owned' = vm_owned \cup FramesOf(Filled) /\ vm_owned' \in SUBSET VmFrames
         /\ mem' \in [VmFrames -> Procs \cup {Zero}]
         /\ \A q \in Procs : Untouched(q)
         /\ \/ /\ Filled \in Full /\ vm_pc' = [vm_pc EXCEPT ![p] = done]
               /\ \A r \in RegionSet : mem'[Filled[r]] = Zero
            \/ vm_pc' = [vm_pc EXCEPT ![p] = failed]
<1> DEFINE as == Filled
<1>1. /\ vm_owned \in SUBSET VmFrames /\ mem \in [VmFrames -> Procs \cup {Zero}] /\ Shared
  BY DEF VMInv, VmTyped
<1>2. /\ as \in Space /\ FramesOf(as) \cap vm_owned = {}
      /\ (\A r \in RegionSet : as[r] # 0) => as \in Full
  BY <1>1, FilledFacts
<1>3. /\ vm_owned' = vm_owned \cup FramesOf(as)
      /\ IF \A r \in RegionSet : as[r] # 0
         THEN mem' = Zeroed(as) /\ VmGoto(p, done)
         ELSE VmGoto(p, failed) /\ UNCHANGED mem
  BY DEF as_prepare_load
<1> HIDE DEF as
<1>4. FramesOf(as) \subseteq VmFrames
  BY <1>2, SpaceFrames
<1>5. vm_owned' \in SUBSET VmFrames
  BY <1>1, <1>3, <1>4
<1>6. CASE \A r \in RegionSet : as[r] # 0
  <2>1. mem' = [f \in VmFrames |-> IF f \in FramesOf(as) THEN Zero ELSE mem[f]] /\ as \in Full
    BY <1>2, <1>3, <1>6 DEF Zeroed
  <2>2. mem' \in [VmFrames -> Procs \cup {Zero}]
    BY <1>1, <2>1
  <2>3. ASSUME NEW q \in Procs PROVE Untouched(q)
    <3>1. FramesOf(p_addrspace[q]) \subseteq vm_owned /\ FramesOf(vm_new[q]) \subseteq vm_owned
      BY <1>1, Apart
    <3>2. ASSUME NEW f \in vm_owned PROVE mem'[f] = mem[f]
      <4>1. f \in VmFrames /\ f \notin FramesOf(as)
        BY <1>1, <1>2
      <4> QED
        BY <2>1, <4>1
    <3> QED
      BY <3>1, <3>2 DEF Untouched
  <2>4. ASSUME NEW r \in RegionSet PROVE mem'[as[r]] = Zero
    <3>1. as[r] \in VmFrames /\ as[r] \in FramesOf(as)
      BY <2>1, FullFrames
    <3> QED
      BY <2>1, <3>1
  <2> QED
    BY <1>2, <1>3, <1>5, <1>6, <2>1, <2>2, <2>3, <2>4 DEF VmGoto, as
<1>7. CASE ~\A r \in RegionSet : as[r] # 0
  <2>1. mem' = mem /\ VmGoto(p, failed)
    BY <1>3, <1>7
  <2>2. \A q \in Procs : Untouched(q)
    BY <2>1, MemSame
  <2> QED
    BY <1>1, <1>2, <1>3, <1>5, <2>1, <2>2 DEF VmGoto, as
<1> QED
  BY <1>6, <1>7

\* load_elf, from runprogram or execv, with memory for every region or not.
LEMMA LoadElfVM ==
  ASSUME VMInv, NEW p \in Procs, load_elf(p)
  PROVE  VMInv'
<1> DEFINE as == Filled
           failed == IF vm_pc[p] = "load" THEN "dead" ELSE "undo"
<1>1. /\ vm_pc[p] \in {"load", "eload"}
      /\ as_prepare_load(Filled, "argv", failed, p)
      /\ p_addrspace' = [p_addrspace EXCEPT ![p] = as]
      /\ vm_new' = vm_new /\ vm_child' = vm_child /\ vm_kin' = vm_kin /\ curproc' = curproc /\ tlb' = tlb
  BY DEF load_elf, proc_setas
<1>0. failed \in {"dead", "undo"} /\ (vm_pc[p] = "load" <=> failed = "dead")
  BY <1>1
<1> HIDE DEF failed
<1>2. /\ p_addrspace \in [Procs -> Space \cup {NoAs}] /\ vm_new \in [Procs -> Space \cup {NoAs}]
      /\ vm_pc \in [Procs -> VmPcs]
  BY DEF VMInv, VmTyped
<1>3. PlaceOk(p) /\ ContentOk(p) /\ Shared
  BY DEF VMInv
<1>4. /\ as \in Space /\ FramesOf(as) \cap vm_owned = {}
      /\ vm_owned' = vm_owned \cup FramesOf(as) /\ vm_owned' \in SUBSET VmFrames
      /\ mem' \in [VmFrames -> Procs \cup {Zero}] /\ \A q \in Procs : Untouched(q)
  BY <1>1, PrepareFacts
<1>5. \/ /\ as \in Full /\ vm_pc' = [vm_pc EXCEPT ![p] = "argv"]
         /\ \A r \in RegionSet : mem'[as[r]] = Zero
      \/ vm_pc' = [vm_pc EXCEPT ![p] = failed]
  BY <1>1, PrepareFacts
<1> HIDE DEF as
<1>6. /\ p_addrspace[p] = as_create /\ vm_child[p] = NoProc
      /\ vm_pc[p] = "load" => vm_new[p] = NoAs
      /\ vm_pc[p] = "eload" => vm_new[p] \in Full
  BY <1>1, <1>3 DEF PlaceOk, Copying
<1>7. vm_pc'[p] \in {"argv", failed} /\ \A q \in Procs : q # p => vm_pc'[q] = vm_pc[q]
  BY <1>2, <1>5
<1>8. p_addrspace'[p] = as /\ \A q \in Procs : q # p => Same(q)
  BY <1>1, <1>2, <1>7 DEF Same
<1>9. VmTyped'
  <2>1. p_addrspace' \in [Procs -> Space \cup {NoAs}]
    BY <1>1, <1>2, <1>4
  <2>2. vm_pc' \in [Procs -> VmPcs]
    BY <1>0, <1>2, <1>5 DEF VmPcs
  <2> QED
    BY <1>1, <1>4, <2>1, <2>2 DEF VMInv, VmTyped
<1>10. Shared'
  <2>1. FramesOf(p_addrspace[p]) = {}
    BY <1>6, Spaces0
  <2>2. \A q \in Procs : vm_new'[q] = vm_new[q] /\ (q # p => p_addrspace'[q] = p_addrspace[q])
    BY <1>1, <1>8 DEF Same
  <2> QED
    BY <1>3, <1>4, <1>8, <2>1, <2>2, AsGets
<1>11. vm_pc'[p] = "argv" => as \in Full /\ \A r \in RegionSet : mem'[as[r]] = Zero
  BY <1>0, <1>2, <1>5
<1>12. PlaceOk(p)'
  BY <1>0, <1>1, <1>4, <1>6, <1>7, <1>8, <1>11 DEF PlaceOk, Complete, Copying
<1>13. ContentOk(p)'
  <2>1. p \in vm_kin[p] /\ (vm_pc[p] = "eload" => Clean(p, vm_new[p]))
    BY <1>3, <1>6, Spaces0 DEF ContentOk
  <2>2. ASSUME vm_pc[p] = "eload" PROVE Clean(p, vm_new[p])'
    <3>1. \A f \in FramesOf(vm_new[p]) : mem'[f] = mem[f]
      BY <1>4 DEF Untouched
    <3>2. \A r \in RegionSet : mem'[vm_new[p][r]] \in {Zero} \cup vm_kin'[p]
      BY <1>1, <1>6, <2>1, <2>2, <3>1, CleanSame
    <3> QED
      BY <1>1, <3>2 DEF Clean
  <2>3. vm_pc'[p] = "argv" => Clean(p, p_addrspace[p])'
    BY <1>8, <1>11 DEF Clean
  <2> QED
    BY <1>0, <1>1, <1>6, <1>7, <2>1, <2>2, <2>3 DEF ContentOk, Complete
<1>14. ASSUME NEW d \in CPUs, curproc[d] = p PROVE TlbOf(d, p)'
  <2>1. tlb[d] = {}
    <3>1. p # NoProc /\ TlbOk(d)
      BY VMAssumption DEF VMInv
    <3> QED
      BY <1>1, <1>14, <3>1 DEF TlbOk, TlbOf
  <2> QED
    BY <1>1, <2>1 DEF TlbOf
<1>15. \A q \in Procs : q # p => Same(q) /\ Untouched(q)
  BY <1>4, <1>8
<1>16. vm_child'[p] = vm_child[p] /\ vm_pc[p] # "unborn" /\ vm_pc'[p] # "unborn"
  BY <1>0, <1>1, <1>7
<1>17. \A d \in CPUs : curproc[d] # p => tlb'[d] = tlb[d]
  BY <1>1
<1> QED
  BY <1>1, <1>9, <1>10, <1>12, <1>13, <1>14, <1>15, <1>16, <1>17, OneProc

\* The TLB under a process that keeps its complete address space, or goes to a place
\* where it does not touch user memory.
LEMMA TlbKept ==
  ASSUME VMInv, NEW p \in Procs, NEW d \in CPUs, curproc[d] = p, tlb'[d] = tlb[d],
         vm_pc'[p] \notin {"load", "eload"},
         vm_pc'[p] \in Complete => vm_pc[p] \in Complete /\ p_addrspace'[p] = p_addrspace[p]
  PROVE  TlbOf(d, p)'
<1>1. p # NoProc /\ TlbOk(d)
  BY VMAssumption DEF VMInv
<1> QED
  BY <1>1 DEF TlbOk, TlbOf

\* as_copy prepares the second address space.
LEMMA AsCopyVM ==
  ASSUME VMInv, NEW p \in Procs, as_copy(p)
  PROVE  VMInv'
<1> DEFINE as == Filled
<1>1. /\ vm_pc[p] = "copy"
      /\ as_prepare_load(Filled, "move", "uncopy", p)
      /\ vm_new' = [vm_new EXCEPT ![p] = as]
      /\ p_addrspace' = p_addrspace /\ vm_child' = vm_child /\ vm_kin' = vm_kin
      /\ curproc' = curproc /\ tlb' = tlb
  BY DEF as_copy
<1>2. /\ p_addrspace \in [Procs -> Space \cup {NoAs}] /\ vm_new \in [Procs -> Space \cup {NoAs}]
      /\ vm_pc \in [Procs -> VmPcs]
  BY DEF VMInv, VmTyped
<1>3. PlaceOk(p) /\ ContentOk(p) /\ Shared
  BY DEF VMInv
<1>4. /\ as \in Space /\ FramesOf(as) \cap vm_owned = {}
      /\ vm_owned' = vm_owned \cup FramesOf(as) /\ vm_owned' \in SUBSET VmFrames
      /\ mem' \in [VmFrames -> Procs \cup {Zero}] /\ \A q \in Procs : Untouched(q)
  BY <1>1, PrepareFacts
<1>5. \/ as \in Full /\ vm_pc' = [vm_pc EXCEPT ![p] = "move"]
      \/ vm_pc' = [vm_pc EXCEPT ![p] = "uncopy"]
  BY <1>1, PrepareFacts
<1> HIDE DEF as
<1>6. p_addrspace[p] \in Full /\ vm_new[p] = as_create /\ vm_child[p] # NoProc
  BY <1>1, <1>3 DEF PlaceOk, Copying, Complete
<1>7. vm_pc'[p] \in {"move", "uncopy"} /\ \A q \in Procs : q # p => vm_pc'[q] = vm_pc[q]
  BY <1>2, <1>5
<1>8. vm_new'[p] = as /\ \A q \in Procs : q # p => Same(q)
  BY <1>1, <1>2, <1>7 DEF Same
<1>9. VmTyped'
  <2>1. vm_new' \in [Procs -> Space \cup {NoAs}]
    BY <1>1, <1>2, <1>4
  <2>2. vm_pc' \in [Procs -> VmPcs]
    BY <1>2, <1>5 DEF VmPcs
  <2> QED
    BY <1>1, <1>4, <2>1, <2>2 DEF VMInv, VmTyped
<1>10. Shared'
  <2>1. FramesOf(vm_new[p]) = {}
    BY <1>6, Spaces0
  <2>2. \A q \in Procs : p_addrspace'[q] = p_addrspace[q] /\ (q # p => vm_new'[q] = vm_new[q])
    BY <1>1, <1>8 DEF Same
  <2> QED
    BY <1>3, <1>4, <1>8, <2>1, <2>2, NewGets
<1>11. vm_pc'[p] = "move" => as \in Full
  BY <1>2, <1>5
<1>12. PlaceOk(p)'
  BY <1>1, <1>4, <1>6, <1>7, <1>8, <1>11 DEF PlaceOk, Complete, Copying
<1>13. ContentOk(p)'
  <2>1. p \in vm_kin[p] /\ Clean(p, p_addrspace[p])
    BY <1>1, <1>3 DEF ContentOk, Complete
  <2>2. \A f \in FramesOf(p_addrspace[p]) : mem'[f] = mem[f]
    BY <1>4 DEF Untouched
  <2>3. \A r \in RegionSet : mem'[p_addrspace[p][r]] \in {Zero} \cup vm_kin'[p]
    BY <1>1, <1>6, <2>1, <2>2, CleanSame
  <2> QED
    BY <1>1, <1>7, <2>1, <2>3 DEF ContentOk, Clean
<1>14. ASSUME NEW d \in CPUs, curproc[d] = p PROVE TlbOf(d, p)'
  BY <1>1, <1>7, <1>14, TlbKept DEF Complete
<1>15. \A q \in Procs : q # p => Same(q) /\ Untouched(q)
  BY <1>4, <1>8
<1>16. vm_child'[p] = vm_child[p] /\ vm_pc[p] # "unborn" /\ vm_pc'[p] # "unborn"
  BY <1>1, <1>7
<1>17. \A d \in CPUs : curproc[d] # p => tlb'[d] = tlb[d]
  BY <1>1
<1> QED
  BY <1>1, <1>9, <1>10, <1>12, <1>13, <1>14, <1>15, <1>16, <1>17, OneProc

\* The second address space goes, and the process returns to user mode: execv that
\* succeeds, as_copy that fails, and runprogram, which has none.
LEMMA DropNewVM ==
  ASSUME VMInv, NEW p \in Procs, vm_pc[p] \in Complete,
         vm_new' = [vm_new EXCEPT ![p] = NoAs],
         vm_owned' = vm_owned \ FramesOf(vm_new[p]),
         vm_pc' = [vm_pc EXCEPT ![p] = "user"],
         vm_child' = [vm_child EXCEPT ![p] = NoProc],
         p_addrspace' = p_addrspace, vm_kin' = vm_kin, curproc' = curproc, tlb' = tlb, mem' = mem
  PROVE  VMInv'
<1>2. /\ vm_new \in [Procs -> Space \cup {NoAs}] /\ vm_pc \in [Procs -> VmPcs]
      /\ vm_child \in [Procs -> Procs \cup {NoProc}] /\ vm_owned \in SUBSET VmFrames
  BY DEF VMInv, VmTyped
<1>3. PlaceOk(p) /\ ContentOk(p) /\ Shared
  BY DEF VMInv
<1>4. p_addrspace[p] \in Full
  BY <1>3 DEF PlaceOk
<1>5. /\ vm_new'[p] = NoAs /\ vm_pc'[p] = "user" /\ vm_child'[p] = NoProc
      /\ \A q \in Procs : q # p => Same(q)
  BY <1>2 DEF Same
<1>6. VmTyped'
  <2>1. vm_new' \in [Procs -> Space \cup {NoAs}] /\ vm_child' \in [Procs -> Procs \cup {NoProc}]
    BY <1>2
  <2>2. vm_pc' \in [Procs -> VmPcs] /\ vm_owned' \in SUBSET VmFrames
    BY <1>2 DEF VmPcs
  <2> QED
    BY <2>1, <2>2 DEF VMInv, VmTyped
<1>7. Shared'
  <2>1. FramesOf(vm_new'[p]) = {}
    BY <1>5, Spaces0
  <2>2. \A q \in Procs : p_addrspace'[q] = p_addrspace[q] /\ (q # p => vm_new'[q] = vm_new[q])
    BY <1>5 DEF Same
  <2> QED
    BY <1>3, <2>1, <2>2, NewLoses
<1>8. PlaceOk(p)'
  BY <1>4, <1>5 DEF PlaceOk, Copying
<1>9. ContentOk(p)'
  BY <1>3, <1>5 DEF ContentOk, Clean
<1>10. ASSUME NEW d \in CPUs, curproc[d] = p PROVE TlbOf(d, p)'
  BY <1>5, <1>10, TlbKept
<1>11. \A q \in Procs : q # p => Same(q) /\ Untouched(q)
  BY <1>5, MemSame
<1>12. vm_pc[p] # "unborn" /\ vm_pc'[p] # "unborn"
  BY <1>5 DEF Complete
<1> QED
  BY <1>5, <1>6, <1>7, <1>8, <1>9, <1>10, <1>11, <1>12, OneProc

\* execv and runprogram warp to user mode.
LEMMA EnterVM ==
  ASSUME VMInv, NEW p \in Procs, enter_new_process(p)
  PROVE  VMInv'
<1>1. /\ vm_pc[p] = "argv" /\ vm_child' = vm_child
      /\ IF vm_new[p] = NoAs THEN UNCHANGED vm_owned ELSE as_destroy(vm_new[p])
  BY DEF enter_new_process
<1>2. vm_owned' = vm_owned \ FramesOf(vm_new[p])
  BY <1>1, Spaces0 DEF as_destroy
<1>3. PlaceOk(p) /\ vm_child \in [Procs -> Procs \cup {NoProc}]
  BY DEF VMInv, VmTyped
<1>4. vm_child[p] = NoProc
  BY <1>1, <1>3 DEF PlaceOk, Copying
<1>5. vm_child' = [vm_child EXCEPT ![p] = NoProc]
  BY <1>1, <1>3, <1>4
<1>6. vm_pc[p] \in Complete
  BY <1>1 DEF Complete
<1> QED
  BY <1>2, <1>5, <1>6, DropNewVM DEF enter_new_process, VmGoto

\* as_copy gives up.
LEMMA CopyFailedVM ==
  ASSUME VMInv, NEW p \in Procs, CopyFailed(p)
  PROVE  VMInv'
<1>1. vm_pc[p] \in Complete /\ vm_owned' = vm_owned \ FramesOf(vm_new[p])
  BY DEF CopyFailed, Complete, as_destroy
<1> QED
  BY <1>1, DropNewVM DEF CopyFailed, VmGoto

\* A process that dies, by sys__exit or by a fault, or goes to execv's error path,
\* keeps its address spaces.
LEMMA LeaveVM ==
  ASSUME VMInv, NEW p \in Procs, NEW l \in {"dead", "undo"}, vm_pc[p] \in {"user", "argv"},
         l = "dead" => vm_new[p] = NoAs,
         l = "undo" => vm_pc[p] = "argv" /\ vm_new[p] # NoAs,
         vm_pc' = [vm_pc EXCEPT ![p] = l],
         UNCHANGED <<p_addrspace, vm_new, vm_child, vm_kin, curproc, tlb, mem, vm_owned>>
  PROVE  VMInv'
<1>0. /\ p_addrspace' = p_addrspace /\ vm_new' = vm_new /\ vm_child' = vm_child /\ vm_kin' = vm_kin
      /\ curproc' = curproc /\ tlb' = tlb /\ mem' = mem /\ vm_owned' = vm_owned
  OBVIOUS
<1>1. vm_pc \in [Procs -> VmPcs] /\ PlaceOk(p) /\ ContentOk(p) /\ Shared
  BY DEF VMInv, VmTyped
<1>2. vm_pc'[p] = l /\ \A q \in Procs : q # p => Same(q)
  BY <1>0, <1>1 DEF Same
<1>3. VmTyped'
  <2>1. vm_pc' \in [Procs -> VmPcs]
    BY <1>1 DEF VmPcs
  <2> QED
    BY <1>0, <2>1 DEF VMInv, VmTyped
<1>4. Shared'
  BY <1>0, <1>1, SharedSame
<1>5. p_addrspace[p] \in Full /\ (l = "undo" => vm_new[p] \in Full) /\ vm_child[p] = NoProc
  BY <1>1 DEF PlaceOk, Complete, Copying
<1>6. p_addrspace[p] \in Space
  BY <1>5, FullFrames
<1>7. PlaceOk(p)'
  BY <1>0, <1>2, <1>5, <1>6 DEF PlaceOk, Complete, Copying
<1>8. ContentOk(p)'
  BY <1>0, <1>1, <1>2 DEF ContentOk, Clean, Complete
<1>9. ASSUME NEW d \in CPUs, curproc[d] = p PROVE TlbOf(d, p)'
  BY <1>2 DEF TlbOf, Complete
<1>10. \A q \in Procs : q # p => Same(q) /\ Untouched(q)
  BY <1>0, <1>2, MemSame
<1>11. vm_pc[p] # "unborn" /\ vm_pc'[p] # "unborn"
  BY <1>2
<1> QED
  BY <1>0, <1>3, <1>4, <1>7, <1>8, <1>9, <1>10, <1>11, OneProc

\* sys__exit.
LEMMA ExitVM ==
  ASSUME VMInv, NEW p \in Procs, sys__exit(p)
  PROVE  VMInv'
<1>1. vm_pc[p] = "user" /\ vm_pc' = [vm_pc EXCEPT ![p] = "dead"] /\ PlaceOk(p)
  BY DEF sys__exit, VmGoto, VMInv
<1>2. vm_new[p] = NoAs
  BY <1>1 DEF PlaceOk
<1> QED
  BY <1>1, <1>2, LeaveVM DEF sys__exit

\* The parent reaps: every frame goes back.
LEMMA DestroyVM ==
  ASSUME VMInv, NEW p \in Procs, proc_destroy(p)
  PROVE  VMInv'
<1> DEFINE l == IF Running(p) = {} THEN "unborn" ELSE "gone"
<1>1. /\ vm_pc[p] = "dead" /\ vm_owned' = vm_owned \ FramesOf(p_addrspace[p])
      /\ p_addrspace' = [p_addrspace EXCEPT ![p] = NoAs] /\ vm_pc' = [vm_pc EXCEPT ![p] = l]
      /\ vm_new' = vm_new /\ vm_child' = vm_child /\ vm_kin' = vm_kin /\ curproc' = curproc
      /\ tlb' = tlb /\ mem' = mem
  BY DEF proc_destroy, as_destroy, proc_setas, VmGoto
<1>2. l \in {"unborn", "gone"} /\ (l # "unborn" \/ Running(p) = {})
  OBVIOUS
<1> HIDE DEF l
<1>3. /\ vm_pc \in [Procs -> VmPcs] /\ p_addrspace \in [Procs -> Space \cup {NoAs}]
      /\ vm_owned \in SUBSET VmFrames /\ PlaceOk(p) /\ ContentOk(p) /\ Shared
  BY DEF VMInv, VmTyped
<1>4. vm_pc'[p] = l /\ p_addrspace'[p] = NoAs /\ \A q \in Procs : q # p => Same(q)
  BY <1>1, <1>3 DEF Same
<1>5. VmTyped'
  <2>1. vm_pc' \in [Procs -> VmPcs]
    BY <1>1, <1>2, <1>3 DEF VmPcs
  <2>2. p_addrspace' \in [Procs -> Space \cup {NoAs}] /\ vm_owned' \in SUBSET VmFrames
    BY <1>1, <1>3
  <2> QED
    BY <1>1, <2>1, <2>2 DEF VMInv, VmTyped
<1>6. Shared'
  <2>1. FramesOf(p_addrspace'[p]) = {}
    BY <1>4, Spaces0
  <2>2. \A q \in Procs : vm_new'[q] = vm_new[q] /\ (q # p => p_addrspace'[q] = p_addrspace[q])
    BY <1>1, <1>4 DEF Same
  <2> QED
    BY <1>1, <1>3, <2>1, <2>2, AsLoses
<1>7. vm_new[p] = NoAs /\ vm_child[p] = NoProc
  BY <1>1, <1>3 DEF PlaceOk, Copying
<1>8. PlaceOk(p)'
  BY <1>1, <1>2, <1>4, <1>7 DEF PlaceOk, Complete, Copying
<1>9. ContentOk(p)'
  BY <1>1, <1>2, <1>3, <1>4 DEF ContentOk, Complete
<1>10. ASSUME NEW d \in CPUs, curproc[d] = p PROVE TlbOf(d, p)'
  BY <1>2, <1>4 DEF TlbOf, Complete
<1>11. \A q \in Procs : q # p => Same(q) /\ Untouched(q)
  BY <1>1, <1>4, MemSame
<1>12. /\ vm_pc[p] # "unborn" /\ (vm_pc'[p] # "unborn" \/ Running(p) = {})
       /\ vm_child'[p] = vm_child[p] /\ \A d \in CPUs : curproc[d] # p => tlb'[d] = tlb[d]
  BY <1>1, <1>2, <1>4
<1> QED
  BY <1>1, <1>5, <1>6, <1>8, <1>9, <1>10, <1>11, <1>12, OneProc

\* The store of a process into a region of its own.
LEMMA StoreVM ==
  ASSUME VMInv, NEW p \in Procs, NEW c \in CPUs, NEW r \in RegionSet, curproc[c] = p,
         vm_pc[p] \in {"user", "argv"},
         tlb' = [tlb EXCEPT ![c] = tlb[c] \cup {<<r, p_addrspace[p][r]>>}],
         mem' = [mem EXCEPT ![p_addrspace[p][r]] = p],
         UNCHANGED <<p_addrspace, vm_new, vm_pc, vm_child, vm_kin, curproc, vm_owned>>
  PROVE  VMInv'
<1> DEFINE f == p_addrspace[p][r]
<1>0. /\ p_addrspace' = p_addrspace /\ vm_new' = vm_new /\ vm_child' = vm_child /\ vm_kin' = vm_kin
      /\ curproc' = curproc /\ vm_pc' = vm_pc /\ vm_owned' = vm_owned
      /\ mem' = [mem EXCEPT ![f] = p]
  OBVIOUS
<1>1. /\ tlb \in [CPUs -> SUBSET (RegionSet \X VmFrames)] /\ mem \in [VmFrames -> Procs \cup {Zero}]
      /\ PlaceOk(p) /\ ContentOk(p) /\ Shared /\ TlbOk(c)
  BY DEF VMInv, VmTyped
<1>2. vm_pc[p] \in Complete /\ p # NoProc
  BY VMAssumption DEF Complete
<1>3. p_addrspace[p] \in Full
  BY <1>1, <1>2 DEF PlaceOk
<1>4. f \in VmFrames /\ f \in FramesOf(p_addrspace[p])
  BY <1>3, FullFrames
<1>5. <<r, f>> \in RegionSet \X VmFrames /\ <<r, f>>[1] = r /\ <<r, f>>[2] = f
  BY SMT, <1>4
<1>6. tlb'[c] = tlb[c] \cup {<<r, f>>} /\ \A d \in CPUs : d # c => tlb'[d] = tlb[d]
  BY <1>1
<1>7. \A e \in tlb[c] : p_addrspace[p][e[1]] = e[2]
  BY <1>1, <1>2 DEF TlbOk, TlbOf
<1>8. ASSUME NEW e \in tlb'[c] PROVE p_addrspace[p][e[1]] = e[2]
  <2>1. e \in tlb[c] \/ e = <<r, f>>
    BY <1>6
  <2>2. CASE e = <<r, f>>
    BY <1>5, <2>2
  <2> QED
    BY <1>7, <2>1, <2>2
<1>9. VmTyped'
  <2>1. tlb' \in [CPUs -> SUBSET (RegionSet \X VmFrames)]
    BY <1>1, <1>5
  <2>2. mem' \in [VmFrames -> Procs \cup {Zero}]
    BY <1>0, <1>1, <1>4
  <2> QED
    BY <1>0, <2>1, <2>2 DEF VMInv, VmTyped
<1>10. Shared'
  BY <1>0, <1>1, SharedSame
<1> HIDE DEF f
<1>11. mem'[f] = p /\ \A g \in VmFrames : g # f => mem'[g] = mem[g]
  BY <1>0, <1>1, <1>4
<1>12. ASSUME NEW q \in Procs, q # p PROVE Same(q) /\ Untouched(q)
  <2>1. f \notin FramesOf(p_addrspace[q]) /\ f \notin FramesOf(vm_new[q])
    BY <1>1, <1>4, <1>12, Apart
  <2>2. p_addrspace[q] \in Space \cup {NoAs} /\ vm_new[q] \in Space \cup {NoAs}
    BY DEF VMInv, VmTyped
  <2>3. FramesOf(p_addrspace[q]) \subseteq VmFrames /\ FramesOf(vm_new[q]) \subseteq VmFrames
    BY <2>2, SpaceFrames
  <2>4. Untouched(q)
    BY <1>11, <2>1, <2>3 DEF Untouched
  <2> QED
    BY <1>0, <2>4 DEF Same
<1>13. PlaceOk(p)'
  BY <1>0, <1>1, SamePlace DEF Same
<1>14. ContentOk(p)'
  <2>1. p \in vm_kin[p] /\ Clean(p, p_addrspace[p])
    BY <1>1, <1>2 DEF ContentOk
  <2>2. ASSUME NEW s \in RegionSet PROVE mem'[p_addrspace[p][s]] \in {Zero} \cup vm_kin[p]
    <3>1. p_addrspace[p][s] \in VmFrames /\ mem[p_addrspace[p][s]] \in {Zero} \cup vm_kin[p]
      BY <1>3, <2>1, FullFrames DEF Clean
    <3> QED
      BY <1>11, <2>1, <3>1
  <2>3. ASSUME vm_pc[p] \in {"eload", "undo", "argv"}, vm_new[p] # NoAs PROVE Clean(p, vm_new[p])'
    <3>1. vm_new[p] \in Full /\ Clean(p, vm_new[p])
      BY <1>1, <2>3 DEF PlaceOk, ContentOk
    <3>2. f \notin FramesOf(vm_new[p])
      BY <1>1, <1>4, Apart
    <3>3. \A s \in RegionSet : vm_new[p][s] \in VmFrames /\ vm_new[p][s] # f
      BY <3>1, <3>2, FullFrames
    <3> QED
      BY <1>0, <1>11, <3>1, <3>3 DEF Clean
  <2> QED
    BY <1>0, <2>1, <2>2, <2>3 DEF ContentOk, Clean
<1>15. ASSUME NEW d \in CPUs, curproc[d] = p PROVE TlbOf(d, p)'
  <2>1. d = c
    BY <1>15, RunsOn
  <2>2. vm_pc'[p] \notin {"load", "eload"}
    BY <1>0
  <2> QED
    BY <1>0, <1>8, <2>1, <2>2 DEF TlbOf
<1>16. \A q \in Procs : q # p => Same(q) /\ Untouched(q)
  BY <1>12
<1>17. /\ vm_pc[p] # "unborn" /\ vm_pc'[p] # "unborn"
       /\ vm_child'[p] = vm_child[p] /\ \A d \in CPUs : curproc[d] # p => tlb'[d] = tlb[d]
  BY <1>0, <1>6
<1> QED
  BY <1>0, <1>9, <1>10, <1>13, <1>14, <1>15, <1>16, <1>17, OneProc

\* vm_fault: the store, or the end of the process.
LEMMA FaultVM ==
  ASSUME VMInv, NEW c \in CPUs, NEW r \in RegionSet, vm_fault(c, r)
  PROVE  VMInv'
<1> DEFINE p == curproc[c]
<1>1. p \in Procs /\ vm_pc[p] \in {"user", "argv"} /\ PlaceOk(p)
  BY DEF vm_fault, VMInv, VmTyped, Touching
<1>2. CASE Cardinality(tlb[c]) < NUM_TLB
  <2>1. /\ tlb' = [tlb EXCEPT ![c] = tlb[c] \cup {<<r, p_addrspace[p][r]>>}]
        /\ mem' = [mem EXCEPT ![p_addrspace[p][r]] = p]
        /\ UNCHANGED <<p_addrspace, vm_new, vm_pc, vm_child, vm_kin, curproc, vm_owned>>
    BY <1>2 DEF vm_fault
  <2> QED
    BY <1>1, <2>1, StoreVM
<1>3. CASE ~(Cardinality(tlb[c]) < NUM_TLB)
  <2> DEFINE l == IF vm_pc[p] = "user" \/ vm_new[p] = NoAs THEN "dead" ELSE "undo"
  <2>1. /\ vm_pc' = [vm_pc EXCEPT ![p] = l]
        /\ UNCHANGED <<p_addrspace, vm_new, vm_child, vm_kin, curproc, tlb, mem, vm_owned>>
    BY <1>3 DEF vm_fault, VmGoto
  <2>2. vm_pc[p] = "user" => vm_new[p] = NoAs
    BY <1>1 DEF PlaceOk
  <2>3. /\ l \in {"dead", "undo"} /\ (l = "dead" => vm_new[p] = NoAs)
        /\ (l = "undo" => vm_pc[p] = "argv" /\ vm_new[p] # NoAs)
    BY <1>1, <2>2
  <2> HIDE DEF l, p
  <2> QED
    BY <1>1, <2>1, <2>3, LeaveVM
<1> QED
  BY <1>2, <1>3

\* runprogram: a new process on an idle processor, with an empty address space and
\* an empty TLB.
LEMMA RunVM ==
  ASSUME VMInv, NEW p \in Procs, NEW c \in CPUs, runprogram(p, c)
  PROVE  VMInv'
<1>1. /\ vm_pc[p] = "unborn" /\ curproc[c] = NoProc /\ Running(p) = {}
      /\ \A q \in Procs : vm_child[q] # p
      /\ curproc' = [curproc EXCEPT ![c] = p] /\ p_addrspace' = [p_addrspace EXCEPT ![p] = as_create]
      /\ tlb' = [tlb EXCEPT ![c] = {}] /\ vm_pc' = [vm_pc EXCEPT ![p] = "load"]
      /\ vm_kin' = [vm_kin EXCEPT ![p] = {p}]
      /\ vm_new' = vm_new /\ vm_child' = vm_child /\ mem' = mem /\ vm_owned' = vm_owned
  BY Spaces0 DEF runprogram, proc_setas, as_activate, VmGoto
<1>2. /\ vm_pc \in [Procs -> VmPcs] /\ p_addrspace \in [Procs -> Space \cup {NoAs}]
      /\ curproc \in [CPUs -> Procs \cup {NoProc}] /\ vm_kin \in [Procs -> SUBSET Procs]
      /\ tlb \in [CPUs -> SUBSET (RegionSet \X VmFrames)]
      /\ \A q \in Procs : vm_child[q] \in Procs \cup {NoProc}
      /\ PlaceOk(p) /\ Shared /\ p # NoProc
  BY VMAssumption DEF VMInv, VmTyped
<1>3. p_addrspace[p] = NoAs /\ vm_new[p] = NoAs /\ vm_child[p] = NoProc
  BY <1>1, <1>2 DEF PlaceOk, Copying
<1>4. /\ vm_pc'[p] = "load" /\ p_addrspace'[p] = as_create /\ vm_kin'[p] = {p}
      /\ \A q \in Procs : q # p => Same(q)
  BY <1>1, <1>2 DEF Same
<1>5. /\ curproc'[c] = p /\ tlb'[c] = {}
      /\ \A d \in CPUs : d # c => curproc'[d] = curproc[d] /\ tlb'[d] = tlb[d]
      /\ \A d \in CPUs : curproc[d] # p
  BY <1>1, <1>2 DEF Running
<1>6. VmTyped'
  <2>1. vm_pc' \in [Procs -> VmPcs] /\ p_addrspace' \in [Procs -> Space \cup {NoAs}]
    BY <1>1, <1>2, Spaces0 DEF VmPcs
  <2>2. curproc' \in [CPUs -> Procs \cup {NoProc}] /\ vm_kin' \in [Procs -> SUBSET Procs]
    BY <1>1, <1>2
  <2>3. tlb' \in [CPUs -> SUBSET (RegionSet \X VmFrames)]
    BY <1>1, <1>2
  <2> QED
    BY <1>1, <2>1, <2>2, <2>3 DEF VMInv, VmTyped
<1>7. Children'
  <2>1. \A q \in Procs : q # p => vm_pc'[q] = vm_pc[q]
    BY <1>4 DEF Same
  <2> QED
    BY <1>1, <1>2, <2>1 DEF VMInv, Children
<1>8. OnCpu'
  <2>1. \A q \in Procs : q # p => vm_pc'[q] = vm_pc[q]
    BY <1>4 DEF Same
  <2>2. ASSUME NEW d \in CPUs, curproc'[d] # NoProc PROVE vm_pc'[curproc'[d]] # "unborn"
    <3>1. CASE d = c
      BY <1>4, <1>5, <3>1
    <3>2. CASE d # c
      <4>1. curproc'[d] = curproc[d] /\ curproc[d] \in Procs /\ curproc[d] # p
        BY <1>2, <1>5, <2>2, <3>2
      <4> QED
        BY <2>1, <2>2, <4>1 DEF VMInv, OnCpu
    <3> QED
      BY <3>1, <3>2
  <2>3. ASSUME NEW d \in CPUs, NEW e \in CPUs, curproc'[d] # NoProc, curproc'[d] = curproc'[e]
        PROVE  d = e
    <3>1. CASE d = c \/ e = c
      BY <1>5, <2>3, <3>1
    <3>2. CASE d # c /\ e # c
      BY <1>5, <2>3, <3>2 DEF VMInv, OnCpu
    <3> QED
      BY <3>1, <3>2
  <2> QED
    BY <2>2, <2>3 DEF OnCpu
<1>9. Shared'
  <2>1. FramesOf(p_addrspace[p]) = {} /\ FramesOf(p_addrspace'[p]) = {}
    BY <1>3, <1>4, Spaces0
  <2>2. \A q \in Procs : FramesOf(p_addrspace'[q]) = FramesOf(p_addrspace[q])
    BY <1>4, <2>1 DEF Same
  <2> QED
    BY <1>1, <1>2, <2>2, SharedSame
<1>10. ASSUME NEW q \in Procs PROVE PlaceOk(q)' /\ ContentOk(q)'
  <2>1. CASE q = p
    <3>1. PlaceOk(p)'
      BY <1>1, <1>3, <1>4 DEF PlaceOk, Complete, Copying, as_create
    <3>2. ContentOk(p)'
      BY <1>4 DEF ContentOk, Complete
    <3> QED
      BY <2>1, <3>1, <3>2
  <2>2. CASE q # p
    <3>1. PlaceOk(q) /\ ContentOk(q) /\ Same(q) /\ Untouched(q)
      BY <1>1, <1>4, <2>2, MemSame DEF VMInv
    <3> QED
      BY <3>1, SamePlace, SameContent DEF Untouched
  <2> QED
    BY <2>1, <2>2
<1>11. ASSUME NEW d \in CPUs PROVE TlbOk(d)'
  <2>1. CASE d = c
    BY <1>4, <1>5, <2>1 DEF TlbOk, TlbOf, Complete
  <2>2. CASE d # c
    <3>1. TlbOk(d) /\ curproc[d] \in Procs \cup {NoProc} /\ curproc[d] # p
      BY <1>2, <1>5 DEF VMInv
    <3>2. curproc[d] # NoProc => /\ p_addrspace'[curproc[d]] = p_addrspace[curproc[d]]
                                 /\ vm_pc'[curproc[d]] = vm_pc[curproc[d]]
      BY <1>4, <3>1 DEF Same
    <3> QED
      BY <1>5, <2>2, <3>1, <3>2, SameTlb
  <2> QED
    BY <2>1, <2>2
<1> QED
  BY <1>6, <1>7, <1>8, <1>9, <1>10, <1>11 DEF VMInv

\* sys_fork: the child is picked, and nothing of it exists yet.
LEMMA ForkVM ==
  ASSUME VMInv, NEW p \in Procs, NEW k \in Procs, sys_fork(p, k)
  PROVE  VMInv'
<1>1. /\ vm_pc[p] = "user" /\ vm_pc[k] = "unborn" /\ \A s \in Procs : vm_child[s] # k
      /\ vm_new' = [vm_new EXCEPT ![p] = as_create] /\ vm_child' = [vm_child EXCEPT ![p] = k]
      /\ vm_pc' = [vm_pc EXCEPT ![p] = "copy"]
      /\ p_addrspace' = p_addrspace /\ vm_kin' = vm_kin /\ curproc' = curproc /\ tlb' = tlb
      /\ mem' = mem /\ vm_owned' = vm_owned
  BY DEF sys_fork, VmGoto
<1>2. /\ vm_pc \in [Procs -> VmPcs] /\ vm_new \in [Procs -> Space \cup {NoAs}]
      /\ vm_child \in [Procs -> Procs \cup {NoProc}] /\ curproc \in [CPUs -> Procs \cup {NoProc}]
      /\ PlaceOk(p) /\ ContentOk(p) /\ Shared /\ k # NoProc /\ p # k
  BY <1>1, VMAssumption DEF VMInv, VmTyped
<1>3. p_addrspace[p] \in Full /\ vm_new[p] = NoAs
  BY <1>1, <1>2 DEF PlaceOk, Complete
<1>4. /\ vm_pc'[p] = "copy" /\ vm_new'[p] = as_create /\ vm_child'[p] = k
      /\ \A q \in Procs : q # p => Same(q)
  BY <1>1, <1>2 DEF Same
<1>5. VmTyped'
  <2>1. vm_pc' \in [Procs -> VmPcs] /\ vm_new' \in [Procs -> Space \cup {NoAs}]
    BY <1>1, <1>2, Spaces0 DEF VmPcs
  <2>2. vm_child' \in [Procs -> Procs \cup {NoProc}]
    BY <1>1, <1>2
  <2> QED
    BY <1>1, <2>1, <2>2 DEF VMInv, VmTyped
<1>6. Children'
  <2>1. /\ \A q \in Procs : q # p => vm_pc'[q] = vm_pc[q] /\ vm_child'[q] = vm_child[q]
        /\ \A q \in Procs : vm_child[q] \in Procs \cup {NoProc}
    BY <1>2, <1>4 DEF Same
  <2>2. ASSUME NEW q \in Procs, vm_child'[q] # NoProc PROVE vm_pc'[vm_child'[q]] = "unborn"
    <3>1. CASE q = p
      BY <1>1, <1>2, <1>4, <2>1, <3>1
    <3>2. CASE q # p
      <4>1. vm_child'[q] = vm_child[q] /\ vm_child[q] \in Procs /\ vm_pc[vm_child[q]] = "unborn"
        BY <2>1, <2>2, <3>2 DEF VMInv, Children
      <4> QED
        BY <1>1, <2>1, <4>1
    <3> QED
      BY <3>1, <3>2
  <2>3. ASSUME NEW q \in Procs, NEW s \in Procs, vm_child'[q] # NoProc, vm_child'[q] = vm_child'[s]
        PROVE  q = s
    <3>1. CASE q = p \/ s = p
      BY <1>1, <1>4, <2>1, <2>3, <3>1
    <3>2. CASE q # p /\ s # p
      BY <2>1, <2>3, <3>2 DEF VMInv, Children
    <3> QED
      BY <3>1, <3>2
  <2> QED
    BY <2>2, <2>3 DEF Children
<1>7. OnCpu'
  <2>1. \A q \in Procs : vm_pc'[q] = "unborn" => vm_pc[q] = "unborn"
    BY <1>4 DEF Same
  <2> QED
    BY <1>1, <1>2, <2>1 DEF VMInv, OnCpu
<1>8. Shared'
  <2>1. FramesOf(vm_new[p]) = {} /\ FramesOf(vm_new'[p]) = {}
    BY <1>3, <1>4, Spaces0
  <2>2. \A q \in Procs : FramesOf(vm_new'[q]) = FramesOf(vm_new[q])
    BY <1>4, <2>1 DEF Same
  <2> QED
    BY <1>1, <1>2, <2>2, SharedSame
<1>9. ASSUME NEW q \in Procs PROVE PlaceOk(q)' /\ ContentOk(q)'
  <2>1. CASE q = p
    <3>1. PlaceOk(p)'
      BY <1>1, <1>2, <1>3, <1>4 DEF PlaceOk, Complete, Copying, as_create
    <3>2. ContentOk(p)'
      BY <1>1, <1>2, <1>4 DEF ContentOk, Complete, Clean
    <3> QED
      BY <2>1, <3>1, <3>2
  <2>2. CASE q # p
    <3>1. PlaceOk(q) /\ ContentOk(q) /\ Same(q) /\ Untouched(q)
      BY <1>1, <1>4, <2>2, MemSame DEF VMInv
    <3> QED
      BY <3>1, SamePlace, SameContent DEF Untouched
  <2> QED
    BY <2>1, <2>2
<1>10. ASSUME NEW d \in CPUs PROVE TlbOk(d)'
  <2>1. CASE curproc[d] = p
    <3>1. TlbOf(d, p)'
      BY <1>1, <1>4, <2>1, TlbKept DEF Complete
    <3> QED
      BY <1>1, <2>1, <3>1 DEF TlbOk
  <2>2. CASE curproc[d] # p
    <3>1. TlbOk(d) /\ curproc[d] \in Procs \cup {NoProc}
      BY <1>2 DEF VMInv
    <3>2. curproc[d] # NoProc => /\ p_addrspace'[curproc[d]] = p_addrspace[curproc[d]]
                                 /\ vm_pc'[curproc[d]] = vm_pc[curproc[d]]
      BY <1>4, <2>2, <3>1 DEF Same
    <3> QED
      BY <1>1, <3>1, <3>2, SameTlb
  <2> QED
    BY <2>1, <2>2
<1> QED
  BY <1>5, <1>6, <1>7, <1>8, <1>9, <1>10 DEF VMInv

\* The memmoves of as_copy: the child has what the parent had, in frames of its own.
LEMMA MoveVM ==
  ASSUME VMInv, NEW p \in Procs, CopyMemory(p)
  PROVE  VMInv'
<1>2. /\ vm_pc \in [Procs -> VmPcs] /\ vm_new \in [Procs -> Space \cup {NoAs}]
      /\ p_addrspace \in [Procs -> Space \cup {NoAs}] /\ vm_kin \in [Procs -> SUBSET Procs]
      /\ vm_child \in [Procs -> Procs \cup {NoProc}] /\ curproc \in [CPUs -> Procs \cup {NoProc}]
      /\ mem \in [VmFrames -> Procs \cup {Zero}]
      /\ PlaceOk(p) /\ ContentOk(p) /\ Shared /\ vm_pc[p] = "move"
  BY DEF CopyMemory, VMInv, VmTyped
<1>3. vm_new[p] \in Full /\ p_addrspace[p] \in Full /\ vm_child[p] # NoProc
  BY <1>2 DEF PlaceOk, Complete, Copying
<1>0. PICK k \in Procs : k = vm_child[p]
  BY <1>2, <1>3
<1> DEFINE new == vm_new[p]
           From(f) == CHOOSE r \in RegionSet : new[r] = f
           F == FramesOf(new)
<1>1. /\ vm_pc[p] = "move"
      /\ mem' = [f \in VmFrames |-> IF f \in F THEN mem[p_addrspace[p][From(f)]] ELSE mem[f]]
      /\ p_addrspace' = [p_addrspace EXCEPT ![k] = new]
      /\ vm_pc' = [vm_pc EXCEPT ![p] = "user", ![k] = "user"]
      /\ vm_new' = [vm_new EXCEPT ![p] = NoAs] /\ vm_child' = [vm_child EXCEPT ![p] = NoProc]
      /\ vm_kin' = [vm_kin EXCEPT ![k] = {k} \cup vm_kin[p]]
      /\ vm_owned' = vm_owned /\ curproc' = curproc /\ tlb' = tlb
  BY <1>0 DEF CopyMemory, proc_setas
<1>4. vm_pc[k] = "unborn" /\ p # k
  BY <1>0, <1>2, <1>3 DEF VMInv, Children
<1>5. p_addrspace[k] = NoAs /\ vm_new[k] = NoAs /\ vm_child[k] = NoProc
  <2>1. PlaceOk(k)
    BY <1>4 DEF VMInv
  <2> QED
    BY <1>4, <2>1 DEF PlaceOk, Copying
<1>6. \A r \in RegionSet : /\ new[r] \in VmFrames /\ new[r] \in F
                           /\ p_addrspace[p][r] \in VmFrames /\ p_addrspace[p][r] \in FramesOf(p_addrspace[p])
  BY <1>3, FullFrames
<1>7. ASSUME NEW r \in RegionSet
      PROVE  mem'[new[r]] \in {Zero} \cup vm_kin[p]
  <2>1. From(new[r]) \in RegionSet
    OBVIOUS
  <2>2. mem'[new[r]] = mem[p_addrspace[p][From(new[r])]]
    BY <1>1, <1>6
  <2>3. Clean(p, p_addrspace[p])
    BY <1>1, <1>2 DEF ContentOk, Complete
  <2> HIDE DEF From
  <2> QED
    BY <2>1, <2>2, <2>3 DEF Clean
<1>8. mem' \in [VmFrames -> Procs \cup {Zero}]
  <2>1. ASSUME NEW f \in F PROVE mem[p_addrspace[p][From(f)]] \in Procs \cup {Zero}
    <3>1. \E r \in RegionSet : new[r] = f
      BY <1>3, FullFrames DEF FramesOf
    <3>2. From(f) \in RegionSet
      BY <3>1
    <3> HIDE DEF From
    <3> QED
      BY <1>2, <1>6, <3>2
  <2> HIDE DEF From, F
  <2> QED
    BY <1>1, <1>2, <2>1
<1>9. \A f \in VmFrames : f \notin F => mem'[f] = mem[f]
  <2> HIDE DEF From, F
  <2> QED
    BY <1>1
<1> HIDE DEF From, F
<1>10. /\ vm_pc'[p] = "user" /\ vm_pc'[k] = "user" /\ p_addrspace'[k] = new
       /\ p_addrspace'[p] = p_addrspace[p] /\ vm_new'[p] = NoAs /\ vm_new'[k] = NoAs
       /\ vm_child'[p] = NoProc /\ vm_child'[k] = NoProc
       /\ vm_kin'[k] = {k} \cup vm_kin[p] /\ vm_kin'[p] = vm_kin[p]
  BY <1>1, <1>2, <1>4, <1>5
<1>11. ASSUME NEW q \in Procs, q # p, q # k PROVE Same(q)
  BY <1>1, <1>2, <1>4, <1>11 DEF Same
<1>12. VmTyped'
  <2>1. vm_pc' \in [Procs -> VmPcs]
    BY <1>1, <1>2 DEF VmPcs
  <2>2. vm_new' \in [Procs -> Space \cup {NoAs}] /\ vm_child' \in [Procs -> Procs \cup {NoProc}]
    BY <1>1, <1>2
  <2>3. p_addrspace' \in [Procs -> Space \cup {NoAs}]
    BY <1>1, <1>2, <1>3, FullFrames
  <2>4. vm_kin' \in [Procs -> SUBSET Procs]
    <3>1. {k} \cup vm_kin[p] \in SUBSET Procs
      BY <1>2, <1>4
    <3> QED
      BY <1>1, <1>2, <3>1
  <2> QED
    BY <1>1, <1>8, <2>1, <2>2, <2>3, <2>4 DEF VMInv, VmTyped
<1>13. Children'
  <2>1. \A q \in Procs : vm_child'[q] = vm_child[q] \/ vm_child'[q] = NoProc
    BY <1>10, <1>11 DEF Same
  <2>2. ASSUME NEW q \in Procs, vm_child'[q] # NoProc PROVE vm_pc'[vm_child'[q]] = "unborn"
    <3>1. vm_child'[q] = vm_child[q] /\ vm_child[q] \in Procs /\ q # p
      BY <1>2, <1>10, <2>1, <2>2
    <3>2. vm_pc[vm_child[q]] = "unborn" /\ vm_child[q] # vm_child[p]
      BY <1>3, <2>2, <3>1 DEF VMInv, Children
    <3>3. vm_child[q] # p /\ vm_child[q] # k
      BY <1>0, <1>1, <3>2
    <3>4. Same(vm_child[q])
      BY <1>11, <3>1, <3>3
    <3> QED
      BY <3>1, <3>2, <3>4 DEF Same
  <2>3. ASSUME NEW q \in Procs, NEW s \in Procs, vm_child'[q] # NoProc, vm_child'[q] = vm_child'[s]
        PROVE  q = s
    <3>1. vm_child'[q] = vm_child[q] /\ vm_child'[s] = vm_child[s]
      BY <2>1, <2>3
    <3> QED
      BY <2>3, <3>1 DEF VMInv, Children
  <2> QED
    BY <2>2, <2>3 DEF Children
<1>14. \A q \in Procs : vm_pc'[q] = "unborn" => vm_pc[q] = "unborn"
  BY <1>10, <1>11 DEF Same
<1>15. OnCpu'
  BY <1>1, <1>2, <1>14 DEF VMInv, OnCpu
<1>16. Shared'
  <2>1. FramesOf(p_addrspace[k]) = {} /\ FramesOf(vm_new'[p]) = {}
    BY <1>5, <1>10, Spaces0
  <2>2. /\ \A s \in Procs : s # k => p_addrspace'[s] = p_addrspace[s]
        /\ \A s \in Procs : s # p => vm_new'[s] = vm_new[s]
    BY <1>1, <1>2
  <2>3. Shared /\ p_addrspace'[k] = vm_new[p] /\ vm_owned' = vm_owned
    BY <1>1, <1>2, <1>10
  <2> QED
    BY SMT, <2>1, <2>2, <2>3, NewToAs
<1>17. ASSUME NEW q \in Procs, NEW f \in FramesOf(p_addrspace[q]) PROVE mem'[f] = mem[f]
  <2>1. p_addrspace[q] \in Space \cup {NoAs}
    BY <1>2
  <2>2. f \in VmFrames
    BY <2>1, SpaceFrames
  <2>3. f \notin F
    BY <1>2, Apart DEF F
  <2> QED
    BY <1>9, <2>2, <2>3
<1>18. ASSUME NEW q \in Procs, q # p, NEW f \in FramesOf(vm_new[q]) PROVE mem'[f] = mem[f]
  <2>1. vm_new[q] \in Space \cup {NoAs}
    BY <1>2
  <2>2. f \in VmFrames
    BY <2>1, SpaceFrames
  <2>3. f \notin F
    BY <1>2, <1>18, Apart DEF F
  <2> QED
    BY <1>9, <2>2, <2>3
<1>19. ASSUME NEW q \in Procs PROVE PlaceOk(q)' /\ ContentOk(q)'
  <2>1. PlaceOk(p)'
    BY <1>3, <1>10 DEF PlaceOk, Copying
  <2>2. PlaceOk(k)'
    BY <1>3, <1>10 DEF PlaceOk, Copying
  <2>3. ContentOk(p)'
    <3>1. p \in vm_kin[p] /\ Clean(p, p_addrspace[p])
      BY <1>1, <1>2 DEF ContentOk, Complete
    <3>2. \A r \in RegionSet : mem'[p_addrspace[p][r]] \in {Zero} \cup vm_kin'[p]
      BY <1>3, <1>10, <1>17, <3>1, CleanSame
    <3> QED
      BY <1>10, <3>1, <3>2 DEF ContentOk, Clean
  <2>4. ContentOk(k)'
    BY <1>7, <1>10 DEF ContentOk, Clean
  <2>5. CASE q # p /\ q # k
    <3>1. PlaceOk(q) /\ ContentOk(q) /\ Same(q)
      BY <1>11, <2>5 DEF VMInv
    <3>2. \A f \in FramesOf(p_addrspace[q]) \cup FramesOf(vm_new[q]) : mem'[f] = mem[f]
      BY <1>17, <1>18, <2>5
    <3> QED
      BY <3>1, <3>2, SamePlace, SameContent
  <2> QED
    BY <2>1, <2>2, <2>3, <2>4, <2>5
<1>20. ASSUME NEW d \in CPUs PROVE TlbOk(d)'
  <2>1. CASE curproc[d] = p
    <3>1. TlbOf(d, p)'
      BY <1>1, <1>10, <2>1, TlbKept DEF Complete
    <3> QED
      BY <1>1, <2>1, <3>1 DEF TlbOk
  <2>2. CASE curproc[d] # p
    <3>1. TlbOk(d) /\ curproc[d] \in Procs \cup {NoProc}
      BY <1>2 DEF VMInv
    <3>2. curproc[d] # NoProc => curproc[d] # k
      BY <1>4 DEF VMInv, OnCpu
    <3>3. curproc[d] # NoProc => /\ p_addrspace'[curproc[d]] = p_addrspace[curproc[d]]
                                 /\ vm_pc'[curproc[d]] = vm_pc[curproc[d]]
      BY <1>11, <2>2, <3>1, <3>2 DEF Same
    <3> QED
      BY <1>1, <3>1, <3>3, SameTlb
  <2> QED
    BY <2>1, <2>2
<1> QED
  BY <1>12, <1>13, <1>15, <1>16, <1>19, <1>20 DEF VMInv

\* thread_switch: the TLB is flushed under a process that comes in with an address
\* space, and a reaped process leaves its last processor.
LEMMA SwitchVM ==
  ASSUME VMInv, NEW c \in CPUs, NEW p \in Procs \cup {NoProc}, SwitchTo(c, p)
  PROVE  VMInv'
<1>1. /\ curproc[c] # p /\ (p # NoProc => Running(p) = {} /\ vm_pc[p] \notin {"unborn", "dead", "gone"})
      /\ curproc' = [curproc EXCEPT ![c] = p]
      /\ vm_pc' = [q \in Procs |-> IF vm_pc[q] = "gone" /\ q = curproc[c] THEN "unborn" ELSE vm_pc[q]]
      /\ p_addrspace' = p_addrspace /\ vm_new' = vm_new /\ vm_child' = vm_child /\ vm_kin' = vm_kin
      /\ mem' = mem /\ vm_owned' = vm_owned
  BY DEF SwitchTo
<1>2. /\ vm_pc \in [Procs -> VmPcs] /\ curproc \in [CPUs -> Procs \cup {NoProc}]
      /\ tlb \in [CPUs -> SUBSET (RegionSet \X VmFrames)]
      /\ \A q \in Procs : vm_child[q] \in Procs \cup {NoProc}
      /\ Shared
  BY DEF VMInv, VmTyped
<1>3. tlb' = tlb \/ tlb' = [tlb EXCEPT ![c] = {}]
  BY DEF SwitchTo, as_activate
<1>4. p # NoProc /\ p_addrspace[p] # NoAs => tlb' = [tlb EXCEPT ![c] = {}]
  BY DEF SwitchTo, as_activate
<1>5. /\ curproc'[c] = p /\ \A d \in CPUs : d # c => curproc'[d] = curproc[d] /\ tlb'[d] = tlb[d]
      /\ p # NoProc => \A d \in CPUs : curproc[d] # p
  BY <1>1, <1>2, <1>3 DEF Running
<1>6. \A q \in Procs : \/ vm_pc'[q] = vm_pc[q]
                       \/ vm_pc[q] = "gone" /\ vm_pc'[q] = "unborn" /\ q = curproc[c]
  BY <1>1
<1>7. VmTyped'
  <2>1. vm_pc' \in [Procs -> VmPcs]
    <3>1. \A q \in Procs : vm_pc'[q] \in VmPcs
      BY <1>2, <1>6 DEF VmPcs
    <3> QED
      BY <1>1, <3>1
  <2>2. curproc' \in [CPUs -> Procs \cup {NoProc}] /\ tlb' \in [CPUs -> SUBSET (RegionSet \X VmFrames)]
    BY <1>1, <1>2, <1>3
  <2> QED
    BY <1>1, <2>1, <2>2 DEF VMInv, VmTyped
<1>8. Children'
  <2>1. ASSUME NEW q \in Procs, vm_child[q] # NoProc PROVE vm_pc'[vm_child[q]] = "unborn"
    <3>1. vm_child[q] \in Procs /\ vm_pc[vm_child[q]] = "unborn"
      BY <1>2, <2>1 DEF VMInv, Children
    <3> QED
      BY <1>6, <3>1
  <2> QED
    BY <1>1, <2>1 DEF VMInv, Children
<1>9. OnCpu'
  <2>1. ASSUME NEW d \in CPUs, curproc'[d] # NoProc PROVE vm_pc'[curproc'[d]] # "unborn"
    <3>1. CASE d = c
      BY <1>1, <1>5, <1>6, <2>1, <3>1
    <3>2. CASE d # c
      <4>0. curproc'[d] = curproc[d] /\ curproc[d] \in Procs
        BY <1>2, <1>5, <2>1, <3>2
      <4>1. vm_pc[curproc[d]] # "unborn"
        BY <2>1, <4>0 DEF VMInv, OnCpu
      <4>2. curproc[d] # curproc[c]
        BY <2>1, <3>2, <4>0 DEF VMInv, OnCpu
      <4> QED
        BY <1>6, <4>0, <4>1, <4>2
    <3> QED
      BY <3>1, <3>2
  <2>2. ASSUME NEW d \in CPUs, NEW e \in CPUs, curproc'[d] # NoProc, curproc'[d] = curproc'[e]
        PROVE  d = e
    <3>1. CASE d = c \/ e = c
      BY <1>5, <2>2, <3>1
    <3>2. CASE d # c /\ e # c
      BY <1>5, <2>2, <3>2 DEF VMInv, OnCpu
    <3> QED
      BY <3>1, <3>2
  <2> QED
    BY <2>1, <2>2 DEF OnCpu
<1>10. Shared'
  BY <1>1, <1>2, SharedSame
<1>11. ASSUME NEW q \in Procs PROVE PlaceOk(q)' /\ ContentOk(q)'
  <2>1. PlaceOk(q) /\ ContentOk(q) /\ Untouched(q)
    BY <1>1, MemSame DEF VMInv
  <2>2. CASE vm_pc'[q] = vm_pc[q]
    <3>1. Same(q)
      BY <1>1, <2>2 DEF Same
    <3> QED
      BY <2>1, <3>1, SamePlace, SameContent DEF Untouched
  <2>3. CASE vm_pc[q] = "gone" /\ vm_pc'[q] = "unborn"
    <3>1. PlaceOk(q)'
      BY <1>1, <2>1, <2>3 DEF PlaceOk, Complete, Copying
    <3>2. ContentOk(q)'
      BY <1>1, <2>1, <2>3 DEF ContentOk, Complete
    <3> QED
      BY <3>1, <3>2
  <2> QED
    BY <1>6, <2>2, <2>3
<1>12. ASSUME NEW d \in CPUs PROVE TlbOk(d)'
  <2>1. CASE d = c /\ p # NoProc
    <3>1. PlaceOk(p) /\ p \in Procs
      BY <2>1 DEF VMInv
    <3>2. vm_pc'[p] = vm_pc[p]
      BY <1>1, <1>6, <3>1
    <3>3. ASSUME vm_pc[p] \in Complete \cup {"load", "eload"} PROVE tlb'[c] = {}
      <4>1. p_addrspace[p] # NoAs
        BY <3>1, <3>3, Spaces0 DEF PlaceOk
      <4> QED
        BY <1>2, <1>4, <2>1, <4>1
    <3> QED
      BY <1>5, <2>1, <3>2, <3>3 DEF TlbOk, TlbOf
  <2>2. CASE d = c /\ p = NoProc
    BY <1>5, <2>2 DEF TlbOk
  <2>3. CASE d # c
    <3>1. TlbOk(d) /\ curproc[d] \in Procs \cup {NoProc}
      BY <1>2 DEF VMInv
    <3>2. curproc[d] # NoProc => curproc[d] # curproc[c]
      BY <2>3 DEF VMInv, OnCpu
    <3>3. curproc[d] # NoProc => vm_pc'[curproc[d]] = vm_pc[curproc[d]]
      BY <1>6, <3>1, <3>2
    <3> QED
      BY <1>1, <1>5, <2>3, <3>1, <3>3, SameTlb
  <2> QED
    BY <2>1, <2>2, <2>3
<1> QED
  BY <1>7, <1>8, <1>9, <1>10, <1>11, <1>12 DEF VMInv

-----------------------------------------------------------------------------
\* The kernel starts without a process.
LEMMA InitVM == VMInit => VMInv
<1> SUFFICES ASSUME VMInit PROVE VMInv
  OBVIOUS
<1>0. NoProc \notin Procs /\ FramesOf(NoAs) = {}
  BY VMAssumption, Spaces0
<1>1. /\ p_addrspace = [p \in Procs |-> NoAs] /\ vm_new = [p \in Procs |-> NoAs]
      /\ vm_pc = [p \in Procs |-> "unborn"] /\ vm_child = [p \in Procs |-> NoProc]
      /\ curproc = [c \in CPUs |-> NoProc] /\ tlb = [c \in CPUs |-> {}]
      /\ mem = [f \in VmFrames |-> Zero] /\ vm_owned = {} /\ vm_kin = [p \in Procs |-> {p}]
  BY DEF VMInit
<1>2. VmTyped
  BY <1>1 DEF VmTyped, VmPcs
<1>3. Children /\ OnCpu
  BY <1>1 DEF Children, OnCpu
<1>4. Shared
  <2>1. ASSUME NEW k \in Keys PROVE Held[k] = {}
    <3>1. PICK q \in Procs : k = <<q, 1>> \/ k = <<q, 2>>
      BY KeyParts
    <3>2. Held[<<q, 1>>] = FramesOf(p_addrspace[q]) /\ Held[<<q, 2>>] = FramesOf(vm_new[q])
      BY HeldParts
    <3>3. p_addrspace[q] = NoAs /\ vm_new[q] = NoAs
      BY <1>1
    <3> QED
      BY <1>0, <3>1, <3>2, <3>3
  <2> QED
    BY <1>1, <2>1 DEF Shared, Partition
<1>5. ASSUME NEW p \in Procs PROVE PlaceOk(p) /\ ContentOk(p)
  <2>1. /\ p_addrspace[p] = NoAs /\ vm_new[p] = NoAs /\ vm_pc[p] = "unborn"
        /\ vm_child[p] = NoProc /\ vm_kin[p] = {p}
    BY <1>1
  <2> QED
    BY <2>1 DEF PlaceOk, ContentOk, Complete, Copying
<1>6. \A c \in CPUs : TlbOk(c)
  BY <1>1 DEF TlbOk
<1> QED
  BY <1>2, <1>3, <1>4, <1>5, <1>6 DEF VMInv

\* Every step keeps the invariant.
LEMMA NextVM == VMInv /\ [VMNext]_vm_vars => VMInv'
<1> SUFFICES ASSUME VMInv, [VMNext]_vm_vars PROVE VMInv'
  OBVIOUS
<1>1. ASSUME NEW p \in Procs, NEW c \in CPUs, runprogram(p, c) \/ ExecStart(p, c) \/ ExecUndo(p, c)
      PROVE  VMInv'
  BY <1>1, RunVM, ExecStartVM, ExecUndoVM
<1>2. ASSUME NEW p \in Procs,
             \/ load_elf(p) \/ enter_new_process(p) \/ as_copy(p) \/ CopyMemory(p) \/ CopyFailed(p)
             \/ sys__exit(p) \/ proc_destroy(p)
      PROVE  VMInv'
  BY <1>2, LoadElfVM, EnterVM, AsCopyVM, MoveVM, CopyFailedVM, ExitVM, DestroyVM
<1>3. ASSUME NEW p \in Procs, NEW q \in Procs, sys_fork(p, q) PROVE VMInv'
  BY <1>3, ForkVM
<1>4. ASSUME NEW c \in CPUs, NEW p \in Procs \cup {NoProc}, SwitchTo(c, p) PROVE VMInv'
  BY <1>4, SwitchVM
<1>5. ASSUME NEW c \in CPUs, NEW r \in RegionSet, vm_fault(c, r) PROVE VMInv'
  BY <1>5, FaultVM
<1>6. CASE UNCHANGED vm_vars
  <2>1. /\ p_addrspace' = p_addrspace /\ vm_new' = vm_new /\ vm_pc' = vm_pc /\ vm_child' = vm_child
        /\ vm_kin' = vm_kin /\ curproc' = curproc /\ tlb' = tlb /\ mem' = mem /\ vm_owned' = vm_owned
    BY <1>6 DEF vm_vars, as_vars
  <2>2. Shared'
    BY <2>1, SharedSame DEF VMInv
  <2>3. VmTyped' /\ Children' /\ OnCpu'
    BY <2>1 DEF VMInv, VmTyped, Children, OnCpu
  <2>4. ASSUME NEW q \in Procs PROVE PlaceOk(q)' /\ ContentOk(q)'
    <3>1. PlaceOk(q) /\ ContentOk(q) /\ Same(q) /\ Untouched(q)
      BY <2>1, MemSame DEF VMInv, Same
    <3> QED
      BY <3>1, SamePlace, SameContent DEF Untouched
  <2>5. ASSUME NEW c \in CPUs PROVE TlbOk(c)'
    BY <2>1, SameTlb DEF VMInv
  <2> QED
    BY <2>2, <2>3, <2>4, <2>5 DEF VMInv
<1> QED
  BY <1>1, <1>2, <1>3, <1>4, <1>5, <1>6 DEF VMNext

\* What the invariant says of the memory that processes see.
LEMMA InvSafe == VMInv => SpacesSafe
<1> SUFFICES ASSUME VMInv PROVE SpacesSafe
  OBVIOUS
<1>1. TlbCoherent
  <2>1. ASSUME NEW c \in CPUs, curproc[c] # NoProc, Touching(curproc[c])
        PROVE  \A e \in tlb[c] : p_addrspace[curproc[c]][e[1]] = e[2]
    <3>1. TlbOf(c, curproc[c]) /\ vm_pc[curproc[c]] \in Complete
      BY <2>1 DEF VMInv, TlbOk, Touching, Complete
    <3> QED
      BY <3>1 DEF TlbOf
  <2> QED
    BY <2>1 DEF TlbCoherent
<1>2. Shared
  BY DEF VMInv
<1>3. vm_owned = UNION {FramesOf(as) : as \in Spaces}
  <2>0. vm_owned = UNION {Held[k] : k \in Keys}
    BY <1>2 DEF Shared, Partition
  <2>1. ASSUME NEW f \in vm_owned PROVE \E as \in Spaces : f \in FramesOf(as)
    <3>1. PICK k \in Keys : f \in Held[k]
      BY <2>0
    <3>2. PICK q \in Procs : k = <<q, 1>> \/ k = <<q, 2>>
      BY KeyParts
    <3>3. Held[<<q, 1>>] = FramesOf(p_addrspace[q]) /\ Held[<<q, 2>>] = FramesOf(vm_new[q])
      BY HeldParts
    <3>4. f \in FramesOf(p_addrspace[q]) \/ f \in FramesOf(vm_new[q])
      BY <3>1, <3>2, <3>3
    <3>5. p_addrspace[q] \in Spaces /\ vm_new[q] \in Spaces
      BY DEF Spaces
    <3> QED
      BY <3>4, <3>5
  <2>2. ASSUME NEW as \in Spaces PROVE FramesOf(as) \subseteq vm_owned
    <3>1. PICK q \in Procs : as = p_addrspace[q] \/ as = vm_new[q]
      BY DEF Spaces
    <3>2. FramesOf(p_addrspace[q]) \subseteq vm_owned /\ FramesOf(vm_new[q]) \subseteq vm_owned
      BY <1>2, Apart
    <3> QED
      BY <3>1, <3>2
  <2> QED
    BY <2>1, <2>2
<1>4. SpacesExact
  BY <1>2, <1>3, Apart DEF SpacesExact
<1>5. NoLeftovers
  <2>1. ASSUME NEW p \in Procs, Touching(p)
        PROVE  \A r \in RegionSet : mem[p_addrspace[p][r]] \in {Zero} \cup vm_kin[p]
    <3>1. vm_pc[p] \in Complete
      BY <2>1 DEF Touching, Complete
    <3>2. Clean(p, p_addrspace[p])
      BY <3>1 DEF VMInv, ContentOk
    <3> QED
      BY <3>2 DEF Clean
  <2> QED
    BY <2>1 DEF NoLeftovers
<1> QED
  BY <1>1, <1>4, <1>5 DEF SpacesSafe

\* A process sees its own memory and nothing else, through whichever TLB, and the
\* error paths of execv, fork and runprogram lose no frame.
THEOREM VMSafe == VMSpec => []SpacesSafe
<1>1. VMSpec => []VMInv
  BY InitVM, NextVM, PTL DEF VMSpec
<1> QED
  BY <1>1, InvSafe, PTL

=============================================================================
