-------------------------------- MODULE Heap --------------------------------
(***************************************************************************)
(* The kernel heap of kern/vm/kmalloc.c over the pages of Frames: pages    *)
(* cut into blocks of one size, a pageref per page that records its free   *)
(* list, and pages of pagerefs that are themselves taken from              *)
(* alloc_kpages.  GUARDS, LABELS, SLOW and CHECKBEEF are undefined.        *)
(*                                                                         *)
(* A section under kmalloc_spinlock is one step.  The lock is released     *)
(* around alloc_kpages and free_kpages, so every step after one of them    *)
(* meets whatever the other threads did meanwhile.                         *)
(***************************************************************************)
EXTENDS Frames, Sequences, SequencesExt

CONSTANTS Types,          \* indexes of sizes[]
          PerPage,        \* PerPage[ty] = PAGE_SIZE / sizes[ty]
          NUM_PAGEREFPAGES, NPAGEREFS_PER_PAGE

VARIABLES sizebases,      \* sizebases[ty]: pagerefs, the newest first
          allbase,        \* all pagerefs, the newest first
          pageref,        \* [page, type, free]: free is the list in the page
          pagerefs_inuse, \* the bits of every kheap_root
          rootpage,       \* root->page, 0 while NULL
          kh_pc, kh_type, kh_page, kh_pr, kh_va,
          kh_client,      \* history: the blocks <<page, index>> handed out
          kh_big,         \* history: the whole pages handed out
          kh_oom          \* history: a page of pagerefs was refused

kh_lists == <<sizebases, allbase, pageref, pagerefs_inuse, rootpage>>
kh_local == <<kh_pc, kh_type, kh_page, kh_pr, kh_va>>
kh_vars == <<fr_vars, kh_lists, kh_local, kh_client, kh_big, kh_oom>>

Roots == 1..NUM_PAGEREFPAGES
Pagerefs == Roots \X (1..NPAGEREFS_PER_PAGE)
NoPr == <<0, 0>>
Unused == [page |-> 0, type |-> 0, free |-> <<>>]

HeapInit ==
  /\ ram_bootstrap
  /\ sizebases = [ty \in Types |-> <<>>] /\ allbase = <<>>
  /\ pageref = [p \in Pagerefs |-> Unused]
  /\ pagerefs_inuse = {} /\ rootpage = [r \in Roots |-> 0]
  /\ kh_pc = [t \in Threads |-> "idle"] /\ kh_type = [t \in Threads |-> 0]
  /\ kh_page = [t \in Threads |-> 0] /\ kh_va = [t \in Threads |-> 0]
  /\ kh_pr = [t \in Threads |-> NoPr]
  /\ kh_client = {} /\ kh_big = {} /\ kh_oom = FALSE

\* The thread leaves kmalloc or kfree.
HeapReturn(t) ==
  /\ kh_pc' = [kh_pc EXCEPT ![t] = "idle"]
  /\ kh_type' = [kh_type EXCEPT ![t] = 0]
  /\ kh_page' = [kh_page EXCEPT ![t] = 0]
  /\ kh_pr' = [kh_pr EXCEPT ![t] = NoPr]
  /\ kh_va' = [kh_va EXCEPT ![t] = 0]

HeapGoto(t, l) == kh_pc' = [kh_pc EXCEPT ![t] = l]

\* free_kpages(kh_page) is what is left to do; the other locals are dead.
HeapDrop(t, page) ==
  /\ HeapGoto(t, "drop")
  /\ kh_page' = [kh_page EXCEPT ![t] = page]
  /\ kh_type' = [kh_type EXCEPT ![t] = 0]
  /\ kh_pr' = [kh_pr EXCEPT ![t] = NoPr]
  /\ kh_va' = [kh_va EXCEPT ![t] = 0]
-----------------------------------------------------------------------------
HasFree(ty) == {k \in DOMAIN sizebases[ty] : pageref[sizebases[ty][k]].free # <<>>}

\* doalloc: the head of the free list of p goes to the client.
doalloc(p, tab) ==
  /\ pageref' = [tab EXCEPT ![p].free = Tail(@)]
  /\ kh_client' = kh_client \cup {<<tab[p].page, Head(tab[p].free)>>}

\* The first section of subpage_kmalloc: a page of the size with a free block,
\* or alloc_kpages(1).
subpage_kmalloc(t, ty) ==
  /\ kh_pc[t] = "idle"
  /\ IF HasFree(ty) # {}
     THEN /\ fr_pc[t] = "idle"
          /\ doalloc(sizebases[ty][Min(HasFree(ty))], pageref)
          /\ UNCHANGED <<fr_vars, kh_local>>
     ELSE /\ PageCall(t, 1)
          /\ HeapGoto(t, "page")
          /\ kh_type' = [kh_type EXCEPT ![t] = ty]
          /\ UNCHANGED <<pageref, kh_client, kh_page, kh_pr, kh_va>>
  /\ UNCHANGED <<sizebases, allbase, pagerefs_inuse, rootpage, kh_big, kh_oom>>

\* The free list of a fresh page: the last block first.
FreshList(ty) == [k \in 1..PerPage[ty] |-> PerPage[ty] - k]

\* subpage_kmalloc from "pr->pageaddr_and_blocktype = ..." on.
EnterPage(t, p, page) ==
  LET ty == kh_type[t] IN
  /\ sizebases' = [sizebases EXCEPT ![ty] = <<p>> \o @]
  /\ allbase' = <<p>> \o allbase
  /\ doalloc(p, [pageref EXCEPT ![p] = [page |-> page, type |-> ty, free |-> FreshList(ty)]])
  /\ HeapReturn(t)

\* The bit allocpageref takes: of the first root with a clear bit, the first.
FreeSlots == Pagerefs \ pagerefs_inuse
FirstSlot ==
  CHOOSE p \in FreeSlots : \A q \in FreeSlots : p[1] < q[1] \/ (p[1] = q[1] /\ p[2] <= q[2])

\* The page came: allocpageref, with the spinlock retaken.
allocpageref(t) ==
  /\ kh_pc[t] = "page" /\ PageReturn(t)
  /\ LET page == fr_addr[t] IN
     CASE page = 0 ->
            HeapReturn(t) /\ UNCHANGED <<kh_lists, kh_client>>
       [] page # 0 /\ FreeSlots = {} ->
            HeapDrop(t, page) /\ UNCHANGED <<kh_lists, kh_client>>
       [] page # 0 /\ FreeSlots # {} ->
            /\ pagerefs_inuse' = pagerefs_inuse \cup {FirstSlot}
            /\ UNCHANGED rootpage
            /\ IF rootpage[FirstSlot[1]] # 0
               THEN EnterPage(t, FirstSlot, page)
               ELSE /\ HeapGoto(t, "ask")
                    /\ kh_page' = [kh_page EXCEPT ![t] = page]
                    /\ kh_pr' = [kh_pr EXCEPT ![t] = FirstSlot]
                    /\ UNCHANGED <<sizebases, allbase, pageref, kh_client, kh_type, kh_va>>
  /\ UNCHANGED <<kh_big, kh_oom>>

\* allocpagerefpage: alloc_kpages(1) without the spinlock.
allocpagerefpage(t) ==
  /\ kh_pc[t] = "ask"
  /\ PageCall(t, 1)
  /\ HeapGoto(t, "ref")
  /\ UNCHANGED <<kh_lists, kh_type, kh_page, kh_pr, kh_va, kh_client, kh_big, kh_oom>>

\* Mutant of PagerefPage: root->page is not tested again after alloc_kpages.
PagerefPageBlind(t) ==
  /\ kh_pc[t] = "ref" /\ PageReturn(t)
  /\ LET r == kh_pr[t][1]
         va == fr_addr[t] IN
     IF va = 0
     THEN HeapDrop(t, kh_page[t]) /\ kh_oom' = TRUE /\ UNCHANGED <<kh_lists, kh_client>>
     ELSE /\ rootpage' = [rootpage EXCEPT ![r] = va]
          /\ EnterPage(t, kh_pr[t], kh_page[t])
          /\ UNCHANGED <<pagerefs_inuse, kh_oom>>
  /\ UNCHANGED kh_big

\* Back in allocpagerefpage.  When another thread has set root->page this one
\* gives its page back; when there is no page at all allocpageref returns NULL
\* and leaves the bit set.
PagerefPage(t) ==
  /\ kh_pc[t] = "ref" /\ PageReturn(t)
  /\ LET r == kh_pr[t][1]
         va == fr_addr[t] IN
     CASE va = 0 /\ rootpage[r] = 0 ->
            HeapDrop(t, kh_page[t]) /\ kh_oom' = TRUE /\ UNCHANGED <<kh_lists, kh_client>>
       [] va # 0 /\ rootpage[r] # 0 ->
            /\ HeapGoto(t, "extra")
            /\ kh_va' = [kh_va EXCEPT ![t] = va]
            /\ UNCHANGED <<kh_lists, kh_type, kh_page, kh_pr, kh_client, kh_oom>>
       [] OTHER ->
            /\ rootpage' = IF va = 0 THEN rootpage ELSE [rootpage EXCEPT ![r] = va]
            /\ EnterPage(t, kh_pr[t], kh_page[t])
            /\ UNCHANGED <<pagerefs_inuse, kh_oom>>
  /\ UNCHANGED kh_big

\* "Oops, somebody else allocated it": free_kpages(va) without the spinlock.
ExtraPage(t) ==
  \/ /\ kh_pc[t] = "extra"
     /\ FreeCall(t, kh_va[t])
     /\ HeapGoto(t, "have")
     /\ kh_va' = [kh_va EXCEPT ![t] = 0]
     /\ UNCHANGED <<kh_lists, kh_type, kh_page, kh_pr, kh_client, kh_big, kh_oom>>
  \/ /\ kh_pc[t] = "have" /\ fr_pc[t] = "idle"
     /\ EnterPage(t, kh_pr[t], kh_page[t])
     /\ UNCHANGED <<fr_vars, pagerefs_inuse, rootpage, kh_big, kh_oom>>

\* free_kpages(prpage) at the end of kmalloc's error path or of kfree.
DropPage(t) ==
  /\ kh_pc[t] = "drop"
  /\ FreeCall(t, kh_page[t])
  /\ HeapReturn(t)
  /\ UNCHANGED <<kh_lists, kh_client, kh_big, kh_oom>>

\* kmalloc of at least LARGEST_SUBPAGE_SIZE bytes: whole pages.
kmalloc(t) ==
  \/ /\ kh_pc[t] = "idle" /\ PageCall(t, 1) /\ HeapGoto(t, "big")
     /\ UNCHANGED kh_big
  \/ /\ kh_pc[t] = "big" /\ PageReturn(t) /\ HeapGoto(t, "idle")
     /\ kh_big' = kh_big \cup ({fr_addr[t]} \ {0})
-----------------------------------------------------------------------------
\* remove_lists takes the pageref off both lists.
remove_lists(p) ==
  /\ sizebases' = [sizebases EXCEPT ![pageref[p].type] = SelectSeq(@, LAMBDA q : q # p)]
  /\ allbase' = SelectSeq(allbase, LAMBDA q : q # p)

\* freepageref clears the bit.
freepageref(p) == pagerefs_inuse' = pagerefs_inuse \ {p}

\* Mutant of subpage_kfree: the bit is cleared and the lists forgotten.
KfreeKeepsLists(t, b) ==
  /\ kh_pc[t] = "idle" /\ fr_pc[t] = "idle"
  /\ \E k \in DOMAIN allbase :
       LET p == allbase[k] IN
       /\ pageref[p].page = b[1]
       /\ pageref' = [pageref EXCEPT ![p].free = <<b[2]>> \o @]
       /\ IF Len(pageref'[p].free) = PerPage[pageref[p].type]
          THEN freepageref(p) /\ HeapDrop(t, b[1])
          ELSE UNCHANGED <<pagerefs_inuse, kh_local>>
       /\ UNCHANGED <<sizebases, allbase>>
  /\ kh_client' = kh_client \ {b}
  /\ UNCHANGED <<fr_vars, rootpage, kh_big, kh_oom>>

\* Mutant of subpage_kfree: the lists are updated and the bit forgotten.
KfreeKeepsBit(t, b) ==
  /\ kh_pc[t] = "idle" /\ fr_pc[t] = "idle"
  /\ \E k \in DOMAIN allbase :
       LET p == allbase[k]
           free == <<b[2]>> \o pageref[p].free IN
       /\ pageref[p].page = b[1]
       /\ IF Len(free) = PerPage[pageref[p].type]
          THEN remove_lists(p) /\ pageref' = [pageref EXCEPT ![p] = Unused] /\ HeapDrop(t, b[1])
          ELSE pageref' = [pageref EXCEPT ![p].free = free] /\ UNCHANGED <<sizebases, allbase, kh_local>>
  /\ kh_client' = kh_client \ {b}
  /\ UNCHANGED <<fr_vars, pagerefs_inuse, rootpage, kh_big, kh_oom>>

\* subpage_kfree of a block of a heap page: back on the free list, and a page
\* that is all free leaves the heap.
subpage_kfree(t, b) ==
  /\ kh_pc[t] = "idle" /\ fr_pc[t] = "idle"
  /\ \E k \in DOMAIN allbase :
       LET p == allbase[k]
           free == <<b[2]>> \o pageref[p].free IN
       /\ pageref[p].page = b[1]
       /\ IF Len(free) = PerPage[pageref[p].type]
          THEN /\ remove_lists(p) /\ freepageref(p)
               /\ pageref' = [pageref EXCEPT ![p] = Unused]
               /\ HeapDrop(t, b[1])
          ELSE /\ pageref' = [pageref EXCEPT ![p].free = free]
               /\ UNCHANGED <<sizebases, allbase, pagerefs_inuse, kh_local>>
  /\ kh_client' = kh_client \ {b}
  /\ UNCHANGED <<fr_vars, rootpage, kh_big, kh_oom>>

\* kfree of a pointer on no heap page: free_kpages.
kfree(t, page) ==
  /\ kh_pc[t] = "idle"
  /\ \A k \in DOMAIN allbase : pageref[allbase[k]].page # page
  /\ FreeCall(t, page)
  /\ kh_big' = kh_big \ {page}
  /\ UNCHANGED <<kh_lists, kh_local, kh_client, kh_oom>>

HeapNext ==
  \/ vm_bootstrap /\ UNCHANGED <<kh_lists, kh_local, kh_client, kh_big, kh_oom>>
  \/ \E t \in Threads :
       \/ FrameStep(t) /\ UNCHANGED <<kh_lists, kh_local, kh_client, kh_big, kh_oom>>
       \/ allocTableActive /\ \E ty \in Types : subpage_kmalloc(t, ty)
       \/ allocTableActive /\ kmalloc(t)
             /\ UNCHANGED <<kh_lists, kh_type, kh_page, kh_pr, kh_va, kh_client, kh_oom>>
       \/ allocpageref(t) \/ allocpagerefpage(t) \/ PagerefPage(t)
       \/ ExtraPage(t) \/ DropPage(t)
       \/ \E b \in kh_client : subpage_kfree(t, b)
       \/ \E page \in kh_big : kfree(t, page)

HeapSpec == HeapInit /\ [][HeapNext]_kh_vars
-----------------------------------------------------------------------------
Listed == {allbase[k] : k \in DOMAIN allbase}
ClientsOf(page) == {b[2] : b \in {c \in kh_client : c[1] = page}}

\* The heap structure holds whatever happened while kmalloc_spinlock was
\* released: the two lists have the same pagerefs, each once and each with its
\* bit set; two pagerefs never describe one page; and the blocks of a page are
\* its free list, without repetition, and the blocks with clients.
HeapSound ==
  /\ \A j, k \in DOMAIN allbase : j # k =>
       allbase[j] # allbase[k] /\ pageref[allbase[j]].page # pageref[allbase[k]].page
  /\ Listed = UNION {ToSet(sizebases[ty]) : ty \in Types}
  /\ Listed \subseteq pagerefs_inuse
  /\ \A p \in Listed :
       LET r == pageref[p]
           free == ToSet(r.free) IN
       /\ Cardinality(free) = Len(r.free)
       /\ free \cap ClientsOf(r.page) = {}
       /\ free \cup ClientsOf(r.page) = 0..(PerPage[r.type] - 1)
       /\ rootpage[p[1]] # 0
  /\ \A b \in kh_client : \E p \in Listed : pageref[p].page = b[1]

\* Pages a thread has in hand inside kmalloc and kfree.
InHand ==
  {kh_page[t] : t \in Threads} \cup {kh_va[t] : t \in Threads}
    \cup {fr_addr[t] : t \in {u \in Threads : fr_pc[u] = "got"}}

\* Every page the heap took from alloc_kpages is a heap page, a page of
\* pagerefs, a whole page with a client, or in the hand of a thread that will
\* place it or give it back, even when two threads raced to fetch one.
HeapPagesExact ==
  LET heap == {pageref[p].page : p \in Listed} IN
  /\ {b[1] : b \in fr_held} =
       (heap \cup {rootpage[r] : r \in Roots} \cup kh_big \cup InHand) \ {0}
  /\ heap \cap kh_big = {}
  /\ \A r, q \in Roots : rootpage[r] # 0 => rootpage[r] \notin heap \cup kh_big
       /\ (r # q => rootpage[r] # rootpage[q])

\* A set bit of pagerefs_inuse belongs to a listed pageref or to a thread that
\* is still inside allocpageref, as long as no page of pagerefs was refused:
\* after a refusal the bit stays set and its pageref is lost.
PagerefsExact ==
  \/ kh_oom
  \/ pagerefs_inuse = Listed \cup ({kh_pr[t] : t \in Threads} \ {NoPr})

\* kmalloc and kfree keep their lists, pages and pagerefs straight through every
\* release of kmalloc_spinlock: nothing is handed out twice and nothing is lost.
HeapSafe == HeapSound /\ HeapPagesExact /\ PagerefsExact
=============================================================================
