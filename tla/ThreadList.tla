----------------------------- MODULE ThreadList -----------------------------
(***************************************************************************)
(* The thread lists of kern/thread/threadlist.c: doubly linked lists with  *)
(* a head and a tail node.  A list is a record of the links of every node  *)
(* and of tl_count; the operations are operators on lists.  One list is    *)
(* driven by any sequence of calls that its callers may make: a thread is  *)
(* put on a list only while it is on none.                                 *)
(***************************************************************************)
EXTENDS Naturals, Sequences, FiniteSets, SequencesExt

CONSTANT NUMNAMES       \* the threads are 0..NUMNAMES-1

FakeThreads == 0..(NUMNAMES - 1)
TlHead == NUMNAMES
TlTail == NUMNAMES + 1
TlNull == NUMNAMES + 2
TlNodes == FakeThreads \cup {TlHead, TlTail}

threadlist_init ==
  [next |-> [n \in TlNodes |-> IF n = TlHead THEN TlTail ELSE TlNull],
   prev |-> [n \in TlNodes |-> IF n = TlTail THEN TlHead ELSE TlNull],
   count |-> 0]

threadlist_isempty(L) == L.count = 0

threadlist_insertafternode(L, onlist, t) ==
  LET nx == L.next[onlist] IN
  [next |-> [L.next EXCEPT ![t] = nx, ![onlist] = t],
   prev |-> [L.prev EXCEPT ![t] = onlist, ![nx] = t],
   count |-> L.count + 1]

threadlist_insertbeforenode(L, t, onlist) ==
  LET pv == L.prev[onlist] IN
  [next |-> [L.next EXCEPT ![t] = onlist, ![pv] = t],
   prev |-> [L.prev EXCEPT ![t] = pv, ![onlist] = t],
   count |-> L.count + 1]

\* Mutant of threadlist_removenode: the back link of the next node stays.
RemoveKeepsPrev(L, t) ==
  LET pv == L.prev[t]
      nx == L.next[t] IN
  [next |-> [L.next EXCEPT ![pv] = nx, ![t] = TlNull],
   prev |-> [L.prev EXCEPT ![t] = TlNull],
   count |-> L.count - 1]

threadlist_removenode(L, t) ==
  LET pv == L.prev[t]
      nx == L.next[t] IN
  [next |-> [L.next EXCEPT ![pv] = nx, ![t] = TlNull],
   prev |-> [L.prev EXCEPT ![nx] = pv, ![t] = TlNull],
   count |-> L.count - 1]

threadlist_addhead(L, t) == threadlist_insertafternode(L, TlHead, t)
threadlist_addtail(L, t) == threadlist_insertbeforenode(L, t, TlTail)

\* What remhead and remtail return: the node at that end, or NULL.
HeadOf(L) == IF L.next[L.next[TlHead]] = TlNull THEN TlNull ELSE L.next[TlHead]
TailOf(L) == IF L.prev[L.prev[TlTail]] = TlNull THEN TlNull ELSE L.prev[TlTail]
threadlist_remhead(L) == IF HeadOf(L) = TlNull THEN L ELSE threadlist_removenode(L, HeadOf(L))
threadlist_remtail(L) == IF TailOf(L) = TlNull THEN L ELSE threadlist_removenode(L, TailOf(L))

\* threadlist_insertafter and threadlist_insertbefore, and threadlist_remove.
threadlist_insertafter(L, onlist, t) == threadlist_insertafternode(L, onlist, t)
threadlist_insertbefore(L, t, onlist) == threadlist_insertbeforenode(L, t, onlist)
threadlist_remove(L, t) == threadlist_removenode(L, t)

\* THREADLIST_FORALL and THREADLIST_FORALL_REV: the nodes along the links.
Forward(L) ==
  LET Walk[n \in Nat] == IF n = 0 THEN L.next[TlHead] ELSE L.next[Walk[n - 1]]
  IN [i \in 1..L.count |-> Walk[i - 1]]
Backward(L) ==
  LET Walk[n \in Nat] == IF n = 0 THEN L.prev[TlTail] ELSE L.prev[Walk[n - 1]]
  IN [i \in 1..L.count |-> Walk[i - 1]]
-----------------------------------------------------------------------------
VARIABLES tl,           \* the list
          tl_seq        \* history: the sequence the operations describe

tl_vars == <<tl, tl_seq>>

ThreadListInit == tl = threadlist_init /\ tl_seq = <<>>

OnList(t) == tl.next[t] # TlNull
Off == {t \in FakeThreads : ~OnList(t)}

InsertAfter(s, x, t) == LET i == CHOOSE j \in DOMAIN s : s[j] = x IN
  SubSeq(s, 1, i) \o <<t>> \o SubSeq(s, i + 1, Len(s))
InsertBefore(s, t, x) == LET i == CHOOSE j \in DOMAIN s : s[j] = x IN
  SubSeq(s, 1, i - 1) \o <<t>> \o SubSeq(s, i, Len(s))

ThreadListNext ==
  \/ \E t \in Off : tl' = threadlist_addhead(tl, t) /\ tl_seq' = <<t>> \o tl_seq
  \/ \E t \in Off : tl' = threadlist_addtail(tl, t) /\ tl_seq' = Append(tl_seq, t)
  \/ tl' = threadlist_remhead(tl) /\ tl_seq # <<>> /\ tl_seq' = Tail(tl_seq)
  \/ tl' = threadlist_remtail(tl) /\ tl_seq # <<>> /\ tl_seq' = Front(tl_seq)
  \/ \E t \in Off, x \in Range(tl_seq) :
       tl' = threadlist_insertafter(tl, x, t) /\ tl_seq' = InsertAfter(tl_seq, x, t)
  \/ \E t \in Off, x \in Range(tl_seq) :
       tl' = threadlist_insertbefore(tl, t, x) /\ tl_seq' = InsertBefore(tl_seq, t, x)
  \/ \E t \in Range(tl_seq) : tl' = threadlist_remove(tl, t) /\ tl_seq' = Remove(tl_seq, t)

ThreadListSpec == ThreadListInit /\ [][ThreadListNext]_tl_vars
-----------------------------------------------------------------------------
\* After any operations the links are those of the list they describe, forward
\* and backward, tl_count is its length, and a thread off the list has no
\* links (the KASSERTs of threadlistnode_cleanup).
ListIsSequence ==
  /\ tl.count = Len(tl_seq)
  /\ Forward(tl) = tl_seq /\ Backward(tl) = Reverse(tl_seq)
  /\ threadlist_isempty(tl) <=> HeadOf(tl) = TlNull
  /\ \A t \in FakeThreads \ Range(tl_seq) : tl.next[t] = TlNull /\ tl.prev[t] = TlNull
=============================================================================
