-------------------------------- MODULE Emu --------------------------------
(***************************************************************************)
(* The emulated file system of kern/dev/lamebus/emu.c: the device with its *)
(* one set of registers, the interrupt that answers a request, and the     *)
(* vnodes the driver keeps for the handles the device hands out.           *)
(*                                                                         *)
(* A step is what runs between two points where a thread may sleep: taking *)
(* vfs_biglock or e_lock, and waiting for an answer (emu_waitdone).  The   *)
(* host's tree does not change shape.  The device gives one handle to a    *)
(* file however often it is opened (emufs_loadvnode finds a vnode by its   *)
(* handle, and a vnode is closed once), so a handle is the file it is for. *)
(***************************************************************************)
EXTENDS Naturals, Sequences, FiniteSets, FiniteSetsExt

CONSTANTS EmThreads, NoEm,      \* threads, and no thread
          EmRoot, EmEntries,    \* the root; EmEntries[d]: what directory d lists
          EMU_RETRIES,          \* 10 in the code
          EMU_MAXIO,            \* 16384 in the code
          MaxEmOps,             \* bound: MaxEmOps[t], the calls of thread t
          EmSizes,              \* sizes of the reads and writes tried
          EmHas                 \* EmHas[t]: the directories and files thread t starts with

EmDirs == DOMAIN EmEntries
EmFiles == {EmRoot} \cup UNION {{EmEntries[d][i] : i \in DOMAIN EmEntries[d]} : d \in EmDirs}
EmParent(f) == CHOOSE d \in EmDirs : \E i \in DOMAIN EmEntries[d] : EmEntries[d][i] = f

VARIABLES em_dev,      \* the request in the registers: [op, h, who], who = NoEm if none
          em_open,     \* the handles open at the device
          em_iobuf,    \* e_iobuf: whose data it holds
          em_sem, em_result,
          em_lock,     \* e_lock: its holder
          em_big,      \* vfs_biglock: [holder, depth]
          em_count,    \* em_count[f]: vn_refcount of f's vnode; 0: none in ef_vnodes
          em_held,     \* em_held[t][f]: the references thread t owns
          em_thr, em_ops,
          em_leak,     \* history: references no one will drop
          em_bad,      \* history: the device refused a handle: translate_err panics
          em_out       \* history: the first of the cases the properties leave out

em_hw == <<em_dev, em_open, em_iobuf, em_sem, em_result>>
em_locks == <<em_lock, em_big>>
em_refs == <<em_count, em_held>>
em_hist == <<em_leak, em_bad, em_out>>
em_vars == <<em_hw, em_locks, em_refs, em_thr, em_ops, em_hist>>

\* A thread: where it is, the request it makes, where it goes on after the
\* answer (ret) and after a VOP_DECREF (k), and the locals of emufs_namefile.
Idle == [pc |-> "idle", op |-> "none", h |-> EmRoot, ret |-> "idle", k |-> "idle", res |-> "ok",
         tries |-> 0, resid |-> 0,
         v |-> EmRoot, find |-> EmRoot, vn |-> EmRoot, vn2 |-> NoEm, off |-> 1, path |-> <<>>]
NoRequest == [op |-> "none", h |-> EmRoot, who |-> NoEm]

\* config_emu and emufs_addtovfs: the root's vnode belongs to the file system.
\* The processes have their current directories, and perhaps files, open.
emufs_addtovfs ==
  /\ em_dev = NoRequest /\ em_open = {EmRoot} \cup UNION {EmHas[t] : t \in EmThreads} /\ em_iobuf = NoEm
  /\ em_sem = 0 /\ em_result = "ok" /\ em_lock = NoEm
  /\ em_big = [holder |-> NoEm, depth |-> 0]
  /\ em_count = [f \in EmFiles |-> (IF f = EmRoot THEN 1 ELSE 0) + Cardinality({t \in EmThreads : f \in EmHas[t]})]
  /\ em_held = [t \in EmThreads |-> [f \in EmFiles |-> IF f \in EmHas[t] THEN 1 ELSE 0]]
  /\ em_thr = [t \in EmThreads |-> Idle] /\ em_ops = [t \in EmThreads |-> 0]
  /\ em_leak = [f \in EmFiles |-> 0] /\ em_bad = FALSE /\ em_out = "no"

\* Thread record r going on at pc; nothing of it is left when the call returns.
Then(r, pc) == IF pc = "idle" THEN Idle ELSE [r EXCEPT !.pc = pc]
EmGo(t, pc) == em_thr' = [em_thr EXCEPT ![t] = Then(@, pc)]
EmCall(t) == em_thr[t].pc = "idle" /\ em_ops[t] < MaxEmOps[t] /\ em_ops' = [em_ops EXCEPT ![t] = @ + 1]

\* Thread record r with a request to make.
Requesting(r, op, h, ret) == [r EXCEPT !.pc = "request", !.op = op, !.h = h, !.ret = ret]
-----------------------------------------------------------------------------
\* vfs_biglock is recursive.
BigFor(t) == em_big.holder \in {NoEm, t}
vfs_biglock_acquire(t, b) == [holder |-> t, depth |-> b.depth + 1]
vfs_biglock_release(b) ==
  IF b.depth = 1 THEN [holder |-> NoEm, depth |-> 0] ELSE [b EXCEPT !.depth = @ - 1]

emu_wreg(t, op, h) == em_dev' = [op |-> op, h |-> h, who |-> t]

\* Mutant of emu_request: emu_write does not take e_lock.
RequestUnlocked(t) ==
  /\ em_thr[t].pc = "request"
  /\ em_thr[t].op # "write" => em_lock = NoEm
  /\ em_lock' = t
  /\ emu_wreg(t, em_thr[t].op, em_thr[t].h)
  /\ em_iobuf' = IF em_thr[t].op \in {"write", "open", "creat"} THEN t ELSE em_iobuf
  /\ EmGo(t, "wait")
  /\ UNCHANGED <<em_open, em_sem, em_result, em_big, em_refs, em_ops, em_hist>>

\* emu_open, emu_close, emu_doread, emu_write, emu_getsize and emu_trunc up to
\* emu_waitdone: e_lock is taken, the buffer filled and the registers written.
emu_request(t) ==
  /\ em_thr[t].pc = "request"
  /\ em_lock = NoEm
  /\ em_lock' = t
  /\ emu_wreg(t, em_thr[t].op, em_thr[t].h)
  /\ em_iobuf' = IF em_thr[t].op \in {"write", "open", "creat"} THEN t ELSE em_iobuf
  /\ EmGo(t, "wait")
  /\ UNCHANGED <<em_open, em_sem, em_result, em_big, em_refs, em_ops, em_hist>>

\* External: an operation on a handle that is not open is refused; any other
\* may meet a media error.
Answers(r) ==
  IF r.op \in {"open", "creat"} \/ r.h \in em_open THEN {"ok", "EIO"} ELSE {"badhandle"}
Serve(r) ==
  CASE r.op \in {"open", "creat"} -> em_open \cup {r.h}
    [] r.op = "close" -> em_open \ {r.h}
    [] OTHER -> em_open

\* emu_irq: the answer is fetched and the waiter signalled.
emu_irq ==
  /\ em_dev.who # NoEm
  /\ \E res \in Answers(em_dev) :
       em_open' = (IF res = "ok" THEN Serve(em_dev) ELSE em_open) /\ em_result' = res
  /\ em_sem' = em_sem + 1 /\ em_dev' = NoRequest
  /\ UNCHANGED <<em_iobuf, em_locks, em_refs, em_thr, em_ops, em_hist>>

\* emu_waitdone and what its callers do next: a close is tried again on EIO,
\* and e_lock is released unless emufs_reclaim holds it around emu_close.
emu_waitdone(t) ==
  LET r == em_thr[t] IN
  /\ r.pc = "wait" /\ em_sem > 0
  /\ em_sem' = em_sem - 1
  /\ em_bad' = (em_bad \/ em_result = "badhandle")
  /\ IF r.op = "close" /\ em_result = "EIO" /\ r.tries < EMU_RETRIES
     THEN /\ em_thr' = [em_thr EXCEPT ![t].tries = @ + 1]
          /\ emu_wreg(t, "close", r.h)
          /\ UNCHANGED em_lock
     ELSE /\ em_thr' = [em_thr EXCEPT ![t] = Then([r EXCEPT !.res = em_result, !.tries = 0], r.ret)]
          /\ em_lock' = IF r.ret = "reclaimed" THEN t ELSE NoEm
          /\ UNCHANGED em_dev
  /\ UNCHANGED <<em_open, em_iobuf, em_result, em_big, em_refs, em_ops, em_leak, em_out>>
-----------------------------------------------------------------------------
\* Who has opened f at the device and not looked its vnode up yet.
Loading(f) ==
  {t \in EmThreads : /\ em_thr[t].h = f /\ em_thr[t].op \in {"open", "creat"}
                     /\ em_thr[t].pc \in {"wait", "load", "nf_load", "nf_loadsub"}}

\* Mutant of emufs_loadvnode: a vnode that was found is not referenced.
LoadNoIncref(t, f) ==
  /\ BigFor(t) /\ em_lock = NoEm
  /\ em_count' = [em_count EXCEPT ![f] = IF @ = 0 THEN 1 ELSE @]
  /\ em_held' = [em_held EXCEPT ![t][f] = @ + 1]

\* emufs_loadvnode: the vnode with this handle, or a new one in ef_vnodes, under
\* both locks.
emufs_loadvnode(t, f) ==
  /\ BigFor(t) /\ em_lock = NoEm
  /\ em_count' = [em_count EXCEPT ![f] = @ + 1]
  /\ em_held' = [em_held EXCEPT ![t][f] = @ + 1]

\* emufs_lookup of an entry of a directory, from vfs_lookup, which holds
\* vfs_biglock around it.
emufs_lookup(t, d, i) ==
  /\ EmCall(t) /\ em_held[t][d] > 0 /\ BigFor(t)
  /\ em_big' = vfs_biglock_acquire(t, em_big)
  /\ em_thr' = [em_thr EXCEPT ![t] = Requesting(Idle, "open", EmEntries[d][i], "load")]
  /\ UNCHANGED <<em_hw, em_lock, em_refs, em_hist>>

\* emufs_creat, which vfs_open calls without vfs_biglock.
emufs_creat(t, d, i) ==
  /\ EmCall(t) /\ em_held[t][d] > 0 /\ EmEntries[d][i] \notin EmDirs
  /\ em_thr' = [em_thr EXCEPT ![t] = Requesting(Idle, "creat", EmEntries[d][i], "load")]
  /\ UNCHANGED <<em_hw, em_locks, em_refs, em_hist>>

\* The rest of both.  Without memory for a new vnode the handle is closed, and
\* vfs_biglock has been taken once more than it is released.
EmLoad(t) ==
  LET r == em_thr[t]
      released(b) == IF r.op = "open" THEN vfs_biglock_release(b) ELSE b IN
  /\ r.pc = "load"
  /\ \/ /\ r.res # "ok"
        /\ em_big' = released(em_big) /\ em_thr' = [em_thr EXCEPT ![t] = Idle]
        /\ UNCHANGED <<em_refs, em_out>>
     \/ /\ r.res = "ok" /\ emufs_loadvnode(t, r.h)
        /\ em_big' = released(em_big) /\ em_thr' = [em_thr EXCEPT ![t] = Idle]
        /\ UNCHANGED em_out
     \/ /\ r.res = "ok" /\ BigFor(t) /\ em_lock = NoEm /\ em_count[r.h] = 0
        /\ em_big' = released(vfs_biglock_acquire(t, em_big))
        /\ em_thr' = [em_thr EXCEPT ![t] = Requesting(Idle, "close", r.h, "idle")]
        /\ em_out' = "nomem" /\ UNCHANGED em_refs
  /\ UNCHANGED <<em_hw, em_lock, em_ops, em_leak, em_bad>>
-----------------------------------------------------------------------------
EmDrop(t, f) ==
  /\ em_count' = [em_count EXCEPT ![f] = @ - 1]
  /\ em_held' = [em_held EXCEPT ![t][f] = @ - 1]

\* VOP_DECREF of f by thread record r, going on at k: the last reference goes to
\* VOP_RECLAIM.
vop_decref(t, r, f, k) ==
  IF em_count[f] > 1
  THEN EmDrop(t, f) /\ em_thr' = [em_thr EXCEPT ![t] = Then(r, k)]
  ELSE em_thr' = [em_thr EXCEPT ![t] = [r EXCEPT !.pc = "reclaim", !.h = f, !.k = k]] /\ UNCHANGED em_refs

EmClose(t, f) ==
  /\ EmCall(t) /\ em_held[t][f] > 0 /\ f # EmRoot
  /\ vop_decref(t, Idle, f, "idle")
  /\ UNCHANGED <<em_hw, em_locks, em_hist>>

\* Mutant of emufs_reclaim: the count is not read again under the locks.
ReclaimUnchecked(t) ==
  LET r == em_thr[t] IN
  /\ r.pc = "reclaim" /\ BigFor(t) /\ em_lock = NoEm
  /\ em_big' = vfs_biglock_acquire(t, em_big) /\ em_lock' = t
  /\ emu_wreg(t, "close", r.h)
  /\ em_thr' = [em_thr EXCEPT ![t].pc = "wait", ![t].op = "close", ![t].ret = "reclaimed"]
  /\ em_out' = IF Loading(r.h) # {} THEN "raced" ELSE em_out
  /\ UNCHANGED <<em_open, em_iobuf, em_sem, em_result, em_refs, em_ops, em_leak, em_bad>>

\* emufs_reclaim up to emu_close: someone may have found the vnode again.
emufs_reclaim(t) ==
  LET r == em_thr[t] IN
  /\ r.pc = "reclaim" /\ BigFor(t) /\ em_lock = NoEm
  /\ IF em_count[r.h] > 1
     THEN EmDrop(t, r.h) /\ EmGo(t, r.k) /\ UNCHANGED <<em_locks, em_dev, em_out>>
     ELSE /\ em_big' = vfs_biglock_acquire(t, em_big) /\ em_lock' = t
          /\ emu_wreg(t, "close", r.h)
          /\ em_thr' = [em_thr EXCEPT ![t].pc = "wait", ![t].op = "close", ![t].ret = "reclaimed"]
          /\ em_out' = IF Loading(r.h) # {} THEN "raced" ELSE em_out
          /\ UNCHANGED em_refs
  /\ UNCHANGED <<em_open, em_iobuf, em_sem, em_result, em_ops, em_leak, em_bad>>

\* The rest of emufs_reclaim.  A close that failed leaves the vnode in ef_vnodes
\* with a reference nobody has.
EmReclaimed(t) ==
  LET r == em_thr[t] IN
  /\ r.pc = "reclaimed"
  /\ em_big' = vfs_biglock_release(em_big) /\ em_lock' = NoEm
  /\ em_held' = [em_held EXCEPT ![t][r.h] = @ - 1]
  /\ IF r.res = "ok" THEN em_count' = [em_count EXCEPT ![r.h] = @ - 1] /\ UNCHANGED em_leak
                     ELSE em_leak' = [em_leak EXCEPT ![r.h] = @ + 1] /\ UNCHANGED em_count
  /\ EmGo(t, r.k)
  /\ UNCHANGED <<em_hw, em_ops, em_bad, em_out>>
-----------------------------------------------------------------------------
\* The operations a vnode answers by its type alone: the two tables.
emufs_fileops ==
  [op \in {"getdirentry", "namefile", "creat", "symlink", "mkdir", "link", "remove", "rmdir", "rename",
           "lookup", "lookparent", "readlink", "ioctl", "mmap", "fsync", "eachopen"} |->
     CASE op \in {"readlink", "ioctl"} -> "EINVAL"
       [] op = "mmap" -> "ENOSYS"
       [] op \in {"fsync", "eachopen"} -> "ok"
       [] OTHER -> "ENOTDIR"]
emufs_dirops ==
  [op \in {"read", "write", "readlink", "fsync", "mmap", "truncate", "symlink", "mkdir", "link", "remove",
           "rmdir", "rename", "ioctl", "eachopen"} |->
     CASE op \in {"symlink", "mkdir", "link", "remove", "rmdir", "rename"} -> "ENOSYS"
       [] op = "truncate" -> "ENOTDIR"
       [] op = "ioctl" -> "EINVAL"
       [] op = "eachopen" -> "ok"       \* for reading
       [] OTHER -> "EISDIR"]

EmAnswer(t, f) ==
  LET ops == IF f \in EmDirs THEN emufs_dirops ELSE emufs_fileops IN
  /\ EmCall(t) /\ em_held[t][f] > 0
  /\ \E op \in DOMAIN ops : em_thr' = [em_thr EXCEPT ![t] = [Idle EXCEPT !.res = ops[op]]]
  /\ UNCHANGED <<em_hw, em_locks, em_refs, em_hist>>

\* emufs_read and emufs_write of n bytes, by requests of at most EMU_MAXIO.
EmTransfer(t, f, op, n) ==
  /\ EmCall(t) /\ em_held[t][f] > 0 /\ f \notin EmDirs
  /\ em_thr' = [em_thr EXCEPT ![t] = [Requesting(Idle, op, f, "moved") EXCEPT !.resid = n]]
  /\ UNCHANGED <<em_hw, em_locks, em_refs, em_hist>>

\* The rest of their loop: an error ends it, and so does a read of nothing.
EmMoved(t) ==
  LET r == em_thr[t]
      amt == Min({r.resid, EMU_MAXIO}) IN
  /\ r.pc = "moved"
  /\ \E n \in (IF r.op = "write" THEN {amt} ELSE 0..amt) :
       em_thr' = [em_thr EXCEPT ![t] =
                    IF r.res # "ok" \/ n = 0 \/ n = r.resid THEN Idle
                    ELSE [r EXCEPT !.pc = "request", !.resid = @ - n]]
  /\ UNCHANGED <<em_hw, em_locks, em_refs, em_ops, em_hist>>

\* emufs_stat (emu_getsize), emufs_truncate (emu_trunc), emufs_getdirentry.
EmSimple(t, f, op) ==
  /\ EmCall(t) /\ em_held[t][f] > 0
  /\ op = "trunc" => f \notin EmDirs
  /\ op = "readdir" => f \in EmDirs
  /\ em_thr' = [em_thr EXCEPT ![t] = Requesting(Idle, op, f, "idle")]
  /\ UNCHANGED <<em_hw, em_locks, em_refs, em_hist>>
-----------------------------------------------------------------------------
\* vfs_getcwd with the current directory d: a reference for the call, then
\* emufs_namefile, which runs without vfs_biglock.  The loop's condition reads
\* vn before anything is stored in it: it may well be the root's vnode still,
\* left there by an earlier call, and then the loop is not entered.
emufs_namefile(t, d) ==
  /\ EmCall(t) /\ em_held[t][d] > 0 /\ d \in EmDirs
  /\ em_count' = [em_count EXCEPT ![d] = @ + 1]
  /\ em_held' = [em_held EXCEPT ![t][d] = @ + 1]
  /\ \E garbage \in {"other", "root"} :
       /\ em_thr' = [em_thr EXCEPT ![t] = [Idle EXCEPT !.v = d, !.find = d,
                       !.pc = IF d = EmRoot \/ garbage = "root" THEN "nf_done" ELSE "nf_up"]]
       /\ em_out' = IF d # EmRoot /\ garbage = "root" THEN "garbage" ELSE em_out
  /\ UNCHANGED <<em_hw, em_locks, em_leak, em_bad>>

\* The top of the outer loop: emufs_lookup of "..", whose result is ignored.
NfUp(t) ==
  LET r == em_thr[t] IN
  /\ r.pc = "nf_up"
  /\ em_thr' = [em_thr EXCEPT ![t] = Requesting(r, "open", EmParent(r.find), "nf_load")]
  /\ UNCHANGED <<em_hw, em_locks, em_refs, em_ops, em_hist>>

NfLoad(t) ==
  LET r == em_thr[t] IN
  /\ r.pc = "nf_load" /\ UNCHANGED <<em_hw, em_locks, em_ops, em_leak, em_bad>>
  /\ IF r.res # "ok"
     THEN EmGo(t, "nf_next") /\ em_out' = "lookup" /\ UNCHANGED em_refs
     ELSE /\ emufs_loadvnode(t, r.h)
          /\ em_thr' = [em_thr EXCEPT ![t] = [r EXCEPT !.pc = "nf_next", !.vn = r.h, !.vn2 = NoEm, !.off = 1]]
          /\ UNCHANGED em_out

\* Mutant of NfNext: the first entry is taken for the directory.
NextFirst(t) ==
  LET r == em_thr[t] IN
  /\ r.pc = "nf_next" /\ UNCHANGED <<em_hw, em_locks, em_ops, em_hist>>
  /\ EmGo(t, IF r.vn2 # NoEm THEN "nf_found" ELSE "nf_read") /\ UNCHANGED em_refs

\* The inner loop: until the entry is the directory sought, drop it and read the
\* next one.
NfNext(t) ==
  LET r == em_thr[t] IN
  /\ r.pc = "nf_next" /\ UNCHANGED <<em_hw, em_locks, em_ops, em_hist>>
  /\ IF r.vn2 = r.find THEN EmGo(t, "nf_found") /\ UNCHANGED em_refs
     ELSE IF r.vn2 # NoEm THEN vop_decref(t, r, r.vn2, "nf_read")
     ELSE EmGo(t, "nf_read") /\ UNCHANGED em_refs

NfRead(t) ==
  LET r == em_thr[t] IN
  /\ r.pc = "nf_read"
  /\ em_thr' = [em_thr EXCEPT ![t] = Requesting(r, "readdir", r.vn, "nf_entry")]
  /\ UNCHANGED <<em_hw, em_locks, em_refs, em_ops, em_hist>>

\* emufs_lookup of "../" and the entry.  When the read failed or was at the end
\* there is no entry, and the name is that of the parent itself.
NfEntry(t) ==
  LET r == em_thr[t]
      got == r.res = "ok" /\ r.off \in DOMAIN EmEntries[r.vn] IN
  /\ r.pc = "nf_entry"
  /\ em_thr' = [em_thr EXCEPT ![t] =
                  Requesting([r EXCEPT !.off = IF got THEN @ + 1 ELSE @],
                             "open", IF got THEN EmEntries[r.vn][r.off] ELSE r.vn, "nf_loadsub")]
  /\ UNCHANGED <<em_hw, em_locks, em_refs, em_ops, em_hist>>

\* A lookup that fails leaves in vn2 a vnode whose reference is gone.
NfLoadSub(t) ==
  LET r == em_thr[t] IN
  /\ r.pc = "nf_loadsub" /\ UNCHANGED <<em_hw, em_locks, em_ops, em_leak, em_bad>>
  /\ IF r.res # "ok"
     THEN EmGo(t, "nf_next") /\ em_out' = (IF r.vn2 # NoEm THEN "lookup" ELSE em_out) /\ UNCHANGED em_refs
     ELSE /\ emufs_loadvnode(t, r.h)
          /\ em_thr' = [em_thr EXCEPT ![t] = [r EXCEPT !.pc = "nf_next", !.vn2 = r.h]]
          /\ UNCHANGED em_out

\* The entry's name goes in front, or the name would be too long (or there is no
\* memory for it): then every reference of the loop stays behind.
NfFound(t) ==
  LET r == em_thr[t]
      kept == [f \in EmFiles |-> (IF f = r.find THEN 1 ELSE 0) + (IF f = r.vn THEN 1 ELSE 0)
                                   + (IF f = r.find /\ f # r.v THEN 1 ELSE 0)] IN
  /\ r.pc = "nf_found" /\ UNCHANGED <<em_hw, em_locks, em_ops, em_bad, em_out>>
  /\ \/ /\ vop_decref(t, [r EXCEPT !.path = <<r.vn2>> \o @], r.find, "nf_drop")
        /\ UNCHANGED em_leak
     \/ /\ em_leak' = [f \in EmFiles |-> em_leak[f] + kept[f]]
        /\ em_held' = [em_held EXCEPT ![t] = [f \in EmFiles |-> @[f] - kept[f]]]
        /\ em_thr' = [em_thr EXCEPT ![t] = [r EXCEPT !.pc = "nf_done", !.path = <<>>, !.res = "error"]]
        /\ UNCHANGED em_count

\* The reference the lookup of ".." gave, unless find is the caller's vnode.
NfDrop(t) ==
  LET r == em_thr[t] IN
  /\ r.pc = "nf_drop" /\ UNCHANGED <<em_hw, em_locks, em_ops, em_hist>>
  /\ IF r.find # r.v THEN vop_decref(t, r, r.find, "nf_level")
     ELSE EmGo(t, "nf_level") /\ UNCHANGED em_refs

\* One level up.  At the root the loop ends, and the root's reference stays.
NfLevel(t) ==
  LET r == em_thr[t] IN
  /\ r.pc = "nf_level" /\ UNCHANGED <<em_hw, em_locks, em_count, em_ops, em_bad, em_out>>
  /\ em_thr' = [em_thr EXCEPT ![t] =
                  [r EXCEPT !.find = r.vn, !.pc = IF r.vn = EmRoot THEN "nf_done" ELSE "nf_up", !.res = "ok"]]
  /\ IF r.vn = EmRoot
     THEN /\ em_leak' = [em_leak EXCEPT ![EmRoot] = @ + 1]
          /\ em_held' = [em_held EXCEPT ![t][EmRoot] = @ - 1]
     ELSE UNCHANGED <<em_leak, em_held>>

\* vfs_getcwd drops the current directory.
NfDone(t) ==
  LET r == em_thr[t] IN
  /\ r.pc = "nf_done"
  /\ vop_decref(t, Idle, r.v, "idle")
  /\ UNCHANGED <<em_hw, em_locks, em_ops, em_hist>>

EmuNext ==
  \/ emu_irq
  \/ \E t \in EmThreads :
       \/ emu_request(t) \/ emu_waitdone(t) \/ EmLoad(t) \/ emufs_reclaim(t) \/ EmReclaimed(t) \/ EmMoved(t)
       \/ NfUp(t) \/ NfLoad(t) \/ NfNext(t) \/ NfRead(t) \/ NfEntry(t) \/ NfLoadSub(t)
       \/ NfFound(t) \/ NfDrop(t) \/ NfLevel(t) \/ NfDone(t)
       \/ \E d \in EmDirs : \E i \in DOMAIN EmEntries[d] : emufs_lookup(t, d, i) \/ emufs_creat(t, d, i)
       \/ \E f \in EmFiles : EmClose(t, f) \/ EmAnswer(t, f) \/ emufs_namefile(t, f)
       \/ \E f \in EmFiles, op \in {"read", "write"}, n \in EmSizes : EmTransfer(t, f, op, n)
       \/ \E f \in EmFiles, op \in {"getsize", "trunc", "readdir"} : EmSimple(t, f, op)

EmuSpec == emufs_addtovfs /\ [][EmuNext]_em_vars

\* The runs stop at the cases named in em_out.
EmKept == em_out = "no"
-----------------------------------------------------------------------------
EmTruePath(d) ==
  LET up[n \in 0..Cardinality(EmDirs)] == IF n = 0 THEN <<d>>
        ELSE IF up[n - 1][1] = EmRoot THEN up[n - 1] ELSE <<EmParent(up[n - 1][1])>> \o up[n - 1] IN
  Tail(up[Cardinality(EmDirs)])

\* The reference count of every emufs vnode is the number of references in use,
\* plus the ones the driver is known to lose (the root's at the end of every
\* emufs_namefile, those of a name that is too long, a close that failed).  No
\* interleaving of emufs_loadvnode, vnode_decref and emufs_reclaim loses another.
EmuCountExact ==
  em_out = "no" =>
    \A f \in EmFiles :
      em_count[f] = (IF f = EmRoot THEN 1 ELSE 0) + em_leak[f] + MapThenSumSet(LAMBDA t : em_held[t][f], EmThreads)

\* A vnode in ef_vnodes has an open handle, except while emufs_reclaim closes
\* it, and no request reaches the device with a handle it does not know, which
\* translate_err answers with a panic.
HandleLive ==
  em_out = "no" =>
    /\ ~em_bad
    /\ \A f \in EmFiles : em_count[f] > 0 =>
         \/ f \in em_open
         \/ \E t \in EmThreads : em_thr[t].h = f /\ em_thr[t].op = "close" /\ em_thr[t].pc \in {"wait", "reclaimed"}

\* e_lock makes the registers, the buffer and the answer one thread's: a request
\* is the lock holder's, its buffer holds the holder's data, and at most one
\* answer waits, for the holder.
AnswerIsMine ==
  /\ em_dev.who # NoEm => /\ em_lock = em_dev.who /\ em_thr[em_dev.who].pc = "wait" /\ em_sem = 0
                          /\ em_dev.op \in {"open", "creat", "write"} => em_iobuf = em_dev.who
  /\ em_sem <= 1
  /\ \A t \in EmThreads : em_thr[t].pc = "wait" => em_lock = t

\* emufs_namefile writes the path from the root down to the current directory.
NamefileIsPath ==
  \A t \in EmThreads : em_thr[t].pc = "nf_done" /\ em_thr[t].res = "ok" /\ em_out = "no" =>
    em_thr[t].path = EmTruePath(em_thr[t].v)

\* emufs with its one set of registers and its vnodes by handle, used by several
\* threads: answers go to who asked, handles and references stay exact.
EmuSafe == EmuCountExact /\ HandleLive /\ AnswerIsMine /\ NamefileIsPath
=============================================================================
