------------------------------ MODULE VfsTable ------------------------------
(***************************************************************************)
(* The device table of kern/vfs/vfslist.c with what keeps a file system    *)
(* mounted: the boot file system of vfslookup.c, the current directories   *)
(* of vfscwd.c and the files opened by a device or volume name.            *)
(*                                                                         *)
(* Every operation runs under vfs_biglock and is one step; one that fails  *)
(* for memory or in the file system's own code leaves everything as it     *)
(* was.  A file system is named after its device.  vt_refs counts the      *)
(* references to kd_vnode, <<"dev", name>>, and those to all vnodes of a   *)
(* file system together, <<"fs", name>>: its unmount answers EBUSY while   *)
(* there are any.                                                          *)
(***************************************************************************)
EXTENDS Naturals, Sequences, FiniteSets, FiniteSetsExt

CONSTANTS VtProcs,
          DevSpecs,       \* [name, rawname, volname, dev]: rawname "" when not
                          \* mountable, dev FALSE for vfs_addfs
          MaxOpens        \* bound: files opened by name at a time, and times
                          \* swap is attached to one device

VARIABLES knowndevs,      \* [spec, fs]: fs is NoFs, SwapFs or the spec's name
          bootfs_vnode,   \* the file system of the boot vnode, or NoFs
          vt_cwd,         \* vt_cwd[p]: the file system of p_cwd, or NoFs
          vt_opens,       \* history: the files open on each file system and device
          vt_refs         \* vn_refcount

vt_vars == <<knowndevs, bootfs_vnode, vt_cwd, vt_opens, vt_refs>>

NoFs == "none"
SwapFs == "swap"
FsNames == {s.name : s \in DevSpecs}
Fs(f) == <<"fs", f>>
Dev(f) == <<"dev", f>>
VtVnodes == {"fs", "dev"} \X FsNames

\* vfs_bootstrap; devnull_create and semfs_bootstrap are its first two vfs_doadd.
VfsTableInit ==
  /\ knowndevs = <<>>
  /\ bootfs_vnode = NoFs
  /\ vt_cwd = [p \in VtProcs |-> NoFs]
  /\ vt_opens = [v \in VtVnodes |-> 0]
  /\ vt_refs = [v \in VtVnodes |-> 0]

Incref(refs, v) == [refs EXCEPT ![v] = @ + 1]
Decref(refs, f) == IF f = NoFs THEN refs ELSE [refs EXCEPT ![Fs(f)] = @ - 1]

Mounted(kd) == kd.fs \notin {NoFs, SwapFs}

\* The names by which one entry is found; a NULL name is no name.
DevNames(kd) == {kd.spec.name, kd.spec.rawname} \ {""}
NamesOf(kd) == DevNames(kd) \cup (IF Mounted(kd) THEN {kd.spec.volname} \ {""} ELSE {})

\* Mutant of badnames: the raw names are not compared.
BadnamesNoRaw(names) ==
  \E i \in DOMAIN knowndevs : names \cap (NamesOf(knowndevs[i]) \ {knowndevs[i].spec.rawname}) # {}

badnames(names) == \E i \in DOMAIN knowndevs : names \cap NamesOf(knowndevs[i]) # {}

\* vfs_doadd for vfs_adddev and vfs_addfs: dev_create_vnode gives kd_vnode its
\* first reference.
vfs_doadd(s) ==
  LET kd == [spec |-> s, fs |-> IF s.dev THEN NoFs ELSE s.name] IN
  /\ ~badnames(NamesOf(kd))
  /\ knowndevs' = Append(knowndevs, kd)
  /\ vt_refs' = Incref(vt_refs, Dev(s.name))
  /\ UNCHANGED <<bootfs_vnode, vt_cwd, vt_opens>>

\* findmount: the mountable device of that name.
findmount(name) == {i \in DOMAIN knowndevs : knowndevs[i].spec.rawname # "" /\ knowndevs[i].spec.name = name}

vfs_mount(name) ==
  \E i \in findmount(name) :
    /\ knowndevs[i].fs = NoFs
    /\ knowndevs' = [knowndevs EXCEPT ![i].fs = name]
    /\ UNCHANGED <<bootfs_vnode, vt_cwd, vt_opens, vt_refs>>

\* vfs_swapon hands kd_vnode to its caller; vfs_swapoff drops no reference.
vfs_swapon(name) ==
  \E i \in findmount(name) :
    /\ knowndevs[i].fs = NoFs
    /\ knowndevs' = [knowndevs EXCEPT ![i].fs = SwapFs]
    /\ vt_refs' = Incref(vt_refs, Dev(name))
    /\ UNCHANGED <<bootfs_vnode, vt_cwd, vt_opens>>

vfs_swapoff(name) ==
  \E i \in findmount(name) :
    /\ knowndevs[i].fs = SwapFs
    /\ knowndevs' = [knowndevs EXCEPT ![i].fs = NoFs]
    /\ UNCHANGED <<bootfs_vnode, vt_cwd, vt_opens, vt_refs>>

\* FSOP_UNMOUNT refuses while a vnode of the file system is loaded.
CanUnmount(kd) == Mounted(kd) /\ vt_refs[Fs(kd.fs)] = 0

vfs_unmount(name) ==
  \E i \in findmount(name) :
    /\ CanUnmount(knowndevs[i])
    /\ knowndevs' = [knowndevs EXCEPT ![i].fs = NoFs]
    /\ UNCHANGED <<bootfs_vnode, vt_cwd, vt_opens, vt_refs>>

\* vfs_unmountall: swap is dropped; a file system stays mounted when it is busy,
\* when syncing it failed twice, and after any other error of its unmount.
vfs_unmountall ==
  /\ \E failed \in SUBSET DOMAIN knowndevs :
       knowndevs' = [i \in DOMAIN knowndevs |->
         LET kd == knowndevs[i] IN
         IF kd.spec.rawname # "" /\ (kd.fs = SwapFs \/ (CanUnmount(kd) /\ i \notin failed))
         THEN [kd EXCEPT !.fs = NoFs] ELSE kd]
  /\ UNCHANGED <<bootfs_vnode, vt_cwd, vt_opens, vt_refs>>
-----------------------------------------------------------------------------
\* What the loop of vfs_getroot makes of one entry: the root of a file system,
\* ENXIO for a device without one, the device itself, or "next".
Resolve(kd, name) ==
  CASE Mounted(kd) /\ name \in {kd.spec.name, kd.spec.volname} -> <<"fs", kd.fs>>
    [] ~Mounted(kd) /\ kd.spec.rawname # "" /\ name = kd.spec.name -> <<"ENXIO", "">>
    [] ~Mounted(kd) /\ kd.spec.rawname = "" /\ name = kd.spec.name -> <<"dev", kd.spec.name>>
    [] kd.spec.rawname # "" /\ name = kd.spec.rawname -> <<"dev", kd.spec.name>>
    [] OTHER -> <<"next", "">>

\* vfs_getroot: the first entry that says something.
vfs_getroot(name) ==
  LET hits == {i \in DOMAIN knowndevs : Resolve(knowndevs[i], name)[1] # "next"} IN
  IF hits = {} THEN <<"ENODEV", "">> ELSE Resolve(knowndevs[Min(hits)], name)

\* A file or device opened as "name:..." and closed again.
OpenByName(name) ==
  LET r == vfs_getroot(name) IN
  /\ r \in VtVnodes
  /\ vt_refs' = Incref(vt_refs, r)
  /\ vt_opens' = [vt_opens EXCEPT ![r] = @ + 1]
  /\ UNCHANGED <<knowndevs, bootfs_vnode, vt_cwd>>

CloseFile(v) ==
  /\ vt_opens[v] > 0
  /\ vt_refs' = [vt_refs EXCEPT ![v] = @ - 1]
  /\ vt_opens' = [vt_opens EXCEPT ![v] = @ - 1]
  /\ UNCHANGED <<knowndevs, bootfs_vnode, vt_cwd>>

\* Mutant of vfs_setcurdir: the new directory replaces the old one without a
\* reference of its own.
SetcurdirNoRef(p, f) ==
  /\ vt_cwd' = [vt_cwd EXCEPT ![p] = f]
  /\ vt_refs' = Decref(vt_refs, vt_cwd[p])

\* vfs_setcurdir: the new directory in with a reference, the old one's dropped.
vfs_setcurdir(p, f) ==
  /\ vt_cwd' = [vt_cwd EXCEPT ![p] = f]
  /\ vt_refs' = Decref(Incref(vt_refs, Fs(f)), vt_cwd[p])

\* vfs_chdir to a device or volume; a device is no directory.
vfs_chdir(p, name) ==
  LET r == vfs_getroot(name) IN
  /\ r[1] = "fs"
  /\ vfs_setcurdir(p, r[2])
  /\ UNCHANGED <<knowndevs, bootfs_vnode, vt_opens>>

\* A new process starts in its parent's directory (vfs_getcurdir).
InheritCwd(p, q) ==
  /\ vt_cwd[p] # NoFs /\ vt_cwd[q] = NoFs
  /\ vt_cwd' = [vt_cwd EXCEPT ![q] = vt_cwd[p]]
  /\ vt_refs' = Incref(vt_refs, Fs(vt_cwd[p]))
  /\ UNCHANGED <<knowndevs, bootfs_vnode, vt_opens>>

\* vfs_clearcurdir, and proc_destroy dropping p_cwd.
vfs_clearcurdir(p) ==
  /\ vt_cwd[p] # NoFs
  /\ vt_cwd' = [vt_cwd EXCEPT ![p] = NoFs]
  /\ vt_refs' = Decref(vt_refs, vt_cwd[p])
  /\ UNCHANGED <<knowndevs, bootfs_vnode, vt_opens>>

\* vfs_setbootfs: vfs_chdir, then a second reference for the boot vnode and
\* change_bootfs.
vfs_setbootfs(p, name) ==
  LET r == vfs_getroot(name) IN
  /\ r[1] = "fs"
  /\ vt_cwd' = [vt_cwd EXCEPT ![p] = r[2]]
  /\ bootfs_vnode' = r[2]
  /\ vt_refs' = Decref(Incref(Decref(Incref(vt_refs, r), vt_cwd[p]), r), bootfs_vnode)
  /\ UNCHANGED <<knowndevs, vt_opens>>

vfs_clearbootfs ==
  /\ bootfs_vnode # NoFs
  /\ bootfs_vnode' = NoFs
  /\ vt_refs' = Decref(vt_refs, bootfs_vnode)
  /\ UNCHANGED <<knowndevs, vt_cwd, vt_opens>>

TableNames == UNION {DevNames(knowndevs[i]) \cup {knowndevs[i].spec.volname} : i \in DOMAIN knowndevs} \ {""}
OpenCount == FoldSet(LAMBDA v, n : n + vt_opens[v], 0, VtVnodes)

VfsTableNext ==
  \/ \E s \in DevSpecs : vfs_doadd(s)
  \/ \E f \in FsNames :
       \/ vfs_mount(f) \/ vfs_swapoff(f) \/ vfs_unmount(f)
       \/ vt_refs[Dev(f)] <= MaxOpens /\ vfs_swapon(f)
  \/ \E v \in VtVnodes : CloseFile(v)
  \/ vfs_unmountall \/ vfs_clearbootfs
  \/ \E name \in TableNames :
       \/ OpenCount < MaxOpens /\ OpenByName(name)
       \/ \E p \in VtProcs : vfs_chdir(p, name) \/ vfs_setbootfs(p, name)
  \/ \E p \in VtProcs : vfs_clearcurdir(p)
  \/ \E p, q \in VtProcs : InheritCwd(p, q)

VfsTableSpec == VfsTableInit /\ [][VfsTableNext]_vt_vars
-----------------------------------------------------------------------------
Users(f) ==
  vt_opens[Fs(f)] + Cardinality({p \in VtProcs : vt_cwd[p] = f}) + (IF bootfs_vnode = f THEN 1 ELSE 0)

\* A file system cannot go away under a vnode somebody still has, as
\* vfs_getdevname relies on: the references are exactly those of the boot
\* vnode, the current directories and the open files, across chdir, fork,
\* exit, setbootfs, and every file system with one is in the table.  The vnode of
\* a device in the table keeps the table's reference, whatever opens and closes
\* the device, and is not reclaimed.
UsedStaysMounted ==
  \A f \in FsNames :
    /\ vt_refs[Fs(f)] = Users(f)
    /\ Users(f) > 0 => \E i \in DOMAIN knowndevs : knowndevs[i].fs = f
    /\ (\E i \in DOMAIN knowndevs : knowndevs[i].spec.name = f) => vt_refs[Dev(f)] > vt_opens[Dev(f)]

\* badnames keeps device names and raw names apart, so that whatever was added,
\* mounted and unmounted before, a device name leads to at most one device and
\* a device's own name is taken from it only by the volume of an earlier entry.
NamesUnambiguous ==
  /\ \A i, j \in DOMAIN knowndevs : i # j => DevNames(knowndevs[i]) \cap DevNames(knowndevs[j]) = {}
  /\ \A i \in DOMAIN knowndevs :
       LET kd == knowndevs[i]
           r == vfs_getroot(kd.spec.name) IN
       r[2] \in {kd.spec.name, ""} \/
         \E j \in 1..(i - 1) : Mounted(knowndevs[j]) /\ knowndevs[j].spec.volname = kd.spec.name
=============================================================================
