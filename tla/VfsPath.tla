------------------------------- MODULE VfsPath -------------------------------
(***************************************************************************)
(* Names to vnodes: getdevice, vfs_lookup and vfs_lookparent of            *)
(* kern/vfs/vfslookup.c, the calls of vfspath.c on top of them, vfs_chdir  *)
(* and vfs_getcwd of vfscwd.c and sys_chdir of syscall/dir_syscalls.c.     *)
(*                                                                         *)
(* A call is the list of what it does to vnodes: every element may fail    *)
(* and names the references the code drops before it returns the error.    *)
(* The file system behind a VOP is not here: it answers either way.        *)
(* A path is a sequence of ":", "/" and names "n".                         *)
(***************************************************************************)
EXTENDS Naturals, Integers, Sequences, FiniteSets, FiniteSetsExt, SequencesExt

CONSTANTS PathLen,        \* bound: length of a path
          VpVnodes,       \* vnodes a lookup can find
          VpFs            \* VpFs[v]: the file system of v, "none" for a device

VARIABLES vn_refs,        \* vn_refcount of every vnode
          vp_call, vp_k,  \* the call and its next element, <<>> when idle
          vp_role,        \* vp_role[r]: the vnode in local variable r, or NoVn
          vp_fd, vp_cwd,  \* what a successful open returned; p_cwd
          vp_path         \* the path of the last lookup

vp_vars == <<vn_refs, vp_call, vp_k, vp_role, vp_fd, vp_cwd, vp_path>>

NoVn == "null"
Roles == {"start", "dir", "newdir", "vn"}
Paths == UNION {[1..n -> {":", "/", "n"}] : n \in 0..PathLen}
-----------------------------------------------------------------------------
SepAt(path) == {i \in DOMAIN path : path[i] \in {":", "/"}}

\* Mutant of SkipSlashes: only one slash is skipped.
SkipOneSlash(s) == IF s # <<>> /\ Head(s) = "/" THEN Tail(s) ELSE s

\* The loops that pass over the slashes after a device name or a first slash.
SkipSlashes(s) ==
  LET rest == {i \in DOMAIN s : s[i] # "/"} IN IF rest = {} THEN <<>> ELSE SubSeq(s, Min(rest), Len(s))

\* getdevice: where the lookup starts and what is left of the path.
getdevice(path) ==
  LET first == IF SepAt(path) = {} THEN 0 ELSE Min(SepAt(path)) IN
  CASE path = <<>> -> [from |-> "EINVAL", name |-> <<>>, sub |-> <<>>]
    [] path # <<>> /\ (first = 0 \/ (path[first] = "/" /\ first # 1)) ->
         [from |-> "cwd", name |-> <<>>, sub |-> path]
    [] first > 1 /\ path[first] = ":" ->
         [from |-> "device", name |-> SubSeq(path, 1, first - 1),
          sub |-> SkipSlashes(SubSeq(path, first + 1, Len(path)))]
    [] first = 1 ->
         [from |-> IF path[1] = "/" THEN "boot" ELSE "cwdroot", name |-> <<>>,
          sub |-> SkipSlashes(Tail(path))]
-----------------------------------------------------------------------------
VpLook(r, drop) == [do |-> "lookup", role |-> r, drop |-> drop]
LookParent(r, drop) == [do |-> "lookparent", role |-> r, drop |-> drop]
Vop(r, drop) == [do |-> "vop", role |-> r, drop |-> drop]
Gives(r, drop) == [do |-> "gives", role |-> r, drop |-> drop]
SameFs(r, drop) == [do |-> "samefs", role |-> r, drop |-> drop]
VpDrop(r) == [do |-> "drop", role |-> r, drop |-> <<>>]
VpReturn(r) == [do |-> "return", role |-> r, drop |-> <<>>]
SetCwd(r, drop) == [do |-> "setcwd", role |-> r, drop |-> drop]
GetCwd(r, drop) == [do |-> "getcwd", role |-> r, drop |-> drop]

\* vfs_open without and with O_CREAT: a failed VOP_EACHOPEN or VOP_TRUNCATE
\* drops the vnode.
vfs_open ==
  <<VpLook("vn", <<>>), Vop("vn", <<"vn">>), Vop("vn", <<"vn">>), VpReturn("vn")>>
vfs_open_creat ==
  <<LookParent("dir", <<>>), Gives("vn", <<"dir">>), VpDrop("dir"),
    Vop("vn", <<"vn">>), Vop("vn", <<"vn">>), VpReturn("vn")>>

vfs_remove == <<LookParent("dir", <<>>), Vop("dir", <<"dir">>), VpDrop("dir")>>
vfs_symlink == <<LookParent("dir", <<>>), Vop("dir", <<"dir">>), VpDrop("dir")>>
vfs_mkdir == <<LookParent("dir", <<>>), Vop("dir", <<"dir">>), VpDrop("dir")>>
vfs_rmdir == <<LookParent("dir", <<>>), Vop("dir", <<"dir">>), VpDrop("dir")>>
vfs_readlink == <<VpLook("vn", <<>>), Vop("vn", <<"vn">>), VpDrop("vn")>>

\* Mutant of vfs_rename: the second lookup fails and the first directory is
\* forgotten.
RenameForgets ==
  <<LookParent("dir", <<>>), LookParent("newdir", <<>>), SameFs("dir", <<"newdir", "dir">>),
    Vop("dir", <<"newdir", "dir">>), VpDrop("newdir"), VpDrop("dir")>>

vfs_rename ==
  <<LookParent("dir", <<>>), LookParent("newdir", <<"dir">>), SameFs("dir", <<"newdir", "dir">>),
    Vop("dir", <<"newdir", "dir">>), VpDrop("newdir"), VpDrop("dir")>>
vfs_link ==
  <<VpLook("vn", <<>>), LookParent("newdir", <<"vn">>), SameFs("vn", <<"newdir", "vn">>),
    Vop("newdir", <<"newdir", "vn">>), VpDrop("newdir"), VpDrop("vn")>>

vfs_chdir_path == <<VpLook("vn", <<>>), SetCwd("vn", <<"vn">>), VpDrop("vn")>>

\* sys_chdir opens the directory instead of looking it up.
sys_chdir == <<VpLook("vn", <<>>), Vop("vn", <<"vn">>), SetCwd("vn", <<"vn">>), VpDrop("vn")>>

\* vfs_getcwd: each uiomove, then VOP_NAMEFILE, may fail.
vfs_getcwd == <<GetCwd("vn", <<>>), Vop("vn", <<"vn">>), Vop("vn", <<"vn">>), VpDrop("vn")>>

VpCalls == {vfs_open, vfs_open_creat, vfs_remove, vfs_symlink, vfs_mkdir, vfs_rmdir, vfs_readlink,
          vfs_rename, vfs_link, vfs_chdir_path, sys_chdir, vfs_getcwd}
-----------------------------------------------------------------------------
VfsPathInit ==
  /\ vn_refs = [v \in VpVnodes |-> 0]
  /\ vp_call = <<>> /\ vp_k = 1
  /\ vp_role = [r \in Roles |-> NoVn]
  /\ vp_fd = NoVn /\ vp_cwd = NoVn
  /\ vp_path = <<>>

VpStep == vp_call[vp_k]
Plus(refs, v) == [refs EXCEPT ![v] = @ + 1]
Minus(refs, v) == IF v = NoVn THEN refs ELSE [refs EXCEPT ![v] = @ - 1]

VpAdvance ==
  IF vp_k = Len(vp_call)
  THEN vp_call' = <<>> /\ vp_k' = 1
  ELSE vp_k' = vp_k + 1 /\ UNCHANGED vp_call

\* The error return of the element: the references it names are dropped.
VpFail ==
  LET gone == ToSet(VpStep.drop) IN
  /\ vn_refs' = FoldSet(LAMBDA r, refs : Minus(refs, vp_role[r]), vn_refs, gone)
  /\ vp_role' = [r \in Roles |-> NoVn]
  /\ vp_call' = <<>> /\ vp_k' = 1

BeginCall(c) ==
  /\ vp_call = <<>> /\ vp_fd = NoVn
  /\ vp_call' = c /\ vp_k' = 1
  /\ UNCHANGED <<vn_refs, vp_role, vp_fd, vp_cwd, vp_path>>

\* getdevice with its references: the current directory, or the root of its
\* file system while the directory is held, or the root of a device.
StartLookup(path) ==
  /\ vp_call # <<>> /\ VpStep.do \in {"lookup", "lookparent"} /\ vp_role["start"] = NoVn
  /\ vp_path' = path
  /\ LET d == getdevice(path) IN
     \/ d.from # "EINVAL" /\ (d.from \in {"cwd", "cwdroot"} => vp_cwd # NoVn)
        /\ \E v \in VpVnodes :
             /\ d.from = "cwd" => v = vp_cwd
             /\ vn_refs' = Plus(vn_refs, v)
             /\ vp_role' = [vp_role EXCEPT !["start"] = v]
             /\ UNCHANGED <<vp_call, vp_k>>
     \/ (d.from = "cwd" => vp_cwd = NoVn) /\ VpFail
  /\ UNCHANGED <<vp_fd, vp_cwd>>

\* vfs_lookup hands back the start vnode itself for an empty rest, else what
\* VOP_LOOKUP found; vfs_lookup and vfs_lookparent then drop the start vnode.
EndLookup ==
  /\ vp_call # <<>> /\ vp_role["start"] # NoVn
  /\ LET sub == getdevice(vp_path).sub
         s == vp_role["start"]
         after == Minus(vn_refs, s) IN
     \/ /\ VpStep.do = "lookup" /\ sub = <<>>
        /\ vp_role' = [vp_role EXCEPT ![VpStep.role] = s, !["start"] = NoVn]
        /\ VpAdvance /\ UNCHANGED vn_refs
     \/ /\ sub # <<>>
        /\ \E v \in VpVnodes :
             /\ vn_refs' = Plus(after, v)
             /\ vp_role' = [vp_role EXCEPT ![VpStep.role] = v, !["start"] = NoVn]
        /\ VpAdvance
     \/ /\ VpStep.do = "lookparent" \/ sub # <<>>
        /\ vn_refs' = FoldSet(LAMBDA r, refs : Minus(refs, vp_role[r]), after, ToSet(VpStep.drop))
        /\ vp_role' = [r \in Roles |-> NoVn]
        /\ vp_call' = <<>> /\ vp_k' = 1
  /\ UNCHANGED <<vp_fd, vp_cwd, vp_path>>

\* A VOP on a vnode, a creation, the test for one file system, a release.
RunVop ==
  /\ vp_call # <<>>
  /\ \/ VpStep.do = "vop" /\ VpAdvance /\ UNCHANGED <<vn_refs, vp_role>>
     \/ VpStep.do = "gives" /\ VpAdvance
        /\ \E v \in VpVnodes : vn_refs' = Plus(vn_refs, v) /\ vp_role' = [vp_role EXCEPT ![VpStep.role] = v]
     \/ VpStep.do = "samefs" /\ VpAdvance /\ UNCHANGED <<vn_refs, vp_role>>
        /\ VpFs[vp_role[VpStep.role]] # "none"
        /\ VpFs[vp_role[VpStep.role]] = VpFs[vp_role["newdir"]]
     \/ VpStep.do = "drop" /\ VpAdvance
        /\ vn_refs' = Minus(vn_refs, vp_role[VpStep.role])
        /\ vp_role' = [vp_role EXCEPT ![VpStep.role] = NoVn]
     \/ VpStep.do \in {"vop", "gives"} /\ VpFail
     \/ VpStep.do = "samefs" /\ VpFail
        /\ (VpFs[vp_role[VpStep.role]] = "none" \/ VpFs[vp_role[VpStep.role]] # VpFs[vp_role["newdir"]])
  /\ UNCHANGED <<vp_fd, vp_cwd, vp_path>>

\* vfs_setcurdir, on a directory or not; vfs_getcurdir; the return of an open.
RunCwd ==
  /\ vp_call # <<>>
  /\ \/ /\ VpStep.do = "setcwd" /\ VpFs[vp_role[VpStep.role]] # "none"
        /\ vp_cwd' = vp_role[VpStep.role]
        /\ vn_refs' = Minus(Plus(vn_refs, vp_role[VpStep.role]), vp_cwd)
        /\ VpAdvance /\ UNCHANGED <<vp_role, vp_fd>>
     \/ /\ VpStep.do = "setcwd" /\ VpFail
        /\ UNCHANGED <<vp_cwd, vp_fd>>
     \/ /\ VpStep.do = "getcwd" /\ vp_cwd # NoVn
        /\ vn_refs' = Plus(vn_refs, vp_cwd)
        /\ vp_role' = [vp_role EXCEPT ![VpStep.role] = vp_cwd]
        /\ VpAdvance /\ UNCHANGED <<vp_cwd, vp_fd>>
     \/ /\ VpStep.do = "getcwd" /\ vp_cwd = NoVn /\ VpFail
        /\ UNCHANGED <<vp_cwd, vp_fd>>
     \/ /\ VpStep.do = "return"
        /\ vp_fd' = vp_role[VpStep.role]
        /\ vp_role' = [vp_role EXCEPT ![VpStep.role] = NoVn]
        /\ VpAdvance /\ UNCHANGED <<vp_cwd, vn_refs>>
  /\ UNCHANGED vp_path

vfs_close ==
  /\ vp_fd # NoVn
  /\ vn_refs' = Minus(vn_refs, vp_fd)
  /\ vp_fd' = NoVn
  /\ UNCHANGED <<vp_call, vp_k, vp_role, vp_cwd, vp_path>>

VfsPathNext ==
  \/ \E c \in VpCalls : BeginCall(c)
  \/ \E path \in Paths : StartLookup(path)
  \/ EndLookup \/ RunVop \/ RunCwd \/ vfs_close

VfsPathSpec == VfsPathInit /\ [][VfsPathNext]_vp_vars
-----------------------------------------------------------------------------
VpHolders(v) ==
  Cardinality({r \in Roles : vp_role[r] = v})
    + (IF vp_fd = v THEN 1 ELSE 0) + (IF vp_cwd = v THEN 1 ELSE 0)

\* Every call gives back the references it took, on each of its error paths:
\* the count of a vnode is the number of places that point to it, and between
\* calls only an open file and the current directory do.
PathRefsBalance ==
  /\ \A v \in VpVnodes : vn_refs[v] = VpHolders(v)
  /\ vp_call = <<>> => \A r \in Roles : vp_role[r] = NoVn

\* A device name is what stands before a colon that no slash precedes; the rest
\* of the path starts at no slash unless the path is relative.
PathSplit ==
  LET d == getdevice(vp_path)
      Slashes == UNION {[1..n -> {"/"}] : n \in 0..PathLen} IN
  /\ d.from = "device" <=>
       \E k \in DOMAIN vp_path : k > 1 /\ vp_path[k] = ":" /\ \A j \in 1..(k - 1) : vp_path[j] = "n"
  /\ d.from = "device" => \E z \in Slashes : vp_path = d.name \o <<":">> \o z \o d.sub
  /\ d.from = "boot" => \E z \in Slashes : vp_path = <<"/">> \o z \o d.sub
  /\ d.from = "cwdroot" => \E z \in Slashes : vp_path = <<":">> \o z \o d.sub
  /\ d.from = "cwd" => d.sub = vp_path /\ vp_path[1] = "n"
  /\ d.from \in {"device", "boot", "cwdroot"} => d.sub = <<>> \/ Head(d.sub) # "/"
=============================================================================
