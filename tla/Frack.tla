--------------------------------- MODULE Frack ---------------------------------
(***************************************************************************)
(* userland/testbin/frack as a whole.  "frack do" runs a workload on a     *)
(* volume; the machine crashes at some point or the workload ends; "frack  *)
(* check" replays the whole workload into its model and compares the       *)
(* volume with it.                                                         *)
(*                                                                         *)
(* The volume is external: a file system whose operations are atomic and   *)
(* reach the disk in order, as a recovering file system promises, with     *)
(* one weakness the checker allows for: the blocks by which the last write *)
(* extended a file may come back as zeros.                                 *)
(***************************************************************************)
EXTENDS FrackWorkloads, FrackCheck

CONSTANTS FrSizes      \* the size arguments tried

VARIABLES fr_phase,    \* "idle", "plan", "replay", "do", "check", "done"
          fr_plan,     \* the plan of a random workload
          fr_ops,      \* the whole workload
          frk_pc,       \* operations done
          fr_vol,      \* the volume
          fr_files,    \* open files of "do": slot to [ino, code, seq]
          fr_model,    \* the model "check" replays, and its open files
          fr_report,   \* what the checker printed
          fr_hurt      \* history: a block was poisoned while down

frvars == <<fr_phase, fr_plan, fr_ops, frk_pc, fr_vol, fr_files, fr_model,
            fr_report, fr_hurt>>

NoPlan == [left |-> 0]

\* ---- the volume behind the system calls (external)

EmptyVolume ==
    [ent |-> <<>>, len |-> <<>>, data |-> <<>>, parent |-> [d \in {0} |-> 0],
     next |-> 1, cwd |-> 0, fresh |-> {}]

Extent(f, n) ==
    [b \in 0..(n - 1) |-> IF b \in DOMAIN f THEN f[b] ELSE ZERO]

VolAt(v, name) == v.ent[<<v.cwd, name>>]

VolCreate(v, name, isdir) ==
    LET i == v.next
        w == [v EXCEPT !.ent = With(@, <<v.cwd, name>>,
                                    [isdir |-> isdir, id |-> i]),
                       !.next = @ + 1]
    IN IF isdir THEN [w EXCEPT !.parent = With(@, i, v.cwd)]
       ELSE [w EXCEPT !.len = With(@, i, 0), !.data = With(@, i, <<>>)]

VolResize(v, i, n) == [v EXCEPT !.len[i] = n, !.data[i] = Extent(@, n)]

VolWrite(v, i, pos, len, what) ==
    LET n == Upper(v.len[i], pos + len)
        w == VolResize(v, i, n)
    IN [w EXCEPT !.data[i] = [b \in 0..(n - 1) |->
                                  IF b \in pos..(pos + len - 1) THEN what ELSE @[b]],
                 !.fresh = {<<i, b>> : b \in {b \in pos..(pos + len - 1) :
                                                  b >= v.len[i]}}]

VolRename(v, fromdir, from, todir, to) ==
    LET obj == v.ent[<<fromdir, from>>]
        w == [v EXCEPT !.ent = With(Without(@, <<fromdir, from>>),
                                    <<todir, to>>, obj)]
    IN IF obj.isdir THEN [w EXCEPT !.parent[obj.id] = todir] ELSE w

\* ---- do.c through ops.c: one operation of the workload on the volume

DoVolume(v, files, o) ==
    LET u == [v EXCEPT !.fresh = {}] IN
    CASE o.op = "open" /\ o.c = O_EXCL -> VolCreate(u, o.b, FALSE)
      [] o.op = "open" /\ o.c = O_TRUNC -> VolResize(u, VolAt(u, o.b).id, 0)
      [] o.op = "write" ->
             VolWrite(u, files[o.h].ino, o.a, o.b, <<files[o.h].code, files[o.h].seq>>)
      [] o.op = "truncate" -> VolResize(u, files[o.h].ino, o.a)
      [] o.op = "mkdir" -> VolCreate(u, o.a, TRUE)
      [] o.op \in {"rmdir", "unlink"} ->
             [u EXCEPT !.ent = Without(@, <<u.cwd, o.a>>)]
      [] o.op = "link" ->
             [u EXCEPT !.ent = With(@, <<u.cwd, o.b>>, VolAt(u, o.a))]
      [] o.op = "rename" -> VolRename(u, u.cwd, o.a, u.cwd, o.b)
      [] o.op = "renamexd" ->
             VolRename(u, VolAt(u, o.h).id, o.a, VolAt(u, o.b).id, o.c)
      [] o.op = "chdir" -> [u EXCEPT !.cwd = VolAt(u, o.a).id]
      [] o.op = "chdirup" -> [u EXCEPT !.cwd = v.parent[@]]
      [] OTHER -> IF o.op = "sync" THEN u ELSE v

DoFiles(v, files, o) ==
    CASE o.op = "open" ->
             With(files, o.h,
                  [ino |-> IF o.c = O_EXCL THEN v.next ELSE VolAt(v, o.b).id,
                   code |-> o.a, seq |-> 0])
      [] o.op = "opendir" ->
             With(files, o.h, [ino |-> VolAt(v, o.a).id, code |-> 0, seq |-> 0])
      [] o.op \in {"close", "closedir"} -> Without(files, o.h)
      [] o.op = "write" -> [files EXCEPT ![o.h].seq = @ + 1]
      [] OTHER -> files

\* ---- check.c through ops.c: one operation on the model; r = [m, files]

CheckOp(r, o) ==
    LET m == r.m
        f == r.files
        F == f[o.h]
        Put(n) == [m |-> n, files |-> f]
        Slot(n, id) == [m |-> n, files |-> With(f, o.h, [id |-> id, code |-> o.a,
                                                         seq |-> 0])]
    IN IF m.dead THEN r
       ELSE CASE o.op = "open" /\ o.c = O_EXCL ->
                     Slot(check_createfile(m, o.b), m.nextfile)
              [] o.op = "open" /\ o.c # O_EXCL ->
                     IF ~model_is(m, m.cwd, o.b, FALSE) THEN Put(die(m))
                     ELSE LET id == model_find(m, m.cwd, o.b)
                          IN Slot(IF o.c = O_TRUNC THEN check_truncate(m, id, 0)
                                  ELSE m, id)
              [] o.op = "close" -> [r EXCEPT !.files = Without(f, o.h)]
              [] o.op = "write" ->
                     [m |-> check_write(m, F.id, F.code, F.seq, o.a, o.b),
                      files |-> [f EXCEPT ![o.h].seq = @ + 1]]
              [] o.op = "truncate" -> Put(check_truncate(m, F.id, o.a))
              [] o.op = "mkdir" -> Put(check_mkdir(m, o.a))
              [] o.op = "rmdir" -> Put(check_rmdir(m, o.a))
              [] o.op = "unlink" -> Put(check_unlink(m, o.a))
              [] o.op = "link" -> Put(check_link(m, o.a, o.b))
              [] o.op = "rename" -> Put(check_rename(m, o.a, o.b))
              [] o.op = "renamexd" -> Put(check_renamexd(m, o.h, o.a, o.b, o.c))
              [] o.op = "chdir" -> Put(check_chdir(m, o.a))
              [] o.op = "chdirup" -> Put(check_chdirup(m))
              [] OTHER -> r

Unreplayed == [m |-> check_setup, files |-> <<>>]

\* ---- the program

FrInit ==
    /\ fr_phase = "idle" /\ fr_plan = NoPlan /\ fr_ops = <<>> /\ frk_pc = 0
    /\ fr_vol = EmptyVolume /\ fr_files = <<>> /\ fr_model = Unreplayed
    /\ fr_report = {} /\ fr_hurt = FALSE

Begin ==
    /\ fr_phase = "idle"
    /\ \/ /\ fr_phase' = "replay"
          /\ fr_ops' \in FixedWorkloads(FrSizes)
          /\ UNCHANGED fr_plan
       \/ /\ fr_phase' = "plan"
          /\ fr_plan' \in RandomWorkloads
          /\ UNCHANGED fr_ops
    /\ UNCHANGED <<frk_pc, fr_vol, fr_files, fr_model, fr_report, fr_hurt>>

PlanStep ==
    /\ fr_phase = "plan"
    /\ \/ /\ fr_plan.left > 0
          /\ fr_plan' \in PlanSteps(fr_plan)
          /\ UNCHANGED <<fr_phase, fr_ops>>
       \/ /\ fr_plan.left = 0
          /\ fr_phase' = "replay" /\ fr_ops' = fr_plan.ops /\ fr_plan' = NoPlan
    /\ UNCHANGED <<frk_pc, fr_vol, fr_files, fr_model, fr_report, fr_hurt>>

\* "check" reads nothing of the volume while it replays, so it replays first
ReplayOp ==
    /\ fr_phase = "replay"
    /\ \/ /\ frk_pc < Len(fr_ops)
          /\ fr_model' = CheckOp(fr_model, fr_ops[frk_pc + 1])
          /\ frk_pc' = frk_pc + 1
          /\ UNCHANGED fr_phase
       \/ /\ frk_pc = Len(fr_ops)
          /\ fr_phase' = "do" /\ frk_pc' = 0
          /\ UNCHANGED fr_model
    /\ UNCHANGED <<fr_plan, fr_ops, fr_vol, fr_files, fr_report, fr_hurt>>

DoOp ==
    /\ fr_phase = "do" /\ frk_pc < Len(fr_ops)
    /\ LET o == fr_ops[frk_pc + 1] IN
       /\ fr_vol' = DoVolume(fr_vol, fr_files, o)
       /\ fr_files' = DoFiles(fr_vol, fr_files, o)
    /\ frk_pc' = frk_pc + 1
    /\ UNCHANGED <<fr_phase, fr_plan, fr_ops, fr_model, fr_report, fr_hurt>>

\* the machine goes down: after the last operation, or before, when blocks
\* that only the last write allocated may come back as zeros; with hurt, one
\* block of one file comes back as the poison a fresh block holds
Down(v, zeroed, hurt) ==
    [v EXCEPT !.cwd = 0, !.fresh = {},
              !.data = [i \in DOMAIN v.data |->
                           [b \in DOMAIN v.data[i] |->
                               IF <<i, b>> \in hurt THEN POISON
                               ELSE IF <<i, b>> \in zeroed THEN ZERO
                               ELSE v.data[i][b]]]]

LinkedBlocks(v) ==
    UNION {{<<i, b>> : b \in DOMAIN v.data[i]} :
               i \in {i \in DOMAIN v.data : HasFile(v, i)}}

CrashFr ==
    /\ fr_phase = "do"
    /\ \E zeroed \in SUBSET fr_vol.fresh,
          hurt \in {{}} \cup {{x} : x \in LinkedBlocks(fr_vol)} :
       /\ hurt # {} => zeroed = {}
       /\ fr_vol' = Down(fr_vol, zeroed, hurt)
       /\ fr_hurt' = (hurt # {})
    /\ fr_phase' = "check"
    /\ fr_files' = <<>>
    /\ UNCHANGED <<fr_plan, fr_ops, frk_pc, fr_model, fr_report>>

CheckFr ==
    /\ fr_phase = "check"
    /\ fr_report' = IF fr_model.m.dead THEN {"dead"}
                    ELSE checkfs(fr_model.m, fr_vol)
    /\ fr_phase' = "done"
    /\ UNCHANGED <<fr_plan, fr_ops, frk_pc, fr_vol, fr_files, fr_model, fr_hurt>>

FrNext == Begin \/ PlanStep \/ ReplayOp \/ DoOp \/ CrashFr \/ CheckFr

FrackSpec == FrInit /\ [][FrNext]_frvars

\* ---- properties

FrDone == fr_phase = "done"

\* the versions whose tree is the volume's follow each other, and lead from
\* one to the next by writes
Unambiguous ==
    LET sc == Scores(fr_model.m, fr_vol)
        same == {v \in DOMAIN sc : sc[v] = 0}
    IN \A v, w \in same : v < w =>
           \A u \in (v + 1)..w : u \in same /\ fr_model.m.log[u].type = "write"

\* a write or a truncate that makes a hole of what a truncate of the same file
\* cut off: only the random workloads do that
HoleAfterTruncate ==
    LET log == fr_model.m.log IN
    \E v, w \in DOMAIN log :
        /\ v < w /\ log[v].type = "truncate" /\ log[v].id = log[w].id
        /\ \/ log[w].type = "write" /\ log[w].pos > log[v].len
           \/ log[w].type = "truncate" /\ log[w].len > log[v].len

\* A volume whose operations are atomic and ordered passes the check, wherever
\* the crash fell in whichever workload: no difference in the directory tree,
\* no complaint about contents, no assertion of the checker.  Two flaws of
\* checkfs are set apart: it takes the last of several versions with the same
\* tree, and checkfilerange asserts a non-empty range when a truncate ends
\* exactly where the range begins.
NoFalseAlarm ==
    (FrDone /\ ~fr_hurt /\ Unambiguous) =>
        fr_report \subseteq (IF HoleAfterTruncate THEN {"assert"} ELSE {})

\* A poisoned block of a file that is still linked never passes unnoticed.
PoisonReported == (FrDone /\ fr_hurt) => fr_report # {}

\* The checker of frack judges right: no complaint about a volume that kept its
\* promises up to the crash, and a complaint about one that lost data.
FrackRight == NoFalseAlarm /\ PoisonReported
=============================================================================
