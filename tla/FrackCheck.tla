------------------------------ MODULE FrackCheck ------------------------------
(***************************************************************************)
(* The checker of userland/testbin/frack: check.c and data.c.  It replays  *)
(* the workload into a log of changes (version v is log[v + 1]) and a tree *)
(* of what should be visible, then finds the version whose tree is nearest *)
(* to the volume it sees and compares file contents with that version.     *)
(*                                                                         *)
(* A tree has entries <<directory, name>> and a length for every file; the *)
(* number 0 is the root directory.  Positions count blocks.  The contents  *)
(* of a block are ZERO, POISON or the <<code, seq>> of the write that put  *)
(* them there: prepdata fills a write with repetitions of "seq@code".      *)
(***************************************************************************)
EXTENDS Integers, Sequences, FiniteSets, SequencesExt, TLC

ZERO == <<>>
POISON == <<0>>

\* ---- trees

EmptyTree == [ent |-> <<>>, len |-> <<>>, parent |-> [d \in {0} |-> 0]]

With(f, x, y) == (x :> y) @@ f
Without(f, x) == <<>> @@ [z \in DOMAIN f \ {x} |-> f[z]]

FileObj(id) == [isdir |-> FALSE, id |-> id]
DirObj(id) == [isdir |-> TRUE, id |-> id]

NamesIn(t, d) == {e[2] : e \in {e \in DOMAIN t.ent : e[1] = d}}

\* findsub: an object is there if the root or some entry holds it
HasDir(t, d) == d = 0 \/ \E e \in DOMAIN t.ent : t.ent[e] = DirObj(d)
HasFile(t, f) == \E e \in DOMAIN t.ent : t.ent[e] = FileObj(f)

fsdir_add_entry(t, d, name, obj) == [t EXCEPT !.ent = With(@, <<d, name>>, obj)]
fsdir_remove_entry(t, d, name) == [t EXCEPT !.ent = Without(@, <<d, name>>)]

\* ---- change records; prev is the version before that mentions the file

Change(type, d, name, id) ==
    [type |-> type, dir |-> d, name |-> name, id |-> id, prev |-> 0,
     partial |-> FALSE, todir |-> d, toname |-> name,
     pos |-> 0, len |-> 0, oldfilesize |-> 0, data |-> ZERO]

\* what apply_change finds wrong with a change: its asserts and die()s
Misapplied(t, c) ==
    LET at == <<c.dir, c.name>>
        to == <<c.todir, c.toname>>
        Holds(obj) == at \in DOMAIN t.ent /\ t.ent[at] = obj
    IN CASE c.type = "newfs" -> t # EmptyTree
         [] c.type \in {"truncate", "write"} -> FALSE
         [] c.type \in {"creat", "mkdir"} ->
                ~HasDir(t, c.dir) \/ at \in DOMAIN t.ent
         [] c.type = "rmdir" ->
                \/ ~Holds(DirObj(c.id)) \/ NamesIn(t, c.id) # {}
                \/ t.parent[c.id] # c.dir
         [] c.type = "unlink" -> ~Holds(FileObj(c.id))
         [] c.type = "link" ->
                ~Holds(FileObj(c.id)) \/ ~HasDir(t, c.todir) \/ to \in DOMAIN t.ent
         [] c.type = "renamefile" ->
                \/ ~Holds(FileObj(c.id)) \/ ~HasDir(t, c.todir)
                \/ to \in DOMAIN t.ent \ {at}
         [] c.type = "renamedir" ->
                \/ ~Holds(DirObj(c.id)) \/ t.parent[c.id] # c.dir
                \/ ~HasDir(t, c.todir) \/ to \in DOMAIN t.ent \ {at}

\* files that are no longer linked are not modelled by the checker
apply_change(t, c) ==
    LET Moved(obj) ==
            fsdir_add_entry(fsdir_remove_entry(t, c.dir, c.name),
                            c.todir, c.toname, obj)
    IN CASE c.type = "newfs" -> t
         [] c.type = "truncate" ->
                IF HasFile(t, c.id) THEN [t EXCEPT !.len[c.id] = c.len] ELSE t
         [] c.type = "write" ->
                IF HasFile(t, c.id) /\ t.len[c.id] < c.pos + c.len
                THEN [t EXCEPT !.len[c.id] = c.pos + c.len] ELSE t
         [] c.type = "creat" ->
                [fsdir_add_entry(t, c.dir, c.name, FileObj(c.id))
                    EXCEPT !.len = With(@, c.id, 0)]
         [] c.type = "mkdir" ->
                [fsdir_add_entry(t, c.dir, c.name, DirObj(c.id))
                    EXCEPT !.parent = With(@, c.id, c.dir)]
         [] c.type \in {"rmdir", "unlink"} ->
                fsdir_remove_entry(t, c.dir, c.name)
         [] c.type = "link" ->
                fsdir_add_entry(t, c.todir, c.toname, FileObj(c.id))
         [] c.type = "renamefile" -> Moved(FileObj(c.id))
         [] c.type = "renamedir" ->
                [Moved(DirObj(c.id)) EXCEPT !.parent[c.id] = c.todir]

\* ---- the checker's state while it replays

check_setup ==
    [log |-> <<Change("newfs", 0, 0, 0)>>, tree |-> EmptyTree,
     trees |-> <<EmptyTree>>, cwd |-> 0,
     nextfile |-> 0, nextdir |-> 1, dead |-> FALSE]

MaxOf(S) == CHOOSE x \in S : \A y \in S : y =< x

FileTypes == {"truncate", "write", "creat", "unlink", "link", "renamefile"}

\* 0 when no record mentions the file, where the checker dies
changes_findprevfile(log, f) ==
    MaxOf({0} \cup {v \in 1..Len(log) :
                        log[v].type \in FileTypes /\ log[v].id = f})

\* does any record mention the directory; otherwise the checker dies
changes_findprevdir(log, d) ==
    \E v \in 1..Len(log) :
        \/ log[v].type \notin {"truncate", "write"}
               /\ (log[v].dir = d \/ log[v].todir = d)
        \/ log[v].type \in {"newfs", "mkdir", "rmdir", "renamedir"}
               /\ log[v].id = d

die(m) == [m EXCEPT !.dead = TRUE]

Logged(m, c, t) == [m EXCEPT !.log = Append(@, c), !.tree = t, !.trees = Append(@, t)]
fc_attach(m, c) ==
    IF Misapplied(m.tree, c) THEN die(m) ELSE Logged(m, c, apply_change(m.tree, c))

AttachFile(m, c) ==
    IF changes_findprevfile(m.log, c.id) = 0 THEN die(m)
    ELSE fc_attach(m, [c EXCEPT !.prev = changes_findprevfile(m.log, c.id)])

AttachDir(m, c) ==
    IF changes_findprevdir(m.log, c.dir) THEN fc_attach(m, c) ELSE die(m)

model_is(m, d, name, isdir) ==
    <<d, name>> \in DOMAIN m.tree.ent /\ m.tree.ent[<<d, name>>].isdir = isdir
model_find(m, d, name) == m.tree.ent[<<d, name>>].id
model_getfilesize(m, f) == IF HasFile(m.tree, f) THEN m.tree.len[f] ELSE 0

check_createfile(m, name) ==
    [AttachDir(m, Change("creat", m.cwd, name, m.nextfile))
        EXCEPT !.nextfile = @ + 1]

check_write(m, f, code, seq, pos, len) ==
    AttachFile(m, [Change("write", 0, 0, f) EXCEPT
                      !.pos = pos, !.len = len, !.data = <<code, seq>>,
                      !.oldfilesize = model_getfilesize(m, f)])

check_truncate(m, f, len) ==
    AttachFile(m, [Change("truncate", 0, 0, f) EXCEPT !.len = len])

check_mkdir(m, name) ==
    [AttachDir(m, Change("mkdir", m.cwd, name, m.nextdir))
        EXCEPT !.nextdir = @ + 1]

check_rmdir(m, name) ==
    IF ~model_is(m, m.cwd, name, TRUE) THEN die(m)
    ELSE AttachDir(m, Change("rmdir", m.cwd, name, model_find(m, m.cwd, name)))

check_unlink(m, name) ==
    IF ~model_is(m, m.cwd, name, FALSE) THEN die(m)
    ELSE AttachFile(m, Change("unlink", m.cwd, name, model_find(m, m.cwd, name)))

check_link(m, from, to) ==
    IF ~model_is(m, m.cwd, from, FALSE) THEN die(m)
    ELSE AttachFile(m, [Change("link", m.cwd, from, model_find(m, m.cwd, from))
                            EXCEPT !.toname = to])

\* the record of a change to a file or to a directory
AttachAs(m, isfile, c) == IF isfile THEN AttachFile(m, c) ELSE AttachDir(m, c)

\* what common_rename does once anything in the way is gone
Renamed(m, isfile, fromdir, from, todir, to) ==
    IF m.dead \/ ~model_is(m, fromdir, from, ~isfile) THEN die(m)
    ELSE AttachAs(m, isfile,
            [Change(IF isfile THEN "renamefile" ELSE "renamedir", fromdir,
                    from, model_find(m, fromdir, from))
                EXCEPT !.todir = todir, !.toname = to])

\* a rename over something first records the removal as a partial version
RenameAs(m, isfile, fromdir, from, todir, to) ==
    Renamed(IF <<todir, to>> \notin DOMAIN m.tree.ent THEN m
            ELSE IF ~model_is(m, fromdir, from, ~isfile) THEN die(m)
            ELSE AttachAs(m, isfile,
                    [Change(IF isfile THEN "unlink" ELSE "rmdir", todir, to,
                            model_find(m, todir, to)) EXCEPT !.partial = TRUE]),
            isfile, fromdir, from, todir, to)

common_rename(m, fromdir, from, todir, to) ==
    RenameAs(m, IF <<todir, to>> \in DOMAIN m.tree.ent THEN model_is(m, todir, to, FALSE)
                ELSE model_is(m, fromdir, from, FALSE), fromdir, from, todir, to)

check_rename(m, from, to) == common_rename(m, m.cwd, from, m.cwd, to)

check_renamexd(m, fromdir, from, todir, to) ==
    IF ~model_is(m, m.cwd, fromdir, TRUE) \/ ~model_is(m, m.cwd, todir, TRUE)
    THEN die(m)
    ELSE common_rename(m, model_find(m, m.cwd, fromdir), from,
                       model_find(m, m.cwd, todir), to)

check_chdir(m, name) ==
    IF ~model_is(m, m.cwd, name, TRUE) THEN die(m)
    ELSE [m EXCEPT !.cwd = model_find(m, m.cwd, name)]

check_chdirup(m) == [m EXCEPT !.cwd = m.tree.parent[@]]

\* ---- comparing trees: the score counts the names that differ

RECURSIVE count_subtree(_, _)
count_subtree(t, obj) ==
    1 + IF ~obj.isdir THEN 0
        ELSE MapThenSumSet(LAMBDA n : count_subtree(t, t.ent[<<obj.id, n>>]),
                           NamesIn(t, obj.id))

RECURSIVE compare_objects(_, _, _, _)
compare_objects(a, obja, b, objb) ==
    LET na == NamesIn(a, obja.id)
        nb == NamesIn(b, objb.id)
        Missing(t, obj, n) ==
            LET o == t.ent[<<obj.id, n>>]
            IN 1 + IF o.isdir THEN count_subtree(t, o) ELSE 0
    IN IF obja.isdir # objb.isdir
       THEN IF obja.isdir THEN count_subtree(a, obja) ELSE count_subtree(b, objb)
       ELSE IF ~obja.isdir
       THEN IF a.len[obja.id] # b.len[objb.id] THEN 1 ELSE 0
       ELSE MapThenSumSet(LAMBDA n : compare_objects(a, a.ent[<<obja.id, n>>],
                                                     b, b.ent[<<objb.id, n>>]),
                          na \cap nb)
            + MapThenSumSet(LAMBDA n : Missing(a, obja, n), na \ nb)
            + MapThenSumSet(LAMBDA n : Missing(b, objb, n), nb \ na)

score(a, b) == compare_objects(a, DirObj(0), b, DirObj(0))

\* ---- comparing contents.  The result of each is what the checker reports:
\* "error", "missing", "nomatch", "eof" or "assert"; warnings are not kept.

findokversion(log, v) ==
    MaxOf({w \in 1..v : log[w].type \notin {"truncate", "write"}})

\* 0 when there is none
backup_for_file(log, v, f) ==
    MaxOf({0} \cup {w \in 1..v : log[w].type \in {"truncate", "write", "creat"}
                                  /\ log[w].id = f})

checkfilezeros(data, start, end) ==
    IF \E b \in start..(end - 1) : data[b] # ZERO THEN {"error"} ELSE {}

\* Mutant of ZeroStart: a write that extends the file must all be there.
ZeroStartLate(c) == c.len

\* where, within the write, the data may be zeros
ZeroStart(c) ==
    IF c.oldfilesize < c.pos THEN 0
    ELSE IF c.oldfilesize < c.pos + c.len THEN c.oldfilesize - c.pos
    ELSE c.len

\* what data_matches says of the blocks from start to end of write c
data_matches(data, c, start, end) ==
    \A b \in start..(end - 1) :
        \/ data[b] = c.data
        \/ data[b] \in {ZERO, POISON} /\ b - c.pos >= ZeroStart(c)

\* Mutant of PoisonReport: poison counts like the zeros of a fresh block.
PoisonSilent(data, c, start, end) == {}

\* it also reports poison that it otherwise lets pass
PoisonReport(data, c, start, end) ==
    IF \E b \in start..(end - 1) : data[b] = POISON /\ b - c.pos >= ZeroStart(c)
    THEN {"error"} ELSE {}

data_check(data, c, start, end) ==
    PoisonReport(data, c, start, end)
        \cup IF data_matches(data, c, start, end) THEN {} ELSE {"error"}

Lower(x, y) == IF x < y THEN x ELSE y
Upper(x, y) == IF x > y THEN x ELSE y

RECURSIVE checkfilerange(_, _, _, _, _)
checkfilerange(log, data, v, start, end) ==
    LET c == log[v]
        wend == c.pos + c.len
        Before(s, e) == checkfilerange(log, data, c.prev, s, e)
    IN IF start >= end THEN {"assert"}
       ELSE CASE c.type = "truncate" ->
                   IF c.len < start THEN checkfilezeros(data, start, end)
                   ELSE IF c.len < end
                   THEN Before(start, c.len) \cup checkfilezeros(data, c.len, end)
                   ELSE Before(start, end)
              [] c.type = "write" ->
                   IF end =< c.pos \/ start >= wend THEN Before(start, end)
                   ELSE (IF start < c.pos THEN Before(start, c.pos) ELSE {})
                        \cup data_check(data, c, Upper(start, c.pos), Lower(end, wend))
                        \cup (IF end > wend THEN Before(wend, end) ELSE {})
              [] c.type = "renamefile" -> Before(start, end)
              [] c.type = "creat" -> checkfilezeros(data, start, end)
              [] OTHER -> {"assert"}

change_is_present(data, filesize, c) ==
    CASE c.type = "truncate" -> filesize = c.len
      [] c.type = "write" -> data_matches(data, c, c.pos, c.pos + c.len)
      [] c.type = "creat" -> TRUE

RECURSIVE BackUp(_, _, _, _, _, _)
BackUp(log, data, size, f, ok, v) ==
    IF v = 0 THEN {"nomatch"}
    ELSE IF log[v].type = "write" /\ log[v].pos + log[v].len > size THEN {"eof"}
    ELSE (IF log[v].type = "write"
          THEN PoisonReport(data, log[v], log[v].pos, log[v].pos + log[v].len)
          ELSE {})
         \cup IF change_is_present(data, size, log[v])
              THEN checkfilerange(log, data, v, 0, size)
              ELSE (IF v < ok THEN {"missing"} ELSE {})
                   \cup BackUp(log, data, size, f, ok,
                               backup_for_file(log, v - 1, f))

checkonefilecontents(log, data, size, f, best) ==
    LET v == backup_for_file(log, best, f) IN
    IF v = 0 THEN {"assert"}
    ELSE IF size = 0
    THEN CASE log[v].type = "creat" -> {}
           [] log[v].type = "truncate" ->
                  IF log[v].len = 0 THEN {} ELSE {"assert"}
           [] log[v].type = "write" -> {"error"}
    ELSE IF log[v].type = "creat" THEN {"error"}
    ELSE BackUp(log, data, size, f, findokversion(log, best), v)

RECURSIVE checkallfilecontents(_, _, _, _, _, _)
checkallfilecontents(log, best, t, d, vol, vd) ==
    UNION {LET o == t.ent[<<d, n>>]
               found == vol.ent[<<vd, n>>]
           IN IF o.isdir
              THEN checkallfilecontents(log, best, t, o.id, vol, found.id)
              ELSE checkonefilecontents(log, vol.data[found.id], t.len[o.id],
                                        o.id, best) :
           n \in NamesIn(t, d)}

\* inspectdir compares the number ".." has with that of the directory above
inspectdir(vol) ==
    IF \A e \in DOMAIN vol.ent :
           vol.ent[e].isdir => vol.parent[vol.ent[e].id] = e[1]
    THEN {} ELSE {"eof"}

Scores(m, vol) == <<>> \o [v \in 1..Len(m.trees) |-> score(m.trees[v], vol)]

\* The last of the versions with the least score.  Rewinding the tree and
\* applying the changes up to a version gives the tree the replay had then.
BestVersion(sc) ==
    MaxOf({v \in DOMAIN sc : \A w \in DOMAIN sc : sc[v] =< sc[w]})

checkfs(m, vol) ==
    LET sc == Scores(m, vol)
        best == BestVersion(sc)
    IN inspectdir(vol)
       \cup IF sc[best] > 0 THEN {"failure"}
            ELSE checkallfilecontents(m.log, best, m.trees[best], 0, vol, 0)
=============================================================================
