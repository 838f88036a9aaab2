------------------------------- MODULE LfsTree -------------------------------
(***************************************************************************)
(* The directory tree of the vendored littlefs (lfs.c): metadata pairs on  *)
(* the threaded list, the operations that take more than one commit        *)
(* (mkdir, remove, rename), the global state that makes them atomic        *)
(* (pending move, orphan flag), relocation of a worn pair, and recovery    *)
(* after a power failure.                                                  *)
(*                                                                         *)
(* One commit to a metadata pair is one step: module LfsPair shows that a  *)
(* commit, an append or a compaction, is atomic on the flash.  Power may   *)
(* fail between any two commits.  A pair is two blocks; its content is the *)
(* one with the larger revision.  Entries are numbered by their position,  *)
(* as in the code, so that a pending move that names an id means what it   *)
(* means there.                                                            *)
(***************************************************************************)
EXTENDS Integers, Sequences, FiniteSets, SequencesExt, FiniteSetsExt

CONSTANTS
  Blocks,      \* number of flash blocks
  Path,        \* the paths the program uses: sequences of names, names in Nat
  Kinds,       \* the operations the program calls after Setup
  Setup,       \* a sequence of operations that builds the tree to start from
  Cap,         \* entries a pair holds; one more and it is split
  FaultyKinds, \* operations whose commits the flash may refuse
  MaxOps,      \* bound: operations, Setup included
  MaxTrouble,  \* bound: pairs relocated and commits refused, together
  MaxLosses    \* bound: power failures

VARIABLES
  disk,     \* per block: what a fetch of it reads
  ram,      \* lfs_t: gstate, gdisk and gdelta
  up,       \* the filesystem is mounted
  job,      \* the operation in progress: its place and its local copies
  stack,    \* repairs a commit or a mount left to do before job goes on
  handle,   \* an open file: what lfs->mlist keeps of it, and its entry
  spent,    \* what is used of each bound; ghost: what refusals left in RAM
  promise   \* ghost: the operation called last and how it ended

vars == <<disk, ram, up, job, stack, handle, spent, promise>>

Block == 0 .. Blocks - 1
Root == <<0, 1>>
Null == <<Blocks, Blocks>>
Pair == (Block \X Block) \cup {Null}
NoMdir == [pair |-> Null, c |-> <<>>]
Idle == [at |-> "idle", op |-> [kind |-> "none", path |-> <<>>, to |-> <<>>],
         a |-> NoMdir, b |-> NoMdir, r |-> NoMdir, id |-> 0]

(* Two pairs that share a block are the same pair, one of them relocated. *)
Same(p, q) == {p[1], p[2]} \cap {q[1], q[2]} # {}
Synced(p, q) == {p[1], p[2]} = {q[1], q[2]}

-----------------------------------------------------------------------------
(* Global state.  On the flash it is spread over the pairs of the list,    *)
(* each holding a difference; the count of orphans is in RAM only.         *)
OrphanBit == [bit |-> "orphan", pair |-> Null, id |-> 0]
Move(p, i) == [bit |-> "move", pair |-> p, id |-> i]
Bits(g) == g.move \cup IF g.orphans > 0 THEN {OrphanBit} ELSE {}
FromBits(b) == [orphans |-> IF OrphanBit \in b THEN 1 ELSE 0,
                move |-> b \ {OrphanBit}]
Clean == [orphans |-> 0, move |-> {}]

(* The id a pending move hides in pair p, if any. *)
MoveHere(g, p) == {m.id : m \in {m \in g.move : Same(m.pair, p)}}

(* A fault: a call does not announce the orphan it is about to make.       *)
BadPrepOrphans(m, n) == m
PrepOrphans(m, n) == [m EXCEPT !.gst.orphans = @ + n]
(* A fault: rename does not record the pending move.                       *)
BadPrepMove(m, moves) == m
PrepMove(m, moves) == [m EXCEPT !.gst.move = moves]

-----------------------------------------------------------------------------
(* Reading. *)
Fetch(d, p) ==
  LET r == IF d[p[2]].rev > d[p[1]].rev THEN <<p[2], p[1]>> ELSE p
  IN [pair |-> r, c |-> d[r[1]]]

(* The threaded list of all pairs, from the superblock on. *)
List(d) ==
  LET from[p \in Pair, n \in 0 .. Blocks] ==
        IF p = Null \/ n = 0 THEN <<>>
        ELSE LET m == Fetch(d, p) IN <<m>> \o from[m.c.tail, n - 1]
  IN from[Root, Blocks]
DiskBits(d) == FoldSeq(LAMBDA m, b : SymDiff(m.c.gd, b), {}, List(d))

(* Positions in m that hold an entry the pending move does not hide. *)
Shown(g, m) == {i \in DOMAIN m.c.ents : i - 1 \notin MoveHere(g, m.pair)}
(* A position becomes the id a lookup returns: one less after a hidden one. *)
IdOf(g, m, i) ==
  i - 1 - IF \E h \in MoveHere(g, m.pair) : h < i - 1 THEN 1 ELSE 0

(* lfs_dir_find: the pair and the id of a name, or where it would go.      *)
RECURSIVE Find(_, _, _, _)
Find(d, g, p, name) ==
  LET m == Fetch(d, p)
      hits == {i \in Shown(g, m) : m.c.ents[i].name = name}
      beyond == {i \in DOMAIN m.c.ents : m.c.ents[i].name >= name}
  IN CASE hits # {} -> [m |-> m, hit |-> TRUE, id |-> IdOf(g, m, Min(hits))]
       [] hits = {} /\ beyond # {} ->
            [m |-> m, hit |-> FALSE, id |-> IdOf(g, m, Min(beyond))]
       [] hits = {} /\ beyond = {} /\ m.c.split -> Find(d, g, m.c.tail, name)
       [] OTHER -> [m |-> m, hit |-> FALSE, id |-> Len(m.c.ents)]

(* lfs_dir_get of a structure tag: the entry that id i of a lookup names.  *)
DirGet(g, m, i) ==
  LET h == MoveHere(g, m.pair)
      raw == i + IF \E x \in h : x < i THEN 1 ELSE 0
  IN IF i \in h \/ raw >= Len(m.c.ents) THEN {} ELSE {m.c.ents[raw + 1]}

(* The pairs whose tail is p, and the pairs with an entry for directory p. *)
Pred(d, p) == SelectSeq(List(d), LAMBDA m : m.c.tail # Null /\ Same(m.c.tail, p))
Children(g, m, p) ==
  {i \in Shown(g, m) : m.c.ents[i].dir # Null /\ Same(m.c.ents[i].dir, p)}
Parent(d, g, p) == SelectSeq(List(d), LAMBDA m : Children(g, m, p) # {})

(* Entries of a directory over all its pairs, the pending move left out.   *)
Entries(d, g, p) ==
  LET from[q \in Pair] ==
        LET m == Fetch(d, q)
        IN {m.c.ents[i] : i \in Shown(g, m)}
             \cup IF m.c.split THEN from[m.c.tail] ELSE {}
  IN from[p]

RECURSIVE Under(_, _, _, _, _)
Under(d, g, p, prefix, depth) ==
  UNION {{[path |-> Append(prefix, e.name), dir |-> e.dir # Null,
           made |-> e.made, time |-> e.time]}
         \cup IF depth = 0 \/ e.dir = Null THEN {}
              ELSE Under(d, g, e.dir, Append(prefix, e.name), depth - 1) :
         e \in Entries(d, g, p)}

Depth == Blocks \div 2
(* What the flash means: the tree another mount would recover. *)
Tree == UNION {Under(disk, FromBits(b), Root, <<>>, Depth) : b \in {DiskBits(disk)}}

-----------------------------------------------------------------------------
(* Allocating.  The allocator never hands out a block that a pair of the   *)
(* list or of an entry uses, or one taken earlier in the same call.        *)
Taken ==
  LET list == ToSet(List(disk))
      relocated == {f \in ToSet(stack) : f.do \in {"parent", "pred"}}
  IN UNION {ToSet(p) : p \in {m.pair : m \in list}
       \cup UNION {{e.dir : e \in ToSet(m.c.ents)} : m \in list}
       \cup {job.b.pair, job.r.pair} \cup {f.new.pair : f \in relocated}}
Free == Block \ Taken
FreePair ==
  LET a == Min(Free) IN <<a, Min(Free \ {a})>>

(* lfs_dir_alloc, then a first commit: the new pair starts from whatever   *)
(* revision its second block holds, and its first block is written.        *)
Fresh(p, ents, tail, split) ==
  [pair |-> p, c |-> [rev |-> disk[p[2]].rev + 1, ents |-> ents, tail |-> tail,
                      split |-> split, gd |-> {}]]

-----------------------------------------------------------------------------
(* Committing.  m is the RAM state after the caller's preparations, d the  *)
(* pair with its new content.                                              *)
Pending(m) == SymDiff(SymDiff(Bits(m.gst), Bits(m.gdisk)), m.gdelta)
Settled(m) == [m EXCEPT !.gdisk = m.gst, !.gdelta = {}]

(* The attributes of a commit, and what each makes of a pair's content.    *)
Delete(i) == [do |-> "delete", id |-> i, with |-> Null]
Insert(i, e) == [do |-> "create", id |-> i, with |-> e]
Point(i, p) == [do |-> "point", id |-> i, with |-> p]
Stamp(i, t) == [do |-> "stamp", id |-> i, with |-> t]
TailTo(p, split) == [do |-> IF split THEN "hard" ELSE "soft", id |-> Cap, with |-> p]

Apply(c, a) ==
  LET i == a.id + 1
  IN CASE a.do = "delete" -> [c EXCEPT !.ents = RemoveAt(@, i)]
       [] a.do = "create" -> [c EXCEPT !.ents = InsertAt(@, i, a.with)]
       [] a.do = "point" -> [c EXCEPT !.ents[i].dir = a.with]
       [] a.do = "stamp" -> [c EXCEPT !.ents[i].time = a.with]
       [] OTHER -> [c EXCEPT !.tail = a.with, !.split = a.do = "hard"]
Edited(d, attrs) == [d EXCEPT !.c = FoldLeft(Apply, @, attrs)]

(* A commit that stays on its pair, appended or compacted. *)
InPlace(m, d) ==
  LET c == [d.c EXCEPT !.gd = SymDiff(@, Pending(m))]
  IN [disk |-> [disk EXCEPT ![d.pair[1]] = c], ram |-> Settled(m),
      dir |-> [d EXCEPT !.c = c], old |-> d.pair, moved |-> FALSE]

(* The pair moves to a new block: pending changes of the global state are  *)
(* left to the commit that makes the new pair visible.                     *)
Relocated(m, d) ==
  LET b == Min(Free)
      c == [d.c EXCEPT !.rev = @ + 1, !.gd = SymDiff(@, m.gdelta)]
  IN [disk |-> [disk EXCEPT ![b] = c], ram |-> [m EXCEPT !.gdelta = {}],
      dir |-> [pair |-> <<b, d.pair[1]>>, c |-> c], old |-> d.pair, moved |-> TRUE]

(* Too many entries: the upper ones go to a new pair behind this one.      *)
Split(m, d) ==
  LET n == Len(d.c.ents) \div 2
      t == Fresh(FreePair, SubSeq(d.c.ents, n + 1, Len(d.c.ents)), d.c.tail, d.c.split)
      c == [d.c EXCEPT !.ents = SubSeq(@, 1, n), !.tail = t.pair, !.split = TRUE]
  IN [disk |-> [disk EXCEPT ![t.pair[1]] = [t.c EXCEPT !.gd = Pending(m)],
                            ![d.pair[1]] = c],
      ram |-> Settled(m), dir |-> [d EXCEPT !.c = c], old |-> d.pair, moved |-> FALSE]

Splits(d) == Len(d.c.ents) > Cap /\ Cardinality(Free) >= 2

Writes(m, d) ==
  {InPlace(m, d)} \cup
  IF spent.trouble < MaxTrouble /\ spent.ops > Len(Setup) /\ d.pair # Root /\ Free # {}
  THEN {Relocated(m, d)} ELSE {}

(* A pair left empty inside a directory is not written: the pair before it *)
(* takes over its tail and its share of the global state.                  *)
Emptied(e, attrs) == (\E a \in ToSet(attrs) : a.do = "delete") /\ e.c.ents = <<>>
Dropped(e, attrs) ==
  IF Emptied(e, attrs)
  THEN SelectSeq(Pred(disk, e.pair), LAMBDA p : p.c.split) ELSE <<>>
Skip(p, d) == Edited(p, <<TailTo(d.c.tail, d.c.split)>>)
Inherit(m, d) == [m EXCEPT !.gdelta = SymDiff(@, d.c.gd)]

Outcomes(m, e, drop) ==
  IF drop # <<>> THEN Writes(Inherit(m, e), Skip(drop[1], e))
  ELSE IF Splits(e) THEN {Split(m, e)}
  ELSE Writes(m, e)

(* Copies in lfs->mlist follow a commit to their pair: the directory a     *)
(* call works on, and an open file, whose id moves with its entry.         *)
Follow(j, r) ==
  IF j.r # NoMdir /\ Same(j.r.pair, r.old) THEN [j EXCEPT !.r = r.dir] ELSE j

Closed == [open |-> FALSE, pair |-> Null, id |-> 0, made |-> 0, gone |-> FALSE]
(* A fault: an entry deleted below an open file does not move its id.      *)
BadShift(h, a) ==
  CASE a.do = "delete" /\ a.id = h.id -> [h EXCEPT !.pair = Null, !.gone = TRUE]
    [] a.do = "create" /\ a.id <= h.id -> [h EXCEPT !.id = @ + 1]
    [] OTHER -> h
Shift(h, a) ==
  CASE a.do = "delete" /\ a.id = h.id -> [h EXCEPT !.pair = Null, !.gone = TRUE]
    [] a.do = "delete" /\ a.id < h.id -> [h EXCEPT !.id = @ - 1]
    [] a.do = "create" /\ a.id <= h.id -> [h EXCEPT !.id = @ + 1]
    [] OTHER -> h
(* An id past the pair's last entry is looked for in the next pair, also   *)
(* that of a handle the commit has just detached.                          *)
Settle(h, c) ==
  IF h.id >= Len(c.ents) /\ c.split
  THEN [h EXCEPT !.pair = c.tail, !.id = @ - Len(c.ents)] ELSE h
Shifted(d, attrs, c) ==
  IF Same(handle.pair, d.pair) THEN Settle(FoldLeft(Shift, handle, attrs), c) ELSE handle
Track(d, attrs, e, r) ==
  LET h == Shifted(d, attrs, IF Same(r.old, d.pair) THEN r.dir.c ELSE e.c)
  IN IF Same(h.pair, r.old) THEN [h EXCEPT !.pair = r.dir.pair] ELSE h

Relocation(r, half) ==
  [do |-> "parent", old |-> r.old, new |-> r.dir, child |-> FALSE, half |-> half]

Ended(res) == promise' = [promise EXCEPT !.res = res]

(* The program stops, because power fails or an LFS_ASSERT does: what is   *)
(* in RAM is lost.                                                         *)
Halt ==
  /\ up' = FALSE /\ job' = Idle /\ stack' = <<>> /\ handle' = Closed
  /\ Ended(IF promise.res = "none" THEN "lost" ELSE promise.res)
  /\ UNCHANGED <<disk, ram>>

(* What a refused program leaves: nothing, or what the first of two steps  *)
(* did.  A pair to be dropped has handed over its share of the global      *)
(* state, and its handles have moved, before the pair in front is written; *)
(* a split has written the new pair, with all that was pending, before     *)
(* anything leads to it.  Either way RAM and flash disagree on that share; *)
(* and a count of orphans raised or lowered for the call stays.            *)
Refusals(m, e, drop, shifted) ==
  LET kept == IF m.gst.orphans = ram.gst.orphans THEN {} ELSE {"count"}
      untouched == [disk |-> disk, ram |-> m, handle |-> handle, left |-> kept]
      share(b) == IF b = {} THEN {} ELSE {"share"}
  IN IF drop # <<>>
     THEN {[untouched EXCEPT !.ram = Inherit(m, e), !.handle = shifted,
                             !.left = @ \cup share(e.c.gd)]}
     ELSE {untouched} \cup
          {[untouched EXCEPT !.disk[s.dir.c.tail[1]] = s.disk[s.dir.c.tail[1]],
                             !.ram = s.ram, !.left = @ \cup share(Pending(m))] :
             s \in IF Splits(e) THEN {Split(m, e)} ELSE {}}

(* lfs_dir_relocatingcommit within lfs_dir_orphaningcommit: done is what   *)
(* is left to repair if the pair stays, under if it moves, half whether    *)
(* one of the pairs above moved already.  A refused program ends the call  *)
(* with what it had prepared still in RAM.                                 *)
Commit(m, d, attrs, next, done, under, half) ==
  \E e \in {Edited(d, attrs)} : \E drop \in {Dropped(e, attrs)} :
    \/ \E r \in Outcomes(m, e, drop) :
         /\ disk' = r.disk
         /\ ram' = r.ram
         /\ job' = Follow(next, r)
         /\ handle' = Track(d, attrs, e, r)
         /\ stack' = IF r.moved THEN <<Relocation(r, half)>> \o under ELSE done
         /\ spent' = IF r.moved THEN [spent EXCEPT !.trouble = @ + 1] ELSE spent
         /\ UNCHANGED <<up, promise>>
    \/ /\ job.op.kind \in FaultyKinds
       /\ spent.trouble < MaxTrouble
       /\ spent.ops > Len(Setup)
       /\ \E r \in Refusals(m, e, drop, Shifted(d, attrs, e.c)) :
            /\ disk' = r.disk
            /\ ram' = r.ram
            /\ handle' = r.handle
            /\ spent' = [spent EXCEPT !.trouble = @ + 1, !.left = @ \cup r.left]
       /\ job' = Idle
       /\ stack' = <<>>
       /\ Ended("error")
       /\ UNCHANGED up

-----------------------------------------------------------------------------
(* Repairs. *)
(* A pending move out of the pair about to be written is finished with it. *)
Fixing(m, p) == IF MoveHere(m.gst, p) = {} THEN m ELSE PrepMove(m, {})
Fix(p) == SetToSeq({Delete(i) : i \in MoveHere(ram.gst, p)})

Deorphan(loss) == [do |-> "deorphan", loss |-> loss, pass |-> 0, more |-> FALSE]

(* lfs_dir_commit: orphans left by nested relocations are removed at once, *)
(* unless it is the removal of orphans that made them.                     *)
Afterwards(f, rest, m) ==
  IF ~f.half THEN rest
  ELSE IF rest # <<>> /\ Head(rest).do = "deorphan"
  THEN <<[Head(rest) EXCEPT !.more = TRUE]>> \o Tail(rest)
  ELSE IF m.gst.orphans > 0 THEN <<Deorphan(FALSE)>> \o rest ELSE rest

Top(what) == up /\ stack # <<>> /\ Head(stack).do = what

(* The directory entry of the relocated pair. *)
FixParent ==
  /\ Top("parent")
  /\ LET f == Head(stack)
         found == Parent(disk, ram.gdisk, f.old)
         pdir == found[1]
         id == IdOf(ram.gdisk, pdir, Max(Children(ram.gdisk, pdir, f.old)))
         at == IF \E i \in MoveHere(ram.gst, pdir.pair) : i < id THEN id - 1 ELSE id
         m == Fixing(PrepOrphans(ram, 1), pdir.pair)
     IN IF found = <<>>
        THEN /\ stack' = <<[f EXCEPT !.do = "pred"]>> \o Tail(stack)
             /\ UNCHANGED <<disk, ram, up, job, handle, spent, promise>>
        ELSE Commit(m, pdir, Fix(pdir.pair) \o <<Point(at, f.new.pair)>>, job,
                    <<[f EXCEPT !.do = "pred", !.child = TRUE]>> \o Tail(stack),
                    Tail(stack), TRUE)

(* The tail before it on the list.  If the move to finish there takes the  *)
(* last entry of that pair, LFS_ASSERT(pdir) of the commit fails.          *)
FixPred ==
  /\ Top("pred")
  /\ LET f == Head(stack)
         found == Pred(disk, f.old)
         pdir == found[1]
         n == IF f.child /\ ram.gst.orphans > 0 THEN -1 ELSE 0
         m == Fixing(PrepOrphans(ram, n), pdir.pair)
     IN IF found = <<>>
        THEN /\ stack' = Afterwards(f, Tail(stack), ram)
             /\ UNCHANGED <<disk, ram, up, job, handle, spent, promise>>
        ELSE IF Emptied(Edited(pdir, Fix(pdir.pair)), Fix(pdir.pair)) THEN Halt /\ UNCHANGED spent
        ELSE Commit(m, pdir,
                    Fix(pdir.pair) \o <<TailTo(f.new.pair, pdir.c.split)>>, job,
                    Afterwards(f, Tail(stack), m), Tail(stack), f.half)

(* lfs_fs_demove: after a power failure, the moved entry is deleted.       *)
Demove ==
  /\ Top("demove")
  /\ LET mv == CHOOSE x \in ram.gdisk.move : TRUE
         d == Fetch(disk, mv.pair)
         m == PrepMove(ram, {})
     IN Commit(m, d, <<Delete(mv.id)>>, job, Tail(stack), Tail(stack), FALSE)

(* lfs_fs_deorphan, first pass: the list disagrees with the entry of a     *)
(* directory.  Second pass: no entry at all, after a power failure.        *)
HalfOrphans ==
  SelectSeq(List(disk), LAMBDA m :
    /\ ~m.c.split /\ m.c.tail # Null
    /\ \E e \in {Parent(disk, ram.gdisk, m.c.tail)} :
         e # <<>> /\ ~Synced(m.c.tail,
           e[1].c.ents[Max(Children(ram.gdisk, e[1], m.c.tail))].dir))
FullOrphans ==
  SelectSeq(List(disk), LAMBDA m :
    /\ ~m.c.split /\ m.c.tail # Null
    /\ Parent(disk, ram.gdisk, m.c.tail) = <<>>)

RemoveHalfOrphan ==
  /\ Top("deorphan") /\ Head(stack).pass = 0 /\ HalfOrphans # <<>>
  /\ LET pdir == HalfOrphans[1]
         e == Parent(disk, ram.gdisk, pdir.c.tail)[1]
         p == e.c.ents[Max(Children(ram.gdisk, e, pdir.c.tail))].dir
     IN Commit(Fixing(ram, pdir.pair), pdir, Fix(pdir.pair) \o <<TailTo(p, FALSE)>>,
               job, stack, stack, FALSE)

RemoveOrphan ==
  /\ Top("deorphan") /\ Head(stack).pass = 1 /\ Head(stack).loss
  /\ FullOrphans # <<>>
  /\ LET pdir == FullOrphans[1]
         d == Fetch(disk, pdir.c.tail)
     IN Commit(Inherit(ram, d), pdir, <<TailTo(d.c.tail, d.c.split)>>,
               job, stack, stack, FALSE)

EndPass ==
  /\ Top("deorphan")
  /\ LET f == Head(stack)
         over == f.pass = 1 /\ ~f.more
     IN /\ IF f.pass = 0 THEN HalfOrphans = <<>> ELSE f.loss => FullOrphans = <<>>
        /\ ram' = IF over THEN [ram EXCEPT !.gst.orphans = 0] ELSE ram
        /\ stack' = IF over THEN Tail(stack)
                    ELSE <<IF f.more THEN [f EXCEPT !.pass = 0, !.more = FALSE]
                           ELSE [f EXCEPT !.pass = 1]>> \o Tail(stack)
  /\ UNCHANGED <<disk, up, job, handle, spent, promise>>

-----------------------------------------------------------------------------
(* Calls. *)
RECURSIVE DirAt(_, _)
DirAt(p, path) ==
  IF Len(path) = 1 THEN p
  ELSE LET f == Find(disk, ram.gdisk, p, Head(path))
           e == DirGet(ram.gdisk, f.m, f.id)
       IN IF f.hit /\ \E x \in e : x.dir # Null
          THEN DirAt((CHOOSE x \in e : TRUE).dir, Tail(path)) ELSE Null
(* What a lookup of a call's path returns, also if a directory is missing. *)
Nowhere == [m |-> NoMdir, hit |-> FALSE, id |-> 0]
Lookup(path) ==
  LET p == DirAt(Root, path)
  IN IF p = Null THEN Nowhere ELSE Find(disk, ram.gdisk, p, Last(path))
Empty(p) == LET d == Fetch(disk, p) IN d.c.ents = <<>> /\ ~d.c.split

Ops ==
  {[kind |-> k, path |-> p, to |-> <<>>] : k \in Kinds \ {"rename"}, p \in Path}
    \cup {o \in [kind : Kinds \cap {"rename"}, path : Path, to : Path] :
            ~IsPrefix(o.path, o.to)}

(* lfs_fs_forceconsistency, at the start of every call that writes but     *)
(* lfs_setattr.                                                            *)
Repairs ==
  (IF ram.gdisk.move # {} THEN <<[do |-> "demove"]>> ELSE <<>>) \o
  (IF ram.gst.orphans > 0 THEN <<Deorphan(TRUE)>> ELSE <<>>)

Call ==
  /\ up /\ job = Idle /\ spent.ops < MaxOps
  /\ \E o \in IF spent.ops < Len(Setup) THEN {Setup[spent.ops + 1]} ELSE Ops :
       /\ job' = [Idle EXCEPT !.at = o.kind, !.op = o]
       /\ stack' = IF o.kind = "settime" THEN <<>> ELSE Repairs
       /\ promise' = [op |-> o, n |-> spent.ops + 1, before |-> Tree, res |-> "none"]
  /\ spent' = [spent EXCEPT !.ops = @ + 1]
  /\ UNCHANGED <<disk, ram, up, handle>>

At(label) == up /\ stack = <<>> /\ job.at = label
Fail(res) == /\ job' = Idle /\ Ended(res)
             /\ UNCHANGED <<disk, ram, up, stack, handle, spent>>
Finish(j) == [j EXCEPT !.at = "return"]

Entry(dir) == [name |-> Last(job.op.path), dir |-> dir, made |-> spent.ops, time |-> 0]

(* lfs_file_opencfg of a new file: its entry and an empty file in it.      *)
Create ==
  /\ At("create")
  /\ \E f \in {Lookup(job.op.path)} :
       IF f # Nowhere /\ ~f.hit
       THEN Commit(ram, f.m, <<Insert(f.id, Entry(Null))>>,
                   Finish(job), <<>>, <<>>, FALSE)
       ELSE Fail("refused")

(* lfs_setattr on the id the lookup returned. *)
SetTime ==
  /\ At("settime")
  /\ \E f \in {Lookup(job.op.path)} :
       IF f.hit
       THEN Commit(ram, f.m, <<Stamp(f.id, spent.ops)>>,
                   Finish(job), <<>>, <<>>, FALSE)
       ELSE Fail("refused")

(* lfs_file_opencfg of a file that exists: the handle keeps pair and id.   *)
Open ==
  /\ At("open")
  /\ \E f \in {Lookup(job.op.path)} :
     LET e == CHOOSE x \in DirGet(ram.gdisk, f.m, f.id) : TRUE
     IN /\ handle' = [Closed EXCEPT !.open = TRUE, !.pair = f.m.pair, !.id = f.id,
                                    !.made = e.made]
        /\ job' = Finish(job)
  /\ UNCHANGED <<disk, ram, up, stack, spent, promise>>

(* lfs_mkdir: the new pair, then the list if the parent's last pair is not *)
(* its first, then the entry.                                              *)
RECURSIVE LastPair(_)
LastPair(m) == IF m.c.split THEN LastPair(Fetch(disk, m.c.tail)) ELSE m

Mkdir ==
  /\ At("mkdir")
  /\ \E f \in {Lookup(job.op.path)} :
       IF f = Nowhere \/ f.hit THEN Fail("refused")
       ELSE IF Cardinality(Free) < 2 THEN Fail("nospace")
       ELSE \E r \in {InPlace(ram, Fresh(FreePair, <<>>, LastPair(f.m).c.tail, FALSE))} :
              /\ disk' = r.disk
              /\ ram' = r.ram
              /\ job' = [job EXCEPT !.at = IF f.m.c.split THEN "link" ELSE "enter",
                                    !.a = f.m, !.b = r.dir, !.id = f.id,
                                    !.r = IF f.m.c.split THEN f.m ELSE NoMdir]
              /\ UNCHANGED <<up, stack, handle, spent, promise>>

MkdirLink ==
  /\ At("link")
  /\ LET pred == LastPair(job.a)
     IN Commit(PrepOrphans(ram, 1), pred, <<TailTo(job.b.pair, FALSE)>>,
               [job EXCEPT !.at = "linked"], <<>>, <<>>, FALSE)

MkdirEnter ==
  /\ up /\ stack = <<>> /\ job.at \in {"enter", "linked"}
  /\ LET linked == job.at = "linked"
         cwd == IF linked THEN job.r ELSE job.a
     IN Commit(IF linked THEN PrepOrphans(ram, -1) ELSE ram, cwd,
               <<Insert(job.id, Entry(job.b.pair))>>
                 \o (IF linked THEN <<>> ELSE <<TailTo(job.b.pair, FALSE)>>),
               Finish([job EXCEPT !.r = NoMdir]), <<>>, <<>>, FALSE)

(* Dropping the orphan a removed or replaced directory has become.         *)
DropNext == Finish([job EXCEPT !.r = NoMdir])
Drop ==
  /\ At("drop")
  /\ LET found == Pred(disk, job.r.pair)
         m == PrepOrphans(ram, -1)
     IN IF ram.gst.orphans > 0
        THEN /\ found # <<>>
             /\ Commit(Inherit(m, job.r), found[1],
                       <<TailTo(job.r.c.tail, job.r.c.split)>>, DropNext, <<>>, <<>>, FALSE)
        ELSE /\ job' = DropNext
             /\ UNCHANGED <<disk, ram, up, stack, handle, spent, promise>>

RemoveEntry ==
  /\ At("remove")
  /\ \E f \in {Lookup(job.op.path)} :
     LET e == CHOOSE x \in DirGet(ram.gdisk, f.m, f.id) : TRUE
         isdir == e.dir # Null
     IN IF f.hit /\ (isdir => Empty(e.dir))
        THEN Commit(IF isdir THEN PrepOrphans(ram, 1) ELSE ram,
                    f.m, <<Delete(f.id)>>,
                    [job EXCEPT !.at = "drop", !.r = IF isdir THEN Fetch(disk, e.dir)
                                                    ELSE NoMdir],
                    <<>>, <<>>, FALSE)
        ELSE Fail("refused")

(* lfs_rename: the new entry, with the move pending in the same commit;    *)
(* the old entry; the directory it replaced.                               *)
Rename ==
  /\ At("rename")
  /\ \E o \in {Lookup(job.op.path)}, n \in {Lookup(job.op.to)} :
     LET old == CHOOSE x \in DirGet(ram.gdisk, o.m, o.id) : TRUE
         prev == CHOOSE x \in DirGet(ram.gdisk, n.m, n.id) : TRUE
         over == n.hit /\ prev.dir # Null
         samepair == Same(o.m.pair, n.m.pair)
         m1 == IF over THEN PrepOrphans(ram, 1) ELSE ram
         m == IF samepair THEN m1 ELSE PrepMove(m1, {Move(o.m.pair, o.id)})
         e == [old EXCEPT !.name = Last(job.op.to)]
         newold == IF ~n.hit /\ n.id <= o.id THEN o.id + 1 ELSE o.id
     IN IF /\ o.hit /\ n # Nowhere
           /\ n.hit => /\ (prev.dir # Null) = (old.dir # Null)
                       /\ over => Empty(prev.dir)
        THEN Commit(m, n.m,
                    (IF n.hit THEN <<Delete(n.id)>> ELSE <<>>) \o <<Insert(n.id, e)>>
                      \o (IF samepair THEN <<Delete(newold)>> ELSE <<>>),
                    [job EXCEPT !.at = IF samepair THEN "drop" ELSE "forget",
                                !.a = o.m, !.id = o.id,
                                !.r = IF over THEN Fetch(disk, prev.dir) ELSE NoMdir],
                    <<>>, <<>>, FALSE)
        ELSE Fail("refused")

RenameForget ==
  /\ At("forget")
  /\ IF ram.gst.move # {}
     THEN Commit(PrepMove(ram, {}), job.a, <<Delete(job.id)>>,
                 [job EXCEPT !.at = "drop"], <<>>, <<>>, FALSE)
     ELSE /\ job' = [job EXCEPT !.at = "drop"]
          /\ UNCHANGED <<disk, ram, up, stack, handle, spent, promise>>

Return ==
  /\ At("return")
  /\ job' = Idle
  /\ Ended("ok")
  /\ UNCHANGED <<disk, ram, up, stack, handle, spent>>

-----------------------------------------------------------------------------
PowerLoss ==
  /\ up /\ spent.losses < MaxLosses /\ spent.ops > Len(Setup)
  /\ spent' = [spent EXCEPT !.losses = @ + 1]
  /\ Halt

(* lfs_mount: the global state is the sum over the list. *)
Mount ==
  /\ ~up
  /\ up' = TRUE
  /\ LET g == FromBits(DiskBits(disk))
     IN ram' = [gst |-> g, gdisk |-> g, gdelta |-> {}]
  /\ UNCHANGED <<disk, job, stack, handle, spent, promise>>

Blank == [rev |-> 0, ents |-> <<>>, tail |-> Null, split |-> FALSE, gd |-> {}]

Init ==
  /\ disk = [b \in Block |-> IF b = 0 THEN [Blank EXCEPT !.rev = 1] ELSE Blank]
  /\ ram = [gst |-> Clean, gdisk |-> Clean, gdelta |-> {}]
  /\ up = TRUE
  /\ job = Idle
  /\ stack = <<>>
  /\ handle = Closed
  /\ spent = [ops |-> 0, trouble |-> 0, losses |-> 0, left |-> {}]
  /\ promise = [op |-> Idle.op, n |-> 0, before |-> {}, res |-> "ok"]

Next ==
  \/ Call \/ Create \/ Open \/ SetTime \/ Mkdir \/ MkdirLink \/ MkdirEnter
  \/ RemoveEntry \/ Drop \/ Rename \/ RenameForget \/ Return
  \/ FixParent \/ FixPred \/ Demove
  \/ RemoveHalfOrphan \/ RemoveOrphan \/ EndPass
  \/ PowerLoss \/ Mount

Spec == Init /\ [][Next]_vars

-----------------------------------------------------------------------------
(* lfs_mkdir, lfs_remove, lfs_rename and lfs_file_open (create): every call *)
(* happens at once or not at all, through relocations, power failures and  *)
(* the recovery after them (lfs_fs_forceconsistency), which changes        *)
(* nothing that a reader of the tree can see.                              *)
Promise == INSTANCE AtomicTree WITH
  Operation <- Ops \cup ToSet(Setup), tree <- Tree, before <- promise.before,
  op <- promise.op, calls <- promise.n, res <- promise.res
ImplementsAtomicTree == Promise!Spec

(* The same for one state: the tree is what the last call found, or what   *)
(* it makes of that, and the latter if it reported success.                *)
CallsAreAtomic ==
  /\ Tree = promise.before \/ Tree = Promise!Effect(promise.before, promise.op, promise.n)
  /\ promise.res = "refused" => Tree = promise.before

(* The open file: whatever is created, removed, renamed, split, dropped or *)
(* relocated around it, its pair and id lead to its own entry until that   *)
(* entry is removed or renamed.                                            *)
HandleNamesItsEntry ==
  handle.open /\ ~handle.gone /\ stack = <<>> =>
    LET ents == Fetch(disk, handle.pair).c.ents
    IN handle.id + 1 \in DOMAIN ents /\ ents[handle.id + 1].made = handle.made

(* Once its entry is removed the handle is detached, so that nothing       *)
(* written to it reaches another file (lfs.c, the pass over lfs->mlist).   *)
RemovedHandleIsDetached == handle.gone => handle.pair = Null

Quiet == up /\ job = Idle /\ stack = <<>>

(* gstate, gdisk, gdelta: between calls the copy in RAM of what the flash  *)
(* holds is the sum of the differences on the list, whatever pairs were    *)
(* split, relocated or dropped, and nothing is left to add.  The exception *)
(* is a refused commit that had already taken over the share of a dropped  *)
(* pair or written the new pair of a split.  The flash names at most one   *)
(* pending move.                                                           *)
GstateAccounted ==
  /\ Quiet /\ "share" \notin spent.left => ram.gdelta = {} /\ Bits(ram.gdisk) = DiskBits(disk)
  /\ Cardinality(DiskBits(disk) \ {OrphanBit}) <= 1

(* The list and the tree: the list ends, every directory of the tree is on *)
(* it, and a directory on it that has no entry, or another pair in its     *)
(* entry, was announced by the orphan flag in the same commit or an        *)
(* earlier one, so that a mount after a power failure looks for it         *)
(* (lfs_fs_deorphan); the exception is a refused commit that had announced *)
(* an orphan, or taken one back, in RAM.  The count in RAM never goes      *)
(* below zero, and the directory a call drops, or a relocated one that has *)
(* an entry, is still on the list (all three are LFS_ASSERTs).             *)
Heads == {m.pair : m \in {Fetch(disk, x.c.tail) : x \in
            {y \in ToSet(List(disk)) : ~y.c.split /\ y.c.tail # Null}}}
DirPairs == UNION {{e.dir : e \in ToSet(m.c.ents)} : m \in ToSet(List(disk))} \ {Null}
OrphansFlagged ==
  LET l == List(disk)
  IN /\ Last(l).c.tail = Null
     /\ spent.left = {} /\ OrphanBit \notin DiskBits(disk) =>
          /\ \A h \in Heads : \E e \in DirPairs : Synced(h, e)
          /\ \A e \in DirPairs : \E h \in Heads : Synced(h, e)
     /\ ram.gst.orphans >= 0
     /\ (At("drop") /\ ram.gst.orphans > 0) => Pred(disk, job.r.pair) # <<>>
     /\ (Top("pred") /\ Head(stack).child) => Pred(disk, Head(stack).old) # <<>>

(* What is pending in the global state and what the pairs hold agree.      *)
MetadataConsistent == GstateAccounted /\ OrphansFlagged

(* lfs_stat between calls: a path leads to what the tree holds there, also *)
(* while a move found at mount waits for the next call that writes.        *)
Stat(path) ==
  LET f == Lookup(path)
  IN IF f.hit THEN DirGet(ram.gdisk, f.m, f.id) ELSE {}
ReadsSeeTree ==
  Quiet => \A p \in Path :
    {[made |-> e.made, time |-> e.time] : e \in Stat(p)}
      = {[made |-> e.made, time |-> e.time] : e \in {x \in Tree : x.path = p}}
=============================================================================
