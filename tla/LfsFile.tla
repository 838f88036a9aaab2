------------------------------- MODULE LfsFile -------------------------------
(***************************************************************************)
(* File contents of the vendored littlefs: what lfs_file_open, read,       *)
(* write, seek, truncate, sync and close do with a file's blocks, and the  *)
(* allocator that hands the blocks out.  A small file is kept inline in    *)
(* its directory entry; a larger one is a list of blocks, each holding     *)
(* pointers back to earlier ones, and is rewritten from the first changed  *)
(* word on.  An entry changes at one instant (see LfsPair); what lies      *)
(* behind it must not be erased while a file on the flash or an open       *)
(* handle still reads it.                                                  *)
(*                                                                         *)
(* A word stands for four bytes.  One action is one call of the glue; the  *)
(* flash may refuse, or get wrong, or lose power in, any erase or program  *)
(* of it.  Reads go to the flash: the caches hold only what is not         *)
(* programmed yet.                                                         *)
(***************************************************************************)
EXTENDS Integers, Sequences, FiniteSets, SequencesExt, FiniteSetsExt

CONSTANTS
  Files, Handles,
  BlockCount,   \* blocks of the region: 0, 1 are the root's, 2, 3 a directory's
  BlockWords,   \* words of a block
  PageWords,    \* words of a page, a cache and the longest inline file
  LookBits,     \* bits of the lookahead buffer
  FirstSizes,   \* sizes of the files at first, 0: no such file
  Starts,       \* where lfs_mount may start the lookahead
  Modes,        \* how files are opened
  Writes,       \* words a call writes or reads
  Positions,    \* positions sought and sizes set
  MaxSize,      \* lfs->file_max
  Faults,       \* what the flash may do: "refused", "wrong", "lost"
  Fuses,        \* bound: after how many operations of a call it does it
  DustyUse,     \* TRUE: a handle may be changed after another one saved its file
  NewBlockFails,\* TRUE: a new block's first page may go wrong before a word of it counts
  MaxCalls,     \* bound: calls
  MaxFaults,    \* bound: faults
  MaxMoves      \* bound: relocations of the directory

VARIABLES
  disk,    \* per file, its directory entry
  meta,    \* the directory's pair
  flash,   \* per block, its words
  look,    \* lfs->lookahead
  cache,   \* file->cache per handle, and lfs->pcache
  file,    \* per handle, the rest of its lfs_file_t
  spent,   \* what is used of each bound
  did,     \* ghost: the last call and its result
  view     \* ghost: what the files hold and the handles show

vars == <<disk, meta, flash, look, cache, file, spent, did, view>>

Block == 0 .. BlockCount - 1
None == -1
Inline == -2
Blank == -1
Torn == -2
Zero == 100
Data(call) == 100 + call

Shared == "pcache"   \* the key of lfs->pcache in cache

ASSUME PagesFillBlocks == BlockWords % PageWords = 0 /\ BlockCount >= 4

-----------------------------------------------------------------------------
(* The index of a position in the list of blocks, and its offset in there. *)
Ctz(n) == Max({k \in 0 .. n : n % 2^k = 0})
Npw2(n) == Min({k \in 0 .. n : 2^k >= n})
RECURSIVE Popc(_)
Popc(n) == IF n <= 0 THEN 0 ELSE (n % 2) + Popc(n \div 2)

CtzIndex ==
  [size \in 0 .. MaxSize + BlockWords |->
     LET b == BlockWords - 2
         j == size \div b
         i == (size - (Popc(j - 1) + 2)) \div b
     IN IF j = 0 THEN [i |-> 0, off |-> size]
        ELSE [i |-> i, off |-> size - b * i - Popc(i)]]

(* The reference: block i starts with Ctz(i) + 1 pointers.                 *)
Holds(i) == IF i = 0 THEN BlockWords ELSE BlockWords - (Ctz(i) + 1)
ASSUME CtzIndexFollowsTheBlocks ==
  \A i \in 0 .. MaxSize, o \in 0 .. BlockWords :
    LET size == MapThenSumSet(Holds, 0 .. i - 1) + o IN
      o < Holds(i) /\ size <= MaxSize =>
        CtzIndex[size] = [i |-> i, off |-> o + BlockWords - Holds(i)]

(* A word of a block, in the cache that may hold it or on the flash.       *)
NoCache == [block |-> None, off |-> 0, size |-> 0, words |-> [i \in 1 .. PageWords |-> Blank]]
At(fl, c, b, o) ==
  IF c.block = b /\ o >= c.off /\ o < c.off + c.size THEN c.words[o - c.off + 1]
  ELSE IF b \in Block THEN fl[b][o + 1] ELSE None

RECURSIVE CtzSkip(_, _, _, _, _)
CtzSkip(fl, c, head, current, target) ==
  IF current <= target THEN head
  ELSE LET skip == Min({Npw2(current - target + 1) - 1, Ctz(current)})
       IN CtzSkip(fl, c, At(fl, c, head, skip), current - 2^skip, target)
CtzFind(fl, c, head, size, pos) ==
  IF size = 0 THEN None
  ELSE CtzSkip(fl, c, head, CtzIndex[size - 1].i, CtzIndex[pos].i)
CtzWord(fl, c, head, size, pos) ==
  At(fl, c, CtzFind(fl, c, head, size, pos), CtzIndex[pos].off)

RECURSIVE CtzWalk(_, _, _, _)
CtzWalk(fl, c, head, i) ==
  {head} \cup IF i = 0 THEN {}
              ELSE IF i % 2 = 1 THEN CtzWalk(fl, c, At(fl, c, head, 0), i - 1)
              ELSE {At(fl, c, head, 0)} \cup CtzWalk(fl, c, At(fl, c, head, 1), i - 2)
CtzBlocks(fl, c, head, size) ==
  IF size = 0 THEN {} ELSE CtzWalk(fl, c, head, CtzIndex[size - 1].i)

-----------------------------------------------------------------------------
(* Entries and handles. *)
NoEntry == [live |-> FALSE, inline |-> TRUE, data |-> <<>>, head |-> None, size |-> 0]
EmptyEntry == [NoEntry EXCEPT !.live = TRUE]

(* Flags: "R" and "W" LFS_F_READING and WRITING, "D" DIRTY, "I" INLINE,    *)
(* "E" ERRED, "U" DUSTY.                                                   *)
Closed == [open |-> FALSE, name |-> "", gone |-> FALSE, mode |-> "r",
           flags |-> {}, pos |-> 0, off |-> 0, block |-> None, head |-> None, size |-> 0]
Inlined(f) == "I" \in f.flags
SizeOf(f) == IF "W" \in f.flags THEN Max({f.pos, f.size}) ELSE f.size
Readable(f) == f.mode \in {"r", "rw", "rwa"}
Writable(f) == f.mode # "r"
Appends(f) == f.mode \in {"rwa", "wa"}

(* What lfs_fs_traverse finds to be in use.  A fault: the blocks of a      *)
(* handle whose file another one saved are not.                            *)
BadKept(f) == "D" \in f.flags /\ ~Inlined(f)
Kept(f) == ("D" \in f.flags \/ "U" \in f.flags) /\ ~Inlined(f)
Traverse(s) ==
  {0, 1} \cup ToSet(s.meta)
  \cup UNION {CtzBlocks(s.flash, NoCache, s.disk[n].head, s.disk[n].size) :
                n \in {m \in Files : s.disk[m].live /\ ~s.disk[m].inline}}
  \cup UNION {LET f == s.file[x]
              IN (IF Kept(f) THEN CtzBlocks(s.flash, s.cache[x], f.head, f.size) ELSE {})
                 \cup (IF "W" \in f.flags /\ ~Inlined(f)
                       THEN CtzBlocks(s.flash, s.cache[x], f.block, f.pos) ELSE {}) :
                x \in Handles}

-----------------------------------------------------------------------------
(* A call works on s, all of the state, with the fault that strikes it     *)
(* (fuse: operations left until then), whether its first commit moves the  *)
(* directory, and its result.                                              *)
Start(p, move, hit) ==
  [disk |-> disk, meta |-> meta, flash |-> flash, look |-> look, cache |-> cache, file |-> file,
   kind |-> p[1], fuse |-> p[2], move |-> move, hit |-> hit,
   skew |-> FALSE, err |-> "ok", new |-> None, data |-> <<>>]
Ok(s) == [s EXCEPT !.err = "ok"]
Fail(s, e) == [s EXCEPT !.err = e]
Then(s, Op(_)) == IF s.err = "ok" THEN Op(s) ELSE s
Retry(s, Again(_)) == IF s.err = "corrupt" THEN Again(Ok(s)) ELSE s
Erred(s, x) == IF s.err = "ok" THEN s ELSE [s EXCEPT !.file[x].flags = @ \cup {"E"}]

(* The allocator. *)
(* A fault: what was looked at for an earlier block counts for this one.   *)
BadCkpoint(s) == s
Ckpoint(s) == [s EXCEPT !.look.ckpoint = BlockCount]
Scan(s) ==
  LET start == (s.look.start + s.look.next) % BlockCount
      size == Min({LookBits, s.look.ckpoint})
  IN [s EXCEPT !.look = [start |-> start, next |-> 0, size |-> size, ckpoint |-> @.ckpoint,
        used |-> {o \in 0 .. size - 1 : (start + o) % BlockCount \in Traverse(s)}]]

FreeAfter(l, n) == Min({i \in n + 1 .. l.size - 1 : i \notin l.used} \cup {l.size})

PassTo(s, n) == [s EXCEPT !.look.next = n, !.look.ckpoint = @ - (n - s.look.next)]

RECURSIVE Alloc(_)
Refill(s) == IF s.look.ckpoint <= 0 THEN Fail(s, "nospc") ELSE Alloc(Scan(s))
Alloc(s) ==
  LET l == s.look
      free == {i \in l.next .. l.size - 1 : i \notin l.used}
  IN IF free = {} THEN Refill(PassTo(s, l.size))
     ELSE [PassTo(s, FreeAfter(l, Min(free))) EXCEPT !.new = (l.start + Min(free)) % BlockCount]

-----------------------------------------------------------------------------
(* The flash: an erase or a program that may not go well. *)
Operate(s, done, torn) ==
  IF s.fuse # 0 THEN [done EXCEPT !.fuse = Max({@ - 1, None})]
  ELSE CASE s.kind = "refused" -> [s EXCEPT !.fuse = None, !.err = "io"]
         [] s.kind = "wrong" -> [torn EXCEPT !.fuse = None, !.err = "corrupt"]
         [] s.kind = "lost" -> [torn EXCEPT !.fuse = None, !.err = "lost"]

Fill(s, b, w) == [s EXCEPT !.flash[b] = [i \in 1 .. BlockWords |-> w]]
Erase(s, b) ==
  IF s.kind = "wrong" THEN Fill(s, b, Blank) ELSE Operate(s, Fill(s, b, Blank), Fill(s, b, Torn))

(* A page; the region does not turn a 0 back into a 1. *)
ProgramPage(s, b, off, words) ==
  LET put(ws) == [s EXCEPT !.flash[b] =
                    [i \in 1 .. BlockWords |-> IF i \in off + 1 .. off + PageWords
                                               THEN ws[i - off] ELSE @[i]]]
  IN IF \E i \in 1 .. PageWords : s.flash[b][off + i] \notin {Blank, words[i]}
     THEN Fail(s, "io")
     ELSE Operate(s, put(words), put([words EXCEPT ![1] = Torn]))

(* lfs_bd_flush: after an error the cache keeps what it holds. *)
Flush(s, x) ==
  LET c == s.cache[x]
  IN IF c.block \in {None, Inline} THEN s
     ELSE Then(ProgramPage(s, c.block, c.off, c.words), LAMBDA t : [t EXCEPT !.cache[x] = NoCache])

(* lfs_bd_prog, a word at a time; "halt" is its LFS_ASSERT.                *)
RECURSIVE PutWord(_, _, _, _, _)
PutWord(s, x, b, off, word) ==
  LET c == s.cache[x]
      d == [c EXCEPT !.words[off - c.off + 1] = word, !.size = Max({@, off - c.off + 1})]
  IN IF c.block = b /\ off >= c.off /\ off < c.off + PageWords
     THEN LET t == [s EXCEPT !.cache[x] = d] IN IF d.size = PageWords THEN Flush(t, x) ELSE t
     ELSE IF c.block # None THEN Fail(s, "halt")
     ELSE PutWord([s EXCEPT !.cache[x] = [NoCache EXCEPT !.block = b, !.off = off - (off % PageWords)]],
                  x, b, off, word)
RECURSIVE Put(_, _, _, _, _)
Put(s, x, b, off, ws) ==
  IF ws = <<>> THEN s
  ELSE Then(PutWord(s, x, b, off, Head(ws)), LAMBDA t : Put(t, x, b, off + 1, Tail(ws)))

-----------------------------------------------------------------------------
(* Blocks of a file. *)
(* lfs_ctz_extend: a new last block, or a copy of the one being changed.   *)
Pointers(s, head, n) ==
  LET p[i \in 1 .. n] == IF i = 1 THEN head ELSE At(s.flash, NoCache, p[i - 1], i - 2) IN p
RECURSIVE CtzExtend(_, _)
CtzExtend(s, x) ==
  LET f == s.file[x]
      ix == CtzIndex[f.pos - 1]
      ws == IF f.pos = 0 THEN <<>>
            ELSE IF ix.off + 1 # BlockWords
                 THEN [i \in 1 .. ix.off + 1 |-> At(s.flash, NoCache, f.block, i - 1)]
                 ELSE Pointers(s, f.block, Ctz(ix.i + 1) + 1)
      a == Alloc(s)
      e == Then(a, LAMBDA t : Erase(t, t.new))
      p == Then(e, LAMBDA t : Put(t, x, t.new, 0, ws))
  IN Retry(Then(p, LAMBDA t : [t EXCEPT !.file[x].block = t.new, !.file[x].off = Len(ws)]),
           LAMBDA t : CtzExtend([t EXCEPT !.cache[x] = NoCache], x))

(* lfs_file_relocate: the last block again in another place, written       *)
(* through the shared program cache.                                       *)
RECURSIVE Relocate(_, _)
Relocate(s, x) ==
  LET f == s.file[x]
      ws == [i \in 1 .. f.off |->
               IF Inlined(f) THEN s.cache[x].words[i] ELSE At(s.flash, s.cache[x], f.block, i - 1)]
      e == Then(Alloc(s), LAMBDA t : Erase(t, t.new))
      p == Then(e, LAMBDA t : Put(t, Shared, t.new, 0, ws))
  IN Retry(Then(p, LAMBDA t :
             [t EXCEPT !.cache = [@ EXCEPT ![x] = t.cache[Shared], ![Shared] = NoCache],
                       !.file[x] = [@ EXCEPT !.block = t.new, !.flags = @ \cup {"W"}]]),
           LAMBDA t : Relocate([t EXCEPT !.cache[Shared] = NoCache], x))
Outline(s, x) ==
  Then(Relocate(Ckpoint([s EXCEPT !.file[x].off = s.file[x].pos]), x),
       LAMBDA t : [t EXCEPT !.file[x].flags = @ \ {"I"}])

(* lfs_file_flushedwrite. *)
NextBlock(s, x) ==
  LET f == s.file[x]
      t == IF "W" \in f.flags \/ f.pos = 0 THEN s
           ELSE [s EXCEPT !.file[x].block = CtzFind(s.flash, NoCache, f.head, f.size, f.pos - 1),
                          !.cache[x] = NoCache]
  IN IF Inlined(f)
     THEN [s EXCEPT !.file[x] = [f EXCEPT !.block = Inline, !.off = f.pos, !.flags = @ \cup {"W"}]]
     ELSE Then(Then(t, LAMBDA u : IF u.file[x].block \notin Block /\ f.pos > 0 THEN Fail(u, "corrupt")
                                  ELSE CtzExtend(Ckpoint(u), x)),
               LAMBDA u : [u EXCEPT !.file[x].flags = @ \cup {"W"}])

RECURSIVE Chunk(_, _, _)
Chunk(s, x, ws) ==
  LET f == s.file[x]
      first == f.pos > 0 /\ CtzIndex[f.pos - 1].i # CtzIndex[f.pos].i
  IN Retry(Put(s, x, f.block, f.off, ws), LAMBDA t :
       Then(Relocate([t EXCEPT !.skew = @ \/ first], x), LAMBDA u : Chunk(u, x, ws)))

RECURSIVE WriteBlocks(_, _, _)
WriteSome(s, x, ws, n) ==
  Then(Chunk(s, x, SubSeq(ws, 1, n)), LAMBDA t :
    WriteBlocks(Ckpoint([t EXCEPT !.file[x].pos = @ + n, !.file[x].off = @ + n]),
                x, SubSeq(ws, n + 1, Len(ws))))
WriteBlocks(s, x, ws) ==
  LET f == s.file[x]
      t == IF "W" \notin f.flags \/ f.off = BlockWords THEN NextBlock(s, x) ELSE s
  IN IF ws = <<>> THEN s
     ELSE Then(t, LAMBDA u : WriteSome(u, x, ws, Min({Len(ws), BlockWords - u.file[x].off})))
FlushedWrite(s, x, ws) ==
  LET f == s.file[x]
      t == IF Inlined(f) /\ Max({f.pos + Len(ws), f.size}) > PageWords THEN Outline(s, x) ELSE s
  IN Erred(Then(t, LAMBDA u : WriteBlocks(u, x, ws)), x)

(* lfs_file_flushedread; what it reads is appended to data.                *)
RECURSIVE FlushedRead(_, _, _)
ReadSome(s, x, n) ==
  LET f == s.file[x]
      k == Min({n, BlockWords - f.off})
      c == IF Inlined(f) THEN s.cache[x] ELSE NoCache
      ws == [i \in 1 .. k |-> At(s.flash, c, f.block, f.off + i - 1)]
  IN IF ~Inlined(f) /\ f.block \notin Block THEN Fail(s, "corrupt")
     ELSE FlushedRead([s EXCEPT !.data = @ \o ws,
                         !.file[x] = [f EXCEPT !.flags = @ \cup {"R"}, !.off = @ + k, !.pos = @ + k]],
                      x, n - k)
FlushedRead(s, x, n) ==
  LET f == s.file[x]
      m == Min({n, f.size - f.pos})
      t == IF "R" \in f.flags /\ f.off # BlockWords THEN s
           ELSE [s EXCEPT !.file[x].off = IF Inlined(f) THEN f.pos ELSE CtzIndex[f.pos].off,
                          !.file[x].block = IF Inlined(f) THEN Inline
                             ELSE CtzFind(s.flash, NoCache, f.head, f.size, f.pos)]
  IN IF m <= 0 THEN s ELSE ReadSome(t, x, m)

(* lfs_file_flush: what lies behind the words written is copied, and the   *)
(* list written becomes the file's.                                        *)
RECURSIVE CopyTail(_, _)
CopyTail(s, x) ==
  LET f == s.file[x]
      b == CtzFind(s.flash, NoCache, f.head, f.size, f.pos)
  IN IF s.err # "ok" \/ f.pos >= f.size THEN s
     ELSE IF b \notin Block THEN Fail(s, "corrupt")
     ELSE CopyTail(FlushedWrite(s, x, <<s.flash[b][CtzIndex[f.pos].off + 1]>>), x)
RECURSIVE WriteOut(_, _)
WriteOut(s, x) ==
  Retry(Flush(s, x), LAMBDA t : Then(Relocate(t, x), LAMBDA u : WriteOut(u, x)))

FileFlush(s, x) ==
  LET f == s.file[x]
      r == [s EXCEPT !.file[x].flags = @ \ {"R"}, !.cache[x] = IF Inlined(f) THEN @ ELSE NoCache]
      w == IF Inlined(f) THEN [s EXCEPT !.file[x].pos = Max({f.pos, f.size})]
           ELSE Then(CopyTail(s, x), LAMBDA t : WriteOut(t, x))
  IN IF "R" \in f.flags THEN r
     ELSE IF "W" \notin f.flags THEN s
     ELSE Then(w, LAMBDA t : [t EXCEPT !.file[x] =
            [@ EXCEPT !.head = t.file[x].block, !.size = t.file[x].pos, !.pos = f.pos,
                      !.flags = (@ \ {"W"}) \cup {"D"}]])

-----------------------------------------------------------------------------
(* lfs_dir_commit: the entry changes, or does not.  A directory that moves *)
(* takes a new block for its older one, if there is any.                   *)
Prepared(a) == IF a.err = "ok" THEN Erase(a, a.new) ELSE Ok(a)
Commit(s, n, entry) ==
  LET d == [s EXCEPT !.new = None]
      p == Then(IF s.move THEN Prepared(Alloc([d EXCEPT !.cache[Shared] = NoCache, !.move = FALSE]))
                ELSE d,
                LAMBDA t : IF t.kind = "wrong" THEN t ELSE Operate(t, t, t))
  IN IF s.cache[Shared].block # None /\ ~s.move THEN Fail(s, "halt")
     ELSE Then(p, LAMBDA t :
            [t EXCEPT !.disk[n] = entry, !.meta = IF t.new = None THEN @ ELSE <<t.new, @[1]>>])

(* lfs_file_sync. *)
Entry(f, c) ==
  [live |-> TRUE, inline |-> Inlined(f), data |-> IF Inlined(f) THEN SubSeq(c.words, 1, f.size) ELSE <<>>,
   head |-> IF Inlined(f) THEN None ELSE f.head, size |-> f.size]
(* A fault: handles of the same file do not hear of it.                    *)
BadOthers(s, x) == {}
Others(s, x) ==
  {y \in Handles \ {x} : /\ s.file[y].open /\ s.file[y].name = s.file[x].name
                         /\ s.file[y].gone = s.file[x].gone}
Flushed(t, x) ==
  LET f == t.file[x]
      dirty == "D" \in f.flags /\ ~f.gone
      u == IF dirty /\ ~Inlined(f) THEN Flush(t, Shared) ELSE t
      c == Then(u, LAMBDA v : IF dirty THEN Erred(Commit(v, f.name, Entry(f, v.cache[x])), x) ELSE v)
  IN Then(c, LAMBDA v : [v EXCEPT !.file = [y \in Handles |->
       IF y = x THEN [@[y] EXCEPT !.flags = @ \ ({"E", "U"} \cup IF dirty THEN {"D"} ELSE {})]
       ELSE IF y \in Others(v, x) THEN [@[y] EXCEPT !.flags = @ \cup {"U"}] ELSE @[y]]])
Sync(s, x) == Then(Erred(FileFlush(s, x), x), LAMBDA t : Flushed(t, x))
FileClose(s, x) ==
  LET t == IF "E" \in s.file[x].flags THEN s ELSE Sync(s, x)
  IN [t EXCEPT !.file[x] = Closed, !.cache[x] = NoCache]

RECURSIVE Fillup(_, _, _)
Fillup(s, x, n) ==
  IF n <= 0 THEN s ELSE Then(FlushedWrite(s, x, <<Zero>>), LAMBDA t : Fillup(t, x, n - 1))
WriteFrom(t, x, ws) ==
  LET f == [t.file[x] EXCEPT !.pos = IF Appends(t.file[x]) THEN Max({@, t.file[x].size}) ELSE @]
      fill == IF "W" \in f.flags THEN 0 ELSE Max({0, f.pos - f.size})
      u == [t EXCEPT !.file[x] = IF fill > 0 THEN [f EXCEPT !.pos = f.size] ELSE f]
  IN IF f.pos + Len(ws) > MaxSize THEN Fail([t EXCEPT !.file[x] = f], "fbig")
     ELSE Then(Then(Fillup(u, x, fill), LAMBDA v : FlushedWrite(v, x, ws)),
               LAMBDA v : [v EXCEPT !.file[x].flags = @ \ {"E", "U"}])
FileWrite(s, x, ws) ==
  Then(IF "R" \in s.file[x].flags THEN FileFlush(s, x) ELSE s, LAMBDA t : WriteFrom(t, x, ws))

(* lfs_file_seek: inside the block being read nothing is flushed if the    *)
(* cache holds the place.                                                  *)
FileSeek(s, x, n) ==
  LET f == s.file[x]
      ix == CtzIndex[n]
      hit == IF Inlined(f) THEN ix.off < PageWords ELSE s.hit
  IN IF f.pos = n THEN s
     ELSE IF "R" \in f.flags /\ f.off # BlockWords /\ CtzIndex[f.pos].i = ix.i /\ hit
          THEN [s EXCEPT !.file[x] = [f EXCEPT !.pos = n, !.off = ix.off]]
     ELSE Then(FileFlush(s, x), LAMBDA t : [t EXCEPT !.file[x].pos = n])

(* lfs_file_truncate: each way starts where the words to keep end. *)
ToInline(s, x, n) ==
  Then(FlushedRead(s, x, n), LAMBDA t :
    [t EXCEPT !.data = <<>>,
       !.cache[x] = [NoCache EXCEPT !.block = Inline, !.size = PageWords,
                       !.words = [i \in 1 .. PageWords |-> IF i <= n THEN t.data[i] ELSE Blank]],
       !.file[x] = [@ EXCEPT !.head = Inline, !.size = n, !.flags = @ \cup {"D", "R", "I"}]])
ToShorter(s, x, n) ==
  LET f == s.file[x]
      b == CtzFind(s.flash, NoCache, f.head, f.size, n - 1)
  IN IF b \notin Block THEN Fail(s, "corrupt")
     ELSE [s EXCEPT !.file[x] = [f EXCEPT !.pos = n, !.block = b, !.head = b, !.size = n,
                                          !.flags = @ \cup {"D", "R"}]]
RECURSIVE ToLonger(_, _, _)
ToLonger(s, x, n) ==
  IF n <= 0 THEN s ELSE Then(FileWrite(s, x, <<Zero>>), LAMBDA t : ToLonger(t, x, n - 1))
Resized(s, x, n, old) ==
  IF n > old THEN ToLonger(s, x, n - old)
  ELSE IF n <= PageWords THEN ToInline(s, x, n) ELSE ToShorter(s, x, n)
FileTruncate(s, x, n) ==
  LET f == s.file[x]
      old == SizeOf(f)
      t == IF n < old /\ n > PageWords THEN FileFlush(s, x)
           ELSE FileSeek(s, x, IF n < old THEN 0 ELSE old)
  IN IF n = old THEN s
     ELSE Then(Then(t, LAMBDA u : Resized(u, x, n, old)), LAMBDA u : FileSeek(u, x, f.pos))

FileRead(s, x, n) ==
  Then(IF "W" \in s.file[x].flags THEN FileFlush(s, x) ELSE s, LAMBDA t : FlushedRead(t, x, n))

-----------------------------------------------------------------------------
(* The glue: a file just made, and one closed after writing, is stamped    *)
(* under its name.                                                         *)
Touch(s, n) == IF s.disk[n].live THEN Commit(s, n, s.disk[n]) ELSE Fail(s, "noent")

Opened(s, n, mode, trunc) ==
  LET e == s.disk[n]
      f == [Closed EXCEPT !.open = TRUE, !.name = n, !.mode = mode]
  IN IF trunc \/ e.inline
     THEN [f EXCEPT !.head = Inline, !.size = IF trunc THEN 0 ELSE e.size,
                    !.flags = {"I"} \cup IF trunc THEN {"D"} ELSE {}]
     ELSE [f EXCEPT !.head = e.head, !.size = e.size]
OpenCache(s, x) ==
  IF ~Inlined(s.file[x]) THEN NoCache
  ELSE [NoCache EXCEPT !.block = Inline, !.size = PageWords,
          !.words = [i \in 1 .. PageWords |-> IF i <= s.file[x].size
                                              THEN s.disk[s.file[x].name].data[i] ELSE Blank]]
FileOpen(s, x, n, mode, trunc) ==
  Then([s EXCEPT !.file[x] = Opened(s, n, mode, trunc)],
       LAMBDA t : [t EXCEPT !.cache[x] = OpenCache(t, x)])
CloseUnlessOk(s, x) == IF s.err = "ok" THEN s ELSE Fail(FileClose(Ok(s), x), s.err)
GlueOpen(s, x, n, mode) ==
  IF s.disk[n].live THEN FileOpen(s, x, n, mode, mode = "w")
  ELSE IF mode \in {"r", "rw"} THEN Fail(s, "noent")
  ELSE Then(Then(Commit(s, n, EmptyEntry), LAMBDA t : FileOpen(t, x, n, mode, FALSE)),
            LAMBDA t : CloseUnlessOk(Touch(t, n), x))
GlueClose(s, x) ==
  LET f == s.file[x]
  IN Then(FileClose(s, x), LAMBDA t : IF Writable(f) THEN Touch(t, f.name) ELSE t)
GlueRemove(s, n) ==
  IF ~s.disk[n].live THEN Fail(s, "noent")
  ELSE Then(Commit(s, n, NoEntry), LAMBDA t : [t EXCEPT !.file = [x \in Handles |->
         IF @[x].open /\ @[x].name = n THEN [@[x] EXCEPT !.gone = TRUE] ELSE @[x]]])

-----------------------------------------------------------------------------
(* What a file holds, and what a handle shows. *)
Saved(s, n) ==
  LET e == s.disk[n]
  IN IF ~e.live THEN <<None>>
     ELSE IF e.inline THEN e.data
     ELSE [p \in 1 .. e.size |-> CtzWord(s.flash, NoCache, e.head, e.size, p - 1)]
Words(s, x) ==
  LET f == s.file[x]
  IN [p \in 1 .. SizeOf(f) |->
        IF Inlined(f) THEN s.cache[x].words[p]
        ELSE IF "W" \in f.flags /\ p <= f.pos
             THEN CtzWord(s.flash, s.cache[x], f.block, f.pos, p - 1)
        ELSE CtzWord(s.flash, NoCache, f.head, f.size, p - 1)]
Hidden == [st |-> "closed", f |-> "", mode |-> "r", words |-> <<>>, pos |-> 0, dirty |-> FALSE]
Shown(s, x) ==
  LET f == s.file[x]
      h == [Hidden EXCEPT !.f = f.name, !.mode = f.mode]
  IN IF ~f.open THEN Hidden
     ELSE IF f.gone THEN [h EXCEPT !.st = "gone"]
     ELSE IF "E" \in f.flags THEN [h EXCEPT !.st = "broken"]
     ELSE [h EXCEPT !.st = "open", !.words = Words(s, x), !.pos = f.pos,
                    !.dirty = f.flags \cap {"D", "W"} # {}]
Viewed(s) == [saved |-> [n \in Files |-> Saved(s, n)], handle |-> [x \in Handles |-> Shown(s, x)]]

-----------------------------------------------------------------------------
(* One call, and what is left of it when power fails. *)
Mounted(start) == [start |-> start, next |-> 0, size |-> 0, ckpoint |-> BlockCount, used |-> {}]
Idle == [op |-> "none", x |-> "", f |-> "", mode |-> "r", n |-> 0, res |-> "ok", data |-> <<>>]

Ended(r) ==
  IF r.err # "lost" THEN {r}
  ELSE {[r EXCEPT !.look = Mounted(start), !.cache = [x \in DOMAIN @ |-> NoCache],
                  !.file = [x \in Handles |-> Closed]] : start \in Starts}
Plans == {<<"none", None>>} \cup IF spent.faults < MaxFaults THEN Faults \X Fuses ELSE {}
Perform(F(_), d) ==
  /\ spent.calls < MaxCalls /\ did.res # "halt"
  /\ \E p \in Plans, hit \in IF d.op \in {"seek", "truncate"} THEN BOOLEAN ELSE {FALSE},
        move \in IF d.op \in {"open", "sync", "close", "remove"} /\ spent.moves < MaxMoves
                 THEN BOOLEAN ELSE {FALSE} :
       \E r \in {F(Start(p, move, hit))} : \E e \in Ended(r) :
         /\ p[1] # "none" => r.fuse = None
         /\ move => ~r.move
         /\ r.skew => NewBlockFails
         /\ disk' = e.disk /\ meta' = e.meta /\ flash' = e.flash
         /\ look' = e.look /\ cache' = e.cache /\ file' = e.file
         /\ view' = Viewed(e)
         /\ spent' = [calls |-> spent.calls + 1,
                      faults |-> spent.faults + IF p[1] = "none" THEN 0 ELSE 1,
                      moves |-> spent.moves + IF move THEN 1 ELSE 0]
         /\ did' = [d EXCEPT !.res = r.err, !.data = @ \o r.data]

(* After an error of a write a handle is only closed ("it's not safe to do *)
(* anything if our file errored", lfs_file_close).                         *)
Usable(x) ==
  /\ file[x].open /\ "E" \notin file[x].flags
  /\ "U" \in file[x].flags => DustyUse

Open(x, n, mode) ==
  /\ ~file[x].open
  /\ Perform(LAMBDA s : GlueOpen(s, x, n, mode),
             [Idle EXCEPT !.op = "open", !.x = x, !.f = n, !.mode = mode])
Close(x) ==
  /\ file[x].open
  /\ Perform(LAMBDA s : GlueClose(s, x), [Idle EXCEPT !.op = "close", !.x = x])
Read(x, n) ==
  /\ file[x].open /\ "E" \notin file[x].flags /\ Readable(file[x])
  /\ Perform(LAMBDA s : FileRead(s, x, n), [Idle EXCEPT !.op = "read", !.x = x, !.n = n])
Write(x, n) ==
  /\ Usable(x) /\ Writable(file[x])
  /\ LET ws == [i \in 1 .. n |-> Data(spent.calls)]
     IN Perform(LAMBDA s : FileWrite(s, x, ws), [Idle EXCEPT !.op = "write", !.x = x, !.data = ws])
Seek(x, n) ==
  /\ file[x].open /\ "E" \notin file[x].flags
  /\ Perform(LAMBDA s : FileSeek(s, x, n), [Idle EXCEPT !.op = "seek", !.x = x, !.n = n])
Truncate(x, n) ==
  /\ Usable(x) /\ Writable(file[x])
  /\ Perform(LAMBDA s : FileTruncate(s, x, n), [Idle EXCEPT !.op = "truncate", !.x = x, !.n = n])
Save(x) ==
  /\ Usable(x)
  /\ Perform(LAMBDA s : Sync(s, x), [Idle EXCEPT !.op = "sync", !.x = x])
RemoveFile(n) ==
  Perform(LAMBDA s : GlueRemove(s, n), [Idle EXCEPT !.op = "remove", !.f = n])

(* What an earlier session left: no file, or one that is inline or in      *)
(* blocks from the fifth on, and may already be open.                      *)
Chain(first, size) ==
  [b \in Block |->
     [i \in 1 .. BlockWords |->
        LET k == b - first
            pos == MapThenSumSet(Holds, 0 .. k - 1) + i - 1 - (BlockWords - Holds(k))
        IN IF k >= 0 /\ i <= BlockWords - Holds(k) THEN b - 2^(i - 1)
           ELSE IF k >= 0 /\ pos < size THEN Data(-pos - 1) ELSE Blank]]
Stored(size) ==
  IF size = 0 THEN NoEntry
  ELSE IF size <= PageWords
  THEN [EmptyEntry EXCEPT !.size = size, !.data = [i \in 1 .. size |-> Data(-i)]]
  ELSE [EmptyEntry EXCEPT !.inline = FALSE, !.size = size, !.head = 4 + CtzIndex[size - 1].i]
Init ==
  /\ \E size \in [Files -> FirstSizes], start \in Starts :
       LET big == {n \in Files : size[n] > PageWords}
       IN /\ Cardinality({n \in Files : size[n] > 0}) <= 1
          /\ disk = [n \in Files |-> Stored(size[n])]
          /\ flash = IF big = {} THEN [b \in Block |-> [i \in 1 .. BlockWords |-> Torn]]
                     ELSE Chain(4, size[CHOOSE n \in big : TRUE])
          /\ look = Mounted(start)
          /\ file \in [Handles -> {Closed} \cup {Opened([disk |-> disk], n, "rw", FALSE) :
                                                   n \in {m \in Files : size[m] > 0}}]
  /\ meta = <<2, 3>>
  /\ cache = [x \in Handles \cup {Shared} |->
                IF x = Shared THEN NoCache ELSE OpenCache([disk |-> disk, file |-> file], x)]
  /\ spent = [calls |-> 0, faults |-> 0, moves |-> 0]
  /\ did = Idle
  /\ view = Viewed([disk |-> disk, flash |-> flash, file |-> file, cache |-> cache])

Next ==
  \/ \E x \in Handles, n \in Files, mode \in Modes : Open(x, n, mode)
  \/ \E x \in Handles : Close(x) \/ Save(x)
  \/ \E x \in Handles, n \in Writes : Read(x, n) \/ Write(x, n)
  \/ \E x \in Handles, n \in Positions : Seek(x, n) \/ Truncate(x, n)
  \/ \E n \in Files : RemoveFile(n)
Spec == Init /\ [][Next]_vars

-----------------------------------------------------------------------------
(* The blocks whose loss a program would notice. *)
InUse ==
  {0, 1} \cup ToSet(meta)
  \cup UNION {CtzBlocks(flash, NoCache, disk[n].head, disk[n].size) :
                n \in {m \in Files : disk[m].live /\ ~disk[m].inline}}
  \cup UNION {LET f == file[x]
              IN CtzBlocks(flash, NoCache, f.head, f.size)
                 \cup (IF "W" \in f.flags THEN CtzBlocks(flash, cache[x], f.block, f.pos) ELSE {}) :
                x \in {y \in Handles : view.handle[y].st = "open" /\ ~Inlined(file[y])}}

(* lfs_alloc: no block the lookahead would hand out holds anything that a  *)
(* file or an open handle still reads.                                     *)
FreeBlocksAreFree ==
  \A i \in look.next .. look.size - 1 :
    i \notin look.used => (look.start + i) % BlockCount \notin InUse

(* lfs_alloc reports that there is no space only when there is none, even  *)
(* if blocks were freed since the lookahead was filled.                    *)
NoSpaceMeansFull ==
  did.res = "nospc" /\ did.op # "close" /\ spent.faults = 0 =>
    Block \subseteq Traverse([disk |-> disk, meta |-> meta, flash |-> flash,
                              cache |-> cache, file |-> file])

(* lfs_file_open .. lfs_file_truncate, lfs_remove and a loss of power: what *)
(* a handle shows and what a file holds change as if every call were one   *)
(* step on plain words, and a handle that got no error shows its own words *)
(* whatever is allocated, freed, moved or refused elsewhere.               *)
Atomic == INSTANCE AtomicFile WITH
  saved <- view.saved, handle <- view.handle,
  Absent <- <<None>>
ImplementsAtomicFile == Atomic!Spec
=============================================================================
