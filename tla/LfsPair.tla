------------------------------- MODULE LfsPair -------------------------------
(***************************************************************************)
(* One metadata pair of the vendored littlefs on the flash storage region: *)
(* two blocks, each a log of commits, of which the one with the later      *)
(* revision counts.  A commit is appended behind the last one, or the pair *)
(* is compacted into its other block, or that block is bad or worn and a   *)
(* new one takes its place, after which the pair has to be named anew by   *)
(* its parent.  Flash is programmed one page at a time and a page holds    *)
(* one piece of one commit; power may fail inside a program or an erase.   *)
(*                                                                         *)
(* A checksum is exact here: a commit counts when all its pieces are there *)
(* as written.  What the parent holds is one step (LfsTree has the steps). *)
(***************************************************************************)
EXTENDS Integers, Sequences, FiniteSets, SequencesExt, FiniteSetsExt

CONSTANTS
  Blocks,       \* blocks of the region; 0 and 1 are the superblock's
  Pages,        \* program units of a block
  Sizes,        \* program units a commit may take
  RevMod,       \* revisions are counted modulo this (2^32 in the code)
  FirstRevs,    \* revisions the pair may have at first
  NoiseRevs,    \* revisions an interrupted program or an old directory leaves
  BlockCycles,  \* lfs_config.block_cycles
  ParentFails,  \* TRUE: the flash may refuse the commit that names the new pair
  MaxCommits,   \* bound: commits
  MaxPairFaults,\* bound: operations the flash refuses or gets wrong
  MaxLosses     \* bound: power failures

ASSUME RegionAssumption ==
  /\ Blocks \in Nat /\ Blocks >= 4
  /\ Pages \in Nat /\ Pages >= 2
  /\ Sizes \subseteq 1 .. Pages
  /\ ParentFails \in BOOLEAN
  /\ MaxCommits \in Nat /\ MaxPairFaults \in Nat /\ MaxLosses \in Nat

VARIABLES
  chip,    \* per block, its pages
  ptr,     \* the pair the parent names
  held,    \* the mdir an open file keeps of it, or none
  pcache,  \* lfs->pcache: what a refused program left in it
  w,       \* the commit in progress
  since,   \* ghost: the commit at which a block came into the pair
  used,    \* what is used of each bound
  call,    \* ghost: the commit called last, and how it ended
  res

pairVars == <<chip, ptr, held, pcache, w, since, used, call, res>>

RegionBlock == 0 .. Blocks - 1
Root == <<0, 1>>
Rev == 0 .. RevMod - 1
Synced(p, q) == ToSet(p) = ToSet(q)

(* A page: erased, a piece of a commit, or what an interrupted program     *)
(* left: "torn" if the tag at its start was programmed, "ghost" if not.    *)
Page(is, rev) == [is |-> is, v |-> -1, part |-> 0, of |-> 0, rev |-> rev, next |-> ""]
BlankPage == Page("blank", RevMod - 1)
TornPage(rev) == Page("torn", rev)
GhostPage(rev) == Page("ghost", rev)
Broken == {TornPage(r) : r \in NoiseRevs} \cup {GhostPage(r) : r \in NoiseRevs}

NoDir == [pair |-> <<Blocks, Blocks>>, rev |-> 0, v |-> -1, off |-> 0, erased |-> FALSE]
NoCommit == [at |-> "idle", d |-> NoDir, v |-> 0, n |-> 1, part |-> 0,
             moved |-> FALSE, tired |-> FALSE, fresh |-> FALSE]
NoPageCache == <<Blocks, 0, FALSE>>

-----------------------------------------------------------------------------
(* Fetching. *)
Scmp(a, b) ==
  LET d == (a - b) % RevMod
  IN IF d = 0 THEN 0 ELSE IF d < RevMod \div 2 THEN 1 ELSE -1

(* A commit begins at a page and its checksum is right. *)
Whole(pages, p) ==
  /\ p <= Pages
  /\ pages[p].is = "piece" /\ pages[p].part = 1
  /\ p + pages[p].of - 1 <= Pages
  /\ \A i \in 1 .. pages[p].of :
       pages[p + i - 1] = [pages[p] EXCEPT !.part = i]

(* The end of the last commit of a block. *)
Log(pages) ==
  LET end[p \in 1 .. Pages + 1] ==
        IF Whole(pages, p) THEN end[p + pages[p].of] ELSE p - 1
  IN end[1]

(* The block with the later revision; the other if it has no good commit.  *)
Newest(p) ==
  LET r == IF Scmp(chip[p[2]][1].rev, chip[p[1]][1].rev) > 0 THEN <<p[2], p[1]>> ELSE p
  IN IF Log(chip[r[1]]) > 0 THEN r ELSE <<r[2], r[1]>>

(* A fault: an erased-looking tag is taken for an erased page, no forward  *)
(* checksum is compared.                                                   *)
BadErased(pages, off) ==
  off > 0 /\ off < Pages /\ pages[off].next = "blank"
    /\ pages[off + 1].is \in {"blank", "ghost"}
Erased(pages, off) ==
  off > 0 /\ off < Pages /\ pages[off].next = "blank" /\ pages[off + 1].is = "blank"

Fetch(p) ==
  LET n == Newest(p)
      pages == chip[n[1]]
      off == Log(pages)
  IN [pair |-> n, rev |-> pages[1].rev, off |-> off, erased |-> Erased(pages, off),
      v |-> IF off = 0 THEN -1 ELSE pages[off].v]

(* The commit whose content the tree holds. *)
Value == CHOOSE v \in {chip[b][Log(chip[b])].v : b \in {Newest(ptr)[1]}} : TRUE

-----------------------------------------------------------------------------
(* Wear. *)
(* A fault: the period may be even, which always picks the same block.     *)
BadPeriod == BlockCycles + 1
Period == IF BlockCycles % 2 = 0 THEN BlockCycles + 1 ELSE BlockCycles + 2
ASSUME RevisionAssumption ==
  /\ RevMod \in Nat /\ BlockCycles \in Nat \ {0} /\ Period < RevMod \div 2
  /\ FirstRevs \subseteq Rev /\ NoiseRevs \subseteq Rev
NeedsRelocation(rev) == ((rev + 1) % RevMod) % Period = 0
AlignUp(rev) == LET a == (rev + Period - 1) % RevMod IN a - (a % Period)

Free == RegionBlock \ (ToSet(Root) \cup ToSet(ptr) \cup ToSet(w.d.pair))
Spoilt == used.faults < MaxPairFaults

-----------------------------------------------------------------------------
(* lfs_dir_compact: x is the commit about to write d to the second block.  *)
Relocating(x) ==
  IF Synced(x.d.pair, Root) \/ (Free = {} /\ ~x.tired)
  THEN [x EXCEPT !.at = "nospace"]
  ELSE [x EXCEPT !.at = "erase", !.moved = TRUE, !.tired = FALSE, !.part = 0,
                 !.d.pair[2] = IF Free = {} THEN @ ELSE Min(Free)]
Compacting(x) ==
  LET y == [x EXCEPT !.at = "erase", !.part = 0, !.tired = NeedsRelocation(x.d.rev),
                     !.d.rev = (@ + 1) % RevMod]
  IN IF y.tired /\ ~Synced(y.d.pair, Root) THEN Relocating(y) ELSE y

Started(d, v, n, fresh) ==
  LET x == [at |-> "append", d |-> d, v |-> v, n |-> n, part |-> 0,
            moved |-> FALSE, tired |-> FALSE, fresh |-> fresh]
  IN IF d.erased THEN x ELSE Compacting(x)

(* Compaction starts with an empty program cache.                          *)
Cached(x) == IF x.at = "append" THEN pcache ELSE NoPageCache

(* lfs_dir_commit on a freshly fetched pair, or on the copy of an open     *)
(* file; after an error the same commit may be tried again.                *)
CommitPair ==
  /\ w.at = "idle"
  /\ \E d \in {Fetch(ptr)} \cup ({held} \ {NoDir}), n \in Sizes, again \in BOOLEAN :
       /\ IF again THEN res = "error" /\ n = w.n ELSE used.commits < MaxCommits
       /\ w' = Started(d, IF again THEN call ELSE call + 1, n, FALSE)
       /\ call' = w'.v
       /\ used' = IF again THEN used ELSE [used EXCEPT !.commits = @ + 1]
  /\ pcache' = Cached(w')
  /\ res' = "none"
  /\ UNCHANGED <<chip, ptr, held, since>>

(* lfs_dir_alloc: a new pair starts from the revision it finds in one of   *)
(* its blocks, moved up to where it is not worn at once.                   *)
AllocPair ==
  /\ w.at = "idle" /\ used.commits < MaxCommits /\ Cardinality(Free) >= 2
  /\ \E n \in Sizes :
       LET b == Min(Free)
           a == Min(Free \ {b})
           d == [pair |-> <<a, b>>, rev |-> AlignUp(chip[a][1].rev), v |-> -1,
                 off |-> 0, erased |-> FALSE]
       IN w' = Started(d, call + 1, n, TRUE)
  /\ call' = call + 1
  /\ pcache' = NoPageCache
  /\ used' = [used EXCEPT !.commits = @ + 1]
  /\ res' = "none"
  /\ UNCHANGED <<chip, ptr, held, since>>

(* lfs_file_open keeps the mdir it fetched. *)
OpenDir ==
  /\ w.at = "idle" /\ held = NoDir
  /\ held' = Fetch(ptr)
  /\ UNCHANGED <<chip, ptr, pcache, w, since, used, call, res>>

End(r) ==
  /\ res' = r
  /\ w' = [NoCommit EXCEPT !.n = w.n]

-----------------------------------------------------------------------------
(* Programming. *)
Target == IF w.at = "append" THEN w.d.pair[1] ELSE w.d.pair[2]
Place(part) == IF w.at = "append" THEN w.d.off + part ELSE part
(* What lies behind the commit, for the forward checksum.                  *)
Behind ==
  IF Place(w.n) >= Pages THEN "end" ELSE chip[Target][Place(w.n) + 1].is
Piece(part) ==
  [is |-> "piece", v |-> w.v, part |-> part, of |-> w.n, rev |-> w.d.rev, next |-> Behind]

(* The storage region refuses to turn a 0 back into a 1.                   *)
Accepts(b, p, page) == chip[b][p] \in {BlankPage, page}

(* A page is flushed when it is full or the commit ends.  The region may   *)
(* refuse it, and the cache then keeps what it holds.  A full page left    *)
(* there is flushed again by the first word of the next commit to the same *)
(* place, before the rest of it.                                           *)
Program ==
  /\ w.at \in {"append", "write"} /\ w.part < w.n /\ Place(w.part + 1) <= Pages
  /\ LET b == Target
         p == Place(w.part + 1)
         page == Piece(w.part + 1)
         mixed == pcache = <<b, p, TRUE>>
     IN \/ /\ ~mixed /\ Accepts(b, p, page)
           /\ \/ chip' = [chip EXCEPT ![b][p] = page] /\ UNCHANGED used
              \/ /\ Spoilt
                 /\ chip' = [chip EXCEPT ![b][p] = TornPage(page.rev)]
                 /\ used' = [used EXCEPT !.faults = @ + 1]
           /\ w' = [w EXCEPT !.part = @ + 1]
           /\ pcache' = NoPageCache
           /\ UNCHANGED res
        \/ /\ mixed \/ Spoilt \/ ~Accepts(b, p, page)
           /\ chip' = IF mixed /\ chip[b][p] = BlankPage
                      THEN [chip EXCEPT ![b][p] = TornPage(page.rev)] ELSE chip
           /\ used' = IF mixed \/ ~Accepts(b, p, page) THEN used
                      ELSE [used EXCEPT !.faults = @ + 1]
           /\ pcache' = <<b, p, w.part + 1 < w.n>>
           /\ End("error")
  /\ UNCHANGED <<ptr, held, since, call>>

(* The commit does not fit behind the others. *)
NoRoom ==
  /\ w.at = "append" /\ w.part < w.n /\ Place(w.part + 1) > Pages
  /\ w' = Compacting(w)
  /\ pcache' = NoPageCache
  /\ UNCHANGED <<chip, ptr, held, since, used, call, res>>

(* A fault: what was written is not read back. *)
BadReadsBack == TRUE
ReadsBack == \A i \in 1 .. w.n : chip[Target][Place(i)] = Piece(i)

Written ==
  IF w.at = "append" THEN [w.d EXCEPT !.off = @ + w.n, !.v = w.v]
  ELSE [w.d EXCEPT !.pair = <<w.d.pair[2], w.d.pair[1]>>, !.off = w.n, !.v = w.v]

(* lfs_dir_commitcrc reads the commit back; then the copies in lfs->mlist  *)
(* follow it.                                                              *)
Verify ==
  /\ w.at \in {"append", "write"} /\ w.part = w.n
  /\ IF ReadsBack
     THEN /\ w' = [w EXCEPT !.at = IF w.moved \/ w.fresh THEN "publish" ELSE "return",
                            !.d = Written]
          /\ held' = IF held = NoDir \/ w.fresh THEN held ELSE Written
          /\ UNCHANGED pcache
     ELSE /\ w' = IF w.at = "append" THEN Compacting(w) ELSE Relocating(w)
          /\ pcache' = NoPageCache
          /\ UNCHANGED held
  /\ UNCHANGED <<chip, ptr, since, used, call, res>>

EraseBlock ==
  /\ w.at = "erase"
  /\ LET b == w.d.pair[2]
     IN \/ /\ chip' = [chip EXCEPT ![b] = [p \in 1 .. Pages |-> BlankPage]]
           /\ w' = [w EXCEPT !.at = "write"]
           /\ UNCHANGED <<used, res>>
        \/ /\ Spoilt
           /\ used' = [used EXCEPT !.faults = @ + 1]
           /\ End("error")
           /\ UNCHANGED chip
  /\ UNCHANGED <<ptr, held, pcache, since, call>>

NoSpace ==
  /\ w.at = "nospace"
  /\ End("nospace")
  /\ UNCHANGED <<chip, ptr, held, pcache, since, used, call>>

(* The parent names the new pair (lfs_dir_orphaningcommit, or the entry of *)
(* a new directory).                                                       *)
Publish ==
  /\ w.at = "publish"
  /\ \/ /\ ptr' = w.d.pair
        /\ held' = IF w.fresh THEN NoDir ELSE held
        /\ since' = [b \in RegionBlock |->
                       IF b \in ToSet(w.d.pair) \ ToSet(ptr) THEN used.commits
                       ELSE since[b]]
        /\ w' = [w EXCEPT !.at = "return"]
        /\ UNCHANGED <<used, res>>
     \/ /\ ParentFails /\ Spoilt
        /\ used' = [used EXCEPT !.faults = @ + 1]
        /\ End("error")
        /\ UNCHANGED <<ptr, held, since>>
  /\ UNCHANGED <<chip, pcache, call>>

Return ==
  /\ w.at = "return"
  /\ End("ok")
  /\ UNCHANGED <<chip, ptr, held, pcache, since, used, call>>

(* Power fails: a page half programmed, a block half erased. *)
Halfway ==
  CASE w.at \in {"append", "write"} /\ w.part < w.n /\ Place(w.part + 1) <= Pages ->
         {chip} \cup {[chip EXCEPT ![Target][Place(w.part + 1)] = t] :
                         t \in IF chip[Target][Place(w.part + 1)] = BlankPage
                               THEN Broken ELSE {}}
    [] w.at = "erase" ->
         {[chip EXCEPT ![w.d.pair[2]] =
             [p \in 1 .. Pages |->
                IF p < k THEN BlankPage ELSE IF p = k THEN t ELSE @[p]]] :
            k \in 1 .. Pages, t \in Broken \cup {BlankPage}}
    [] OTHER -> {chip}
PowerLoss ==
  /\ used.losses < MaxLosses /\ w.at # "idle"
  /\ chip' \in Halfway
  /\ w' = NoCommit
  /\ held' = NoDir
  /\ pcache' = NoPageCache
  /\ res' = "lost"
  /\ used' = [used EXCEPT !.losses = @ + 1]
  /\ UNCHANGED <<ptr, since, call>>

(* The pair has one commit of two pages; the other blocks hold what earlier *)
(* directories left in them.                                               *)
Old(v, rev) ==
  [p \in 1 .. Pages |->
     IF p <= 2 THEN [is |-> "piece", v |-> v, part |-> p, of |-> 2, rev |-> rev,
                     next |-> "blank"]
     ELSE BlankPage]
PairInit ==
  /\ ptr \in {Root, <<2, 3>>}
  /\ \E r \in FirstRevs, s \in NoiseRevs :
       chip = [b \in RegionBlock |->
                 IF b = ptr[1] THEN Old(0, r)
                 ELSE IF b = ptr[2] THEN Old(-2, (r - 1) % RevMod) ELSE Old(-2, s)]
  /\ held = NoDir
  /\ pcache = NoPageCache
  /\ w = NoCommit
  /\ since = [b \in RegionBlock |-> 0]
  /\ used = [commits |-> 0, faults |-> 0, losses |-> 0]
  /\ call = 0 /\ res = "ok"

PairNext ==
  \/ CommitPair \/ AllocPair \/ OpenDir \/ Program \/ NoRoom \/ Verify \/ EraseBlock
  \/ NoSpace \/ Publish \/ Return \/ PowerLoss
PairSpec == PairInit /\ [][PairNext]_pairVars

-----------------------------------------------------------------------------
(* lfs_dir_commit: a commit takes effect at one instant or not at all,     *)
(* through torn pages, bad blocks, wear and stale blocks, and what it      *)
(* reports is true.                                                        *)
Cell == INSTANCE AtomicCell WITH value <- Value
ImplementsCell == Cell!Spec

(* dir->erased: as long as the flash has refused nothing, a commit is      *)
(* appended only to erased pages, whatever an interrupted one left behind. *)
AppendsToErased ==
  w.at = "append" /\ used.faults = 0 =>
    \A p \in w.d.off + w.part + 1 .. Pages : chip[w.d.pair[1]][p] = BlankPage

(* lfs_dir_needsrelocation: wear moves through both blocks of a pair: the  *)
(* block a worn pair leaves is never the newer of the two.                 *)
WearLevelled ==
  [][ptr' # ptr /\ ~w.fresh /\ used.faults = 0 =>
       \A b \in ToSet(ptr) \ ToSet(ptr'), c \in ToSet(ptr) : since[b] <= since[c]]_pairVars

(* LFS_ASSERT in lfs_bd_prog: the program cache is empty when a commit     *)
(* begins to write ("pcache must have been flushed").                      *)
CacheFlushed == w.at = "append" /\ w.part = 0 => pcache = NoPageCache
=============================================================================
