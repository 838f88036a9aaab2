---------------------------- MODULE LfsPairProofs ----------------------------
(***************************************************************************)
(* What a metadata pair of littlefs promises, proved for every value of    *)
(* the constants of LfsPair: its invariant, that a commit is appended only *)
(* to erased pages, that the pair refines an atomic cell, and that wear    *)
(* moves through both of its blocks.                                       *)
(*                                                                         *)
(* 1. The log of a block.  Log is recursive over the pages; Ends describes *)
(*    its value by the set of pages at which commits begin, and a largest  *)
(*    page at which the two would differ does not exist.                   *)
(* 2. What is behind a log: at most the pages of one commit, then erased   *)
(*    ones (Leftover), and what programming or spoiling the next page does.*)
(* 3. Revisions, which wrap.                                               *)
(* 4. The invariant PairInv: Sound (the newer block is found), Placed      *)
(*    (where the commit in progress goes), Progress (what is programmed),  *)
(*    Results (what was reported), Follows (the copy of an open file) and  *)
(*    FaultFree (as long as the flash has refused nothing).                *)
(* 5. One lemma per action, and the theorems.                              *)
(* 6. Wear: the blocks of a pair take turns, and where they are in their   *)
(*    period tells which of them came last (WearInv).                      *)
(***************************************************************************)
EXTENDS LfsPair, FiniteSetTheorems, WellFoundedInduction, TLAPS

-----------------------------------------------------------------------------
(* Naturals. *)
LEMMA LeastNatural ==
  ASSUME NEW T \in SUBSET Nat, T # {}
  PROVE  \E x \in T : \A y \in T : x <= y
<1> DEFINE Below == {ss \in Nat \X Nat : ss[1] < ss[2]}
<1>1. IsWellFoundedOn(Below, Nat) BY NatLessThanWellFounded DEF OpToRel
<1> HIDE DEF Below
<1>2. PICK x \in T : \A y \in T : ~(<<y, x>> \in Below) BY <1>1, WFMin
<1>3. ASSUME NEW y \in T PROVE x <= y
  <2>1. x \in Nat /\ y \in Nat /\ <<y, x>> \notin Below BY <1>2
  <2>2. ~(y < x) BY <2>1 DEF Below
  <2>3. QED BY <2>1, <2>2
<1>4. QED BY <1>2, <1>3

(* A set of numbers with an upper bound has a greatest one. *)
LEMMA GreatestNatural ==
  ASSUME NEW n \in Nat, NEW T \in SUBSET (1 .. n), T # {}
  PROVE  \E x \in T : \A y \in T : y <= x
<1> DEFINE Mirror == {k \in Nat : k <= n /\ n - k \in T}
<1>1. PICK j \in T : TRUE OBVIOUS
<1>2. n - j \in Mirror BY <1>1
<1>3. PICK k \in Mirror : \A m \in Mirror : k <= m BY <1>2, LeastNatural
<1>4. ASSUME NEW i \in T PROVE n - k >= i
  <2>1. n - i \in Mirror OBVIOUS
  <2>2. k <= n - i BY <1>3, <2>1
  <2>3. QED BY <1>3, <2>2
<1>5. n - k \in T BY <1>3
<1>6. QED BY <1>4, <1>5

-----------------------------------------------------------------------------
(* A block and its log. *)
State == {"blank", "piece", "torn", "ghost"}
PageKind == {"", "end"} \cup State
Content ==
  {x \in [is : State, v : Int, part : 0 .. Pages, of : 0 .. Pages, rev : Rev, next : PageKind] :
     /\ x.is = "piece" => x.of >= 1 /\ x.part \in 1 .. x.of
     /\ x.is = "blank" => x = BlankPage}
BlockContent == [1 .. Pages -> Content]

(* S is the first pages of the commits from page p up to page k, and the   *)
(* page behind them.                                                       *)
Chain(g, p, k, S) ==
  /\ S \subseteq p .. k + 1 /\ p \in S /\ k + 1 \in S
  /\ \A q \in S : q <= k => Whole(g, q) /\ q + g[q].of \in S
Ends(g, p, k) ==
  /\ k \in p - 1 .. Pages /\ ~Whole(g, k + 1)
  /\ \E S \in SUBSET (1 .. Pages + 1) : Chain(g, p, k, S)

LEMMA PagesFacts == Pages \in Nat /\ Pages >= 2 /\ Blocks \in Nat /\ Blocks >= 4
  BY RegionAssumption

(* A commit that is all there ends inside the block. *)
LEMMA WholeFacts ==
  ASSUME NEW g \in BlockContent, NEW p \in 1 .. Pages + 1, Whole(g, p)
  PROVE  p <= Pages /\ g[p].of \in 1 .. Pages /\ p + g[p].of \in p + 1 .. Pages + 1
<1>1. p \in 1 .. Pages /\ g[p] \in Content BY PagesFacts DEF Whole, BlockContent
<1>2. QED BY <1>1, PagesFacts DEF Whole, Content

(* From one page on there is one end of the log, and it is that page or    *)
(* the end found behind the commit there.                                  *)
LEMMA EndUnique ==
  ASSUME NEW g \in BlockContent, NEW p \in 1 .. Pages + 1,
         NEW k, NEW m, Ends(g, p, k), Ends(g, p, m)
  PROVE  k = m
<1>1. k \in 0 .. Pages /\ m \in 0 .. Pages /\ ~Whole(g, k + 1) /\ ~Whole(g, m + 1)
  BY PagesFacts DEF Ends
<1>2. PICK S \in SUBSET (1 .. Pages + 1) : Chain(g, p, k, S) BY DEF Ends
<1>3. PICK T \in SUBSET (1 .. Pages + 1) : Chain(g, p, m, T) BY DEF Ends
<1>4. p \in S \cap T BY <1>2, <1>3 DEF Chain
<1>5. Pages + 1 \in Nat BY PagesFacts
<1>6. PICK q \in S \cap T : \A r \in S \cap T : r <= q
  BY <1>4, <1>5, GreatestNatural
<1>7. q \in 1 .. Pages + 1 /\ q <= k + 1 /\ q <= m + 1
  BY <1>1, <1>2, <1>3, PagesFacts DEF Chain
<1>8. ~(q <= k /\ q <= m)
  <2> SUFFICES ASSUME q <= k, q <= m PROVE FALSE OBVIOUS
  <2>1. Whole(g, q) /\ q + g[q].of \in S \cap T BY <1>2, <1>3 DEF Chain
  <2>2. q + g[q].of > q BY <2>1, <1>7, WholeFacts, PagesFacts
  <2>3. q + g[q].of <= q BY <1>6, <2>1
  <2>4. q + g[q].of \in Nat BY <2>1, <1>7, WholeFacts, PagesFacts
  <2>5. QED BY <2>2, <2>3, <2>4, <1>7
<1>9. CASE q <= k
  <2>1. q = m + 1 BY <1>1, <1>7, <1>8, <1>9, PagesFacts
  <2>2. Whole(g, q) BY <1>2, <1>9 DEF Chain
  <2>3. QED BY <1>1, <2>1, <2>2
<1>10. CASE q = k + 1
  <2>1. CASE q <= m
    <3>1. Whole(g, q) BY <1>3, <2>1 DEF Chain
    <3>2. QED BY <1>1, <1>10, <3>1
  <2>2. QED BY <2>1, <1>1, <1>7, <1>10, PagesFacts
<1>11. QED BY <1>1, <1>7, <1>9, <1>10, PagesFacts

LEMMA EndHere ==
  ASSUME NEW g \in BlockContent, NEW p \in 1 .. Pages + 1, ~Whole(g, p)
  PROVE  Ends(g, p, p - 1)
<1>1. {p} \in SUBSET (1 .. Pages + 1) OBVIOUS
<1>2. Chain(g, p, p - 1, {p}) BY PagesFacts DEF Chain
<1>3. (p - 1) + 1 = p BY PagesFacts
<1>4. p - 1 \in p - 1 .. Pages BY PagesFacts
<1>5. QED BY <1>1, <1>2, <1>3, <1>4 DEF Ends

LEMMA EndLater ==
  ASSUME NEW g \in BlockContent, NEW p \in 1 .. Pages + 1, Whole(g, p), NEW k,
         Ends(g, p + g[p].of, k)
  PROVE  Ends(g, p, k)
<1>1. p + g[p].of \in p + 1 .. Pages + 1 /\ g[p].of \in 1 .. Pages BY WholeFacts
<1>2. PICK S \in SUBSET (1 .. Pages + 1) : Chain(g, p + g[p].of, k, S) BY DEF Ends
<1>3. k \in p .. Pages /\ ~Whole(g, k + 1) BY <1>1, PagesFacts DEF Ends
<1>4. Chain(g, p, k, S \cup {p})
  <2>1. S \cup {p} \subseteq p .. k + 1
    <3>1. S \subseteq p + g[p].of .. k + 1 BY <1>2 DEF Chain
    <3>2. p \in p .. k + 1 /\ \A q \in p + g[p].of .. k + 1 : q \in p .. k + 1
      BY <1>1, <1>3, PagesFacts
    <3>3. QED BY <3>1, <3>2
  <2>2. QED BY <2>1, <1>2 DEF Chain
<1>5. S \cup {p} \in SUBSET (1 .. Pages + 1) OBVIOUS
<1>6. k \in p - 1 .. Pages BY <1>3, PagesFacts
<1>7. QED BY <1>3, <1>4, <1>5, <1>6 DEF Ends

LEMMA EndExists ==
  ASSUME NEW g \in BlockContent
  PROVE  \A p \in 1 .. Pages + 1 : \E k : Ends(g, p, k)
<1> DEFINE Lost == {p \in 1 .. Pages + 1 : ~\E k : Ends(g, p, k)}
<1>1. SUFFICES ASSUME Lost # {} PROVE FALSE OBVIOUS
<1>2. Pages + 1 \in Nat BY PagesFacts
<1>3. PICK p \in Lost : \A q \in Lost : q <= p BY <1>1, <1>2, GreatestNatural
<1>4. CASE ~Whole(g, p) BY <1>3, <1>4, EndHere
<1>5. CASE Whole(g, p)
  <2>1. p + g[p].of \in p + 1 .. Pages + 1 BY <1>5, WholeFacts
  <2>2. p + g[p].of \notin Lost BY <1>3, <2>1
  <2>3. PICK k : Ends(g, p + g[p].of, k) BY <2>1, <2>2, PagesFacts
  <2>4. QED BY <1>3, <1>5, <2>3, EndLater
<1>6. QED BY <1>4, <1>5

(* The equation by which Log is defined.                                   *)
IsEnd(g, f) ==
  f = [p \in 1 .. Pages + 1 |-> IF Whole(g, p) THEN f[p + g[p].of] ELSE p - 1]

(* Log is that end: its recursive definition has a solution, and every     *)
(* solution agrees with it.                                                *)
LEMMA LogEnds ==
  ASSUME NEW g \in BlockContent
  PROVE  Ends(g, 1, Log(g))
<1> DEFINE e == [p \in 1 .. Pages + 1 |-> CHOOSE k : Ends(g, p, k)]
<1>1. \A p \in 1 .. Pages + 1 : Ends(g, p, e[p]) BY EndExists
<1>2. e = [p \in 1 .. Pages + 1 |-> IF Whole(g, p) THEN e[p + g[p].of] ELSE p - 1]
  <2>1. ASSUME NEW p \in 1 .. Pages + 1
        PROVE  e[p] = IF Whole(g, p) THEN e[p + g[p].of] ELSE p - 1
    <3> HIDE DEF e
    <3>1. CASE ~Whole(g, p) BY <3>1, <1>1, EndHere, EndUnique
    <3>2. CASE Whole(g, p)
      <4>1. p + g[p].of \in 1 .. Pages + 1 BY <3>2, WholeFacts, PagesFacts
      <4>2. Ends(g, p, e[p + g[p].of]) BY <3>2, <4>1, <1>1, EndLater
      <4>3. QED BY <3>2, <4>2, <1>1, EndUnique
    <3>3. QED BY <3>1, <3>2
  <2>2. e = [p \in 1 .. Pages + 1 |-> e[p]] OBVIOUS
  <2> HIDE DEF e
  <2>3. [p \in 1 .. Pages + 1 |-> e[p]]
          = [p \in 1 .. Pages + 1 |-> IF Whole(g, p) THEN e[p + g[p].of] ELSE p - 1]
    BY <2>1
  <2>4. QED BY <2>2, <2>3
<1>3. \E f : IsEnd(g, f) BY <1>2 DEF IsEnd
<1>4. PICK f : f = (CHOOSE x : IsEnd(g, x)) OBVIOUS
<1>5. IsEnd(g, f) BY <1>3, <1>4
<1>6. Log(g) = f[1] BY <1>4 DEF Log, IsEnd
<1>7. \A p \in 1 .. Pages + 1 : Ends(g, p, f[p])
  <2> DEFINE Wrong == {p \in 1 .. Pages + 1 : ~Ends(g, p, f[p])}
  <2>1. SUFFICES ASSUME Wrong # {} PROVE FALSE OBVIOUS
  <2>2. Pages + 1 \in Nat BY PagesFacts
  <2>3. PICK p \in Wrong : \A q \in Wrong : q <= p BY <2>1, <2>2, GreatestNatural
  <2>4. f[p] = IF Whole(g, p) THEN f[p + g[p].of] ELSE p - 1 BY <1>5 DEF IsEnd
  <2>5. CASE ~Whole(g, p) BY <2>3, <2>4, <2>5, EndHere
  <2>6. CASE Whole(g, p)
    <3>1. p + g[p].of \in p + 1 .. Pages + 1 BY <2>6, WholeFacts
    <3>2. p + g[p].of \notin Wrong BY <2>3, <3>1
    <3>3. Ends(g, p + g[p].of, f[p + g[p].of]) BY <3>1, <3>2, PagesFacts
    <3>4. QED BY <2>3, <2>4, <2>6, <3>3, EndLater
  <2>7. QED BY <2>5, <2>6
<1>8. QED BY <1>6, <1>7, PagesFacts

(* Behind a log no commit is complete. *)
LEMMA LogFacts ==
  ASSUME NEW g \in BlockContent
  PROVE  /\ Log(g) \in 0 .. Pages /\ ~Whole(g, Log(g) + 1)
         /\ Log(g) > 0 => Whole(g, 1)
<1>1. Ends(g, 1, Log(g)) BY LogEnds
<1>2. Log(g) \in 0 .. Pages /\ ~Whole(g, Log(g) + 1) BY <1>1 DEF Ends
<1>3. ASSUME Log(g) > 0 PROVE Whole(g, 1)
  <2>1. PICK S \in SUBSET (1 .. Pages + 1) : Chain(g, 1, Log(g), S) BY <1>1 DEF Ends
  <2>2. 1 \in S /\ 1 <= Log(g) BY <1>2, <1>3, <2>1 DEF Chain
  <2>3. QED BY <2>1, <2>2 DEF Chain
<1>4. QED BY <1>2, <1>3

LEMMA LogIs ==
  ASSUME NEW g \in BlockContent, NEW k, Ends(g, 1, k)
  PROVE  Log(g) = k
<1>1. 1 \in 1 .. Pages + 1 BY PagesFacts
<1>2. QED BY <1>1, LogEnds, EndUnique

LEMMA LogEmpty ==
  ASSUME NEW g \in BlockContent, ~Whole(g, 1)
  PROVE  Log(g) = 0
<1>1. 1 \in 1 .. Pages + 1 /\ 1 - 1 = 0 BY PagesFacts
<1>2. Ends(g, 1, 1 - 1) BY <1>1, EndHere
<1>3. QED BY <1>1, <1>2, LogIs

Agree(g, h, k) == \A p \in 1 .. k : h[p] = g[p]

(* What two blocks have in common: their first commits. *)
LEMMA WholeAgrees ==
  ASSUME NEW g \in BlockContent, NEW h \in BlockContent, NEW k \in 0 .. Pages, Agree(g, h, k),
         NEW q \in 1 .. k, Whole(g, q), q + g[q].of <= k + 1
  PROVE  Whole(h, q) /\ h[q].of = g[q].of
<1>1. q \in 1 .. Pages + 1 BY PagesFacts
<1>2. g[q].of \in 1 .. Pages BY <1>1, WholeFacts
<1>3. h[q] = g[q] BY DEF Agree
<1>4. \A i \in 1 .. g[q].of : q + i - 1 \in 1 .. k BY <1>2, PagesFacts
<1>5. \A i \in 1 .. g[q].of : h[q + i - 1] = g[q + i - 1] BY <1>4 DEF Agree
<1>6. QED BY <1>3, <1>5 DEF Whole

LEMMA ChainAgrees ==
  ASSUME NEW g \in BlockContent, NEW h \in BlockContent, NEW k \in 0 .. Pages, Agree(g, h, k),
         NEW S \in SUBSET (1 .. Pages + 1), Chain(g, 1, k, S)
  PROVE  Chain(h, 1, k, S)
<1>1. SUFFICES ASSUME NEW q \in S, q <= k
               PROVE  Whole(h, q) /\ q + h[q].of \in S
  BY DEF Chain
<1>2. Whole(g, q) /\ q + g[q].of \in S BY <1>1 DEF Chain
<1>3. q + g[q].of <= k + 1
  <2>1. S \subseteq 1 .. k + 1 BY DEF Chain
  <2>2. q + g[q].of \in 1 .. k + 1 BY <1>2, <2>1
  <2>3. QED BY <2>2
<1>4. q \in 1 .. k BY <1>1
<1>5. QED BY <1>2, <1>3, <1>4, WholeAgrees

(* A block whose log is copied, and nothing complete put behind it, has    *)
(* the same log.                                                           *)
LEMMA LogKept ==
  ASSUME NEW g \in BlockContent, NEW h \in BlockContent, Agree(g, h, Log(g)), ~Whole(h, Log(g) + 1)
  PROVE  Log(h) = Log(g)
<1> DEFINE k == Log(g)
<1>1. k \in 0 .. Pages BY LogFacts
<1>2. PICK S \in SUBSET (1 .. Pages + 1) : Chain(g, 1, k, S) BY LogEnds DEF Ends
<1>3. Chain(h, 1, k, S) BY <1>1, <1>2, ChainAgrees
<1>4. 1 - 1 = 0 OBVIOUS
<1>5. Ends(h, 1, k) BY <1>1, <1>3, <1>4 DEF Ends
<1>6. QED BY <1>5, LogIs

(* One commit behind a log makes it longer by that commit. *)
LEMMA LogGrown ==
  ASSUME NEW g \in BlockContent, NEW h \in BlockContent, Agree(g, h, Log(g)),
         Whole(h, Log(g) + 1), NEW n, h[Log(g) + 1].of = n, ~Whole(h, Log(g) + n + 1)
  PROVE  Log(h) = Log(g) + n /\ n \in 1 .. Pages /\ Log(g) + n <= Pages
<1> DEFINE k == Log(g)
<1>1. k \in 0 .. Pages BY LogFacts
<1>2. PICK S \in SUBSET (1 .. Pages + 1) : Chain(g, 1, k, S) BY LogEnds DEF Ends
<1>3. Chain(h, 1, k, S) BY <1>1, <1>2, ChainAgrees
<1>4. n \in 1 .. Pages /\ k + n <= Pages /\ k + 1 + n = k + n + 1
  <2>1. k + 1 \in 1 .. Pages + 1 BY <1>1, PagesFacts
  <2>2. h[k + 1].of \in 1 .. Pages /\ (k + 1) + h[k + 1].of \in (k + 1) + 1 .. Pages + 1
    BY <2>1, WholeFacts
  <2>3. QED BY <1>1, <2>2, PagesFacts
<1>5. S \cup {k + n + 1} \in SUBSET (1 .. Pages + 1)
  <2>1. k + n + 1 \in 1 .. Pages + 1 BY <1>1, <1>4, PagesFacts
  <2>2. QED BY <2>1
<1>6. Chain(h, 1, k + n, S \cup {k + n + 1})
  <2>1. S \cup {k + n + 1} \subseteq 1 .. k + n + 1
    <3>1. S \subseteq 1 .. k + 1 BY <1>3 DEF Chain
    <3>2. k + n + 1 \in 1 .. k + n + 1 /\ \A q \in 1 .. k + 1 : q \in 1 .. k + n + 1
      BY <1>1, <1>4, PagesFacts
    <3>3. QED BY <3>1, <3>2
  <2>2. ASSUME NEW q \in S \cup {k + n + 1}, q <= k + n
        PROVE  Whole(h, q) /\ q + h[q].of \in S \cup {k + n + 1}
    <3>1. q \in S /\ q \in 1 .. k + 1
      <4>1. q # k + n + 1 BY <1>1, <1>4, <2>2, PagesFacts
      <4>2. QED BY <4>1, <1>3 DEF Chain
    <3>2. CASE q <= k BY <1>3, <3>1, <3>2 DEF Chain
    <3>3. CASE q = k + 1 BY <1>4, <3>3
    <3>4. QED BY <1>1, <3>1, <3>2, <3>3
  <2>3. 1 \in S BY <1>3 DEF Chain
  <2>4. QED BY <2>1, <2>2, <2>3 DEF Chain
<1>7. k + n \in 1 - 1 .. Pages BY <1>1, <1>4, PagesFacts
<1>8. ~Whole(h, (k + n) + 1) OBVIOUS
<1>9. Ends(h, 1, k + n) BY <1>5, <1>6, <1>7, <1>8 DEF Ends
<1>10. QED BY <1>4, <1>9, LogIs

(* What lies behind the last commit of a log, at page L: what is left of   *)
(* one that was not completed, and then erased pages.                      *)
Leftover(g, L) ==
  \A p \in L + 1 .. Pages :
    /\ g[p].is = "piece" => /\ g[p].part = p - L
                            /\ g[L + 1].is = "piece" => g[L + 1].of = g[p].of
    /\ g[p] = BlankPage => \A q \in p .. Pages : g[q] = BlankPage
Closed(g, L) == Leftover(g, L) /\ ~Whole(g, L + 1)

(* The commit that begins with page x, of which k pages are programmed.    *)
First(x) == x \in Content /\ x.is = "piece" /\ x.part = 1
Part(x, i) == [x EXCEPT !.part = i]
Filled(g, L, x, k) == \A i \in 1 .. k : g[L + i] = Part(x, i) \/ g[L + i].is = "torn"
Complete(g, L, x) == \A i \in 1 .. x.of : g[L + i] = Part(x, i)

(* The pages of a commit. *)
LEMMA FirstFacts ==
  ASSUME NEW x, First(x)
  PROVE  /\ x.of \in 1 .. Pages
         /\ \A i \in 1 .. x.of : /\ Part(x, i) \in Content /\ Part(x, i).is = "piece"
                                 /\ Part(x, i).part = i /\ Part(x, i).of = x.of
                                 /\ Part(x, i) # BlankPage /\ Part(x, i).v = x.v
                                 /\ Part(x, i).rev = x.rev
<1>1. x.of \in 1 .. Pages BY PagesFacts DEF First, Content
<1>2. ASSUME NEW i \in 1 .. x.of
      PROVE  /\ Part(x, i) \in Content /\ Part(x, i).is = "piece"
             /\ Part(x, i).part = i /\ Part(x, i).of = x.of
             /\ Part(x, i) # BlankPage /\ Part(x, i).v = x.v /\ Part(x, i).rev = x.rev
  <2>1. /\ Part(x, i).is = "piece" /\ Part(x, i).part = i /\ Part(x, i).of = x.of
        /\ Part(x, i).v = x.v /\ Part(x, i).rev = x.rev
    BY DEF First, Part, Content
  <2>2. Part(x, i) \in Content BY <1>1, <2>1, PagesFacts DEF First, Part, Content
  <2>3. BlankPage.is = "blank" BY DEF BlankPage, Page
  <2>4. QED BY <2>1, <2>2, <2>3
<1>3. QED BY <1>1, <1>2

(* The page at which the commit goes on is programmed, or spoilt.          *)
LEMMA TailKept ==
  ASSUME NEW g \in BlockContent, NEW L \in 0 .. Pages, NEW x, First(x),
         NEW k \in 0 .. x.of - 1, L + k + 1 <= Pages,
         Filled(g, L, x, k), Leftover(g, L), g[L + k + 1] = BlankPage,
         NEW y \in Content, y = Part(x, k + 1) \/ y.is \in {"torn", "ghost"},
         NEW h, h = [g EXCEPT ![L + k + 1] = y]
  PROVE  h \in BlockContent /\ Leftover(h, L)
<1> DEFINE z == L + k + 1
<1>1. z \in L + 1 .. Pages /\ z \in 1 .. Pages /\ z - L = k + 1 /\ k + 1 \in 1 .. x.of
  BY FirstFacts, PagesFacts
<1>2. h \in BlockContent /\ h[z] = y /\ \A p \in 1 .. Pages : p # z => h[p] = g[p]
  BY <1>1 DEF BlockContent
<1>3. y # BlankPage /\ y.is # "blank"
  <2>1. y.is # "blank" BY <1>1, FirstFacts
  <2>2. BlankPage.is = "blank" BY DEF BlankPage, Page
  <2>3. QED BY <2>1, <2>2
<1>4. \A p \in z .. Pages : g[p] = BlankPage BY <1>1 DEF Leftover
<1>5. BlankPage.is = "blank" BY DEF BlankPage, Page
<1>6. \A p \in L + 1 .. Pages : p \in 1 .. Pages BY PagesFacts
<1> HIDE DEF z
<1>7. ASSUME NEW p \in L + 1 .. Pages, h[p].is = "piece"
      PROVE  /\ h[p].part = p - L
             /\ h[L + 1].is = "piece" => h[L + 1].of = h[p].of
  <2>1. p <= z BY <1>1, <1>2, <1>4, <1>5, <1>6, <1>7, PagesFacts
  <2>2. CASE p = z
    <3>1. h[p] = Part(x, k + 1) BY <1>2, <1>7, <2>2
    <3>2. h[p].part = p - L /\ h[p].of = x.of BY <1>1, <2>2, <3>1, FirstFacts
    <3>3. ASSUME h[L + 1].is = "piece" PROVE h[L + 1].of = x.of
      <4>1. CASE z = L + 1 BY <2>2, <3>2, <4>1
      <4>2. CASE z # L + 1
        <5>1. 1 \in 1 .. k /\ L + 1 \in 1 .. Pages BY <1>1, <4>2, PagesFacts DEF z
        <5>2. h[L + 1] = Part(x, 1) BY <1>2, <3>3, <4>2, <5>1 DEF Filled
        <5>3. QED BY <1>1, <5>2, FirstFacts
      <4>3. QED BY <4>1, <4>2
    <3>4. QED BY <3>2, <3>3
  <2>3. CASE p # z
    <3>1. h[p] = g[p] /\ g[p].is = "piece" BY <1>2, <1>6, <1>7, <2>3
    <3>2. L + 1 # z /\ L + 1 \in 1 .. Pages BY <1>1, <2>1, <2>3, PagesFacts
    <3>3. h[L + 1] = g[L + 1] BY <1>2, <3>2
    <3>4. QED BY <3>1, <3>3 DEF Leftover
  <2>4. QED BY <2>2, <2>3
<1>8. ASSUME NEW p \in L + 1 .. Pages, h[p] = BlankPage, NEW q \in p .. Pages
      PROVE  h[q] = BlankPage
  <2>1. p # z /\ g[p] = BlankPage BY <1>2, <1>3, <1>6, <1>8
  <2>2. ~(p < z)
    <3>1. SUFFICES ASSUME p < z PROVE FALSE OBVIOUS
    <3>2. p - L \in 1 .. k /\ L + (p - L) = p BY <3>1, <1>1, PagesFacts DEF z
    <3>3. g[p] = Part(x, p - L) \/ g[p].is = "torn" BY <3>2 DEF Filled
    <3>4. p - L \in 1 .. x.of BY <1>1, <3>2, FirstFacts
    <3>5. QED BY <2>1, <3>3, <3>4, <1>5, FirstFacts
  <2>3. q # z /\ q \in 1 .. Pages /\ q \in z .. Pages BY <1>1, <1>6, <2>1, <2>2, PagesFacts
  <2>4. QED BY <1>2, <1>4, <2>3
<1>9. QED BY <1>2, <1>7, <1>8 DEF Leftover

(* The next page of a commit is programmed: the log does not grow before   *)
(* the last one is there.                                                  *)
LEMMA Programmed ==
  ASSUME NEW g \in BlockContent, NEW L \in 0 .. Pages, NEW x, First(x),
         NEW k \in 0 .. x.of - 1, L + k + 1 <= Pages,
         Filled(g, L, x, k), Closed(g, L),
         g[L + k + 1] \in {BlankPage, Part(x, k + 1)},
         NEW h, h = [g EXCEPT ![L + k + 1] = Part(x, k + 1)]
  PROVE  /\ h \in BlockContent /\ Filled(h, L, x, k + 1) /\ Leftover(h, L)
         /\ ~(k + 1 = x.of /\ Complete(h, L, x)) => ~Whole(h, L + 1)
<1> DEFINE z == L + k + 1
           y == Part(x, k + 1)
<1>1. z \in L + 1 .. Pages /\ z \in 1 .. Pages /\ k + 1 \in 1 .. x.of
  BY FirstFacts, PagesFacts
<1>2. y \in Content /\ y.is = "piece" /\ y.of = x.of BY <1>1, FirstFacts
<1>3. h \in BlockContent /\ h[z] = y /\ \A p \in 1 .. Pages : p # z => h[p] = g[p]
  BY <1>1, <1>2 DEF BlockContent
<1>4. Filled(h, L, x, k + 1)
  <2>1. ASSUME NEW i \in 1 .. k + 1 PROVE h[L + i] = Part(x, i) \/ h[L + i].is = "torn"
    <3>1. CASE i = k + 1 BY <1>3, <3>1
    <3>2. CASE i # k + 1
      <4>1. i \in 1 .. k /\ L + i \in 1 .. Pages /\ L + i # z BY <1>1, <3>2, PagesFacts
      <4>2. QED BY <1>3, <4>1 DEF Filled
    <3>3. QED BY <3>1, <3>2
  <2>2. QED BY <2>1 DEF Filled
<1>5. CASE g[z] = y
  <2>1. h = g BY <1>1, <1>5 DEF BlockContent
  <2>2. QED BY <1>4, <2>1 DEF Closed
<1>6. CASE g[z] = BlankPage
  <2>1. Leftover(h, L) BY <1>2, <1>6, TailKept DEF Closed
  <2>2. ASSUME Whole(h, L + 1) PROVE k + 1 = x.of /\ Complete(h, L, x)
    <3>1. L + 1 \in 1 .. Pages BY <1>1, PagesFacts
    <3>2. h[L + 1] = Part(x, 1)
      <4>1. 1 \in 1 .. k + 1 BY <1>1
      <4>2. h[L + 1] = Part(x, 1) \/ h[L + 1].is = "torn" BY <1>4, <4>1 DEF Filled
      <4>3. QED BY <2>2, <4>2 DEF Whole
    <3>3. h[L + 1].of = x.of /\ h[L + 1].part = 1 BY <1>1, <3>2, FirstFacts
    <3>4. \A i \in 1 .. x.of : h[L + 1 + i - 1] = [h[L + 1] EXCEPT !.part = i]
      BY <2>2, <3>3 DEF Whole
    <3>5. \A i \in 1 .. x.of : [h[L + 1] EXCEPT !.part = i] = Part(x, i)
      BY <3>2 DEF Part, First, Content
    <3>6. \A i \in 1 .. x.of : L + 1 + i - 1 = L + i BY FirstFacts
    <3>7. Complete(h, L, x) BY <3>4, <3>5, <3>6 DEF Complete
    <3>8. ASSUME k + 1 < x.of PROVE FALSE
      <4>1. L + 1 + x.of - 1 <= Pages BY <2>2, <3>3 DEF Whole
      <4>2. k + 2 \in 1 .. x.of /\ L + (k + 2) \in z .. Pages /\ L + (k + 2) # z
            /\ L + (k + 2) \in 1 .. Pages
        BY <1>1, <3>8, <4>1, FirstFacts, PagesFacts
      <4>3. g[L + (k + 2)] = BlankPage BY <1>1, <1>6, <4>2 DEF Closed, Leftover
      <4>4. h[L + (k + 2)] = BlankPage BY <1>3, <4>2, <4>3
      <4>5. h[L + (k + 2)] = Part(x, k + 2) BY <3>7, <4>2 DEF Complete
      <4>6. QED BY <4>2, <4>4, <4>5, FirstFacts
    <3>9. QED BY <1>1, <3>7, <3>8, FirstFacts
  <2>3. QED BY <1>3, <1>4, <2>1, <2>2
<1>7. QED BY <1>5, <1>6

(* The next page is spoilt instead: the log does not grow. *)
LEMMA Torn ==
  ASSUME NEW g \in BlockContent, NEW L \in 0 .. Pages, NEW x, First(x),
         NEW k \in 0 .. x.of - 1, L + k + 1 <= Pages,
         Filled(g, L, x, k), Closed(g, L),
         g[L + k + 1] \in {BlankPage, Part(x, k + 1)},
         NEW y \in Content, y.is \in {"torn", "ghost"},
         NEW h, h = [g EXCEPT ![L + k + 1] = y]
  PROVE  /\ h \in BlockContent /\ Closed(h, L)
         /\ y.is = "torn" => Filled(h, L, x, k + 1)
<1> DEFINE z == L + k + 1
<1>1. z \in L + 1 .. Pages /\ z \in 1 .. Pages /\ k + 1 \in 1 .. x.of
  BY FirstFacts, PagesFacts
<1>2. h \in BlockContent /\ h[z] = y /\ \A p \in 1 .. Pages : p # z => h[p] = g[p]
  BY <1>1 DEF BlockContent
<1>3. y.is = "torn" => Filled(h, L, x, k + 1)
  <2>1. ASSUME y.is = "torn", NEW i \in 1 .. k + 1
        PROVE  h[L + i] = Part(x, i) \/ h[L + i].is = "torn"
    <3>1. CASE i = k + 1 BY <1>2, <2>1, <3>1
    <3>2. CASE i # k + 1
      <4>1. i \in 1 .. k /\ L + i \in 1 .. Pages /\ L + i # z BY <1>1, <3>2, PagesFacts
      <4>2. QED BY <1>2, <4>1 DEF Filled
    <3>3. QED BY <3>1, <3>2
  <2>2. QED BY <2>1 DEF Filled
<1>4. ~Whole(h, L + 1)
  <2> SUFFICES ASSUME Whole(h, L + 1) PROVE FALSE OBVIOUS
  <2>1. CASE k = 0
    <3>1. h[L + 1] = y BY <1>2, <2>1
    <3>2. QED BY <3>1 DEF Whole
  <2>2. CASE k # 0
    <3>1. 1 \in 1 .. k /\ L + 1 \in 1 .. Pages /\ L + 1 # z BY <1>1, <2>2, PagesFacts
    <3>2. h[L + 1] = g[L + 1] BY <1>2, <3>1
    <3>3. h[L + 1] = Part(x, 1) BY <3>1, <3>2 DEF Filled, Whole
    <3>4. 1 \in 1 .. x.of BY FirstFacts
    <3>5. h[L + 1].of = x.of /\ h[L + 1].is = "piece" BY <3>3, <3>4, FirstFacts
    <3>6. h[L + 1 + (k + 1) - 1] = [h[L + 1] EXCEPT !.part = k + 1]
      BY <1>1, <3>5 DEF Whole
    <3>7. L + 1 + (k + 1) - 1 = z OBVIOUS
    <3>8. h[z] = Part(x, k + 1) BY <3>3, <3>6, <3>7 DEF Part, First, Content
    <3>9. QED BY <1>1, <1>2, <3>8, FirstFacts
  <2>3. QED BY <2>1, <2>2
<1>5. Leftover(h, L)
  <2>1. CASE g[z] = BlankPage BY <2>1, TailKept DEF Closed
  <2>2. CASE g[z] # BlankPage
    <3>1. g[z] = Part(x, k + 1) /\ g[z].is = "piece" BY <1>1, <2>2, FirstFacts
    <3>2. y # BlankPage
      <4>1. BlankPage.is = "blank" BY DEF BlankPage, Page
      <4>2. QED BY <4>1
    <3>3. \A p \in L + 1 .. Pages : p \in 1 .. Pages BY PagesFacts
    <3>4. \A p \in L + 1 .. Pages : h[p].is = "piece" \/ h[p] = BlankPage => h[p] = g[p]
      BY <1>2, <3>2, <3>3
    <3>5. ASSUME NEW p \in L + 1 .. Pages, h[p] = BlankPage, NEW q \in p .. Pages
          PROVE  h[q] = BlankPage
      <4>1. g[p] = BlankPage BY <3>4, <3>5
      <4>2. \A r \in p .. Pages : g[r] = BlankPage BY <4>1 DEF Closed, Leftover
      <4>3. q # z BY <4>2, <2>2
      <4>4. q \in 1 .. Pages BY PagesFacts
      <4>5. QED BY <1>2, <4>2, <4>3, <4>4
    <3>6. L + 1 \in L + 1 .. Pages BY <1>1, PagesFacts
    <3>7. QED BY <3>4, <3>5, <3>6 DEF Closed, Leftover
  <2>3. QED BY <2>1, <2>2
<1>6. QED BY <1>2, <1>3, <1>4, <1>5 DEF Closed

(* All its pages are there: it is the last commit of the log. *)
LEMMA Completed ==
  ASSUME NEW h \in BlockContent, NEW L \in 0 .. Pages, NEW x, First(x), L + x.of <= Pages,
         Leftover(h, L), Complete(h, L, x)
  PROVE  /\ Whole(h, L + 1) /\ h[L + 1].of = x.of /\ h[L + x.of].v = x.v
         /\ Closed(h, L + x.of)
<1>1. x.of \in 1 .. Pages BY FirstFacts
<1>2. 1 \in 1 .. x.of /\ x.of \in 1 .. x.of BY <1>1
<1>3. h[L + 1] = Part(x, 1) /\ h[L + x.of] = Part(x, x.of) BY <1>2 DEF Complete
<1>4. /\ h[L + 1].of = x.of /\ h[L + 1].is = "piece" /\ h[L + 1].part = 1
      /\ h[L + x.of].v = x.v
  BY <1>2, <1>3, FirstFacts
<1>5. Whole(h, L + 1)
  <2>1. ASSUME NEW i \in 1 .. x.of PROVE h[L + 1 + i - 1] = [h[L + 1] EXCEPT !.part = i]
    <3>1. L + 1 + i - 1 = L + i OBVIOUS
    <3>2. Part(x, i) = [Part(x, 1) EXCEPT !.part = i] BY DEF Part, First, Content
    <3>3. QED BY <1>3, <3>1, <3>2 DEF Complete
  <2>2. L + 1 <= Pages /\ L + 1 + x.of - 1 <= Pages BY <1>1, PagesFacts
  <2>3. QED BY <1>4, <2>1, <2>2 DEF Whole
<1>6. \A p \in L + x.of + 1 .. Pages : p \in L + 1 .. Pages /\ p \in 1 .. Pages /\ p - L > x.of
  BY <1>1, PagesFacts
<1>7. ASSUME NEW p \in L + x.of + 1 .. Pages PROVE h[p].is # "piece"
  <2>1. SUFFICES ASSUME h[p].is = "piece" PROVE FALSE OBVIOUS
  <2>2. h[p].part = p - L /\ h[p].of = x.of BY <1>4, <1>6, <2>1 DEF Leftover
  <2>3. h[p].part \in 1 .. h[p].of BY <1>6, <2>1 DEF BlockContent, Content
  <2>4. QED BY <1>1, <1>6, <2>2, <2>3
<1>8. Leftover(h, L + x.of) BY <1>6, <1>7 DEF Leftover
<1>9. ~Whole(h, L + x.of + 1)
  <2>1. ASSUME L + x.of + 1 <= Pages PROVE h[L + x.of + 1].is # "piece"
    <3>1. L + x.of + 1 \in L + x.of + 1 .. Pages BY <1>1, <2>1, PagesFacts
    <3>2. QED BY <3>1, <1>7
  <2>2. QED BY <2>1 DEF Whole
<1>10. QED BY <1>4, <1>5, <1>8, <1>9 DEF Closed

-----------------------------------------------------------------------------
(* Revisions. *)
Ahead(r, s) == (r - s) % RevMod \in 1 .. (RevMod \div 2) - 1

LEMMA ModUnique ==
  ASSUME NEW C \in Nat \ {0}, NEW q \in Int, NEW r \in 0 .. C - 1
  PROVE  (q * C + r) % C = r
  OBVIOUS

(* The period of the wear levelling is less than half a turn of the        *)
(* revisions.                                                              *)
LEMMA RevisionFacts ==
  /\ Period \in Nat /\ Period >= 3 /\ RevMod \in Nat /\ RevMod >= 8
  /\ RevMod \div 2 \in Nat /\ Period < RevMod \div 2 /\ 2 * (RevMod \div 2) <= RevMod
  /\ FirstRevs \subseteq Rev /\ NoiseRevs \subseteq Rev
<1>1. BlockCycles \in Nat /\ BlockCycles # 0 /\ RevMod \in Nat /\ Period < RevMod \div 2
      /\ FirstRevs \subseteq Rev /\ NoiseRevs \subseteq Rev
  BY RevisionAssumption
<1>2. Period \in Nat /\ Period >= 3
  <2>1. BlockCycles = 1 => BlockCycles % 2 # 0 OBVIOUS
  <2>2. QED BY <1>1, <2>1 DEF Period
<1>3. RevMod \div 2 \in Nat /\ 2 * (RevMod \div 2) <= RevMod BY <1>1
<1>4. QED BY <1>1, <1>2, <1>3

LEMMA ModInRev ==
  ASSUME NEW r \in Int PROVE r % RevMod \in Rev
<1>1. RevMod \in Nat \ {0} BY RevisionFacts
<1>2. QED BY <1>1 DEF Rev

(* Of two numbers less than a whole turn apart. *)
LEMMA ModSmall ==
  ASSUME NEW d \in 0 .. RevMod - 1
  PROVE  d % RevMod = d /\ (d - RevMod) % RevMod = d /\ (d + RevMod) % RevMod = d
<1>1. RevMod \in Nat \ {0} BY RevisionFacts
<1>2. (0 * RevMod + d) % RevMod = d BY <1>1, ModUnique
<1>3. ((0 - 1) * RevMod + d) % RevMod = d BY <1>1, ModUnique
<1>4. (1 * RevMod + d) % RevMod = d BY <1>1, ModUnique
<1>5. /\ 0 * RevMod + d = d /\ (0 - 1) * RevMod + d = d - RevMod
      /\ 1 * RevMod + d = d + RevMod
  BY <1>1
<1>6. QED BY <1>2, <1>3, <1>4, <1>5

(* A revision d after another one. *)
LEMMA ModStep ==
  ASSUME NEW r \in Rev, NEW d \in 0 .. RevMod - 1
  PROVE  (((r + d) % RevMod) - r) % RevMod = d
<1>1. RevMod \in Nat /\ RevMod >= 8 /\ r \in 0 .. RevMod - 1 BY RevisionFacts DEF Rev
<1>2. CASE r + d < RevMod
  <2>1. r + d \in 0 .. RevMod - 1 BY <1>1, <1>2
  <2>2. (r + d) % RevMod = r + d BY <2>1, ModSmall
  <2>3. (r + d) - r = d BY <1>1
  <2>4. QED BY <2>2, <2>3, ModSmall
<1>3. CASE r + d >= RevMod
  <2>1. r + d - RevMod \in 0 .. RevMod - 1 BY <1>1, <1>3
  <2>2. ((r + d - RevMod) + RevMod) % RevMod = r + d - RevMod
    <3> DEFINE e == r + d - RevMod
    <3>1. e \in 0 .. RevMod - 1 BY <2>1
    <3> HIDE DEF e
    <3>2. (e + RevMod) % RevMod = e BY <3>1, ModSmall
    <3>3. QED BY <3>2 DEF e
  <2>3. (r + d - RevMod) + RevMod = r + d /\ (r + d - RevMod) - r = d - RevMod BY <1>1
  <2>4. QED BY <2>2, <2>3, ModSmall
<1>4. QED BY <1>1, <1>2, <1>3

(* lfs_scmp orders two revisions less than half a turn apart. *)
LEMMA AheadOrder ==
  ASSUME NEW r \in Rev, NEW s \in Rev, Ahead(r, s)
  PROVE  Scmp(r, s) = 1 /\ Scmp(s, r) = -1
<1>1. RevMod \in Nat /\ RevMod >= 8 /\ r \in 0 .. RevMod - 1 /\ s \in 0 .. RevMod - 1
      /\ RevMod \div 2 \in Nat /\ 2 * (RevMod \div 2) <= RevMod
  BY RevisionFacts DEF Rev
<1>2. Scmp(r, s) = 1 BY <1>1 DEF Ahead, Scmp
<1>3. Scmp(s, r) = -1
  <2> DEFINE half == RevMod \div 2
  <2> HIDE DEF half
  <2>0. half \in Nat /\ 2 * half <= RevMod BY <1>1 DEF half
  <2>1. CASE r >= s
    <3>1. r - s \in 0 .. RevMod - 1 BY <1>1, <2>1
    <3>2. r - s \in 1 .. half - 1 BY <3>1, ModSmall DEF Ahead, half
    <3>3. RevMod - (r - s) \in 0 .. RevMod - 1 BY <1>1, <3>2, <2>0
    <3>4. (RevMod - (r - s) - RevMod) % RevMod = RevMod - (r - s) BY <3>3, ModSmall
    <3>5. RevMod - (r - s) - RevMod = s - r BY <1>1
    <3>6. (s - r) % RevMod = RevMod - (r - s) BY <3>4, <3>5
    <3>7. RevMod - (r - s) # 0 /\ ~(RevMod - (r - s) < half) BY <1>1, <2>0, <3>2
    <3>8. QED BY <3>6, <3>7 DEF Scmp, half
  <2>2. CASE r < s
    <3>1. r - s + RevMod \in 0 .. RevMod - 1 BY <1>1, <2>2
    <3>2. ((r - s + RevMod) - RevMod) % RevMod = r - s + RevMod
      <4> DEFINE e == r - s + RevMod
      <4>1. e \in 0 .. RevMod - 1 BY <3>1
      <4> HIDE DEF e
      <4>2. (e - RevMod) % RevMod = e BY <4>1, ModSmall
      <4>3. QED BY <4>2 DEF e
    <3>3. (r - s + RevMod) - RevMod = r - s BY <1>1
    <3>4. r - s + RevMod \in 1 .. half - 1 BY <3>2, <3>3 DEF Ahead, half
    <3>5. s - r \in 0 .. RevMod - 1 BY <1>1, <2>2
    <3>6. (s - r) % RevMod = s - r BY <3>5, ModSmall
    <3>7. s - r # 0 /\ ~(s - r < half) BY <1>1, <2>0, <2>2, <3>4
    <3>8. QED BY <3>6, <3>7 DEF Scmp, half
  <2>3. QED BY <1>1, <2>1, <2>2
<1>4. QED BY <1>2, <1>3

LEMMA NextAhead ==
  ASSUME NEW r \in Rev
  PROVE  (r + 1) % RevMod \in Rev /\ Ahead((r + 1) % RevMod, r)
<1>1. r \in Int /\ RevMod >= 8 /\ RevMod \in Nat BY RevisionFacts DEF Rev
<1>2. (r + 1) % RevMod \in Rev BY <1>1, ModInRev
<1>3. (((r + 1) % RevMod) - r) % RevMod = 1
  <2>1. 1 \in 0 .. RevMod - 1 BY <1>1
  <2>2. QED BY <2>1, ModStep
<1>4. 1 \in 1 .. (RevMod \div 2) - 1 BY RevisionFacts
<1>5. QED BY <1>2, <1>3, <1>4 DEF Ahead

(* lfs_dir_alloc moves the revision on by less than half a turn.           *)
LEMMA AlignedAhead ==
  ASSUME NEW r \in Rev
  PROVE  AlignUp(r) \in Rev /\ Ahead((AlignUp(r) + 1) % RevMod, r)
<1>1. r \in 0 .. RevMod - 1 /\ RevMod \in Nat /\ RevMod >= 8 BY RevisionFacts DEF Rev
<1>2. Period \in Nat /\ Period >= 3 /\ Period < RevMod \div 2 /\ RevMod \div 2 \in Nat
      /\ 2 * (RevMod \div 2) <= RevMod
  BY RevisionFacts
<1> DEFINE a == (r + Period - 1) % RevMod
           m == a % Period
           q == a \div Period
<1>3. a \in 0 .. RevMod - 1 BY <1>1, <1>2
<1>4. m \in 0 .. Period - 1 /\ q \in Nat /\ a = q * Period + m
  <2> HIDE DEF a
  <2>1. Period \in Nat \ {0} /\ a \in Nat BY <1>2, <1>3, <1>1
  <2>2. QED BY <2>1
<1> HIDE DEF m, q
<1>5. a - m \in 0 .. RevMod - 1 /\ AlignUp(r) = a - m
  <2>1. AlignUp(r) = a - m BY DEF AlignUp, m
  <2> DEFINE t == q * Period
  <2>2. t \in Nat /\ a = t + m BY <1>2, <1>4
  <2> HIDE DEF a, t
  <2>3. QED BY <1>1, <1>2, <1>3, <1>4, <2>1, <2>2
<1>6. AlignUp(r) \in Rev BY <1>5 DEF Rev
<1>7. PICK d \in 1 .. Period : (AlignUp(r) + 1) % RevMod = (r + d) % RevMod
  <2>1. Period - m \in 1 .. Period BY <1>2, <1>4
  <2>2. CASE r + Period - 1 < RevMod
    <3>1. a = r + Period - 1
      <4>1. r + Period - 1 \in 0 .. RevMod - 1 BY <1>1, <1>2, <2>2
      <4>2. QED BY <4>1, ModSmall
    <3>2. AlignUp(r) + 1 = r + (Period - m) BY <1>1, <1>2, <1>4, <1>5, <3>1
    <3>3. QED BY <2>1, <3>2
  <2>3. CASE r + Period - 1 >= RevMod
    <3>1. a = r + Period - 1 - RevMod
      <4>1. r + Period - 1 - RevMod \in 0 .. RevMod - 1 BY <1>1, <1>2, <2>3
      <4>2. r + Period - 1 = (r + Period - 1 - RevMod) + RevMod BY <1>1, <1>2
      <4>3. ((r + Period - 1 - RevMod) + RevMod) % RevMod = r + Period - 1 - RevMod
        <5> DEFINE e == r + Period - 1 - RevMod
        <5>1. e \in 0 .. RevMod - 1 BY <4>1
        <5> HIDE DEF e
        <5>2. (e + RevMod) % RevMod = e BY <5>1, ModSmall
        <5>3. QED BY <5>2 DEF e
      <4>4. QED BY <4>2, <4>3
    <3>2. AlignUp(r) + 1 + RevMod = r + (Period - m) BY <1>1, <1>2, <1>4, <1>5, <3>1
    <3>3. AlignUp(r) + 1 \in 0 .. RevMod - 1 BY <1>1, <1>2, <1>4, <1>5, <3>1
    <3>4. (AlignUp(r) + 1 + RevMod) % RevMod = AlignUp(r) + 1
      BY <3>3, ModSmall
    <3>5. (AlignUp(r) + 1) % RevMod = AlignUp(r) + 1 BY <3>3, ModSmall
    <3>6. QED BY <2>1, <3>2, <3>4, <3>5
  <2>4. QED BY <1>1, <1>2, <2>2, <2>3
<1>8. d \in 0 .. RevMod - 1 /\ d \in 1 .. (RevMod \div 2) - 1 BY <1>1, <1>2
<1>9. (((AlignUp(r) + 1) % RevMod) - r) % RevMod = d BY <1>7, <1>8, ModStep
<1>10. QED BY <1>6, <1>8, <1>9 DEF Ahead

-----------------------------------------------------------------------------
(* The pair the parent names. *)
ChipOK == chip \in [RegionBlock -> BlockContent]

(* c is the newer block of the pair, o the other one. *)
Current(c, o) ==
  /\ c \in RegionBlock /\ o \in RegionBlock /\ c # o
  /\ ptr = <<c, o>> \/ ptr = <<o, c>>
  /\ Log(chip[c]) > 0
  /\ Log(chip[o]) = 0 \/ Ahead(chip[c][1].rev, chip[o][1].rev)
Cur == Newest(ptr)[1]
Oth == Newest(ptr)[2]

LEMMA ContentFacts ==
  ASSUME NEW g \in BlockContent
  PROVE  \A p \in 1 .. Pages : /\ g[p] \in Content /\ g[p].rev \in Rev /\ g[p].v \in Int
                               /\ g[p].is = "blank" => g[p] = BlankPage
                               /\ g[p].is \in State
  BY DEF BlockContent, Content

(* lfs_dir_fetchmatch finds the newer block. *)
LEMMA NewestIs ==
  \A c, o : ChipOK /\ Current(c, o) =>
    /\ Newest(ptr) = <<c, o>> /\ Cur = c /\ Oth = o
    /\ Value = chip[c][Log(chip[c])].v
<1> SUFFICES ASSUME NEW c, NEW o, ChipOK, Current(c, o)
             PROVE  /\ Newest(ptr) = <<c, o>> /\ Cur = c /\ Oth = o
                    /\ Value = chip[c][Log(chip[c])].v
  OBVIOUS
<1>1. c \in RegionBlock /\ o \in RegionBlock /\ chip[c] \in BlockContent /\ chip[o] \in BlockContent
  BY DEF Current, ChipOK
<1>2. chip[c][1].rev \in Rev /\ chip[o][1].rev \in Rev
  <2>1. 1 \in 1 .. Pages BY PagesFacts
  <2>2. QED BY <1>1, <2>1, ContentFacts
<1>3. Newest(ptr) = <<c, o>>
  <2> DEFINE r == IF Scmp(chip[ptr[2]][1].rev, chip[ptr[1]][1].rev) > 0
                  THEN <<ptr[2], ptr[1]>> ELSE ptr
  <2>1. Newest(ptr) = IF Log(chip[r[1]]) > 0 THEN r ELSE <<r[2], r[1]>> BY DEF Newest
  <2>2. r = <<c, o>> \/ r = <<o, c>> BY DEF Current
  <2>3. CASE Log(chip[o]) = 0
    <3> HIDE DEF r
    <3>1. Log(chip[c]) > 0 BY DEF Current
    <3>2. QED BY <2>1, <2>2, <2>3, <3>1
  <2>4. CASE Ahead(chip[c][1].rev, chip[o][1].rev)
    <3>1. Scmp(chip[c][1].rev, chip[o][1].rev) = 1 /\ Scmp(chip[o][1].rev, chip[c][1].rev) = -1
      BY <1>2, <2>4, AheadOrder
    <3>2. r = <<c, o>> BY <3>1 DEF Current
    <3> HIDE DEF r
    <3>3. Log(chip[c]) > 0 BY DEF Current
    <3>4. QED BY <2>1, <3>2, <3>3
  <2>5. QED BY <2>3, <2>4 DEF Current
<1>4. Cur = c /\ Oth = o BY <1>3 DEF Cur, Oth
<1>5. Value = chip[c][Log(chip[c])].v
  <2>1. Newest(ptr)[1] = c BY <1>3
  <2>2. {chip[b][Log(chip[b])].v : b \in {Newest(ptr)[1]}} = {chip[c][Log(chip[c])].v}
    BY <2>1
  <2>3. Value = CHOOSE v \in {chip[c][Log(chip[c])].v} : TRUE BY <2>2 DEF Value
  <2>4. QED BY <2>3
<1>6. QED BY <1>3, <1>4, <1>5

LEMMA NewestIsNext ==
  (\A c, o : ChipOK /\ Current(c, o) =>
    /\ Newest(ptr) = <<c, o>> /\ Cur = c /\ Oth = o
    /\ Value = chip[c][Log(chip[c])].v)'
  BY NewestIs, PTL

(* Nothing happens to the log of the newer block, and the older one stays  *)
(* as it was or loses its log.                                             *)
LEMMA StaysCurrent ==
  ASSUME ChipOK, ChipOK', Current(Cur, Oth), UNCHANGED ptr,
         Log(chip'[Cur]) = Log(chip[Cur]),
         Agree(chip[Cur], chip'[Cur], Log(chip[Cur])),
         chip'[Oth] = chip[Oth] \/ Log(chip'[Oth]) = 0
  PROVE  Current(Cur, Oth)' /\ UNCHANGED <<Cur, Oth, Value>>
<1> DEFINE c == Cur
           o == Oth
           L == Log(chip[c])
<1>1. PICK d, e : d = c /\ e = o OBVIOUS
<1>2. d \in RegionBlock /\ chip[d] \in BlockContent /\ L > 0 BY <1>1 DEF Current, ChipOK
<1>3. L \in 1 .. Pages /\ 1 \in 1 .. L BY <1>1, <1>2, LogFacts, PagesFacts
<1>4. chip'[d][1] = chip[d][1] /\ chip'[d][L] = chip[d][L] BY <1>1, <1>3 DEF Agree
<1>5. Current(d, e)' BY <1>1, <1>2, <1>4 DEF Current
<1>6. Cur' = d /\ Oth' = e /\ Value' = chip'[d][Log(chip'[d])].v BY <1>5, NewestIsNext
<1>7. Value = chip[d][L].v BY <1>1, NewestIs
<1>8. QED BY <1>1, <1>4, <1>5, <1>6, <1>7

-----------------------------------------------------------------------------
(* The invariant. *)
Dirs == [pair : (0 .. Blocks) \X (0 .. Blocks), rev : Rev, v : Int, off : 0 .. Pages,
         erased : BOOLEAN]
Commits ==
  [at : {"idle", "append", "erase", "write", "nospace", "publish", "return"},
   d : Dirs, v : Int, n : 1 .. Pages, part : 0 .. Pages,
   moved : BOOLEAN, tired : BOOLEAN, fresh : BOOLEAN]
UsedOK == used \in [commits : Nat, faults : Nat, losses : Nat]
Typed ==
  /\ ChipOK /\ ptr \in RegionBlock \X RegionBlock
  /\ held \in Dirs /\ w \in Commits
  /\ call \in Nat /\ res \in {"none", "ok", "error", "nospace", "lost"}

Off == IF w.at = "append" THEN w.d.off ELSE 0
Writing == w.at \in {"append", "write"}
Done == Writing /\ w.part = w.n /\ ReadsBack
BlankFrom(b, p) == \A q \in p .. Pages : chip[b][q] = BlankPage

(* The older block has no commit or an earlier revision, and behind the    *)
(* log of the newer one are the pages of at most one commit.               *)
Sound == Current(Cur, Oth) /\ Leftover(chip[Cur], Log(chip[Cur]))

(* Where the commit in progress goes. *)
Placed ==
  w.at \in {"append", "erase", "write", "publish"} =>
    LET s == w.d.pair[1]
        t == w.d.pair[2]
    IN
    /\ s \in RegionBlock /\ t \in RegionBlock /\ s # t
    /\ w.fresh => s \notin ToSet(ptr) /\ t \notin ToSet(ptr)
    /\ w.at = "append" =>
         ~w.fresh /\ ~w.moved /\ s = Cur /\ t = Oth /\ w.d.rev = chip[s][1].rev
    /\ w.at \in {"erase", "write"} =>
         /\ Ahead(w.d.rev, chip[s][1].rev)
         /\ ~w.fresh => s \in ToSet(ptr) /\ (~Done => s = Cur)
         /\ ~w.moved /\ ~w.fresh => t \in ToSet(ptr)
    /\ w.at = "erase" => w.part = 0
    /\ w.at = "publish" =>
         /\ Log(chip[s]) = w.d.off /\ w.d.off > 0 /\ chip[s][w.d.off].v = w.v
         /\ Leftover(chip[s], w.d.off)
         /\ w.d.rev = chip[s][1].rev
         /\ Ahead(chip[s][1].rev, chip[t][1].rev)
         /\ ~w.fresh => t \in ToSet(ptr)
         /\ w.moved \/ w.fresh

(* What is programmed of it. *)
Progress ==
  Writing =>
    /\ w.part <= w.n /\ Off + w.part <= Pages
    /\ Filled(chip[Target], Off, Piece(1), w.part)
    /\ Log(chip[Target]) = IF Done THEN Off + w.n ELSE Off
    /\ Leftover(chip[Target], Off)
    /\ w.at = "write" => BlankFrom(Target, w.part + 1)

(* It has taken effect. *)
Taken ==
  \/ Done /\ Target \in ToSet(ptr)
  \/ w.at = "publish" /\ w.d.pair[1] \in ToSet(ptr)
  \/ w.at = "return"

Results ==
  /\ w.at = "idle" <=> res # "none"
  /\ Value <= call
  /\ res = "none" => w.v = call
  /\ w.at = "return" => Value = call
  /\ res = "none" /\ ~Taken => Value # call
  /\ res \in {"error", "nospace"} => Value # call

(* The mdir an open file keeps is the one a fetch would read. *)
Fetched(d) == d.pair = <<Cur, Oth>> /\ d.off = Log(chip[Cur]) /\ d.rev = chip[Cur][1].rev
Follows ==
  held # NoDir =>
    IF w.at = "publish" /\ ~w.fresh THEN held = w.d
    ELSE Fetched(held) \/ (Done /\ Target \in ToSet(ptr))

(* As long as the flash has refused nothing. *)
FaultFree ==
  used.faults = 0 =>
    /\ pcache = NoPageCache
    /\ w.at # "nospace"
    /\ w.at = "append" => BlankFrom(w.d.pair[1], w.d.off + w.part + 1)
    /\ Writing => \A i \in 1 .. w.part : chip[Target][Off + i] = Piece(i)
    /\ held # NoDir /\ held.erased /\ (w.at \in {"idle", "publish", "return"} \/ w.fresh)
         => BlankFrom(held.pair[1], held.off + 1)

PairInv == Typed /\ Sound /\ Placed /\ Progress /\ Results /\ Follows /\ FaultFree

-----------------------------------------------------------------------------
(* The blocks of a pair. *)
LEMMA PairSet ==
  \A a, b : ToSet(<<a, b>>) = {a, b}
<1> SUFFICES ASSUME NEW a, NEW b PROVE ToSet(<<a, b>>) = {a, b} OBVIOUS
<1>1. DOMAIN <<a, b>> = {1, 2} OBVIOUS
<1>2. {<<a, b>>[i] : i \in {1, 2}} = {a, b} OBVIOUS
<1>3. QED BY <1>1, <1>2 DEF ToSet

LEMMA SetOfPair ==
  ASSUME NEW S, NEW T, NEW p \in S \X T PROVE ToSet(p) = {p[1], p[2]}
<1>1. p = <<p[1], p[2]>> OBVIOUS
<1>2. QED BY <1>1, PairSet

LEMMA BlockFacts ==
  /\ RegionBlock = 0 .. Blocks - 1 /\ RegionBlock \subseteq 0 .. Blocks
  /\ Blocks \notin RegionBlock /\ RegionBlock \subseteq Nat
  BY PagesFacts DEF RegionBlock

LEMMA NoneTypes ==
  /\ NoDir \in Dirs /\ NoCommit \in Commits /\ NoCommit.at = "idle"
  /\ NoDir.pair = <<Blocks, Blocks>> /\ ~NoDir.erased
<1>1. 0 \in Rev BY RevisionFacts DEF Rev
<1>2. NoDir \in Dirs BY <1>1, PagesFacts DEF NoDir, Dirs
<1>3. QED BY <1>2, PagesFacts DEF NoCommit, Commits, NoDir

(* The blocks of the pair the parent names. *)
LEMMA NamedPair ==
  ASSUME Sound
  PROVE  /\ ToSet(ptr) = {Cur, Oth} /\ Cur \in RegionBlock /\ Oth \in RegionBlock /\ Cur # Oth
         /\ Newest(ptr) = <<Cur, Oth>>
<1>1. Current(Cur, Oth) BY DEF Sound
<1>2. PICK c, o : c = Cur /\ o = Oth OBVIOUS
<1>3. ptr = <<c, o>> \/ ptr = <<o, c>> BY <1>1, <1>2 DEF Current
<1>4. ToSet(ptr) = {c, o} BY <1>3, PairSet
<1>5. Newest(ptr) = <<ptr[1], ptr[2]>> \/ Newest(ptr) = <<ptr[2], ptr[1]>>
  BY <1>3 DEF Newest
<1>6. QED BY <1>1, <1>2, <1>3, <1>4, <1>5 DEF Current, Cur, Oth

(* The newer block and its last commit. *)
LEMMA CurrentLog ==
  ASSUME Typed, Sound
  PROVE  /\ chip[Cur] \in BlockContent /\ chip[Oth] \in BlockContent
         /\ Log(chip[Cur]) \in 1 .. Pages /\ ~Whole(chip[Cur], Log(chip[Cur]) + 1)
         /\ Value = chip[Cur][Log(chip[Cur])].v /\ Value \in Int
         /\ chip[Cur][1].rev \in Rev
<1>1. Current(Cur, Oth) /\ ChipOK BY DEF Typed, Sound
<1>2. PICK c, o : c = Cur /\ o = Oth OBVIOUS
<1>3. c \in RegionBlock /\ o \in RegionBlock /\ Log(chip[c]) > 0 BY <1>1, <1>2 DEF Current
<1>4. chip[c] \in BlockContent /\ chip[o] \in BlockContent BY <1>1, <1>3 DEF ChipOK
<1>5. Log(chip[c]) \in 1 .. Pages /\ ~Whole(chip[c], Log(chip[c]) + 1)
  BY <1>3, <1>4, LogFacts, PagesFacts
<1>6. Value = chip[c][Log(chip[c])].v BY <1>1, <1>2, NewestIs
<1>7. 1 \in 1 .. Pages BY PagesFacts
<1>8. Value \in Int /\ chip[c][1].rev \in Rev BY <1>4, <1>5, <1>6, <1>7, ContentFacts
<1>9. QED BY <1>2, <1>4, <1>5, <1>6, <1>8

LEMMA FreeFacts ==
  ASSUME NEW S \in SUBSET RegionBlock, S # {} PROVE Min(S) \in S /\ \A b \in S : Min(S) <= b
<1>1. \E b \in S : \A c \in S : b <= c BY LeastNatural, BlockFacts
<1>2. QED BY <1>1 DEF Min

(* A fetch reads the newer block. *)
LEMMA FetchFacts ==
  ASSUME Typed, Sound
  PROVE  /\ Fetch(ptr) \in Dirs /\ Fetched(Fetch(ptr))
         /\ Fetch(ptr).erased => BlankFrom(Cur, Log(chip[Cur]) + 1)
<1> DEFINE L == Log(chip[Cur])
           d == Fetch(ptr)
<1>1. /\ Newest(ptr) = <<Cur, Oth>> /\ Cur \in RegionBlock /\ Oth \in RegionBlock
  BY NamedPair
<1>2. L \in 1 .. Pages /\ chip[Cur] \in BlockContent /\ chip[Cur][1].rev \in Rev
  BY CurrentLog
<1>3. d = [pair |-> <<Cur, Oth>>, rev |-> chip[Cur][1].rev, off |-> L,
           erased |-> Erased(chip[Cur], L), v |-> chip[Cur][L].v]
  <2>1. Newest(ptr)[1] = Cur BY <1>1
  <2>2. L # 0 BY <1>2
  <2>3. QED BY <1>1, <2>1, <2>2 DEF Fetch
<1>4. Erased(chip[Cur], L) \in BOOLEAN BY DEF Erased
<1>5. chip[Cur][L].v \in Int BY <1>2, ContentFacts
<1>6. Cur \in 0 .. Blocks /\ Oth \in 0 .. Blocks /\ L \in 0 .. Pages BY <1>1, <1>2, BlockFacts
<1>7. d \in Dirs BY <1>2, <1>3, <1>4, <1>5, <1>6 DEF Dirs
<1>8. Fetched(d) BY <1>3 DEF Fetched
<1>9. ASSUME d.erased PROVE BlankFrom(Cur, L + 1)
  <2>0. Erased(chip[Cur], L) BY <1>3, <1>9
  <2>1. L < Pages /\ chip[Cur][L + 1].is = "blank" BY <2>0 DEF Erased
  <2>2. L + 1 \in L + 1 .. Pages /\ L + 1 \in 1 .. Pages BY <1>2, <2>1, PagesFacts
  <2>3. chip[Cur][L + 1] = BlankPage BY <1>2, <2>1, <2>2, ContentFacts
  <2>4. Leftover(chip[Cur], L) BY DEF Sound
  <2>5. QED BY <2>2, <2>3, <2>4 DEF Leftover, BlankFrom
<1>10. QED BY <1>7, <1>8, <1>9

(* The pieces of the commit in progress. *)
LEMMA PieceFacts ==
  ASSUME Typed, Writing, Target \in RegionBlock
  PROVE  /\ First(Piece(1)) /\ Piece(1).of = w.n /\ Piece(1).v = w.v
         /\ Piece(1).rev = w.d.rev
         /\ \A i : Piece(i) = Part(Piece(1), i)
         /\ \A i \in Nat : Place(i) = Off + i
         /\ Off \in 0 .. Pages /\ w.n \in 1 .. Pages /\ w.part \in 0 .. Pages
         /\ chip[Target] \in BlockContent
         /\ ReadsBack <=> Complete(chip[Target], Off, Piece(1))
<1>1. w.n \in 1 .. Pages /\ w.v \in Int /\ w.d \in Dirs /\ w.part \in 0 .. Pages
  BY DEF Typed, Commits
<1>2. w.d.off \in 0 .. Pages /\ w.d.rev \in Rev BY <1>1 DEF Dirs
<1>3. Off \in 0 .. Pages BY <1>2, PagesFacts DEF Off
<1>4. chip[Target] \in BlockContent BY DEF Typed, ChipOK
<1>5. Behind \in PageKind
  <2>1. CASE Place(w.n) >= Pages BY <2>1 DEF Behind, PageKind
  <2>2. CASE ~(Place(w.n) >= Pages)
    <3>1. Place(w.n) \in 0 .. Pages + Pages BY <1>1, <1>2, PagesFacts DEF Place
    <3>2. Place(w.n) + 1 \in 1 .. Pages BY <2>2, <3>1, PagesFacts
    <3>3. chip[Target][Place(w.n) + 1].is \in State BY <1>4, <3>2, ContentFacts
    <3>4. QED BY <2>2, <3>3 DEF Behind, PageKind
  <2>3. QED BY <2>1, <2>2
<1> DEFINE x == Piece(1)
<1>6. x = [is |-> "piece", v |-> w.v, part |-> 1, of |-> w.n, rev |-> w.d.rev, next |-> Behind]
  BY DEF Piece
<1>7. First(x)
  <2>1. 1 \in 0 .. Pages /\ w.n \in 0 .. Pages /\ w.n >= 1 /\ 1 \in 1 .. w.n
    BY <1>1, PagesFacts
  <2>2. "piece" \in State BY DEF State
  <2> HIDE DEF x
  <2>3. x.is = "piece" /\ x.part = 1 /\ x.of = w.n BY <1>6
  <2>4. x \in Content BY <1>1, <1>2, <1>5, <1>6, <2>1, <2>2 DEF Content
  <2>5. QED BY <2>3, <2>4 DEF First
<1>8. ASSUME NEW i PROVE Piece(i) = Part(Piece(1), i)
  BY DEF Piece, Part
<1>9. ASSUME NEW i \in Nat PROVE Place(i) = Off + i
  <2>1. CASE w.at = "append" BY <2>1 DEF Place, Off
  <2>2. CASE w.at = "write"
    <3>1. Place(i) = i /\ Off = 0 BY <2>2 DEF Place, Off
    <3>2. QED BY <3>1
  <2>3. QED BY <2>1, <2>2 DEF Writing
<1>10. QED BY <1>1, <1>3, <1>4, <1>6, <1>7, <1>8, <1>9 DEF ReadsBack, Complete

(* The allocator gives out no block in use. *)
LEMMA FreeBlocks ==
  ASSUME Typed
  PROVE  /\ Free \subseteq RegionBlock
         /\ \A b \in Free : b \notin ToSet(ptr) /\ b # w.d.pair[1] /\ b # w.d.pair[2]
         /\ Free # {} => Min(Free) \in Free
<1>1. w.d.pair \in (0 .. Blocks) \X (0 .. Blocks) BY DEF Typed, Commits, Dirs
<1>2. ToSet(w.d.pair) = {w.d.pair[1], w.d.pair[2]} BY <1>1, SetOfPair
<1>3. Free \subseteq RegionBlock BY DEF Free
<1>4. QED BY <1>2, <1>3, FreeFacts DEF Free

(* The same commit, now to another block. *)
Moves(x, y) ==
  /\ y \in Commits /\ y.v = x.v /\ y.n = x.n /\ y.fresh = x.fresh
  /\ y.d.pair[1] = x.d.pair[1]
  /\ y.at = "erase" =>
       /\ y.part = 0
       /\ \/ y.d.pair[2] = x.d.pair[2] /\ (x.moved => y.moved)
          \/ y.d.pair[2] = Min(Free) /\ Free # {} /\ y.moved

LEMMA RelocatingFacts ==
  ASSUME Typed, NEW x \in Commits
  PROVE  LET y == Relocating(x) IN
         /\ Moves(x, y) /\ y.d.rev = x.d.rev /\ y.at \in {"erase", "nospace"}
         /\ x.tired /\ ~Synced(x.d.pair, Root) => y.at = "erase"
<1> DEFINE y == Relocating(x)
           m == IF Free = {} THEN x.d.pair[2] ELSE Min(Free)
<1>1. x.d \in Dirs /\ x.d.pair \in (0 .. Blocks) \X (0 .. Blocks) BY DEF Commits, Dirs
<1>2. m \in 0 .. Blocks BY <1>1, FreeBlocks, BlockFacts
<1>3. [x.d.pair EXCEPT ![2] = m] = <<x.d.pair[1], m>> BY <1>1
<1>4. CASE Synced(x.d.pair, Root) \/ (Free = {} /\ ~x.tired)
  <2>1. y = [x EXCEPT !.at = "nospace"] BY <1>4 DEF Relocating
  <2> HIDE DEF y
  <2>2. y \in Commits /\ y.at = "nospace" /\ y.v = x.v /\ y.n = x.n /\ y.fresh = x.fresh
        /\ y.d = x.d
    BY <2>1 DEF Commits
  <2>3. QED BY <1>4, <2>2 DEF Moves, y
<1>5. CASE ~(Synced(x.d.pair, Root) \/ (Free = {} /\ ~x.tired))
  <2> DEFINE e == [x.d EXCEPT !.pair = <<x.d.pair[1], m>>]
  <2>1. y = [x EXCEPT !.at = "erase", !.moved = TRUE, !.tired = FALSE, !.part = 0, !.d = e]
    BY <1>3, <1>5 DEF Relocating
  <2>2. e \in Dirs /\ e.pair[1] = x.d.pair[1] /\ e.pair[2] = m /\ e.rev = x.d.rev
    BY <1>1, <1>2 DEF Dirs
  <2>0. 0 \in 0 .. Pages BY PagesFacts
  <2> HIDE DEF y, e, m
  <2>3. /\ y \in Commits /\ y.at = "erase" /\ y.v = x.v /\ y.n = x.n /\ y.fresh = x.fresh
        /\ y.d = e /\ y.part = 0 /\ y.moved
    BY <2>0, <2>1, <2>2 DEF Commits
  <2>4. m = x.d.pair[2] \/ (m = Min(Free) /\ Free # {}) BY DEF m
  <2>5. QED BY <2>2, <2>3, <2>4 DEF Moves, y
<1>6. QED BY <1>4, <1>5

(* lfs_dir_compact and the relocation it may begin. *)
LEMMA CompactingFacts ==
  ASSUME Typed, NEW x \in Commits
  PROVE  LET y == Compacting(x) IN
         Moves(x, y) /\ y.d.rev = (x.d.rev + 1) % RevMod /\ y.at = "erase"
<1> DEFINE r == (x.d.rev + 1) % RevMod
           e == [x.d EXCEPT !.rev = r]
           t == NeedsRelocation(x.d.rev)
           z == [x EXCEPT !.at = "erase", !.part = 0, !.tired = t, !.d = e]
<1>1. x.d \in Dirs /\ x.d.rev \in Rev BY DEF Commits, Dirs
<1>2. r \in Rev BY <1>1, NextAhead
<1>3. e \in Dirs /\ e.rev = r /\ e.pair = x.d.pair BY <1>1, <1>2 DEF Dirs
<1>4. t \in BOOLEAN BY DEF NeedsRelocation
<1>5. Compacting(x) = IF z.tired /\ ~Synced(z.d.pair, Root) THEN Relocating(z) ELSE z
  BY DEF Compacting
<1>10. 0 \in 0 .. Pages BY PagesFacts
<1> HIDE DEF e, t, r
<1>6. /\ z \in Commits /\ z.at = "erase" /\ z.v = x.v /\ z.n = x.n /\ z.fresh = x.fresh
      /\ z.d = e /\ z.part = 0 /\ z.moved = x.moved
  BY <1>3, <1>4, <1>10 DEF Commits
<1> HIDE DEF z
<1>7. CASE z.tired /\ ~Synced(z.d.pair, Root)
  <2>1. Compacting(x) = Relocating(z) BY <1>5, <1>7
  <2>2. Moves(z, Relocating(z)) /\ Relocating(z).d.rev = z.d.rev
        /\ Relocating(z).at = "erase"
    BY <1>6, <1>7, RelocatingFacts
  <2>3. Moves(x, Relocating(z)) BY <1>3, <1>6, <2>2 DEF Moves
  <2>4. QED BY <1>3, <1>6, <2>1, <2>2, <2>3 DEF r
<1>8. CASE ~(z.tired /\ ~Synced(z.d.pair, Root))
  <2>1. Compacting(x) = z BY <1>5, <1>8
  <2>2. Moves(x, z) BY <1>3, <1>6 DEF Moves
  <2>3. QED BY <1>3, <1>6, <2>1, <2>2 DEF r
<1>9. QED BY <1>7, <1>8

Begun(d, v, n, fresh) ==
  [at |-> "append", d |-> d, v |-> v, n |-> n, part |-> 0,
   moved |-> FALSE, tired |-> FALSE, fresh |-> fresh]
LEMMA StartedFacts ==
  ASSUME Typed, NEW d \in Dirs, NEW v \in Int, NEW n \in 1 .. Pages, NEW fresh \in BOOLEAN
  PROVE  LET x == Begun(d, v, n, fresh)
             y == Started(d, v, n, fresh)
         IN /\ x \in Commits /\ y \in Commits
            /\ d.erased => y = x
            /\ ~d.erased => /\ Moves(x, y) /\ y.at = "erase"
                            /\ y.d.rev = (d.rev + 1) % RevMod
<1> DEFINE x == Begun(d, v, n, fresh)
<1>1. x \in Commits BY PagesFacts DEF Begun, Commits
<1>2. x.d = d BY DEF Begun
<1>3. Started(d, v, n, fresh) = IF d.erased THEN x ELSE Compacting(x) BY DEF Started, Begun
<1> HIDE DEF x
<1>4. Moves(x, Compacting(x)) /\ Compacting(x).d.rev = (x.d.rev + 1) % RevMod
      /\ Compacting(x).at = "erase"
  BY <1>1, CompactingFacts
<1>5. Compacting(x) \in Commits BY <1>4 DEF Moves
<1>6. QED BY <1>1, <1>2, <1>3, <1>4, <1>5 DEF x

(* Where a commit writes. *)
LEMMA WritingPlaces ==
  ASSUME Typed, Placed, Writing
  PROVE  /\ Target \in RegionBlock /\ w.d.pair[1] \in RegionBlock /\ w.d.pair[2] \in RegionBlock
         /\ w.at = "append" => Target = w.d.pair[1]
         /\ w.at = "write" => Target = w.d.pair[2]
         /\ w.d.pair = <<w.d.pair[1], w.d.pair[2]>>
<1>1. w.d.pair \in (0 .. Blocks) \X (0 .. Blocks) BY DEF Typed, Commits, Dirs
<1>2. w.d.pair = <<w.d.pair[1], w.d.pair[2]>> BY <1>1
<1>3. w.d.pair[1] \in RegionBlock /\ w.d.pair[2] \in RegionBlock BY DEF Placed, Writing
<1>4. QED BY <1>2, <1>3 DEF Target, Writing

(* A commit that is all there counts; in the pair, it is the newest. *)
LEMMA DoneFacts ==
  ASSUME Typed, Sound, Placed, Progress, Done
  PROVE  /\ Target \in RegionBlock /\ Off + w.n \in 1 .. Pages
         /\ Log(chip[Target]) = Off + w.n /\ Closed(chip[Target], Off + w.n)
         /\ chip[Target][Off + w.n].v = w.v
         /\ w.at = "write" => chip[Target][1].rev = w.d.rev
         /\ Target \in ToSet(ptr) =>
              Cur = Target /\ Oth = (IF w.at = "append" THEN w.d.pair[2] ELSE w.d.pair[1])
<1>1. Writing /\ w.part = w.n /\ ReadsBack BY DEF Done
<1>2. /\ Target \in RegionBlock /\ w.d.pair[1] \in RegionBlock /\ w.d.pair[2] \in RegionBlock
      /\ w.at = "append" => Target = w.d.pair[1]
      /\ w.at = "write" => Target = w.d.pair[2]
  BY <1>1, WritingPlaces
<1> DEFINE g == chip[Target]
           x == Piece(1)
<1>3. /\ First(x) /\ x.of = w.n /\ x.v = w.v /\ x.rev = w.d.rev
      /\ Off \in 0 .. Pages /\ w.n \in 1 .. Pages /\ g \in BlockContent
      /\ Complete(g, Off, x)
  BY <1>1, <1>2, PieceFacts
<1>4. Off + w.n <= Pages /\ Log(g) = Off + w.n /\ Leftover(g, Off)
  BY <1>1 DEF Progress, Done
<1>5. Closed(g, Off + w.n) /\ g[Off + w.n].v = w.v
  <2> HIDE DEF g, x
  <2>1. Off + x.of <= Pages BY <1>3, <1>4
  <2>2. g[Off + x.of].v = x.v /\ Closed(g, Off + x.of) BY <1>3, <1>4, <2>1, Completed
  <2>3. QED BY <1>3, <2>2
<1>6. Off + w.n \in 1 .. Pages BY <1>3, <1>4, PagesFacts
<1>7. ASSUME w.at = "write" PROVE g[1].rev = w.d.rev
  <2>1. Off = 0 BY <1>7 DEF Off
  <2>2. 1 \in 1 .. x.of BY <1>3
  <2>3. g[0 + 1] = Part(x, 1) BY <1>3, <2>1, <2>2 DEF Complete
  <2>4. g[1] = Part(x, 1) BY <2>3
  <2>5. Part(x, 1).rev = x.rev BY <1>3, <2>2, FirstFacts
  <2>6. QED BY <1>3, <2>4, <2>5
<1>8. ASSUME Target \in ToSet(ptr)
      PROVE  Cur = Target /\ Oth = IF w.at = "append" THEN w.d.pair[2] ELSE w.d.pair[1]
  <2>1. CASE w.at = "append" BY <1>2, <2>1 DEF Placed
  <2>2. CASE w.at = "write"
    <3> DEFINE s == w.d.pair[1]
               t == w.d.pair[2]
    <3>1. /\ s # t /\ (w.fresh => t \notin ToSet(ptr))
          /\ Ahead(w.d.rev, chip[s][1].rev) /\ (~w.fresh => s \in ToSet(ptr))
      BY <2>2 DEF Placed
    <3>2. s \in ToSet(ptr) /\ t \in ToSet(ptr) /\ t = Target BY <1>2, <1>8, <2>2, <3>1
    <3>3. ToSet(ptr) = {ptr[1], ptr[2]} /\ ptr = <<ptr[1], ptr[2]>>
      <4>1. ptr \in RegionBlock \X RegionBlock BY DEF Typed
      <4>2. QED BY <4>1, SetOfPair
    <3> HIDE DEF s, t
    <3>4. ptr = <<t, s>> \/ ptr = <<s, t>> BY <3>1, <3>2, <3>3
    <3>5. Log(chip[t]) > 0 BY <1>4, <1>6, <3>2
    <3>6. Ahead(chip[t][1].rev, chip[s][1].rev) BY <1>7, <2>2, <3>1, <3>2
    <3>7. Current(t, s) BY <1>2, <3>1, <3>4, <3>5, <3>6 DEF Current, s, t
    <3>8. Cur = t /\ Oth = s BY <3>7, NewestIs DEF Typed
    <3>9. QED BY <2>2, <3>2, <3>8 DEF s
  <2>3. QED BY <1>1, <2>1, <2>2 DEF Writing
<1>9. QED BY <1>2, <1>4, <1>5, <1>6, <1>7, <1>8

(* A commit that has taken effect is the one called last. *)
LEMMA TakenValue ==
  ASSUME PairInv, Taken PROVE Value = call
<1>1. Typed /\ Sound /\ Placed /\ Progress /\ Results BY DEF PairInv
<1>2. CASE Done /\ Target \in ToSet(ptr)
  <2>1. Value = chip[Cur][Log(chip[Cur])].v BY <1>1, CurrentLog
  <2>2. Value = w.v BY <1>1, <1>2, <2>1, DoneFacts
  <2>3. w.at # "idle" BY <1>2 DEF Done, Writing
  <2>4. res = "none" BY <1>1, <2>3 DEF Results
  <2>5. QED BY <1>1, <2>2, <2>4 DEF Results
<1>3. CASE w.at = "publish" /\ w.d.pair[1] \in ToSet(ptr)
  <2> DEFINE s == w.d.pair[1]
             t == w.d.pair[2]
  <2>1. /\ s \in RegionBlock /\ t \in RegionBlock /\ s # t
        /\ w.fresh => s \notin ToSet(ptr)
        /\ Log(chip[s]) = w.d.off /\ w.d.off > 0 /\ chip[s][w.d.off].v = w.v
        /\ Ahead(chip[s][1].rev, chip[t][1].rev)
        /\ ~w.fresh => t \in ToSet(ptr)
    BY <1>1, <1>3 DEF Placed
  <2>2. ToSet(ptr) = {ptr[1], ptr[2]} /\ ptr = <<ptr[1], ptr[2]>>
    <3>1. ptr \in RegionBlock \X RegionBlock BY <1>1 DEF Typed
    <3>2. QED BY <3>1, SetOfPair
  <2> HIDE DEF s, t
  <2>3. ptr = <<t, s>> \/ ptr = <<s, t>> BY <1>3, <2>1, <2>2 DEF s
  <2>4. Current(s, t) BY <2>1, <2>3 DEF Current
  <2>5. Value = w.v BY <1>1, <2>1, <2>4, NewestIs DEF Typed
  <2>6. res = "none" BY <1>1, <1>3 DEF Results
  <2>7. QED BY <1>1, <2>5, <2>6 DEF Results
<1>4. CASE w.at = "return" BY <1>1, <1>4 DEF Results
<1>5. QED BY <1>2, <1>3, <1>4 DEF Taken

(* While the flash and the pointer stay, so does what a fetch reads. *)
LEMMA SameFlash ==
  ASSUME Typed, Sound, UNCHANGED <<chip, ptr>>
  PROVE  UNCHANGED <<Cur, Oth, Value>> /\ ChipOK' /\ Sound'
         /\ ptr' \in RegionBlock \X RegionBlock
<1>1. UNCHANGED <<Cur, Oth, Value>> BY DEF Cur, Oth, Value, Newest
<1>2. ChipOK' BY DEF Typed, ChipOK
<1>3. Current(Cur, Oth)' BY <1>1 DEF Sound, Current
<1>4. QED BY <1>1, <1>2, <1>3 DEF Typed, Sound

CellStep == Cell!Next \/ UNCHANGED <<Value, call, res>>

(* What a step does to the two blocks: the newer one stays, or a commit to *)
(* the other one is complete, which is the newer one then.                 *)
Stays == UNCHANGED <<Cur, Oth>> /\ chip'[Cur][1].rev = chip[Cur][1].rev
Turns ==
  /\ w.at = "write" /\ ~Done /\ Done' /\ Target \in ToSet(ptr)
  /\ Cur' = Oth /\ Oth' = Cur /\ chip'[Oth][1].rev = w.d.rev

(* A fetch, and the copy an open file keeps, show the pair as it is. *)
LEMMA CommitDirs ==
  ASSUME PairInv, w.at = "idle", NEW d \in {Fetch(ptr)} \cup ({held} \ {NoDir})
  PROVE  /\ d \in Dirs /\ Fetched(d)
         /\ used.faults = 0 /\ d.erased => BlankFrom(Cur, Log(chip[Cur]) + 1)
<1>1. Typed /\ Sound BY DEF PairInv
<1>2. CASE d = Fetch(ptr) BY <1>1, <1>2, FetchFacts
<1>3. CASE d = held /\ held # NoDir
  <2>1. held \in Dirs BY <1>1 DEF Typed
  <2>2. ~Done BY DEF Done, Writing
  <2>3. Fetched(held) BY <1>3, <2>2 DEF PairInv, Follows
  <2>4. ASSUME used.faults = 0, held.erased PROVE BlankFrom(Cur, Log(chip[Cur]) + 1)
    <3>1. BlankFrom(held.pair[1], held.off + 1) BY <1>3, <2>4 DEF PairInv, FaultFree
    <3>2. QED BY <2>3, <3>1 DEF Fetched
  <2>5. QED BY <1>3, <2>1, <2>3, <2>4
<1>4. QED BY <1>2, <1>3

(* Each action keeps the invariant and is a step of the abstract cell or   *)
(* none.                                                                   *)
LEMMA CommitStep ==
  ASSUME PairInv, UsedOK, CommitPair
  PROVE  PairInv' /\ CellStep /\ used'.faults = used.faults
<1>1. Typed /\ Sound /\ Placed /\ Results /\ Follows /\ FaultFree BY DEF PairInv
<1>2. w.at = "idle" /\ UNCHANGED <<chip, ptr, held, since>> /\ res' = "none"
      /\ call' = w'.v /\ pcache' = Cached(w')
  BY DEF CommitPair
<1>3. PICK d \in {Fetch(ptr)} \cup ({held} \ {NoDir}), n \in Sizes, again \in BOOLEAN :
        /\ IF again THEN res = "error" /\ n = w.n ELSE used.commits < MaxCommits
        /\ w' = Started(d, IF again THEN call ELSE call + 1, n, FALSE)
        /\ used' = IF again THEN used ELSE [used EXCEPT !.commits = @ + 1]
  BY DEF CommitPair
<1> DEFINE v == IF again THEN call ELSE call + 1
           x == Begun(d, v, n, FALSE)
<1>4. /\ d \in Dirs /\ Fetched(d)
      /\ used.faults = 0 /\ d.erased => BlankFrom(Cur, Log(chip[Cur]) + 1)
  BY <1>1, <1>2, CommitDirs
<1>5. v \in Nat /\ n \in 1 .. Pages /\ call \in Nat BY <1>1, RegionAssumption DEF Typed
<1>22. w' = Started(d, v, n, FALSE) BY <1>3
<1> HIDE DEF v
<1>6. /\ x \in Commits /\ w' \in Commits
      /\ d.erased => w' = x
      /\ ~d.erased => /\ Moves(x, w') /\ w'.at = "erase" /\ w'.d.rev = (d.rev + 1) % RevMod
  <2>1. FALSE \in BOOLEAN /\ v \in Int BY <1>5
  <2>2. /\ x \in Commits /\ Started(d, v, n, FALSE) \in Commits
        /\ d.erased => Started(d, v, n, FALSE) = x
        /\ ~d.erased => /\ Moves(x, Started(d, v, n, FALSE))
                        /\ Started(d, v, n, FALSE).at = "erase"
                        /\ Started(d, v, n, FALSE).d.rev = (d.rev + 1) % RevMod
    BY ONLY <1>1, <1>4, <1>5, <2>1, StartedFacts, Zenon
  <2>3. QED BY <1>22, <2>2
<1>7. /\ x.at = "append" /\ x.d = d /\ x.v = v /\ x.n = n /\ x.part = 0 /\ ~x.moved
      /\ ~x.fresh
  BY DEF Begun
<1> HIDE DEF x
<1>8. w'.v = v /\ w'.n = n /\ ~w'.fresh /\ call' = v /\ call' \in {call, call + 1}
      /\ w'.at \in {"append", "erase"} /\ w'.part = 0
  BY <1>2, <1>5, <1>6, <1>7 DEF Moves, v
<1>9. Value # v /\ Value <= v /\ Value \in Int
  <2>1. Value \in Int BY <1>1, CurrentLog
  <2>2. Value <= call BY <1>1 DEF Results
  <2>3. again => Value # call BY <1>1, <1>3 DEF Results
  <2>4. QED BY <1>5, <2>1, <2>2, <2>3 DEF v
<1>10. UNCHANGED <<Cur, Oth, Value>> /\ ChipOK' /\ Sound'
       /\ ptr' \in RegionBlock \X RegionBlock
  BY <1>1, <1>2, SameFlash
<1>11. ToSet(ptr) = {Cur, Oth} /\ Cur \in RegionBlock /\ Oth \in RegionBlock /\ Cur # Oth
  BY <1>1, NamedPair
<1>12. used'.faults = used.faults BY <1>3 DEF UsedOK
<1>13. Typed' BY <1>1, <1>2, <1>5, <1>6, <1>8, <1>10 DEF Typed
<1>14. ~Done' /\ ~Taken'
  <2>1. w'.part # w'.n BY <1>5, <1>8
  <2>2. QED BY <1>8, <2>1 DEF Done, Taken
<1>15. d.pair[1] = Cur /\ d.pair[2] = Oth /\ d.rev = chip[Cur][1].rev
       /\ d.off = Log(chip[Cur]) /\ d.rev \in Rev
  BY <1>4 DEF Fetched, Dirs
<1>16. ASSUME d.erased PROVE Placed' /\ Progress' /\ FaultFree'
  <2>1. w'.at = "append" /\ w'.d = d /\ ~w'.moved BY <1>6, <1>7, <1>16
  <2>2. Target' = Cur /\ Off' = d.off BY <2>1, <1>15 DEF Target, Off
  <2>3. Placed' BY <1>2, <1>8, <1>10, <1>11, <1>15, <2>1 DEF Placed
  <2>4. Progress'
    <3>1. Log(chip[Cur]) \in 1 .. Pages /\ Leftover(chip[Cur], Log(chip[Cur]))
      BY <1>1, CurrentLog DEF Sound
    <3>2. Filled(chip[Cur], d.off, Piece(1)', 0) BY DEF Filled
    <3>3. 0 <= w'.n /\ d.off + 0 <= Pages BY <1>5, <1>8, <1>15, <3>1, PagesFacts
    <3>4. QED BY <1>2, <1>8, <1>14, <1>15, <2>1, <2>2, <3>1, <3>2, <3>3 DEF Progress
  <2>5. FaultFree'
    <3>1. SUFFICES ASSUME used'.faults = 0 PROVE
            /\ pcache' = NoPageCache
            /\ BlankFrom(w.d.pair[1], w.d.off + w.part + 1)'
            /\ \A i \in 1 .. w'.part : chip'[Target'][Off' + i] = Piece(i)'
      BY <1>8, <2>1 DEF FaultFree
    <3>2. pcache' = NoPageCache BY <1>1, <1>2, <1>12, <2>1, <3>1 DEF FaultFree, Cached
    <3>3. BlankFrom(Cur, d.off + 1) BY <1>4, <1>12, <1>15, <1>16, <3>1
    <3>4. d.off + 0 + 1 = d.off + 1 BY <1>4 DEF Dirs
    <3>5. BlankFrom(w.d.pair[1], w.d.off + w.part + 1)'
      BY <1>2, <1>8, <1>15, <2>1, <3>3, <3>4 DEF BlankFrom
    <3>6. QED BY <1>8, <3>2, <3>5
  <2>6. QED BY <2>3, <2>4, <2>5
<1>17. ASSUME ~d.erased PROVE Placed' /\ Progress' /\ FaultFree'
  <2>1. w'.at = "erase" /\ Moves(x, w') /\ w'.d.rev = (d.rev + 1) % RevMod
    BY <1>6, <1>17
  <2>2. w'.d.pair[1] = Cur
        /\ \/ w'.d.pair[2] = Oth
           \/ w'.d.pair[2] = Min(Free) /\ Free # {} /\ w'.moved
    BY <1>7, <1>15, <2>1 DEF Moves
  <2>3. /\ w'.d.pair[2] \in RegionBlock /\ w'.d.pair[2] # Cur
        /\ ~w'.moved => w'.d.pair[2] \in ToSet(ptr)
    BY <1>1, <1>11, <2>2, FreeBlocks
  <2>4. Ahead(w'.d.rev, chip[Cur][1].rev) BY <1>15, <2>1, NextAhead
  <2>9. UNCHANGED ToSet(ptr) BY <1>2
  <2>5. Placed'
    <3> DEFINE s == w'.d.pair[1]
               t == w'.d.pair[2]
    <3>1. s = Cur /\ s \in RegionBlock /\ t \in RegionBlock /\ s # t /\ s \in ToSet(ptr')
          /\ s = Cur' /\ chip'[s][1].rev = chip[Cur][1].rev
      BY <1>2, <1>10, <1>11, <2>2, <2>3, <2>9
    <3>2. ~w'.moved => t \in ToSet(ptr') BY <2>3, <2>9
    <3>3. Ahead(w'.d.rev, chip'[s][1].rev) BY <2>4, <3>1
    <3> HIDE DEF s, t
    <3>4. w'.at = "erase" /\ ~w'.fresh /\ w'.part = 0 BY <1>8, <2>1
    <3>5. QED BY <3>1, <3>2, <3>3, <3>4 DEF Placed, s, t
  <2>6. Progress' BY <2>1 DEF Progress, Writing
  <2>7. FaultFree' BY <1>2, <1>8, <2>1 DEF FaultFree, Writing, Cached
  <2>8. QED BY <2>5, <2>6, <2>7
<1>18. Results' BY <1>2, <1>8, <1>9, <1>10 DEF Results
<1>19. Follows'
  <2>1. ~Done BY <1>2 DEF Done, Writing
  <2>2. held # NoDir => Fetched(held) BY <1>1, <1>2, <2>1 DEF Follows
  <2>3. held' # NoDir => Fetched(held)' BY <1>2, <1>10, <2>2 DEF Fetched
  <2>4. QED BY <1>8, <2>3 DEF Follows
<1>20. CellStep
  <2>1. res # "none" BY <1>1, <1>2 DEF Results
  <2>2. Cell!Begin BY <1>2, <1>8, <1>10, <2>1 DEF Cell!Begin
  <2>3. QED BY <2>2 DEF CellStep, Cell!Next
<1>21. QED BY <1>10, <1>12, <1>13, <1>16, <1>17, <1>18, <1>19, <1>20 DEF PairInv

LEMMA AllocStep ==
  ASSUME PairInv, UsedOK, AllocPair
  PROVE  /\ PairInv' /\ CellStep
         /\ w'.at = "erase" /\ w'.fresh /\ w'.d.pair[1] \in Free /\ w'.d.pair[2] \in Free
<1>1. Typed /\ Sound /\ Placed /\ Results /\ Follows /\ FaultFree BY DEF PairInv
<1> DEFINE b == Min(Free)
           a == Min(Free \ {b})
           d == [pair |-> <<a, b>>, rev |-> AlignUp(chip[a][1].rev), v |-> -1,
                 off |-> 0, erased |-> FALSE]
<1>2. w.at = "idle" /\ UNCHANGED <<chip, ptr, held, since>> /\ res' = "none"
      /\ call' = call + 1 /\ pcache' = NoPageCache /\ Cardinality(Free) >= 2
      /\ used' = [used EXCEPT !.commits = @ + 1]
  BY DEF AllocPair
<1>3. PICK n \in Sizes : w' = Started(d, call + 1, n, TRUE) BY DEF AllocPair
<1>4. /\ a \in RegionBlock /\ b \in RegionBlock /\ a # b /\ Free # {}
      /\ a \notin ToSet(ptr) /\ b \notin ToSet(ptr) /\ a \in Free /\ b \in Free
  <2>1. Free # {} /\ Free \ {b} # {}
    <3>1. SUFFICES ASSUME Free \ {b} = {} \/ Free = {} PROVE FALSE OBVIOUS
    <3>2. Free = {b} \/ Free = {} BY <3>1
    <3>3. Cardinality(Free) = 1 \/ Cardinality(Free) = 0
      BY <3>2, FS_Singleton, FS_EmptySet
    <3>4. QED BY <1>2, <3>3
  <2>2. Free \in SUBSET RegionBlock /\ Free \ {b} \in SUBSET RegionBlock BY <1>1, FreeBlocks
  <2>3. b \in Free /\ a \in Free \ {b} BY <2>1, <2>2, FreeFacts
  <2> HIDE DEF a, b
  <2>4. QED BY <1>1, <2>1, <2>3, FreeBlocks
<1>5. chip[a][1].rev \in Rev
  <2>1. 1 \in 1 .. Pages BY PagesFacts
  <2>2. chip[a] \in BlockContent BY <1>1, <1>4 DEF Typed, ChipOK
  <2>3. QED BY <2>1, <2>2, ContentFacts
<1>6. AlignUp(chip[a][1].rev) \in Rev
      /\ Ahead((AlignUp(chip[a][1].rev) + 1) % RevMod, chip[a][1].rev)
  BY <1>5, AlignedAhead
<1>7. d \in Dirs
  <2>1. a \in 0 .. Blocks /\ b \in 0 .. Blocks /\ 0 \in 0 .. Pages BY <1>4, BlockFacts, PagesFacts
  <2> HIDE DEF a, b
  <2>2. QED BY <1>6, <2>1 DEF Dirs
<1>8. d.pair[1] = a /\ d.pair[2] = b /\ d.rev = AlignUp(chip[a][1].rev) /\ ~d.erased
  OBVIOUS
<1> DEFINE x == Begun(d, call + 1, n, TRUE)
<1> HIDE DEF d
<1>9. /\ w' \in Commits /\ Moves(x, w') /\ w'.at = "erase"
      /\ w'.d.rev = (d.rev + 1) % RevMod
  <2>1. TRUE \in BOOLEAN /\ call + 1 \in Int BY <1>1 DEF Typed
  <2>2. n \in 1 .. Pages BY RegionAssumption
  <2>3. /\ Started(d, call + 1, n, TRUE) \in Commits
        /\ ~d.erased => /\ Moves(x, Started(d, call + 1, n, TRUE))
                        /\ Started(d, call + 1, n, TRUE).at = "erase"
                        /\ Started(d, call + 1, n, TRUE).d.rev = (d.rev + 1) % RevMod
    BY ONLY <1>1, <1>7, <2>1, <2>2, StartedFacts, Zenon
  <2>4. QED BY <1>3, <1>8, <2>3
<1>10. x.d = d /\ x.v = call + 1 /\ x.n = n /\ x.fresh BY DEF Begun
<1> HIDE DEF x, a, b
<1>11. /\ w'.d.pair[1] = a /\ w'.d.pair[2] = b /\ w'.v = call + 1 /\ w'.fresh /\ w'.part = 0
       /\ Ahead(w'.d.rev, chip[a][1].rev)
  BY <1>6, <1>8, <1>9, <1>10 DEF Moves, b
<1>12. UNCHANGED <<Cur, Oth, Value>> /\ ChipOK' /\ Sound'
       /\ ptr' \in RegionBlock \X RegionBlock
  BY <1>1, <1>2, SameFlash
<1>13. Typed' BY <1>1, <1>2, <1>9, <1>12 DEF Typed
<1>14. ~Done' /\ ~Taken' /\ ~Writing' BY <1>9 DEF Done, Taken, Writing
<1>15. UNCHANGED ToSet(ptr) BY <1>2
<1>16. Placed'
  <2> DEFINE s == w'.d.pair[1]
             t == w'.d.pair[2]
  <2>1. /\ s \in RegionBlock /\ t \in RegionBlock /\ s # t
        /\ s \notin ToSet(ptr') /\ t \notin ToSet(ptr')
        /\ Ahead(w'.d.rev, chip'[s][1].rev)
    BY <1>2, <1>4, <1>11, <1>15
  <2> HIDE DEF s, t
  <2>2. QED BY <1>9, <1>11, <2>1 DEF Placed, s, t
<1>17. Progress' BY <1>14 DEF Progress
<1>18. FaultFree'
  <2>1. used'.faults = used.faults BY <1>2 DEF UsedOK
  <2>2. ASSUME used'.faults = 0, held # NoDir, held.erased
        PROVE  BlankFrom(held.pair[1], held.off + 1)'
    <3>1. BlankFrom(held.pair[1], held.off + 1) BY <1>1, <1>2, <2>1, <2>2 DEF FaultFree
    <3>2. QED BY <1>2, <3>1 DEF BlankFrom
  <2>3. QED BY <1>2, <1>9, <1>14, <2>2 DEF FaultFree
<1>19. Value <= call /\ Value \in Int /\ call \in Nat
  BY <1>1, CurrentLog DEF Results, Typed
<1>20. Results' BY <1>2, <1>9, <1>11, <1>12, <1>19 DEF Results
<1>21. Follows'
  <2>1. ~Done BY <1>2 DEF Done, Writing
  <2>2. held # NoDir => Fetched(held) BY <1>1, <1>2, <2>1 DEF Follows
  <2>3. held' # NoDir => Fetched(held)' BY <1>2, <1>12, <2>2 DEF Fetched
  <2>4. QED BY <1>11, <2>3 DEF Follows
<1>22. CellStep
  <2>1. res # "none" BY <1>1, <1>2 DEF Results
  <2>2. Cell!Begin BY <1>2, <1>12, <2>1 DEF Cell!Begin
  <2>3. QED BY <2>2 DEF CellStep, Cell!Next
<1>23. QED BY <1>4, <1>9, <1>11, <1>12, <1>13, <1>16, <1>17, <1>18, <1>20, <1>21, <1>22 DEF PairInv

LEMMA OpenStep ==
  ASSUME PairInv, OpenDir
  PROVE  PairInv' /\ CellStep
<1>1. Typed /\ Sound /\ Placed /\ Progress /\ Results /\ FaultFree BY DEF PairInv
<1>2. w.at = "idle" /\ held' = Fetch(ptr)
      /\ UNCHANGED <<chip, ptr, pcache, w, since, used, call, res>>
  BY DEF OpenDir
<1>3. /\ held' \in Dirs /\ Fetched(held')
      /\ held'.erased => BlankFrom(Cur, Log(chip[Cur]) + 1)
  BY <1>1, <1>2, FetchFacts
<1>4. UNCHANGED <<Cur, Oth, Value>> /\ ChipOK' /\ Sound'
  BY <1>1, <1>2, SameFlash
<1>5. Typed' BY <1>1, <1>2, <1>3, <1>4 DEF Typed
<1>6. Placed' BY <1>2 DEF Placed
<1>7. Progress' BY <1>2 DEF Progress, Writing
<1>8. Results' BY <1>1, <1>2, <1>4 DEF Results, Taken, Done, Writing
<1>9. Fetched(held)' BY <1>2, <1>3, <1>4 DEF Fetched
<1>10. Follows' BY <1>2, <1>9 DEF Follows
<1>11. FaultFree'
  <2>1. ASSUME held'.erased PROVE BlankFrom(held.pair[1], held.off + 1)'
    <3>1. BlankFrom(Cur, Log(chip[Cur]) + 1) BY <1>3, <2>1
    <3>2. held'.pair[1] = Cur /\ held'.off = Log(chip[Cur]) BY <1>3 DEF Fetched
    <3>3. QED BY <1>2, <3>1, <3>2 DEF BlankFrom
  <2>2. QED BY <1>1, <1>2, <2>1 DEF FaultFree, Writing
<1>12. CellStep BY <1>2, <1>4 DEF CellStep
<1>13. QED BY <1>4, <1>5, <1>6, <1>7, <1>8, <1>10, <1>11, <1>12 DEF PairInv

-----------------------------------------------------------------------------
(* One block changes, but not what a fetch of the pair reads. *)
LEMMA BlockChanged ==
  ASSUME Typed, Sound, NEW b \in RegionBlock, NEW h \in BlockContent,
         chip' = [chip EXCEPT ![b] = h], UNCHANGED ptr,
         b = Oth => Log(h) = 0,
         b = Cur => /\ Log(h) = Log(chip[Cur]) /\ Leftover(h, Log(h))
                    /\ Agree(chip[Cur], h, Log(h))
  PROVE  /\ ChipOK' /\ Sound' /\ UNCHANGED <<Cur, Oth, Value>>
         /\ ptr' \in RegionBlock \X RegionBlock
         /\ chip'[b] = h /\ \A c \in RegionBlock : c # b => chip'[c] = chip[c]
         /\ chip'[Cur][1] = chip[Cur][1] /\ Log(chip'[Cur]) = Log(chip[Cur])
<1>1. chip'[b] = h /\ \A c \in RegionBlock : c # b => chip'[c] = chip[c]
  BY DEF Typed, ChipOK
<1>2. ChipOK' BY DEF Typed, ChipOK
<1>3. Cur \in RegionBlock /\ Oth \in RegionBlock /\ Cur # Oth BY NamedPair
<1>4. Log(chip'[Cur]) = Log(chip[Cur]) /\ Agree(chip[Cur], chip'[Cur], Log(chip[Cur]))
      /\ Leftover(chip'[Cur], Log(chip'[Cur]))
  <2>1. CASE b = Cur BY <1>1, <2>1
  <2>2. CASE b # Cur BY <1>1, <1>3, <2>2 DEF Agree, Sound
  <2>3. QED BY <2>1, <2>2
<1>5. chip'[Oth] = chip[Oth] \/ Log(chip'[Oth]) = 0 BY <1>1, <1>3
<1>6. Current(Cur, Oth)' /\ UNCHANGED <<Cur, Oth, Value>>
  BY <1>2, <1>4, <1>5, StaysCurrent DEF Typed, Sound
<1>7. Sound' BY <1>4, <1>6 DEF Sound
<1>8. chip'[Cur][1] = chip[Cur][1]
  <2>1. 1 \in 1 .. Log(chip[Cur]) BY CurrentLog, PagesFacts
  <2>2. QED BY <1>4, <2>1 DEF Agree
<1>9. QED BY <1>1, <1>2, <1>4, <1>6, <1>7, <1>8 DEF Typed

(* A commit ends, and what a fetch reads stays. *)
LEMMA Ended ==
  ASSUME PairInv, NEW r \in {"ok", "error", "nospace", "lost"}, res' = r,
         ChipOK', Sound', UNCHANGED <<Cur, Oth, Value, ptr, call>>,
         chip'[Cur][1] = chip[Cur][1], Log(chip'[Cur]) = Log(chip[Cur]),
         w' = NoCommit \/ w' = [NoCommit EXCEPT !.n = w.n],
         r \in {"error", "nospace"} => Value # call,
         held' = NoDir \/ (held' = held /\ Fetched(held)),
         used'.faults = 0 =>
           /\ pcache' = NoPageCache
           /\ held' # NoDir /\ held'.erased => BlankFrom(held.pair[1], held.off + 1)'
  PROVE  PairInv'
<1>1. Typed /\ Results BY DEF PairInv
<1>2. w' \in Commits /\ w'.at = "idle"
  <2>1. w.n \in 1 .. Pages BY <1>1 DEF Typed, Commits
  <2>2. NoCommit \in Commits /\ NoCommit.at = "idle" BY NoneTypes
  <2>3. QED BY <2>1, <2>2 DEF Commits
<1>3. held' \in Dirs BY <1>1, NoneTypes DEF Typed
<1>4. ptr' \in RegionBlock \X RegionBlock /\ call' \in Nat BY <1>1 DEF Typed
<1>5. Typed' BY <1>2, <1>3, <1>4 DEF Typed
<1>6. ~Writing' /\ ~Done' /\ ~Taken' BY <1>2 DEF Writing, Done, Taken
<1>7. Placed' BY <1>2 DEF Placed
<1>8. Progress' BY <1>6 DEF Progress
<1>9. Results' BY <1>1, <1>2 DEF Results
<1>10. Follows'
  <2>1. held' # NoDir => Fetched(held)' BY DEF Fetched
  <2>2. QED BY <1>2, <2>1 DEF Follows
<1>11. FaultFree' BY <1>2, <1>6 DEF FaultFree
<1>12. QED BY <1>5, <1>7, <1>8, <1>9, <1>10, <1>11 DEF PairInv

(* What an open file keeps, while no commit that changes it is under way.  *)
LEMMA HeldFetched ==
  ASSUME PairInv, ~Done \/ w.fresh, w.at = "publish" => w.fresh
  PROVE  held # NoDir => Fetched(held)
<1>1. Placed /\ Follows /\ Typed BY DEF PairInv
<1>2. CASE ~Done BY <1>1, <1>2 DEF Follows
<1>3. CASE Done /\ w.fresh
  <2>1. Target \notin ToSet(ptr)
    <3>1. Writing BY <1>3 DEF Done
    <3>2. QED BY <1>1, <1>3, <3>1, WritingPlaces DEF Placed, Writing
  <2>2. QED BY <1>1, <1>3, <2>1 DEF Follows
<1>4. QED BY <1>2, <1>3

LEMMA ReturnStep ==
  ASSUME PairInv, Return
  PROVE  PairInv' /\ CellStep
<1>1. w.at = "return" /\ End("ok") /\ UNCHANGED <<chip, ptr, held, pcache, since, used, call>>
  BY DEF Return
<1>2. res' = "ok" /\ w' = [NoCommit EXCEPT !.n = w.n] BY <1>1 DEF End
<1>3. Typed /\ Sound /\ FaultFree /\ Results BY DEF PairInv
<1>4. UNCHANGED <<Cur, Oth, Value>> /\ ChipOK' /\ Sound' BY <1>1, <1>3, SameFlash
<1>5. ~Done BY <1>1 DEF Done, Writing
<1>6. held # NoDir => Fetched(held) BY <1>1, <1>5, HeldFetched
<1>7. ASSUME used'.faults = 0
      PROVE  /\ pcache' = NoPageCache
             /\ held' # NoDir /\ held'.erased => BlankFrom(held.pair[1], held.off + 1)'
  BY <1>1, <1>3, <1>7 DEF FaultFree, BlankFrom
<1>8. chip'[Cur] = chip[Cur] BY <1>1
<1>9. PairInv' BY <1>1, <1>2, <1>4, <1>6, <1>7, <1>8, Ended
<1>10. Cell!End BY <1>1, <1>2, <1>3, <1>4 DEF Cell!End, Results
<1>11. QED BY <1>9, <1>10 DEF CellStep, Cell!Next

LEMMA NoSpaceStep ==
  ASSUME PairInv, NoSpace
  PROVE  PairInv' /\ CellStep
<1>1. w.at = "nospace" /\ End("nospace")
      /\ UNCHANGED <<chip, ptr, held, pcache, since, used, call>>
  BY DEF NoSpace
<1>2. res' = "nospace" /\ w' = [NoCommit EXCEPT !.n = w.n] BY <1>1 DEF End
<1>3. Typed /\ Sound /\ FaultFree /\ Results BY DEF PairInv
<1>4. UNCHANGED <<Cur, Oth, Value>> /\ ChipOK' /\ Sound' BY <1>1, <1>3, SameFlash
<1>5. ~Done /\ ~Taken BY <1>1 DEF Done, Writing, Taken
<1>6. held # NoDir => Fetched(held) BY <1>1, <1>5, HeldFetched
<1>7. used'.faults # 0 BY <1>1, <1>3 DEF FaultFree
<1>8. chip'[Cur] = chip[Cur] BY <1>1
<1>9. res = "none" /\ Value # call BY <1>1, <1>3, <1>5 DEF Results
<1>10. PairInv' BY <1>1, <1>2, <1>4, <1>6, <1>7, <1>8, <1>9, Ended
<1>11. Cell!End BY <1>1, <1>2, <1>4, <1>9 DEF Cell!End
<1>12. QED BY <1>10, <1>11 DEF CellStep, Cell!Next

(* An append that finds no room, or is not read back, becomes a            *)
(* compaction.                                                             *)
LEMMA Compacts ==
  ASSUME PairInv, UNCHANGED <<chip, ptr, held, since, used, call, res>>,
         w.at = "append", ~Done, w' = Compacting(w), pcache' = NoPageCache
  PROVE  PairInv' /\ CellStep
<1>1. Typed /\ Sound /\ Placed /\ Results /\ FaultFree BY DEF PairInv
<1>2. w \in Commits BY <1>1 DEF Typed
<1>3. Moves(w, w') /\ w'.d.rev = (w.d.rev + 1) % RevMod /\ w'.at = "erase"
  BY <1>1, <1>2, CompactingFacts
<1>4. /\ w.d.pair[1] = Cur /\ w.d.pair[2] = Oth /\ w.d.rev = chip[Cur][1].rev
      /\ ~w.fresh /\ ~w.moved
  BY <1>1 DEF Placed
<1>5. /\ ToSet(ptr) = {Cur, Oth} /\ Cur \in RegionBlock /\ Oth \in RegionBlock /\ Cur # Oth
      /\ chip[Cur][1].rev \in Rev
  BY <1>1, NamedPair, CurrentLog
<1>6. UNCHANGED <<Cur, Oth, Value>> /\ ChipOK' /\ Sound'
      /\ ptr' \in RegionBlock \X RegionBlock
  BY <1>1, SameFlash
<1>7. /\ w' \in Commits /\ w'.v = w.v /\ w'.d.pair[1] = Cur /\ ~w'.fresh /\ w'.part = 0
      /\ \/ w'.d.pair[2] = Oth
         \/ w'.d.pair[2] = Min(Free) /\ Free # {} /\ w'.moved
  BY <1>3, <1>4 DEF Moves
<1>8. Typed' BY <1>1, <1>6, <1>7 DEF Typed
<1>9. ~Writing' /\ ~Done' /\ ~Taken' BY <1>3 DEF Writing, Done, Taken
<1>10. Placed'
  <2> DEFINE s == w'.d.pair[1]
             t == w'.d.pair[2]
  <2>1. UNCHANGED ToSet(ptr) OBVIOUS
  <2>2. /\ t \in RegionBlock /\ t # Cur
        /\ ~w'.moved => t \in ToSet(ptr')
    BY <1>1, <1>5, <1>7, <2>1, FreeBlocks
  <2>3. Ahead(w'.d.rev, chip[Cur][1].rev) BY <1>3, <1>4, <1>5, NextAhead
  <2>4. /\ s = Cur /\ s = Cur' /\ s \in RegionBlock /\ s # t /\ s \in ToSet(ptr')
        /\ Ahead(w'.d.rev, chip'[s][1].rev)
    BY <1>5, <1>6, <1>7, <2>1, <2>2, <2>3
  <2> HIDE DEF s, t
  <2>5. QED BY <1>3, <1>7, <2>2, <2>4 DEF Placed, s, t
<1>11. Progress' BY <1>9 DEF Progress
<1>12. ~Taken
  <2>1. QED BY DEF Taken
<1>13. Results' BY <1>1, <1>3, <1>6, <1>7, <1>12 DEF Results
<1>14. Follows'
  <2>1. held # NoDir => Fetched(held) BY HeldFetched
  <2>2. held' # NoDir => Fetched(held)' BY <1>6, <2>1 DEF Fetched
  <2>3. QED BY <1>3, <2>2 DEF Follows
<1>15. FaultFree' BY <1>3, <1>7, <1>9 DEF FaultFree
<1>16. CellStep BY <1>6 DEF CellStep
<1>17. QED BY <1>6, <1>8, <1>10, <1>11, <1>13, <1>14, <1>15, <1>16 DEF PairInv

LEMMA NoRoomStep ==
  ASSUME PairInv, NoRoom
  PROVE  PairInv' /\ CellStep
<1>1. /\ w.at = "append" /\ w.part < w.n /\ w' = Compacting(w) /\ pcache' = NoPageCache
      /\ UNCHANGED <<chip, ptr, held, since, used, call, res>>
  BY DEF NoRoom
<1>2. ~Done
  <2>1. w.part \in 0 .. Pages /\ w.n \in 1 .. Pages BY DEF PairInv, Typed, Commits
  <2>2. QED BY <1>1, <2>1 DEF Done
<1>3. QED BY <1>1, <1>2, Compacts

(* A block that begins with no commit has no log. *)
LEMMA BlankBlock ==
  ASSUME NEW h \in BlockContent, h[1].is # "piece"
  PROVE  Log(h) = 0
<1>1. ~Whole(h, 1) BY DEF Whole
<1>2. QED BY <1>1, LogEmpty

Blanks == [p \in 1 .. Pages |-> BlankPage]
LEMMA BlanksFacts ==
  /\ BlankPage \in Content /\ BlankPage.is = "blank" /\ Blanks \in BlockContent
  /\ Log(Blanks) = 0 /\ Leftover(Blanks, 0)
<1>1. BlankPage.is = "blank" BY DEF BlankPage, Page
<1>2. RevMod - 1 \in Rev /\ 0 \in 0 .. Pages BY RevisionFacts, PagesFacts DEF Rev
<1>3. BlankPage \in Content
  <2>1. "blank" \in State /\ "" \in PageKind /\ -1 \in Int BY DEF State, PageKind
  <2>2. BlankPage \in [is : State, v : Int, part : 0 .. Pages, of : 0 .. Pages, rev : Rev,
                       next : PageKind]
    BY <1>2, <2>1 DEF BlankPage, Page
  <2>3. QED BY <1>1, <2>2 DEF Content
<1>4. Blanks \in BlockContent BY <1>3 DEF Blanks, BlockContent
<1>5. 1 \in 1 .. Pages BY PagesFacts
<1>6. Blanks[1].is # "piece" BY <1>1, <1>5 DEF Blanks
<1>7. Log(Blanks) = 0 BY <1>4, <1>6, BlankBlock
<1>8. \A p \in 1 .. Pages : Blanks[p] = BlankPage BY DEF Blanks
<1>9. Leftover(Blanks, 0)
  <2> SUFFICES ASSUME NEW p \in 0 + 1 .. Pages
               PROVE  /\ Blanks[p].is # "piece"
                      /\ \A q \in p .. Pages : Blanks[q] = BlankPage
    BY DEF Leftover
  <2>1. p \in 1 .. Pages /\ \A q \in p .. Pages : q \in 1 .. Pages BY PagesFacts
  <2>2. QED BY <1>1, <1>8, <2>1
<1>10. QED BY <1>1, <1>3, <1>4, <1>7, <1>9

(* While a block is erased, the newer one is another. *)
LEMMA EraseTarget ==
  ASSUME PairInv, w.at = "erase"
  PROVE  /\ w.d.pair[2] \in RegionBlock /\ w.d.pair[2] # Cur /\ ~Done /\ ~Writing /\ ~Taken
         /\ res = "none" /\ Value # call /\ w.v = call /\ w.part = 0
         /\ held # NoDir => Fetched(held)
<1>1. Typed /\ Sound /\ Placed /\ Results BY DEF PairInv
<1>2. ~Done /\ ~Writing /\ ~Taken BY DEF Done, Writing, Taken
<1>3. w.d.pair[2] # Cur
  <2>1. ToSet(ptr) = {Cur, Oth} BY <1>1, NamedPair
  <2>2. CASE w.fresh BY <1>1, <2>1, <2>2 DEF Placed
  <2>3. CASE ~w.fresh BY <1>1, <1>2, <2>3 DEF Placed
  <2>4. QED BY <2>2, <2>3
<1>4. w.d.pair[2] \in RegionBlock /\ w.part = 0 BY <1>1 DEF Placed
<1>5. res = "none" /\ Value # call /\ w.v = call BY <1>1, <1>2 DEF Results
<1>6. held # NoDir => Fetched(held) BY <1>2, HeldFetched
<1>7. QED BY <1>2, <1>3, <1>4, <1>5, <1>6

LEMMA EraseStep ==
  ASSUME PairInv, UsedOK, EraseBlock
  PROVE  PairInv' /\ CellStep /\ Stays
<1> DEFINE t == w.d.pair[2]
           s == w.d.pair[1]
<1>1. Typed /\ Sound /\ Placed /\ Results /\ FaultFree BY DEF PairInv
<1>2. w.at = "erase" /\ UNCHANGED <<ptr, held, pcache, since, call>> BY DEF EraseBlock
<1>3. /\ t \in RegionBlock /\ t # Cur /\ ~Done /\ ~Writing /\ ~Taken
      /\ res = "none" /\ Value # call /\ w.v = call /\ w.part = 0
      /\ held # NoDir => Fetched(held)
  BY <1>2, EraseTarget
<1>4. CASE chip' = [chip EXCEPT ![t] = Blanks] /\ w' = [w EXCEPT !.at = "write"]
           /\ UNCHANGED <<used, res>>
  <2>1. /\ ChipOK' /\ Sound' /\ UNCHANGED <<Cur, Oth, Value>>
        /\ ptr' \in RegionBlock \X RegionBlock
        /\ chip'[t] = Blanks /\ \A c \in RegionBlock : c # t => chip'[c] = chip[c]
        /\ chip'[Cur][1] = chip[Cur][1] /\ Log(chip'[Cur]) = Log(chip[Cur])
    <3> HIDE DEF t
    <3>1. QED BY <1>1, <1>2, <1>3, <1>4, BlanksFacts, BlockChanged
  <2>2. /\ w' \in Commits /\ w'.at = "write" /\ w'.d = w.d /\ w'.part = 0 /\ w'.n = w.n
        /\ w'.v = w.v /\ w'.moved = w.moved /\ w'.fresh = w.fresh /\ w.n \in 1 .. Pages
    BY <1>1, <1>3, <1>4 DEF Typed, Commits
  <2>3. Typed' BY <1>1, <1>2, <1>4, <2>1, <2>2 DEF Typed
  <2>4. Writing' /\ ~Done' /\ ~Taken'
    <3>1. w'.part # w'.n BY <2>2
    <3>2. QED BY <2>2, <3>1 DEF Writing, Done, Taken
  <2>5. Target' = t /\ Off' = 0 BY <2>2 DEF Target, Off
  <2>6. UNCHANGED ToSet(ptr) BY <1>2
  <2>7. Placed'
    <3>1. /\ s \in RegionBlock /\ s # t /\ t \in RegionBlock
          /\ w.fresh => s \notin ToSet(ptr) /\ t \notin ToSet(ptr)
          /\ Ahead(w.d.rev, chip[s][1].rev)
          /\ ~w.fresh => s \in ToSet(ptr) /\ s = Cur
          /\ ~w.moved /\ ~w.fresh => t \in ToSet(ptr)
      BY <1>1, <1>2, <1>3 DEF Placed
    <3>2. chip'[s] = chip[s] BY <2>1, <3>1
    <3>3. s = w'.d.pair[1] /\ t = w'.d.pair[2] BY <2>2
    <3> HIDE DEF s, t
    <3>4. QED BY <2>1, <2>2, <2>6, <3>1, <3>2, <3>3 DEF Placed
  <2>8. Progress'
    <3>1. Filled(Blanks, 0, Piece(1)', 0) BY DEF Filled
    <3>2. \A q \in 0 + 1 .. Pages : Blanks[q] = BlankPage BY PagesFacts DEF Blanks
    <3>3. 0 <= w'.n /\ 0 + 0 <= Pages BY <2>2, PagesFacts
    <3>4. QED BY <2>1, <2>2, <2>4, <2>5, <3>1, <3>2, <3>3, BlanksFacts DEF Progress, BlankFrom
  <2>9. Results' BY <1>1, <1>2, <1>3, <1>4, <2>1, <2>2 DEF Results
  <2>10. Follows'
    <3>1. held' # NoDir => Fetched(held)' BY <1>2, <1>3, <2>1 DEF Fetched
    <3>2. QED BY <2>2, <3>1 DEF Follows
  <2>11. FaultFree'
    <3>1. ASSUME used'.faults = 0, held # NoDir, held.erased, w.fresh
          PROVE  BlankFrom(held.pair[1], held.off + 1)'
      <4>1. BlankFrom(held.pair[1], held.off + 1) BY <1>1, <1>4, <3>1 DEF FaultFree
      <4>2. held.pair[1] = Cur BY <1>3, <3>1 DEF Fetched
      <4>3. Cur \in RegionBlock BY <1>1, NamedPair
      <4>4. chip'[Cur] = chip[Cur] BY <1>3, <2>1, <4>3
      <4>5. QED BY <1>2, <4>1, <4>2, <4>4 DEF BlankFrom
    <3>2. QED BY <1>1, <1>2, <1>4, <2>2, <3>1 DEF FaultFree
  <2>12. CellStep BY <1>2, <1>4, <2>1 DEF CellStep
  <2>13. QED BY <2>1, <2>3, <2>7, <2>8, <2>9, <2>10, <2>11, <2>12 DEF PairInv, Stays
<1>5. CASE used' = [used EXCEPT !.faults = @ + 1] /\ End("error") /\ UNCHANGED chip
  <2>1. res' = "error" /\ w' = [NoCommit EXCEPT !.n = w.n] BY <1>5 DEF End
  <2>2. UNCHANGED <<Cur, Oth, Value>> /\ ChipOK' /\ Sound' BY <1>1, <1>2, <1>5, SameFlash
  <2>3. used'.faults # 0 BY <1>5 DEF UsedOK
  <2>4. chip'[Cur] = chip[Cur] BY <1>5
  <2>5. PairInv' BY <1>2, <1>3, <2>1, <2>2, <2>3, <2>4, Ended
  <2>6. Cell!End BY <1>2, <1>3, <2>1, <2>2 DEF Cell!End
  <2>7. QED BY <2>2, <2>4, <2>5, <2>6 DEF CellStep, Cell!Next, Stays
<1>6. QED BY <1>4, <1>5 DEF EraseBlock, Blanks

PieceShape ==
  /\ First(Piece(1)) /\ Piece(1).of = w.n
  /\ ReadsBack <=> Complete(chip[Target], Off, Piece(1))
(* The commit in progress is the one that is read back. *)
LEMMA PieceShapes == Typed /\ Writing /\ Target \in RegionBlock => PieceShape
  BY PieceFacts DEF PieceShape
LEMMA PieceShapesNext == Typed' /\ Writing' /\ (Target \in RegionBlock)' => PieceShape'
  BY PieceShapes, PTL

(* The page of the commit that is programmed next. *)
NextPage == Off + w.part + 1

(* What holds while a commit is being programmed. *)
LEMMA WritingFacts ==
  ASSUME PairInv, Writing, w.part < w.n
  PROVE  /\ Target \in RegionBlock /\ chip[Target] \in BlockContent
         /\ First(Piece(1)) /\ Piece(1).of = w.n /\ Piece(1).v = w.v /\ Piece(1).rev = w.d.rev
         /\ w.n \in 1 .. Pages /\ w.part \in 0 .. w.n - 1 /\ Off \in 0 .. Pages
         /\ Place(w.part + 1) = NextPage /\ Piece(w.part + 1) = Part(Piece(1), w.part + 1)
         /\ Filled(chip[Target], Off, Piece(1), w.part)
         /\ Closed(chip[Target], Off) /\ Log(chip[Target]) = Off
         /\ ~Done /\ ~Taken /\ res = "none" /\ Value # call /\ w.v = call
         /\ w.at = "append" <=> Target = Cur
         /\ w.at = "append" => Off > 0
         /\ held # NoDir => Fetched(held)
<1>1. Typed /\ Sound /\ Placed /\ Progress /\ Results BY DEF PairInv
<1>2. Target \in RegionBlock /\ w.d.pair[1] \in RegionBlock /\ w.d.pair[2] \in RegionBlock
      /\ (w.at = "append" => Target = w.d.pair[1]) /\ (w.at = "write" => Target = w.d.pair[2])
  BY <1>1, WritingPlaces
<1>3. /\ First(Piece(1)) /\ Piece(1).of = w.n /\ Piece(1).v = w.v /\ Piece(1).rev = w.d.rev
      /\ \A i : Piece(i) = Part(Piece(1), i)
      /\ \A i \in Nat : Place(i) = Off + i
      /\ Off \in 0 .. Pages /\ w.n \in 1 .. Pages /\ w.part \in 0 .. Pages
      /\ chip[Target] \in BlockContent
  BY <1>1, <1>2, PieceFacts
<1>4. w.part \in 0 .. w.n - 1 /\ w.part + 1 \in Nat /\ w.part # w.n
      /\ Off + (w.part + 1) = Off + w.part + 1
  BY <1>3, PagesFacts
<1>5. ~Done /\ ~Taken BY <1>4 DEF Done, Taken, Writing
<1>6. /\ Filled(chip[Target], Off, Piece(1), w.part) /\ Log(chip[Target]) = Off
      /\ Leftover(chip[Target], Off)
  BY <1>1, <1>5 DEF Progress
<1>7. Closed(chip[Target], Off) BY <1>3, <1>6, LogFacts DEF Closed
<1>8. res = "none" /\ Value # call /\ w.v = call BY <1>1, <1>5 DEF Results, Writing
<1>9. w.at = "append" <=> Target = Cur
  <2>1. ToSet(ptr) = {Cur, Oth} BY <1>1, NamedPair
  <2>2. w.at = "append" => Target = Cur BY <1>1, <1>2 DEF Placed
  <2>3. CASE w.at = "write"
    <3>1. w.d.pair[1] # w.d.pair[2] /\ w.at # "append" BY <1>1, <2>3 DEF Placed
    <3>2. CASE w.fresh BY <1>1, <1>2, <2>1, <2>3, <3>1, <3>2 DEF Placed
    <3>3. CASE ~w.fresh
      <4>1. w.d.pair[1] = Cur BY <1>1, <1>5, <2>3, <3>3 DEF Placed
      <4>2. QED BY <1>2, <2>3, <3>1, <4>1
    <3>4. QED BY <3>2, <3>3
  <2>4. QED BY <2>2, <2>3 DEF Writing
<1>10. w.at = "append" => Off > 0
  <2>1. Log(chip[Cur]) \in 1 .. Pages BY <1>1, CurrentLog
  <2>2. QED BY <1>6, <1>9, <2>1
<1>11. held # NoDir => Fetched(held) BY <1>5, HeldFetched DEF Writing
<1>12. QED BY <1>2, <1>3, <1>4, <1>5, <1>6, <1>7, <1>8, <1>9, <1>10, <1>11 DEF NextPage

(* What an interrupted program leaves is a page. *)
LEMMA TornFacts ==
  /\ \A x : First(x) => \A i \in 1 .. x.of :
       TornPage(Part(x, i).rev) \in Content /\ TornPage(Part(x, i).rev).is = "torn"
  /\ \A r \in Rev : /\ TornPage(r) \in Content /\ TornPage(r).is = "torn"
                     /\ GhostPage(r) \in Content /\ GhostPage(r).is = "ghost"
<1> DEFINE Junk(k, r) == [is |-> k, v |-> -1, part |-> 0, of |-> 0, rev |-> r, next |-> ""]
<1>1. ASSUME NEW r \in Rev
      PROVE  /\ TornPage(r) \in Content /\ TornPage(r).is = "torn"
             /\ GhostPage(r) \in Content /\ GhostPage(r).is = "ghost"
  <2>1. ASSUME NEW k \in {"torn", "ghost"}, NEW y, y = Junk(k, r)
        PROVE  y \in Content /\ y.is = k
    <3>1. k \in State /\ "" \in PageKind /\ -1 \in Int /\ 0 \in 0 .. Pages
      BY PagesFacts DEF State, PageKind
    <3>2. y.is = k BY <2>1
    <3>3. y \in [is : State, v : Int, part : 0 .. Pages, of : 0 .. Pages, rev : Rev,
                 next : PageKind]
      BY <2>1, <3>1
    <3>4. QED BY <3>2, <3>3 DEF Content
  <2>2. TornPage(r) = Junk("torn", r) /\ GhostPage(r) = Junk("ghost", r)
    BY DEF TornPage, GhostPage, Page
  <2> HIDE DEF Junk
  <2>3. PICK y, z : y = TornPage(r) /\ z = GhostPage(r) OBVIOUS
  <2>4. y = Junk("torn", r) /\ z = Junk("ghost", r) BY <2>2, <2>3
  <2>5. y \in Content /\ y.is = "torn" /\ z \in Content /\ z.is = "ghost" BY <2>1, <2>4
  <2>6. QED BY <2>3, <2>5
<1>2. ASSUME NEW x, First(x), NEW i \in 1 .. x.of PROVE Part(x, i).rev \in Rev
  BY <1>2, FirstFacts DEF First, Content
<1>3. QED BY <1>1, <1>2

(* The page at which the commit goes on is spoilt. *)
LEMMA PageSpoilt ==
  ASSUME PairInv, Writing, w.part < w.n, NextPage <= Pages, UNCHANGED ptr,
         chip[Target][NextPage] = BlankPage, NEW y \in Content, y.is \in {"torn", "ghost"},
         chip' = [chip EXCEPT ![Target][NextPage] = y]
  PROVE  /\ ChipOK' /\ Sound' /\ UNCHANGED <<Cur, Oth, Value>>
         /\ chip'[Cur][1] = chip[Cur][1] /\ Log(chip'[Cur]) = Log(chip[Cur])
<1> DEFINE x == Piece(1)
           g == chip[Target]
           h == [g EXCEPT ![Off + w.part + 1] = y]
<1>1. /\ Target \in RegionBlock /\ g \in BlockContent /\ First(x) /\ x.of = w.n
      /\ w.part \in 0 .. x.of - 1 /\ Off \in 0 .. Pages
      /\ Filled(g, Off, x, w.part) /\ Closed(g, Off) /\ Log(g) = Off
      /\ w.at = "append" <=> Target = Cur
  BY WritingFacts
<1>2. Typed /\ Sound BY DEF PairInv
<1>3. Off + w.part + 1 <= Pages /\ NextPage = Off + w.part + 1 BY DEF NextPage
<1>4. chip' = [chip EXCEPT ![Target] = h] BY <1>3
<1>5. g[Off + w.part + 1] \in {BlankPage, Part(x, w.part + 1)} BY <1>3
<1> HIDE DEF g, x
<1>6. h \in BlockContent /\ Closed(h, Off) BY <1>1, <1>3, <1>5, Torn
<1>7. Agree(g, h, Off) BY <1>1, <1>3, PagesFacts DEF Agree, BlockContent
<1>8. Log(h) = Off BY <1>1, <1>6, <1>7, LogKept DEF Closed
<1>9. Target = Oth => Log(h) = 0
  <2>1. Cur # Oth BY <1>2, NamedPair
  <2>2. w.at # "append" => Off = 0 BY DEF Off
  <2>3. QED BY <1>1, <1>8, <2>1, <2>2
<1>10. Target = Cur => /\ Log(h) = Log(chip[Cur]) /\ Leftover(h, Log(h))
                       /\ Agree(chip[Cur], h, Log(h))
  BY <1>1, <1>6, <1>7, <1>8 DEF Closed, g
<1> HIDE DEF h
<1>11. QED BY <1>1, <1>2, <1>4, <1>6, <1>9, <1>10, BlockChanged

(* The flash refuses a page. *)
Refusal ==
  LET mixed == pcache = <<Target, NextPage, TRUE>>
      page == Piece(w.part + 1)
  IN /\ mixed \/ Spoilt \/ ~Accepts(Target, NextPage, page)
     /\ chip' = IF mixed /\ chip[Target][NextPage] = BlankPage
                THEN [chip EXCEPT ![Target][NextPage] = TornPage(page.rev)] ELSE chip
     /\ used' = IF mixed \/ ~Accepts(Target, NextPage, page) THEN used
                ELSE [used EXCEPT !.faults = @ + 1]
     /\ End("error") /\ UNCHANGED <<ptr, held, call>>

(* The flash refuses a page: the commit ends with an error and the old     *)
(* content stays.                                                          *)
LEMMA Refused ==
  ASSUME PairInv, UsedOK, Writing, w.part < w.n, NextPage <= Pages, Refusal
  PROVE  PairInv' /\ CellStep /\ used'.faults # 0
<1> DEFINE x == Piece(1)
           g == chip[Target]
<1>1. /\ Target \in RegionBlock /\ g \in BlockContent
      /\ First(x) /\ x.of = w.n /\ x.rev = w.d.rev
      /\ w.n \in 1 .. Pages /\ w.part \in 0 .. w.n - 1 /\ Off \in 0 .. Pages
      /\ Filled(g, Off, x, w.part) /\ Closed(g, Off) /\ Log(g) = Off
      /\ Piece(w.part + 1) = Part(x, w.part + 1)
      /\ res = "none" /\ Value # call
      /\ w.at = "append" <=> Target = Cur
      /\ held # NoDir => Fetched(held)
  BY WritingFacts
<1>2. Typed /\ Sound /\ Progress /\ FaultFree BY DEF PairInv
<1>3. res' = "error" /\ w' = [NoCommit EXCEPT !.n = w.n] BY DEF Refusal, End
<1>10. UNCHANGED <<ptr, held, call>> BY DEF Refusal
<1>4. Off + w.part + 1 <= Pages /\ NextPage = Off + w.part + 1 /\ NextPage \in 1 .. Pages
  BY <1>1, PagesFacts DEF NextPage
<1>5. used'.faults # 0
  <2> SUFFICES ASSUME used'.faults = 0 PROVE FALSE OBVIOUS
  <2>1. used.faults \in Nat BY DEF UsedOK
  <2>2. used.faults = 0 /\ (pcache = <<Target, NextPage, TRUE>>
                            \/ ~Accepts(Target, NextPage, Piece(w.part + 1)))
    <3>1. used' = IF pcache = <<Target, NextPage, TRUE>>
                     \/ ~Accepts(Target, NextPage, Piece(w.part + 1))
                  THEN used ELSE [used EXCEPT !.faults = @ + 1]
      BY DEF Refusal
    <3>2. [used EXCEPT !.faults = @ + 1].faults = used.faults + 1 BY DEF UsedOK
    <3> DEFINE c == \/ pcache = <<Target, NextPage, TRUE>>
                    \/ ~Accepts(Target, NextPage, Piece(w.part + 1))
    <3>3. used' = used \/ used' = [used EXCEPT !.faults = @ + 1] BY <3>1
    <3>4. used'.faults # used.faults + 1 BY <2>1
    <3>5. c
      <4>1. SUFFICES ASSUME ~c PROVE FALSE OBVIOUS
      <4>2. used' = [used EXCEPT !.faults = @ + 1] BY <3>1, <4>1
      <4>3. QED BY <3>2, <3>4, <4>2
    <3> HIDE DEF c
    <3>6. used.faults = 0 BY <3>2, <3>3, <3>4
    <3>7. QED BY <3>5, <3>6 DEF c
  <2>3. pcache = NoPageCache BY <1>2, <2>2 DEF FaultFree
  <2>4. pcache # <<Target, NextPage, TRUE>> BY <1>1, <2>3, BlockFacts DEF NoPageCache
  <2>5. BlankFrom(Target, NextPage)
    <3>1. CASE w.at = "append"
      <4>1. BlankFrom(w.d.pair[1], w.d.off + w.part + 1) BY <1>2, <2>2, <3>1 DEF FaultFree
      <4>2. QED BY <3>1, <4>1 DEF NextPage, Off, Target
    <3>2. CASE w.at = "write"
      <4>1. BlankFrom(Target, w.part + 1) BY <1>2, <3>2 DEF Progress, Writing
      <4>2. NextPage = w.part + 1 BY <1>1, <3>2 DEF NextPage, Off
      <4>3. QED BY <4>1, <4>2
    <3>3. QED BY <3>1, <3>2 DEF Writing
  <2>6. chip[Target][NextPage] = BlankPage BY <1>4, <2>5 DEF BlankFrom
  <2>7. Accepts(Target, NextPage, Piece(w.part + 1)) BY <2>6 DEF Accepts
  <2>8. QED BY <2>2, <2>4, <2>7
<1>6. /\ ChipOK' /\ Sound' /\ UNCHANGED <<Cur, Oth, Value>>
      /\ chip'[Cur][1] = chip[Cur][1] /\ Log(chip'[Cur]) = Log(chip[Cur])
  <2>1. CASE chip' = chip BY <1>2, <1>10, <2>1, SameFlash
  <2>2. CASE /\ chip' = [chip EXCEPT ![Target][NextPage] = TornPage(Piece(w.part + 1).rev)]
             /\ chip[Target][NextPage] = BlankPage
    <3> DEFINE y == TornPage(Piece(w.part + 1).rev)
    <3>1. w.part + 1 \in 1 .. x.of BY <1>1, PagesFacts
    <3>2. y \in Content /\ y.is = "torn" BY <1>1, <3>1, TornFacts
    <3>3. QED BY <1>10, <2>2, <3>2, PageSpoilt
  <2>3. QED BY <2>1, <2>2 DEF Refusal
<1>7. PairInv' BY <1>1, <1>3, <1>5, <1>6, <1>10, Ended
<1>8. Cell!End BY <1>1, <1>3, <1>6, <1>10 DEF Cell!End
<1>9. QED BY <1>5, <1>7, <1>8 DEF CellStep, Cell!Next

(* The next page of the commit becomes a page of h. *)
Programs(h) ==
  /\ Writing /\ w.part < w.n /\ NextPage <= Pages
  /\ h \in BlockContent
  /\ \A q \in 1 .. Pages : q # NextPage => h[q] = chip[Target][q]
  /\ chip' = [chip EXCEPT ![Target] = h]
  /\ w' = [w EXCEPT !.part = @ + 1]
  /\ pcache' = NoPageCache
  /\ Filled(h, Off, Piece(1), w.part + 1) /\ Leftover(h, Off)
  /\ used'.faults = 0 => used.faults = 0 /\ h[NextPage] = Piece(w.part + 1)
  /\ UNCHANGED <<res, ptr, held, since, call>>

(* A page of the commit is programmed. *)
LEMMA ProgramsShape ==
  ASSUME PairInv, NEW h, Programs(h)
  PROVE  /\ Typed' /\ Writing' /\ Target' = Target /\ Off' = Off
         /\ w'.part = w.part + 1 /\ w'.at = w.at /\ w'.d = w.d /\ w'.n = w.n /\ w'.v = w.v
         /\ w'.moved = w.moved /\ w'.fresh = w.fresh
         /\ \A i : Piece(i)' = Piece(i)
         /\ chip'[Target] = h /\ \A c \in RegionBlock : c # Target => chip'[c] = chip[c]
         /\ Done' <=> w.part + 1 = w.n /\ Complete(h, Off, Piece(1))
         /\ Agree(chip[Target], h, Off)
<1>1. Typed BY DEF PairInv
<1>2. Writing /\ w.part < w.n /\ NextPage <= Pages /\ h \in BlockContent
      /\ chip' = [chip EXCEPT ![Target] = h] /\ w' = [w EXCEPT !.part = @ + 1]
      /\ UNCHANGED <<res, ptr, held, since, call>>
      /\ \A q \in 1 .. Pages : q # NextPage => h[q] = chip[Target][q]
  BY DEF Programs
<1>3. /\ Target \in RegionBlock /\ w.n \in 1 .. Pages /\ w.part \in 0 .. w.n - 1
      /\ Off \in 0 .. Pages /\ chip[Target] \in BlockContent
  BY <1>2, WritingFacts
<1>4. /\ w' \in Commits /\ w'.part = w.part + 1 /\ w'.at = w.at /\ w'.d = w.d /\ w'.n = w.n
      /\ w'.v = w.v /\ w'.moved = w.moved /\ w'.fresh = w.fresh
  <2>1. w.part + 1 \in 0 .. Pages BY <1>3, PagesFacts
  <2>2. w \in Commits BY <1>1 DEF Typed
  <2>3. QED BY <1>2, <2>1, <2>2 DEF Commits
<1>5. Writing' /\ Target' = Target /\ Off' = Off BY <1>2, <1>4 DEF Writing, Target, Off
<1>6. chip'[Target] = h /\ \A c \in RegionBlock : c # Target => chip'[c] = chip[c]
  BY <1>1, <1>2, <1>3 DEF Typed, ChipOK
<1>7. ChipOK' BY <1>1, <1>2, <1>3 DEF Typed, ChipOK
<1>8. Typed' BY <1>1, <1>2, <1>4, <1>7 DEF Typed
<1>10. Behind' = Behind
  <2>1. w.n \in Nat BY <1>3
  <2>2. Place(w.n)' = Place(w.n) /\ Place(w.n) = Off + w.n
    BY <1>1, <1>2, <1>3, <1>4, <2>1, PieceFacts DEF Place
  <2>3. CASE Place(w.n) >= Pages BY <1>4, <2>2, <2>3 DEF Behind
  <2>4. CASE ~(Place(w.n) >= Pages)
    <3>1. Place(w.n) + 1 \in 1 .. Pages /\ Place(w.n) + 1 # NextPage
      BY <1>3, <2>2, <2>4, PagesFacts DEF NextPage
    <3>2. chip'[Target'][Place(w.n) + 1] = chip[Target][Place(w.n) + 1]
      BY <1>2, <1>5, <1>6, <3>1
    <3>3. QED BY <1>4, <2>2, <3>2 DEF Behind, Place
  <2>5. QED BY <2>3, <2>4
<1>11. \A i : Piece(i)' = Piece(i) BY <1>4, <1>10 DEF Piece
<1>12. Done' <=> w.part + 1 = w.n /\ Complete(h, Off, Piece(1))
  <2>1. (Target \in RegionBlock)' BY <1>3, <1>5
  <2>2. ReadsBack' <=> Complete(chip[Target], Off, Piece(1))'
    BY <1>5, <1>8, <2>1, PieceShapesNext DEF PieceShape
  <2>3. Piece(1)' = Piece(1) BY <1>11
  <2>4. Complete(chip[Target], Off, Piece(1))' <=> Complete(h, Off, Piece(1))
    BY <1>5, <1>6, <2>3 DEF Complete
  <2>5. QED BY <1>4, <1>5, <2>2, <2>4 DEF Done
<1>13. Agree(chip[Target], h, Off)
  <2>1. \A q \in 1 .. Off : q \in 1 .. Pages /\ q # NextPage BY <1>3, PagesFacts DEF NextPage
  <2>2. QED BY <1>2, <2>1 DEF Agree
<1>14. QED BY <1>4, <1>5, <1>6, <1>8, <1>11, <1>12, <1>13

LEMMA ProgramsFaultFree ==
  ASSUME PairInv, NEW h, Programs(h)
  PROVE  FaultFree'
<1>1. /\ Typed' /\ Writing' /\ Target' = Target /\ Off' = Off
      /\ w'.part = w.part + 1 /\ w'.at = w.at /\ w'.d = w.d /\ w'.n = w.n
      /\ w'.fresh = w.fresh
      /\ \A i : Piece(i)' = Piece(i)
      /\ chip'[Target] = h /\ \A c \in RegionBlock : c # Target => chip'[c] = chip[c]
  BY ProgramsShape
<1>2. /\ Writing /\ w.part < w.n /\ NextPage <= Pages /\ pcache' = NoPageCache
      /\ \A q \in 1 .. Pages : q # NextPage => h[q] = chip[Target][q]
      /\ used'.faults = 0 => used.faults = 0 /\ h[NextPage] = Piece(w.part + 1)
      /\ UNCHANGED <<ptr, held>>
  BY DEF Programs
<1>3. Typed /\ Sound /\ Placed /\ FaultFree /\ Progress BY DEF PairInv
<1>4. /\ Target \in RegionBlock /\ w.n \in 1 .. Pages /\ w.part \in 0 .. w.n - 1
      /\ Off \in 0 .. Pages /\ (held # NoDir => Fetched(held))
      /\ (w.at = "append" <=> Target = Cur)
  BY <1>2, WritingFacts
<1>5. SUFFICES ASSUME used'.faults = 0
      PROVE /\ w.at = "append" => BlankFrom(w.d.pair[1], w.d.off + w.part + 1)'
            /\ \A i \in 1 .. w'.part : chip'[Target'][Off' + i] = Piece(i)'
            /\ held # NoDir /\ held.erased /\ w.fresh => BlankFrom(held.pair[1], held.off + 1)'
  BY <1>1, <1>2 DEF FaultFree, Writing
<1>6. used.faults = 0 /\ h[NextPage] = Piece(w.part + 1) BY <1>2, <1>5
<1>7. ASSUME w.at = "append" PROVE BlankFrom(w.d.pair[1], w.d.off + w.part + 1)'
  <2>1. BlankFrom(w.d.pair[1], w.d.off + w.part + 1) BY <1>3, <1>6, <1>7 DEF FaultFree
  <2>2. Target = w.d.pair[1] /\ Off = w.d.off BY <1>7 DEF Target, Off
  <2>3. ASSUME NEW q \in Off + (w.part + 1) + 1 .. Pages PROVE h[q] = BlankPage
    <3>1. q \in 1 .. Pages /\ q # NextPage /\ q \in Off + w.part + 1 .. Pages
      BY <1>4, PagesFacts DEF NextPage
    <3>2. QED BY <1>2, <2>1, <2>2, <3>1 DEF BlankFrom
  <2>4. QED BY <1>1, <2>2, <2>3 DEF BlankFrom
<1>8. ASSUME NEW i \in 1 .. w.part + 1 PROVE chip'[Target'][Off' + i] = Piece(i)'
  <2>1. CASE i = w.part + 1
    <3>1. Off + (w.part + 1) = NextPage BY <1>4, PagesFacts DEF NextPage
    <3>2. QED BY <1>1, <1>6, <2>1, <3>1
  <2>2. CASE i # w.part + 1
    <3>1. i \in 1 .. w.part /\ Off + i \in 1 .. Pages /\ Off + i # NextPage
      BY <1>2, <1>4, <2>2, PagesFacts DEF NextPage
    <3>2. chip[Target][Off + i] = Piece(i) BY <1>2, <1>3, <1>6, <3>1 DEF FaultFree
    <3>3. QED BY <1>1, <1>2, <3>1, <3>2
  <2>3. QED BY <2>1, <2>2
<1>9. ASSUME held # NoDir, held.erased, w.fresh PROVE BlankFrom(held.pair[1], held.off + 1)'
  <2>1. BlankFrom(held.pair[1], held.off + 1) BY <1>3, <1>6, <1>9 DEF FaultFree
  <2>2. held.pair[1] = Cur BY <1>4, <1>9 DEF Fetched
  <2>3. w.at = "write" BY <1>2, <1>3, <1>9 DEF Placed, Writing
  <2>4. Cur # Target /\ Cur \in RegionBlock BY <1>3, <1>4, <2>3, NamedPair
  <2>5. QED BY <1>1, <1>2, <2>1, <2>2, <2>4 DEF BlankFrom
<1>10. QED BY <1>1, <1>7, <1>8, <1>9

LEMMA ProgramsPlaced ==
  ASSUME PairInv, NEW h, Programs(h),
         w.at = "append" => UNCHANGED <<Cur, Oth>> /\ h[1] = chip[Target][1],
         w.at = "write" /\ ~Done' => UNCHANGED Cur
  PROVE  Placed'
<1>1. /\ Typed' /\ Writing' /\ Target' = Target
      /\ w'.at = w.at /\ w'.d = w.d /\ w'.moved = w.moved /\ w'.fresh = w.fresh
      /\ chip'[Target] = h /\ \A c \in RegionBlock : c # Target => chip'[c] = chip[c]
  BY ProgramsShape
<1>2. Writing /\ w.part < w.n /\ UNCHANGED ptr BY DEF Programs
<1>3. Typed /\ Placed BY DEF PairInv
<1>4. Target \in RegionBlock /\ ~Done BY <1>2, WritingFacts
<1>5. UNCHANGED ToSet(ptr) BY <1>2
<1> DEFINE s == w.d.pair[1]
           t == w.d.pair[2]
<1>6. s = w'.d.pair[1] /\ t = w'.d.pair[2] BY <1>1
<1>7. CASE w.at = "append"
  <2>1. /\ s \in RegionBlock /\ t \in RegionBlock /\ s # t
        /\ ~w.fresh /\ ~w.moved /\ s = Cur /\ t = Oth /\ w.d.rev = chip[s][1].rev
    BY <1>3, <1>7 DEF Placed
  <2>2. Target = s BY <1>7 DEF Target
  <2>3. w.d.rev = chip'[s][1].rev BY <1>1, <1>7, <2>1, <2>2
  <2>4. s = Cur' /\ t = Oth' BY <1>7, <2>1
  <2> HIDE DEF s, t
  <2>5. QED BY <1>1, <1>6, <1>7, <2>1, <2>3, <2>4 DEF Placed
<1>8. CASE w.at = "write"
  <2>1. /\ s \in RegionBlock /\ t \in RegionBlock /\ s # t
        /\ w.fresh => s \notin ToSet(ptr) /\ t \notin ToSet(ptr)
        /\ Ahead(w.d.rev, chip[s][1].rev)
        /\ ~w.fresh => s \in ToSet(ptr) /\ s = Cur
        /\ ~w.moved /\ ~w.fresh => t \in ToSet(ptr)
    BY <1>3, <1>4, <1>8 DEF Placed
  <2>2. Target = t BY <1>8 DEF Target
  <2>3. chip'[s] = chip[s] BY <1>1, <2>1, <2>2
  <2>4. ~w.fresh /\ ~Done' => s = Cur' BY <1>8, <2>1
  <2> HIDE DEF s, t
  <2>5. QED BY <1>1, <1>5, <1>6, <1>8, <2>1, <2>3, <2>4 DEF Placed
<1>9. QED BY <1>2, <1>7, <1>8 DEF Writing

(* The commit is not all there yet, or one of its pages is not as written. *)
LEMMA GoesOn ==
  ASSUME PairInv, NEW h, Programs(h), ~Whole(h, Off + 1)
  PROVE  PairInv' /\ CellStep /\ Stays /\ ~Done'
<1>1. /\ Typed' /\ Writing' /\ Target' = Target /\ Off' = Off
      /\ w'.part = w.part + 1 /\ w'.at = w.at /\ w'.d = w.d /\ w'.n = w.n /\ w'.v = w.v
      /\ w'.moved = w.moved /\ w'.fresh = w.fresh
      /\ \A i : Piece(i)' = Piece(i)
      /\ chip'[Target] = h /\ \A c \in RegionBlock : c # Target => chip'[c] = chip[c]
      /\ Done' <=> w.part + 1 = w.n /\ Complete(h, Off, Piece(1))
      /\ Agree(chip[Target], h, Off)
  BY ProgramsShape
<1>2. /\ Writing /\ w.part < w.n /\ NextPage <= Pages /\ pcache' = NoPageCache
      /\ h \in BlockContent
      /\ \A q \in 1 .. Pages : q # NextPage => h[q] = chip[Target][q]
      /\ chip' = [chip EXCEPT ![Target] = h]
      /\ Filled(h, Off, Piece(1), w.part + 1) /\ Leftover(h, Off)
      /\ UNCHANGED <<res, ptr, held, call>>
  BY DEF Programs
<1>3. Typed /\ Sound /\ Placed /\ FaultFree /\ Progress /\ Results BY DEF PairInv
<1>4. /\ Target \in RegionBlock /\ w.n \in 1 .. Pages /\ w.part \in 0 .. w.n - 1
      /\ Off \in 0 .. Pages /\ (held # NoDir => Fetched(held))
      /\ (w.at = "append" <=> Target = Cur) /\ Log(chip[Target]) = Off
      /\ chip[Target] \in BlockContent /\ First(Piece(1)) /\ Piece(1).of = w.n
      /\ (w.at = "append" => Off > 0) /\ ~Taken /\ Value # call /\ w.v = call /\ res = "none"
  BY <1>2, WritingFacts
<1>5. Log(h) = Off BY <1>1, <1>2, <1>4, LogKept
<1>6. /\ ChipOK' /\ Sound' /\ UNCHANGED <<Cur, Oth, Value>>
      /\ chip'[Cur][1] = chip[Cur][1] /\ Log(chip'[Cur]) = Log(chip[Cur])
  <2>1. Target = Oth => Log(h) = 0
    <3>1. Cur # Oth BY <1>3, NamedPair
    <3>2. w.at # "append" => Off = 0 BY DEF Off
    <3>3. QED BY <1>4, <1>5, <3>1, <3>2
  <2>2. Target = Cur => /\ Log(h) = Log(chip[Cur]) /\ Leftover(h, Log(h))
                        /\ Agree(chip[Cur], h, Log(h))
    BY <1>1, <1>2, <1>4, <1>5
  <2>3. QED BY <1>2, <1>3, <1>4, <2>1, <2>2, BlockChanged
<1>7. ~Done'
  <2> SUFFICES ASSUME Done' PROVE FALSE OBVIOUS
  <2>1. w.part + 1 = w.n /\ Complete(h, Off, Piece(1)) BY <1>1
  <2>2. Off + w.n <= Pages BY <1>2, <1>4, <2>1, PagesFacts DEF NextPage
  <2>3. Whole(h, Off + 1) BY <1>2, <1>4, <2>1, <2>2, Completed
  <2>4. QED BY <2>3
<1>8. ~Taken' BY <1>1, <1>7 DEF Taken, Writing
<1>9. Placed'
  <2>1. w.at = "append" => h[1] = chip[Target][1]
    <3>1. w.at = "append" => 1 \in 1 .. Off BY <1>4
    <3>2. QED BY <1>1, <3>1 DEF Agree
  <2>2. QED BY <1>6, <2>1, ProgramsPlaced
<1>10. Progress'
  <2>1. w.part + 1 <= w.n /\ Off + (w.part + 1) <= Pages BY <1>2, <1>4, PagesFacts DEF NextPage
  <2>2. ASSUME w.at = "write", NEW q \in (w.part + 1) + 1 .. Pages PROVE h[q] = BlankPage
    <3>1. BlankFrom(Target, w.part + 1) BY <1>2, <1>3, <2>2 DEF Progress
    <3>2. Off = 0 BY <2>2 DEF Off
    <3>3. q \in 1 .. Pages /\ q # NextPage /\ q \in w.part + 1 .. Pages
      BY <1>4, <3>2, PagesFacts DEF NextPage
    <3>4. QED BY <1>2, <3>1, <3>3 DEF BlankFrom
  <2>3. Filled(h, Off, Piece(1)', w.part + 1) BY <1>1, <1>2
  <2>4. QED BY <1>1, <1>2, <1>5, <1>7, <2>1, <2>2, <2>3 DEF Progress, BlankFrom
<1>11. Results' BY <1>1, <1>2, <1>3, <1>4, <1>6 DEF Results, Writing
<1>12. Follows'
  <2>1. held' # NoDir => Fetched(held)' BY <1>2, <1>4, <1>6 DEF Fetched
  <2>2. QED BY <1>1, <2>1 DEF Follows, Writing
<1>13. FaultFree' BY ProgramsFaultFree
<1>14. CellStep BY <1>2, <1>6 DEF CellStep
<1>15. QED BY <1>1, <1>6, <1>7, <1>9, <1>10, <1>11, <1>12, <1>13, <1>14 DEF PairInv, Stays

(* The last page is programmed as it should be: the commit is there.       *)
LEMMA Completes ==
  ASSUME PairInv, NEW h, Programs(h), w.part + 1 = w.n, Complete(h, Off, Piece(1))
  PROVE  /\ PairInv' /\ CellStep
         /\ (Stays /\ (w.at = "append" \/ Target \notin ToSet(ptr))) \/ Turns
<1>1. /\ Typed' /\ Writing' /\ Target' = Target /\ Off' = Off
      /\ w'.part = w.part + 1 /\ w'.at = w.at /\ w'.d = w.d /\ w'.n = w.n /\ w'.v = w.v
      /\ w'.moved = w.moved /\ w'.fresh = w.fresh
      /\ \A i : Piece(i)' = Piece(i)
      /\ chip'[Target] = h /\ \A c \in RegionBlock : c # Target => chip'[c] = chip[c]
      /\ Done' <=> w.part + 1 = w.n /\ Complete(h, Off, Piece(1))
      /\ Agree(chip[Target], h, Off)
  BY ProgramsShape
<1>2. /\ Writing /\ w.part < w.n /\ NextPage <= Pages /\ pcache' = NoPageCache
      /\ h \in BlockContent
      /\ \A q \in 1 .. Pages : q # NextPage => h[q] = chip[Target][q]
      /\ chip' = [chip EXCEPT ![Target] = h]
      /\ Filled(h, Off, Piece(1), w.part + 1) /\ Leftover(h, Off)
      /\ UNCHANGED <<res, ptr, held, call>>
  BY DEF Programs
<1>3. Typed /\ Sound /\ Placed /\ FaultFree /\ Progress /\ Results BY DEF PairInv
<1>4. /\ Target \in RegionBlock /\ w.n \in 1 .. Pages /\ w.part \in 0 .. w.n - 1
      /\ Off \in 0 .. Pages /\ (held # NoDir => Fetched(held))
      /\ (w.at = "append" <=> Target = Cur) /\ Log(chip[Target]) = Off
      /\ chip[Target] \in BlockContent /\ First(Piece(1)) /\ Piece(1).of = w.n
      /\ Piece(1).v = w.v /\ Piece(1).rev = w.d.rev
      /\ (w.at = "append" => Off > 0) /\ ~Taken /\ Value # call /\ w.v = call /\ res = "none"
  BY <1>2, WritingFacts
<1>5. Done' BY <1>1
<1>6. Off + w.n <= Pages /\ Off + w.n \in 1 .. Pages BY <1>2, <1>4, PagesFacts DEF NextPage
<1>7. Whole(h, Off + 1) /\ h[Off + 1].of = w.n /\ h[Off + w.n].v = w.v /\ Closed(h, Off + w.n)
  BY <1>2, <1>4, <1>6, Completed
<1>8. Log(h) = Off + w.n
  <2>1. ~Whole(h, Off + w.n + 1) BY <1>7 DEF Closed
  <2>2. QED BY <1>1, <1>2, <1>4, <1>7, <2>1, LogGrown
<1>9. w.at = "write" => h[1].rev = w.d.rev
  <2> SUFFICES ASSUME w.at = "write" PROVE h[1].rev = w.d.rev OBVIOUS
  <2>1. Off = 0 BY DEF Off
  <2>2. 1 \in 1 .. w.n BY <1>4
  <2>3. h[0 + 1] = Part(Piece(1), 1) BY <1>4, <2>1, <2>2 DEF Complete
  <2>4. Part(Piece(1), 1).rev = w.d.rev BY <1>4, <2>2, FirstFacts
  <2>5. QED BY <2>3, <2>4
<1>10. w.at = "append" => h[1] = chip[Target][1]
  <2>1. w.at = "append" => 1 \in 1 .. Off BY <1>4
  <2>2. QED BY <1>1, <2>1 DEF Agree
<1>11. ToSet(ptr) = {Cur, Oth} /\ Cur \in RegionBlock /\ Oth \in RegionBlock /\ Cur # Oth
  BY <1>3, NamedPair
<1>12. ptr = <<Cur, Oth>> \/ ptr = <<Oth, Cur>> BY <1>3 DEF Sound, Current
<1>13. Progress'
  <2>1. w.part + 1 <= w.n /\ Off + (w.part + 1) <= Pages BY <1>2, <1>4, PagesFacts DEF NextPage
  <2>2. ASSUME w.at = "write", NEW q \in (w.part + 1) + 1 .. Pages PROVE h[q] = BlankPage
    <3>1. BlankFrom(Target, w.part + 1) BY <1>2, <1>3, <2>2 DEF Progress
    <3>2. Off = 0 BY <2>2 DEF Off
    <3>3. q \in 1 .. Pages /\ q # NextPage /\ q \in w.part + 1 .. Pages
      BY <1>4, <3>2, PagesFacts DEF NextPage
    <3>4. QED BY <1>2, <3>1, <3>3 DEF BlankFrom
  <2>3. Filled(h, Off, Piece(1)', w.part + 1) BY <1>1, <1>2
  <2>4. QED BY <1>1, <1>2, <1>5, <1>8, <2>1, <2>2, <2>3 DEF Progress, BlankFrom
<1>14. FaultFree' BY ProgramsFaultFree
<1>15. UNCHANGED ToSet(ptr) BY <1>2
<1>16. CASE Target \notin ToSet(ptr)
  <2>1. Target # Cur /\ Target # Oth BY <1>11, <1>16
  <2>2. w.at = "write" BY <1>2, <1>4, <2>1 DEF Writing
  <2>3. /\ ChipOK' /\ Sound' /\ UNCHANGED <<Cur, Oth, Value>>
        /\ chip'[Cur][1] = chip[Cur][1] /\ Log(chip'[Cur]) = Log(chip[Cur])
    BY <1>2, <1>3, <1>4, <2>1, BlockChanged
  <2>4. ~Taken' BY <1>1, <1>15, <1>16 DEF Taken, Writing
  <2>5. Placed' BY <1>4, <2>1, <2>3, ProgramsPlaced
  <2>6. Results' BY <1>1, <1>2, <1>3, <1>4, <2>3 DEF Results, Writing
  <2>7. Follows'
    <3>1. held' # NoDir => Fetched(held)' BY <1>2, <1>4, <2>3 DEF Fetched
    <3>2. QED BY <1>1, <3>1 DEF Follows, Writing
  <2>8. CellStep BY <1>2, <2>3 DEF CellStep
  <2>9. Stays BY <2>3 DEF Stays
  <2>10. QED BY <1>1, <1>13, <1>14, <1>16, <2>3, <2>5, <2>6, <2>7, <2>8, <2>9 DEF PairInv
<1>17. CASE Target \in ToSet(ptr)
  <2> DEFINE other == IF w.at = "append" THEN w.d.pair[2] ELSE w.d.pair[1]
  <2>1. PICK c, o : c = Target /\ o = other OBVIOUS
  <2>2. /\ c \in RegionBlock /\ o \in RegionBlock /\ c # o /\ (ptr = <<c, o>> \/ ptr = <<o, c>>)
        /\ w.at = "append" => c = Cur /\ o = Oth
        /\ w.at = "write" => /\ Ahead(w.d.rev, chip[o][1].rev)
    <3>1. CASE w.at = "append"
      <4>1. c = Cur /\ o = Oth BY <1>3, <1>4, <2>1, <3>1 DEF Placed
      <4>2. QED BY <1>11, <1>12, <3>1, <4>1
    <3>2. CASE w.at = "write"
      <4>1. o = w.d.pair[1] /\ c = w.d.pair[2] BY <2>1, <3>2 DEF Target
      <4>2. /\ o # c /\ o \in RegionBlock /\ Ahead(w.d.rev, chip[o][1].rev)
            /\ w.fresh => c \notin ToSet(ptr)
            /\ ~w.fresh => o \in ToSet(ptr)
        BY <1>3, <3>2, <4>1 DEF Placed
      <4>3. c \in ToSet(ptr) /\ o \in ToSet(ptr) BY <1>17, <2>1, <4>2
      <4>4. QED BY <1>4, <1>11, <1>12, <2>1, <3>2, <4>2, <4>3
    <3>3. QED BY <1>2, <3>1, <3>2 DEF Writing
  <2>3. chip'[c] = h /\ chip'[o] = chip[o] BY <1>1, <2>1, <2>2
  <2>4. Log(h) > 0 BY <1>6, <1>8
  <2>5. Log(chip[o]) = 0 \/ Ahead(h[1].rev, chip[o][1].rev)
    <3>1. CASE w.at = "append"
      <4>1. Log(chip[Oth]) = 0 \/ Ahead(chip[Cur][1].rev, chip[Oth][1].rev)
        BY <1>3 DEF Sound, Current
      <4>2. QED BY <1>10, <2>1, <2>2, <3>1, <4>1
    <3>2. CASE w.at = "write" BY <1>9, <2>2, <3>2
    <3>3. QED BY <1>2, <3>1, <3>2 DEF Writing
  <2>6. Current(c, o)' BY <1>2, <2>2, <2>3, <2>4, <2>5 DEF Current
  <2>7. ChipOK' BY <1>1 DEF Typed
  <2>8. Cur' = c /\ Oth' = o /\ Value' = chip'[c][Log(chip'[c])].v BY <2>6, <2>7, NewestIsNext
  <2>9. Value' = call BY <1>4, <1>7, <1>8, <2>3, <2>8
  <2>10. Sound' BY <1>7, <1>8, <2>3, <2>6, <2>8 DEF Sound, Closed
  <2>11. Taken' BY <1>1, <1>5, <1>15, <1>17 DEF Taken
  <2>12. Placed'
    <3>1. w.at = "append" => UNCHANGED <<Cur, Oth>> BY <2>2, <2>8
    <3>2. QED BY <1>5, <1>10, <3>1, ProgramsPlaced
  <2>13. Results'
    <3>1. Value' <= call' BY <1>2, <1>3, <2>9 DEF Typed
    <3>2. QED BY <1>1, <1>2, <1>3, <1>4, <2>9, <2>11, <3>1 DEF Results, Writing
  <2>14. Follows' BY <1>1, <1>5, <1>15, <1>17 DEF Follows, Writing
  <2>15. Cell!Take BY <1>2, <1>4, <2>9 DEF Cell!Take
  <2>16. (Stays /\ w.at = "append") \/ Turns
    <3>1. CASE w.at = "append"
      <4>1. c = Cur /\ o = Oth BY <2>2, <3>1
      <4>2. UNCHANGED <<Cur, Oth>> /\ chip'[Cur] = h /\ h[1] = chip[Cur][1]
        BY <1>10, <2>1, <2>3, <2>8, <3>1, <4>1
      <4>3. QED BY <3>1, <4>2 DEF Stays
    <3>2. CASE w.at = "write"
      <4>1. c # Cur BY <1>4, <2>1, <3>2
      <4>2. c = Oth /\ o = Cur BY <1>12, <2>2, <4>1
      <4>3. chip'[Oth][1].rev = w.d.rev BY <1>9, <2>3, <3>2, <4>2
      <4>4. ~Done BY <1>2, WritingFacts
      <4>5. QED BY <1>5, <1>17, <2>8, <3>2, <4>2, <4>3, <4>4 DEF Turns
    <3>3. QED BY <1>2, <3>1, <3>2 DEF Writing
  <2>17. QED BY <1>1, <1>13, <1>14, <2>10, <2>12, <2>13, <2>14, <2>15, <2>16
           DEF PairInv, CellStep, Cell!Next
<1>18. QED BY <1>16, <1>17

(* The flash takes the next page as it is. *)
OnePage ==
  /\ w' = [w EXCEPT !.part = @ + 1] /\ UNCHANGED used
  /\ \/ Stays /\ (w.at = "write" /\ Done' => Target \notin ToSet(ptr))
     \/ Turns

LEMMA ProgramStep ==
  ASSUME PairInv, UsedOK, Program
  PROVE  /\ PairInv' /\ CellStep
         /\ used'.faults = 0 => OnePage
<1>1. w.at \in {"append", "write"} /\ w.part < w.n /\ Place(w.part + 1) <= Pages
      /\ UNCHANGED <<ptr, held, since, call>>
  BY DEF Program
<1>2. Writing BY <1>1 DEF Writing
<1> DEFINE x == Piece(1)
           g == chip[Target]
           k == w.part
<1>3. /\ Target \in RegionBlock /\ g \in BlockContent /\ First(x) /\ x.of = w.n
      /\ w.n \in 1 .. Pages /\ k \in 0 .. w.n - 1 /\ Off \in 0 .. Pages
      /\ Place(k + 1) = NextPage /\ Piece(k + 1) = Part(x, k + 1)
      /\ Filled(g, Off, x, k) /\ Closed(g, Off)
  BY <1>1, <1>2, WritingFacts
<1>4. NextPage <= Pages /\ NextPage = Off + k + 1 /\ NextPage \in 1 .. Pages
  BY <1>1, <1>3, PagesFacts DEF NextPage
<1> DEFINE mixed == pcache = <<Target, NextPage, TRUE>>
           page == Piece(k + 1)
<1>5. \/ /\ ~mixed /\ Accepts(Target, NextPage, page)
         /\ \/ chip' = [chip EXCEPT ![Target][NextPage] = page] /\ UNCHANGED used
            \/ /\ Spoilt
               /\ chip' = [chip EXCEPT ![Target][NextPage] = TornPage(page.rev)]
               /\ used' = [used EXCEPT !.faults = @ + 1]
         /\ w' = [w EXCEPT !.part = @ + 1]
         /\ pcache' = NoPageCache
         /\ UNCHANGED res
      \/ Refusal
  BY <1>1, <1>3 DEF Program, Refusal
<1>6. CASE Refusal BY <1>1, <1>2, <1>4, <1>6, Refused
<1>7. ASSUME Accepts(Target, NextPage, page), w' = [w EXCEPT !.part = @ + 1],
             pcache' = NoPageCache, UNCHANGED res,
             NEW y, chip' = [chip EXCEPT ![Target][NextPage] = y],
             \/ y = page /\ UNCHANGED used
             \/ y = TornPage(page.rev) /\ used' = [used EXCEPT !.faults = @ + 1]
      PROVE  PairInv' /\ CellStep /\ (used'.faults = 0 => OnePage)
  <2> DEFINE h == [g EXCEPT ![Off + k + 1] = y]
  <2>1. chip' = [chip EXCEPT ![Target] = h] BY <1>4, <1>7
  <2>2. g[Off + k + 1] \in {BlankPage, Part(x, k + 1)} BY <1>3, <1>4, <1>7 DEF Accepts
  <2>3. Off + k + 1 <= Pages BY <1>4
  <2>4. k \in 0 .. x.of - 1 BY <1>3
  <2>5. h[NextPage] = y /\ \A q \in 1 .. Pages : q # NextPage => h[q] = g[q]
    BY <1>3, <1>4 DEF BlockContent
  <2>6. CASE y = page /\ UNCHANGED used
    <3>1. h = [g EXCEPT ![Off + k + 1] = Part(x, k + 1)] BY <1>3, <2>6
    <3>2. /\ h \in BlockContent /\ Filled(h, Off, x, k + 1) /\ Leftover(h, Off)
          /\ ~(k + 1 = x.of /\ Complete(h, Off, x)) => ~Whole(h, Off + 1)
      <4> HIDE DEF x, g, k, h
      <4>1. QED BY <1>3, <2>2, <2>3, <2>4, <3>1, Programmed
    <3>3. Programs(h)
      <4> HIDE DEF h
      <4>1. QED BY <1>1, <1>2, <1>4, <1>7, <2>1, <2>5, <2>6, <3>2 DEF Programs
    <3>4. CASE k + 1 = x.of /\ Complete(h, Off, x)
      <4> HIDE DEF h
      <4>1. /\ PairInv' /\ CellStep
            /\ (Stays /\ (w.at = "append" \/ Target \notin ToSet(ptr))) \/ Turns
        BY <1>3, <3>3, <3>4, Completes
      <4>2. OnePage BY <1>7, <2>6, <4>1 DEF OnePage
      <4>3. QED BY <4>1, <4>2
    <3>5. CASE ~(k + 1 = x.of /\ Complete(h, Off, x))
      <4> HIDE DEF h
      <4>1. PairInv' /\ CellStep /\ Stays /\ ~Done' BY <3>2, <3>3, <3>5, GoesOn
      <4>2. OnePage BY <1>7, <2>6, <4>1 DEF OnePage
      <4>3. QED BY <4>1, <4>2
    <3>6. QED BY <3>4, <3>5
  <2>7. CASE y = TornPage(page.rev) /\ used' = [used EXCEPT !.faults = @ + 1]
    <3>1. y \in Content /\ y.is = "torn"
      <4>1. k + 1 \in 1 .. x.of BY <1>3, PagesFacts
      <4>2. QED BY <1>3, <2>7, <4>1, TornFacts
    <3>2. h \in BlockContent /\ Closed(h, Off) /\ Filled(h, Off, x, k + 1)
      <4>1. PICK hh : hh = h OBVIOUS
      <4> HIDE DEF x, g, k
      <4>2. QED BY <1>3, <2>2, <2>3, <2>4, <3>1, Torn
    <3>3. used'.faults # 0 BY <2>7 DEF UsedOK
    <3>4. Programs(h) /\ ~Whole(h, Off + 1)
      <4> HIDE DEF h
      <4>1. QED BY <1>1, <1>2, <1>4, <1>7, <2>1, <2>5, <3>2, <3>3 DEF Programs, Closed
    <3> HIDE DEF h
    <3>5. QED BY <3>3, <3>4, GoesOn
  <2>8. QED BY <1>7, <2>6, <2>7
<1>8. QED BY <1>5, <1>6, <1>7

(* What the commit wrote is read back. *)
LEMMA VerifiedStep ==
  ASSUME PairInv, Done, UNCHANGED <<chip, ptr, since, used, call, res, pcache>>,
         w' = [w EXCEPT !.at = IF w.moved \/ w.fresh THEN "publish" ELSE "return",
                        !.d = Written],
         held' = IF held = NoDir \/ w.fresh THEN held ELSE Written
  PROVE  PairInv' /\ CellStep
<1>1. Typed /\ Sound /\ Placed /\ FaultFree /\ Progress /\ Results BY DEF PairInv
<1>2. Writing /\ w.part = w.n BY DEF Done
<1>3. /\ Target \in RegionBlock /\ Off + w.n \in 1 .. Pages
      /\ Log(chip[Target]) = Off + w.n /\ Closed(chip[Target], Off + w.n)
      /\ chip[Target][Off + w.n].v = w.v
      /\ w.at = "write" => chip[Target][1].rev = w.d.rev
      /\ Target \in ToSet(ptr) =>
           Cur = Target /\ Oth = (IF w.at = "append" THEN w.d.pair[2] ELSE w.d.pair[1])
  BY <1>1, DoneFacts
<1> DEFINE s == w.d.pair[1]
           t == w.d.pair[2]
           other == IF w.at = "append" THEN t ELSE s
<1>4. /\ s \in RegionBlock /\ t \in RegionBlock /\ w.d.pair = <<s, t>>
      /\ w.at = "append" => Target = s
      /\ w.at = "write" => Target = t
  BY <1>1, <1>2, WritingPlaces
<1>5. /\ s # t /\ (w.at = "append" => ~w.moved /\ ~w.fresh /\ s = Cur /\ w.d.rev = chip[s][1].rev)
      /\ w.at = "write" => Ahead(w.d.rev, chip[s][1].rev)
      /\ w.fresh => s \notin ToSet(ptr) /\ t \notin ToSet(ptr)
      /\ w.at = "write" /\ ~w.fresh => s \in ToSet(ptr)
      /\ w.at = "write" /\ ~w.fresh /\ ~w.moved => t \in ToSet(ptr)
  BY <1>1, <1>2 DEF Placed, Writing
<1>6. w \in Commits /\ w.d \in Dirs /\ w.moved \in BOOLEAN /\ w.fresh \in BOOLEAN /\ w.v \in Int
      /\ w.d.rev \in Rev /\ held \in Dirs
  BY <1>1 DEF Typed, Commits, Dirs
<1>7. /\ Written \in Dirs /\ Written.pair = <<Target, other>> /\ Written.off = Off + w.n
      /\ Written.rev = w.d.rev
  <2>1. CASE w.at = "append"
    <3>1. Written = [w.d EXCEPT !.off = w.d.off + w.n, !.v = w.v] BY <2>1 DEF Written
    <3>2. Off = w.d.off BY <2>1 DEF Off
    <3>3. w.d.off + w.n \in 0 .. Pages /\ other = t /\ Target = s BY <1>3, <1>4, <2>1, <3>2
    <3>4. Written \in Dirs BY <1>6, <3>1, <3>3 DEF Dirs
    <3>5. Written.pair = w.d.pair /\ Written.off = w.d.off + w.n /\ Written.rev = w.d.rev
      BY <1>6, <3>1 DEF Dirs
    <3>6. QED BY <1>4, <3>2, <3>3, <3>4, <3>5
  <2>2. CASE w.at = "write"
    <3>1. Written = [w.d EXCEPT !.pair = <<t, s>>, !.off = w.n, !.v = w.v]
      BY <2>2 DEF Written
    <3>2. Off = 0 /\ w.at # "append" BY <2>2 DEF Off
    <3>3. w.n \in 0 .. Pages /\ w.n = Off + w.n BY <1>6, <3>2, PagesFacts DEF Commits
    <3>4. <<t, s>> \in (0 .. Blocks) \X (0 .. Blocks) BY <1>4, BlockFacts
    <3>5. QED BY <1>4, <1>6, <2>2, <3>1, <3>2, <3>3, <3>4 DEF Dirs
  <2>3. QED BY <1>2, <2>1, <2>2 DEF Writing
<1> DEFINE at == IF w.moved \/ w.fresh THEN "publish" ELSE "return"
<1>8. /\ w' \in Commits /\ w'.at = at /\ w'.d = Written /\ w'.v = w.v
      /\ w'.moved = w.moved /\ w'.fresh = w.fresh
  BY <1>6, <1>7 DEF Commits
<1>9. UNCHANGED <<Cur, Oth, Value>> /\ ChipOK' /\ Sound'
      /\ ptr' \in RegionBlock \X RegionBlock
  BY <1>1, SameFlash
<1>10. Typed' BY <1>1, <1>6, <1>7, <1>8, <1>9 DEF Typed
<1>11. ~Writing' /\ ~Done' BY <1>8 DEF Writing, Done
<1>12. UNCHANGED ToSet(ptr) OBVIOUS
<1>13. Cur \in ToSet(ptr) BY <1>1, NamedPair
<1>14. w'.d.pair[1] = Target /\ w'.d.pair[2] = other BY <1>7, <1>8
<1>15. Placed'
  <2> SUFFICES ASSUME w.moved \/ w.fresh PROVE Placed' BY <1>8 DEF Placed
  <2>1. w.at = "write" /\ Target = t /\ other = s BY <1>2, <1>4, <1>5 DEF Writing
  <2>2. w'.at = "publish" BY <1>8
  <2>3. Off + w.n > 0 /\ Leftover(chip[Target], Off + w.n) BY <1>3 DEF Closed
  <2>4. chip[t][1].rev = w.d.rev /\ Ahead(chip[t][1].rev, chip[s][1].rev) BY <1>3, <1>5, <2>1
  <2>5. /\ w'.d.pair[1] = t /\ w'.d.pair[2] = s /\ w'.d.off = Off + w.n /\ w'.d.rev = w.d.rev
    BY <1>7, <1>8, <1>14, <2>1
  <2> HIDE DEF s, t, other, at
  <2>6. QED BY <1>3, <1>4, <1>5, <1>8, <1>12, <2>1, <2>2, <2>3, <2>4, <2>5 DEF Placed
<1>16. Progress' BY <1>11 DEF Progress
<1>17. Target \in ToSet(ptr) <=> Taken
  <2>1. Target \in ToSet(ptr) => Taken BY DEF Taken
  <2>2. w.at # "publish" /\ w.at # "return" BY <1>2 DEF Writing
  <2>3. QED BY <2>1, <2>2 DEF Taken
<1>18. w'.at = "return" => Taken
  <2>1. ASSUME w'.at = "return" PROVE Target \in ToSet(ptr)
    <3>1. ~w.moved /\ ~w.fresh BY <1>8, <2>1
    <3>2. QED BY <1>2, <1>4, <1>5, <1>13, <3>1 DEF Writing
  <2>2. QED BY <1>17, <2>1
<1>19. Taken' <=> Taken
  <2>1. CASE w'.at = "return" BY <1>18, <2>1 DEF Taken
  <2>2. CASE w'.at = "publish" BY <1>11, <1>12, <1>14, <1>17, <2>2 DEF Taken
  <2>3. QED BY <1>8, <2>1, <2>2
<1>20. Results'
  <2>1. Taken => Value = call BY TakenValue
  <2>2. w'.at # "idle" /\ w.at # "idle" BY <1>2, <1>8 DEF Writing
  <2>3. QED BY <1>1, <1>8, <1>9, <1>18, <1>19, <2>1, <2>2 DEF Results
<1>21. Follows'
  <2> SUFFICES ASSUME held' # NoDir, ~(w'.at = "publish" /\ ~w'.fresh)
               PROVE  Fetched(held)'
    <3>1. held' # NoDir /\ w'.at = "publish" /\ ~w'.fresh => held' = w'.d BY <1>8
    <3>2. QED BY <3>1 DEF Follows
  <2>1. CASE w.fresh
    <3>1. w.at # "publish" BY <1>2 DEF Writing
    <3>2. Fetched(held) BY <2>1, <3>1, HeldFetched
    <3>3. held' = held BY <2>1
    <3>4. QED BY <1>9, <3>2, <3>3 DEF Fetched
  <2>2. CASE ~w.fresh
    <3>1. held' = Written /\ w'.at = "return" BY <1>8, <2>2
    <3>2. Target \in ToSet(ptr) BY <1>17, <1>18, <3>1
    <3>3. Cur = Target /\ Oth = other BY <1>3, <3>2
    <3>4. w.d.rev = chip[Cur][1].rev BY <1>2, <1>3, <1>4, <1>5, <3>3 DEF Writing
    <3>5. QED BY <1>3, <1>7, <1>9, <3>1, <3>3, <3>4 DEF Fetched
  <2>3. QED BY <2>1, <2>2
<1>22. FaultFree'
  <2> SUFFICES ASSUME used.faults = 0, held' # NoDir, held'.erased
               PROVE  BlankFrom(held.pair[1], held.off + 1)'
    BY <1>1, <1>8, <1>11 DEF FaultFree
  <2>1. CASE w.fresh
    <3>1. held' = held BY <2>1
    <3>2. BlankFrom(held.pair[1], held.off + 1) BY <1>1, <2>1, <3>1 DEF FaultFree
    <3>3. QED BY <3>1, <3>2 DEF BlankFrom
  <2>2. CASE ~w.fresh
    <3>1. held'.pair[1] = Target /\ held'.off = Off + w.n BY <1>7, <2>2
    <3>2. BlankFrom(Target, Off + w.n + 1)
      <4>1. CASE w.at = "append"
        <5>1. Off = w.d.off BY <4>1 DEF Off
        <5>2. QED BY <1>1, <1>2, <1>4, <4>1, <5>1 DEF FaultFree
      <4>2. CASE w.at = "write"
        <5>1. w.n \in Nat BY <1>6 DEF Commits
        <5>2. Off + w.n + 1 = w.n + 1 BY <4>2, <5>1 DEF Off
        <5>3. QED BY <1>1, <1>2, <4>2, <5>2 DEF Progress
      <4>3. QED BY <1>2, <4>1, <4>2 DEF Writing
    <3>3. QED BY <3>1, <3>2 DEF BlankFrom
  <2>3. QED BY <2>1, <2>2
<1>23. CellStep BY <1>9 DEF CellStep
<1>24. QED BY <1>9, <1>10, <1>15, <1>16, <1>20, <1>21, <1>22, <1>23 DEF PairInv

(* The compacted block is bad: another one is tried. *)
LEMMA Relocates ==
  ASSUME PairInv, UNCHANGED <<chip, ptr, held, since, used, call, res>>,
         w.at = "write", ~Done, used.faults # 0, w' = Relocating(w)
  PROVE  PairInv' /\ CellStep
<1>1. Typed /\ Sound /\ Placed /\ Results /\ FaultFree BY DEF PairInv
<1>2. w \in Commits BY <1>1 DEF Typed
<1>3. Moves(w, w') /\ w'.d.rev = w.d.rev /\ w'.at \in {"erase", "nospace"}
  BY <1>1, <1>2, RelocatingFacts
<1> DEFINE s == w.d.pair[1]
           t == w.d.pair[2]
           u == w'.d.pair[2]
<1>4. /\ s \in RegionBlock /\ t \in RegionBlock /\ s # t
      /\ w.fresh => s \notin ToSet(ptr) /\ t \notin ToSet(ptr)
      /\ Ahead(w.d.rev, chip[s][1].rev)
      /\ ~w.fresh => s \in ToSet(ptr) /\ s = Cur
      /\ ~w.moved /\ ~w.fresh => t \in ToSet(ptr)
  BY <1>1 DEF Placed
<1>5. UNCHANGED <<Cur, Oth, Value>> /\ ChipOK' /\ Sound'
      /\ ptr' \in RegionBlock \X RegionBlock
  BY <1>1, SameFlash
<1>6. /\ w' \in Commits /\ w'.v = w.v /\ w'.d.pair[1] = s /\ w'.fresh = w.fresh
      /\ w'.at = "erase" => /\ w'.part = 0
                            /\ \/ u = t /\ (w.moved => w'.moved)
                               \/ u = Min(Free) /\ Free # {} /\ w'.moved
  BY <1>3 DEF Moves
<1>7. Typed' BY <1>1, <1>5, <1>6 DEF Typed
<1>8. ~Writing' /\ ~Done' /\ ~Taken' BY <1>3 DEF Writing, Done, Taken
<1>9. UNCHANGED ToSet(ptr) OBVIOUS
<1>10. Placed'
  <2> SUFFICES ASSUME w'.at = "erase" PROVE Placed' BY <1>3 DEF Placed
  <2>1. /\ u \in RegionBlock /\ s # u
        /\ w.fresh => u \notin ToSet(ptr)
        /\ ~w'.moved /\ ~w.fresh => u \in ToSet(ptr)
    BY <1>1, <1>4, <1>6, FreeBlocks
  <2>2. Ahead(w'.d.rev, chip'[s][1].rev) BY <1>3, <1>4
  <2> HIDE DEF s, t
  <2>3. s = w'.d.pair[1] BY <1>6
  <2> HIDE DEF u
  <2>4. u = w'.d.pair[2] BY DEF u
  <2>5. QED BY <1>4, <1>5, <1>6, <1>9, <2>1, <2>2, <2>3, <2>4 DEF Placed
<1>11. Progress' BY <1>8 DEF Progress
<1>12. ~Taken BY DEF Taken
<1>13. Results' BY <1>1, <1>3, <1>5, <1>6, <1>8, <1>12 DEF Results
<1>14. Follows'
  <2>1. held # NoDir => Fetched(held) BY HeldFetched
  <2>2. held' # NoDir => Fetched(held)' BY <1>5, <2>1 DEF Fetched
  <2>3. QED BY <1>3, <2>2 DEF Follows
<1>15. FaultFree' BY DEF FaultFree
<1>16. CellStep BY <1>5 DEF CellStep
<1>17. QED BY <1>5, <1>7, <1>10, <1>11, <1>13, <1>14, <1>15, <1>16 DEF PairInv

LEMMA VerifyStep ==
  ASSUME PairInv, UsedOK, Verify
  PROVE  PairInv' /\ CellStep
<1>1. Writing /\ w.part = w.n /\ UNCHANGED <<chip, ptr, since, used, call, res>>
  BY DEF Verify, Writing
<1>2. CASE ReadsBack
  <2>1. Done BY <1>1, <1>2 DEF Done
  <2>2. QED BY <1>1, <1>2, <2>1, VerifiedStep DEF Verify
<1>3. CASE ~ReadsBack
  <2>1. ~Done BY <1>3 DEF Done
  <2>2. pcache' = NoPageCache /\ UNCHANGED held BY <1>3 DEF Verify
  <2>3. CASE w.at = "append"
    <3>1. w' = Compacting(w) BY <1>3, <2>3 DEF Verify
    <3>2. QED BY <1>1, <2>1, <2>2, <2>3, <3>1, Compacts
  <2>4. CASE w.at = "write"
    <3>1. w' = Relocating(w) BY <1>3, <2>4 DEF Verify
    <3>2. used.faults # 0
      <4> SUFFICES ASSUME used.faults = 0 PROVE FALSE OBVIOUS
      <4>1. \A i \in 1 .. w.n : chip[Target][Off + i] = Piece(i)
        BY <1>1 DEF PairInv, FaultFree
      <4>2. Target \in RegionBlock BY <1>1, WritingPlaces DEF PairInv
      <4>3. \A i \in 1 .. w.n : Place(i) = Off + i
        BY <1>1, <4>2, PieceFacts DEF PairInv
      <4>4. QED BY <1>3, <4>1, <4>3 DEF ReadsBack
    <3>3. QED BY <1>1, <2>1, <2>2, <2>4, <3>1, <3>2, Relocates
  <2>5. QED BY <1>1, <2>3, <2>4 DEF Writing
<1>4. QED BY <1>2, <1>3

(* The parent names the new pair: its first block becomes the newer one. *)
LEMMA PublishStep ==
  ASSUME PairInv, UsedOK, Publish
  PROVE  \/ /\ PairInv' /\ CellStep /\ ptr' = w.d.pair /\ w'.at = "return"
            /\ Cur' = w.d.pair[1] /\ Oth' = w.d.pair[2]
            /\ UNCHANGED used
            /\ since' = [b \in RegionBlock |->
                           IF b \in ToSet(w.d.pair) \ ToSet(ptr) THEN used.commits ELSE since[b]]
         \/ ParentFails /\ used'.faults # 0
<1>1. w.at = "publish" /\ UNCHANGED <<chip, pcache, call>> BY DEF Publish
<1>2. Typed /\ Sound /\ Placed /\ Results /\ Follows /\ FaultFree BY DEF PairInv
<1>3. CASE /\ ParentFails /\ used' = [used EXCEPT !.faults = @ + 1]
  BY <1>3 DEF UsedOK
<1>4. CASE /\ ptr' = w.d.pair
           /\ held' = IF w.fresh THEN NoDir ELSE held
           /\ w' = [w EXCEPT !.at = "return"]
           /\ since' = [b \in RegionBlock |->
                          IF b \in ToSet(w.d.pair) \ ToSet(ptr) THEN used.commits ELSE since[b]]
           /\ UNCHANGED <<used, res>>
  <2>0. PICK s, t : s = w.d.pair[1] /\ t = w.d.pair[2] OBVIOUS
  <2>1. /\ s \in RegionBlock /\ t \in RegionBlock /\ s # t
        /\ Log(chip[s]) = w.d.off /\ w.d.off > 0 /\ chip[s][w.d.off].v = w.v
        /\ Leftover(chip[s], w.d.off) /\ w.d.rev = chip[s][1].rev
        /\ Ahead(chip[s][1].rev, chip[t][1].rev)
    BY <1>1, <1>2, <2>0 DEF Placed
  <2>2. w \in Commits /\ w.d \in Dirs /\ w.d.pair = <<s, t>>
    BY <1>2, <2>0 DEF Typed, Commits, Dirs
  <2>3. res = "none" /\ w.v = call BY <1>1, <1>2 DEF Results
  <2>4. ptr' = <<s, t>> /\ ptr' \in RegionBlock \X RegionBlock BY <1>4, <2>1, <2>2
  <2>5. ChipOK' BY <1>1, <1>2 DEF Typed, ChipOK
  <2>6. Current(s, t)'
    <3>1. chip'[s] = chip[s] /\ chip'[t] = chip[t] BY <1>1
    <3>2. QED BY <2>1, <2>4, <3>1 DEF Current
  <2>7. Cur' = s /\ Oth' = t /\ Value' = chip'[s][Log(chip'[s])].v
    BY <2>5, <2>6, NewestIsNext
  <2>8. Value' = call BY <1>1, <2>1, <2>3, <2>7
  <2>9. Sound' BY <1>1, <2>1, <2>6, <2>7 DEF Sound
  <2>10. w' \in Commits /\ w'.at = "return" /\ w'.v = w.v /\ w'.fresh = w.fresh
    BY <1>4, <2>2 DEF Commits
  <2>11. held' \in Dirs BY <1>2, <1>4, NoneTypes DEF Typed
  <2>12. Typed' BY <1>1, <1>2, <1>4, <2>4, <2>5, <2>10, <2>11 DEF Typed
  <2>13. ~Writing' BY <2>10 DEF Writing
  <2>14. Placed' BY <2>10 DEF Placed
  <2>15. Progress' BY <2>13 DEF Progress
  <2>16. Results'
    <3>1. call' \in Nat /\ Value' = call' BY <1>1, <1>2, <2>8 DEF Typed
    <3>2. Value' <= call' BY <3>1
    <3>3. res' = "none" /\ w'.v = call' BY <1>1, <1>4, <2>3, <2>10
    <3>4. Taken' BY <2>10 DEF Taken
    <3>5. QED BY <2>10, <3>1, <3>2, <3>3, <3>4 DEF Results
  <2>17. Follows'
    <3> SUFFICES ASSUME held' # NoDir PROVE Fetched(held)' BY <2>10 DEF Follows
    <3>1. held' = w.d BY <1>1, <1>2, <1>4 DEF Follows
    <3>2. QED BY <1>1, <2>1, <2>2, <2>7, <3>1 DEF Fetched
  <2>18. FaultFree'
    <3> SUFFICES ASSUME used.faults = 0, held' # NoDir, held'.erased
                 PROVE  BlankFrom(held.pair[1], held.off + 1)'
      BY <1>1, <1>2, <1>4, <2>10, <2>13 DEF FaultFree
    <3>1. held' = held BY <1>4
    <3>2. BlankFrom(held.pair[1], held.off + 1) BY <1>1, <1>2, <3>1 DEF FaultFree
    <3>3. QED BY <1>1, <3>1, <3>2 DEF BlankFrom
  <2>19. Cell!Take BY <1>1, <1>4, <2>3, <2>8 DEF Cell!Take
  <2>20. QED
    BY <1>4, <2>0, <2>7, <2>9, <2>10, <2>12, <2>14, <2>15, <2>16, <2>17, <2>18, <2>19
    DEF PairInv, CellStep, Cell!Next
<1>5. QED BY <1>3, <1>4 DEF Publish

-----------------------------------------------------------------------------
(* Power fails: a page or a block may be left half done. *)
LEMMA HalfProgrammed ==
  ASSUME PairInv, Writing, w.part < w.n, Place(w.part + 1) <= Pages, UNCHANGED ptr,
         chip' \in {[chip EXCEPT ![Target][Place(w.part + 1)] = t] :
                      t \in IF chip[Target][Place(w.part + 1)] = BlankPage
                            THEN Broken ELSE {}}
  PROVE  /\ ChipOK' /\ Sound' /\ UNCHANGED <<Cur, Oth, Value>>
         /\ chip'[Cur][1] = chip[Cur][1] /\ Log(chip'[Cur]) = Log(chip[Cur])
<1>1. Place(w.part + 1) = NextPage BY WritingFacts
<1>2. chip[Target][NextPage] = BlankPage BY <1>1
<1>3. PICK y \in Broken : chip' = [chip EXCEPT ![Target][NextPage] = y] BY <1>1, <1>2
<1>4. y \in Content /\ y.is \in {"torn", "ghost"}
  <2>1. PICK r \in NoiseRevs : y = TornPage(r) \/ y = GhostPage(r) BY DEF Broken
  <2>2. r \in Rev BY RevisionFacts
  <2>3. QED BY <2>1, <2>2, TornFacts
<1>5. QED BY <1>1, <1>2, <1>3, <1>4, PageSpoilt

HalfErase(k, t) ==
  [chip EXCEPT ![w.d.pair[2]] =
     [p \in 1 .. Pages |-> IF p < k THEN BlankPage ELSE IF p = k THEN t ELSE @[p]]]

(* A block half erased has no log. *)
LEMMA HalfErased ==
  ASSUME PairInv, w.at = "erase", UNCHANGED ptr,
         NEW k \in 1 .. Pages, NEW y \in Broken \cup {BlankPage}, chip' = HalfErase(k, y)
  PROVE  /\ ChipOK' /\ Sound' /\ UNCHANGED <<Cur, Oth, Value>>
         /\ chip'[Cur][1] = chip[Cur][1] /\ Log(chip'[Cur]) = Log(chip[Cur])
<1> DEFINE b == w.d.pair[2]
           h == [p \in 1 .. Pages |->
                   IF p < k THEN BlankPage ELSE IF p = k THEN y ELSE chip[b][p]]
<1>1. b \in RegionBlock /\ b # Cur BY EraseTarget
<1>2. Typed /\ Sound BY DEF PairInv
<1>3. chip' = [chip EXCEPT ![b] = h] BY DEF HalfErase
<1>4. y \in Content /\ y.is # "piece"
  <2>1. CASE y = BlankPage BY <2>1, BlanksFacts
  <2>2. CASE y \in Broken
    <3>1. PICK r \in NoiseRevs : y = TornPage(r) \/ y = GhostPage(r) BY <2>2 DEF Broken
    <3>2. r \in Rev BY RevisionFacts
    <3>3. QED BY <3>1, <3>2, TornFacts
  <2>3. QED BY <2>1, <2>2
<1>5. chip[b] \in BlockContent BY <1>1, <1>2 DEF Typed, ChipOK
<1> HIDE DEF b
<1>6. h \in BlockContent BY <1>4, <1>5, BlanksFacts DEF BlockContent
<1>7. h[1].is # "piece"
  <2>1. 1 \in 1 .. Pages BY PagesFacts
  <2>2. CASE k = 1
    <3>1. h[1] = y BY <2>1, <2>2
    <3>2. QED BY <1>4, <3>1
  <2>3. CASE k # 1
    <3>1. 1 < k BY <2>3
    <3>2. h[1] = BlankPage BY <2>1, <3>1
    <3>3. QED BY <3>2, BlanksFacts
  <2>4. QED BY <2>2, <2>3
<1> HIDE DEF h
<1>9. Log(h) = 0 BY <1>6, <1>7, BlankBlock
<1>10. QED BY <1>1, <1>2, <1>3, <1>6, <1>9, BlockChanged

(* Whatever power failure leaves, a fetch reads what it read before. *)
LEMMA PowerLossStep ==
  ASSUME PairInv, PowerLoss
  PROVE  PairInv' /\ CellStep /\ Stays
<1>1. /\ w.at # "idle" /\ w' = NoCommit /\ held' = NoDir /\ pcache' = NoPageCache
      /\ res' = "lost" /\ UNCHANGED <<ptr, call>> /\ chip' \in Halfway
  BY DEF PowerLoss
<1>2. Typed /\ Sound /\ Results BY DEF PairInv
<1>3. /\ ChipOK' /\ Sound' /\ UNCHANGED <<Cur, Oth, Value>>
      /\ chip'[Cur][1] = chip[Cur][1] /\ Log(chip'[Cur]) = Log(chip[Cur])
  <2>1. CASE chip' = chip BY <1>1, <1>2, <2>1, SameFlash
  <2>2. CASE chip' # chip /\ Writing /\ w.part < w.n /\ Place(w.part + 1) <= Pages
    <3>1. Halfway = {chip} \cup
            {[chip EXCEPT ![Target][Place(w.part + 1)] = t] :
               t \in IF chip[Target][Place(w.part + 1)] = BlankPage
                     THEN Broken ELSE {}}
      BY <2>2 DEF Halfway, Writing
    <3>2. QED BY <1>1, <2>2, <3>1, HalfProgrammed
  <2>3. CASE chip' # chip /\ w.at = "erase"
    <3>1. ~(w.at \in {"append", "write"}) BY <2>3
    <3>2. Halfway = {HalfErase(k, t) : k \in 1 .. Pages, t \in Broken \cup {BlankPage}}
      BY <2>3, <3>1 DEF Halfway, HalfErase
    <3>3. PICK k \in 1 .. Pages, y \in Broken \cup {BlankPage} : chip' = HalfErase(k, y)
      BY <1>1, <3>2
    <3>4. QED BY <1>1, <2>3, <3>3, HalfErased
  <2>4. CASE ~(Writing /\ w.part < w.n /\ Place(w.part + 1) <= Pages) /\ w.at # "erase"
    <3>1. Halfway = {chip} BY <2>4 DEF Halfway, Writing
    <3>2. QED BY <1>1, <2>1, <3>1
  <2>5. QED BY <2>1, <2>2, <2>3, <2>4
<1>4. PairInv' BY <1>1, <1>3, Ended
<1>5. res = "none" BY <1>1, <1>2 DEF Results
<1>6. Cell!Crash BY <1>1, <1>3, <1>5 DEF Cell!Crash
<1>7. QED BY <1>3, <1>4, <1>6 DEF CellStep, Cell!Next, Stays

(* A block with one commit of two pages. *)
LEMMA OldFacts ==
  ASSUME NEW v \in Int, NEW rev \in Rev
  PROVE  /\ Old(v, rev) \in BlockContent /\ Log(Old(v, rev)) = 2 /\ Leftover(Old(v, rev), 2)
         /\ Old(v, rev)[1].rev = rev /\ Old(v, rev)[2].v = v
<1> DEFINE OldPiece(p) == [is |-> "piece", v |-> v, part |-> p, of |-> 2, rev |-> rev,
                         next |-> "blank"]
<1>1. PICK h : h = Old(v, rev) OBVIOUS
<1>2. h = [p \in 1 .. Pages |-> IF p <= 2 THEN OldPiece(p) ELSE BlankPage] BY <1>1 DEF Old
<1>3. 1 \in 1 .. Pages /\ 2 \in 1 .. Pages BY PagesFacts
<1>4. ASSUME NEW p \in 1 .. 2, NEW y, y = OldPiece(p)
      PROVE  /\ y \in Content /\ y.is = "piece" /\ y.part = p /\ y.of = 2 /\ y.rev = rev
             /\ y.v = v
  <2>1. /\ y.is = "piece" /\ y.part = p /\ y.of = 2 /\ y.rev = rev /\ y.v = v
    BY <1>4
  <2>2. "piece" \in State /\ "blank" \in PageKind BY DEF State, PageKind
  <2>3. p \in 0 .. Pages /\ 2 \in 0 .. Pages BY PagesFacts
  <2>4. y \in [is : State, v : Int, part : 0 .. Pages, of : 0 .. Pages, rev : Rev,
               next : PageKind]
    BY <1>4, <2>2, <2>3
  <2>5. QED BY <2>1, <2>4 DEF Content
<1> HIDE DEF OldPiece
<1>5. h[1] = OldPiece(1) /\ h[2] = OldPiece(2) BY <1>2, <1>3
<1>6. \A p \in 3 .. Pages : h[p] = BlankPage
  <2>1. \A p \in 3 .. Pages : p \in 1 .. Pages /\ ~(p <= 2) BY PagesFacts
  <2>2. QED BY <1>2, <2>1
<1>7. /\ h[1] \in Content /\ h[1].is = "piece" /\ h[1].part = 1 /\ h[1].of = 2 /\ h[1].rev = rev
      /\ h[2] \in Content /\ h[2].v = v
  BY <1>4, <1>5
<1>8. h \in BlockContent
  <2>1. \A p \in 1 .. Pages : p = 1 \/ p = 2 \/ p \in 3 .. Pages BY PagesFacts
  <2>2. \A p \in 1 .. Pages : h[p] \in Content BY <1>6, <1>7, <2>1, BlanksFacts
  <2>3. QED BY <1>2, <2>2 DEF BlockContent
<1>9. Whole(h, 1)
  <2>1. h[2] = [h[1] EXCEPT !.part = 2] /\ h[1] = [h[1] EXCEPT !.part = 1]
    BY <1>5 DEF OldPiece
  <2>2. \A i \in 1 .. 2 : h[1 + i - 1] = [h[1] EXCEPT !.part = i]
    <3>1. \A i \in 1 .. 2 : (i = 1 \/ i = 2) /\ 1 + i - 1 = i OBVIOUS
    <3>2. QED BY <2>1, <3>1
  <2>3. QED BY <1>3, <1>7, <2>2, PagesFacts DEF Whole
<1>10. ~Whole(h, 3)
  <2> SUFFICES ASSUME 3 <= Pages PROVE ~Whole(h, 3) BY DEF Whole
  <2>1. h[3] = BlankPage BY <1>6, PagesFacts
  <2>2. QED BY <2>1, BlanksFacts DEF Whole
<1>11. Log(h) = 2
  <2>1. Agree(Blanks, h, 0) BY DEF Agree
  <2>2. Log(Blanks) = 0 /\ 0 + 1 = 1 /\ 0 + 2 + 1 = 3 /\ 0 + 2 = 2 BY BlanksFacts
  <2>3. QED BY <1>7, <1>8, <1>9, <1>10, <2>1, <2>2, BlanksFacts, LogGrown
<1>12. Leftover(h, 2)
  <2>1. 2 + 1 = 3 OBVIOUS
  <2>2. \A p \in 3 .. Pages : \A q \in p .. Pages : q \in 3 .. Pages BY PagesFacts
  <2>3. QED BY <1>6, <2>1, <2>2, BlanksFacts DEF Leftover
<1>13. QED BY <1>1, <1>5, <1>7, <1>8, <1>11, <1>12

(* At first the pair has one commit, in its first block. *)
LEMMA Initially ==
  ASSUME PairInit
  PROVE  UsedOK /\ PairInv /\ Cell!Init
<1>1. /\ ptr \in {Root, <<2, 3>>} /\ held = NoDir /\ pcache = NoPageCache /\ w = NoCommit
      /\ used = [commits |-> 0, faults |-> 0, losses |-> 0] /\ call = 0 /\ res = "ok"
  BY DEF PairInit
<1>2. PICK r \in FirstRevs, s \in NoiseRevs :
        chip = [b \in RegionBlock |->
                 IF b = ptr[1] THEN Old(0, r)
                 ELSE IF b = ptr[2] THEN Old(-2, (r - 1) % RevMod) ELSE Old(-2, s)]
  BY DEF PairInit
<1>3. PICK c, o : c = ptr[1] /\ o = ptr[2] OBVIOUS
<1>4. ptr = <<c, o>> /\ c \in RegionBlock /\ o \in RegionBlock /\ c # o
  BY <1>1, <1>3, PagesFacts DEF Root, RegionBlock
<1>5. r \in Rev /\ s \in Rev /\ (r - 1) % RevMod \in Rev
  <2>1. r \in Rev /\ s \in Rev BY RevisionFacts
  <2>2. r - 1 \in Int BY <2>1 DEF Rev
  <2>3. QED BY <2>1, <2>2, ModInRev
<1>6. chip[c] = Old(0, r) /\ chip[o] = Old(-2, (r - 1) % RevMod)
  BY <1>2, <1>3, <1>4
<1>7. ChipOK
  <2>1. -2 \in Int /\ 0 \in Int OBVIOUS
  <2>2. \A b \in RegionBlock : chip[b] \in BlockContent BY <1>2, <1>5, <2>1, OldFacts
  <2>3. QED BY <1>2, <2>2 DEF ChipOK
<1>8. /\ Log(chip[c]) = 2 /\ Leftover(chip[c], 2) /\ chip[c][1].rev = r /\ chip[c][2].v = 0
      /\ chip[o][1].rev = (r - 1) % RevMod
  <2>1. -2 \in Int /\ 0 \in Int OBVIOUS
  <2>2. QED BY <1>5, <1>6, <2>1, OldFacts
<1>9. Ahead(r, (r - 1) % RevMod)
  <2>1. RevMod \in Nat /\ RevMod >= 8 /\ 1 \in 1 .. (RevMod \div 2) - 1 /\ r \in 0 .. RevMod - 1
    BY <1>5, RevisionFacts DEF Rev
  <2>2. CASE r = 0
    <3>1. RevMod - 1 \in 0 .. RevMod - 1 BY <2>1
    <3>2. (RevMod - 1 - RevMod) % RevMod = RevMod - 1 BY <3>1, ModSmall
    <3>3. r - 1 = RevMod - 1 - RevMod BY <2>1, <2>2
    <3>4. (r - 1) % RevMod = RevMod - 1 BY <3>2, <3>3
    <3>5. PICK m : m = (r - 1) % RevMod OBVIOUS
    <3>6. (1 - RevMod) % RevMod = 1
      <4>1. 1 \in 0 .. RevMod - 1 BY <2>1
      <4>2. QED BY <4>1, ModSmall
    <3>7. m = RevMod - 1 BY <3>4, <3>5
    <3>8. r - m = 1 - RevMod BY <2>1, <2>2, <3>7
    <3>9. Ahead(r, m) BY <2>1, <3>6, <3>8 DEF Ahead
    <3>10. QED BY <3>5, <3>9
  <2>3. CASE r # 0
    <3>1. r - 1 \in 0 .. RevMod - 1 BY <2>1, <2>3
    <3>2. (r - 1) % RevMod = r - 1 BY <3>1, ModSmall
    <3>3. r - ((r - 1) % RevMod) = 1 BY <2>1, <3>2
    <3>4. 1 % RevMod = 1
      <4>1. 1 \in 0 .. RevMod - 1 BY <2>1
      <4>2. QED BY <4>1, ModSmall
    <3>5. QED BY <2>1, <3>3, <3>4 DEF Ahead
  <2>4. QED BY <2>2, <2>3
<1>10. Current(c, o) BY <1>4, <1>8, <1>9 DEF Current
<1>11. Cur = c /\ Oth = o /\ Value = 0 BY <1>7, <1>8, <1>10, NewestIs
<1>12. Sound BY <1>8, <1>10, <1>11 DEF Sound
<1>13. UsedOK BY <1>1 DEF UsedOK
<1>14. NoDir \in Dirs /\ w \in Commits /\ w.at = "idle" BY <1>1, NoneTypes
<1>15. Typed BY <1>1, <1>4, <1>7, <1>14 DEF Typed
<1>16. ~Writing /\ ~Done /\ ~Taken BY <1>14 DEF Writing, Done, Taken
<1>17. Placed BY <1>14 DEF Placed
<1>18. Progress BY <1>16 DEF Progress
<1>19. Results BY <1>1, <1>11, <1>14 DEF Results
<1>20. Follows BY <1>1 DEF Follows
<1>21. FaultFree BY <1>1, <1>14, <1>16 DEF FaultFree
<1>22. Cell!Init BY <1>1, <1>11 DEF Cell!Init
<1>23. QED BY <1>12, <1>13, <1>15, <1>17, <1>18, <1>19, <1>20, <1>21, <1>22 DEF PairInv

(* The faults of the flash only add up. *)
LEMMA UsedStep ==
  ASSUME UsedOK, [PairNext]_pairVars
  PROVE  UsedOK' /\ (used'.faults = 0 => used.faults = 0)
<1>1. \/ used' = used
      \/ used' = [used EXCEPT !.commits = @ + 1]
      \/ used' = [used EXCEPT !.faults = @ + 1]
      \/ used' = [used EXCEPT !.losses = @ + 1]
  <2>1. ASSUME CommitPair PROVE \/ used' = used \/ used' = [used EXCEPT !.commits = @ + 1]
    BY <2>1 DEF CommitPair
  <2>2. ASSUME AllocPair PROVE used' = [used EXCEPT !.commits = @ + 1]
    BY <2>2 DEF AllocPair
  <2>3. ASSUME OpenDir PROVE used' = used BY <2>3 DEF OpenDir
  <2>4. ASSUME Program PROVE used' = used \/ used' = [used EXCEPT !.faults = @ + 1]
    BY <2>4 DEF Program
  <2>5. ASSUME NoRoom PROVE used' = used BY <2>5 DEF NoRoom
  <2>6. ASSUME Verify PROVE used' = used BY <2>6 DEF Verify
  <2>7. ASSUME EraseBlock PROVE used' = used \/ used' = [used EXCEPT !.faults = @ + 1]
    BY <2>7 DEF EraseBlock
  <2>8. ASSUME NoSpace PROVE used' = used BY <2>8 DEF NoSpace
  <2>9. ASSUME Publish PROVE used' = used \/ used' = [used EXCEPT !.faults = @ + 1]
    BY <2>9 DEF Publish
  <2>10. ASSUME Return PROVE used' = used BY <2>10 DEF Return
  <2>11. ASSUME PowerLoss PROVE used' = [used EXCEPT !.losses = @ + 1]
    BY <2>11 DEF PowerLoss
  <2>12. ASSUME UNCHANGED pairVars PROVE used' = used BY <2>12 DEF pairVars
  <2>13. QED BY <2>1, <2>2, <2>3, <2>4, <2>5, <2>6, <2>7, <2>8, <2>9, <2>10, <2>11, <2>12
            DEF PairNext
<1>2. QED BY <1>1 DEF UsedOK

(* The steps that leave the pair in order: all of them, unless the flash   *)
(* has refused the parent the commit that names the new pair.              *)
Regular == ~ParentFails \/ used.faults = 0

(* A step of the pair keeps the invariant and is a step of the cell. *)
LEMMA PairStep ==
  ASSUME UsedOK, PairInv, Regular', [PairNext]_pairVars
  PROVE  PairInv' /\ CellStep
<1>1. CASE CommitPair BY <1>1, CommitStep
<1>2. CASE AllocPair BY <1>2, AllocStep
<1>3. CASE OpenDir BY <1>3, OpenStep
<1>4. CASE Program BY <1>4, ProgramStep
<1>5. CASE NoRoom BY <1>5, NoRoomStep
<1>6. CASE Verify BY <1>6, VerifyStep
<1>7. CASE EraseBlock BY <1>7, EraseStep
<1>8. CASE NoSpace BY <1>8, NoSpaceStep
<1>9. CASE Publish BY <1>9, PublishStep DEF Regular
<1>10. CASE Return BY <1>10, ReturnStep
<1>11. CASE PowerLoss BY <1>11, PowerLossStep
<1>12. CASE UNCHANGED pairVars
  <2>1. UNCHANGED <<chip, ptr, held, pcache, w, since, used, call, res>>
    BY <1>12 DEF pairVars
  <2>2. Typed /\ Sound BY DEF PairInv
  <2>3. UNCHANGED <<Cur, Oth, Value>> /\ ChipOK' /\ Sound' BY <2>1, <2>2, SameFlash
  <2>4. Typed' BY <2>1, <2>2, <2>3 DEF Typed
  <2>5. UNCHANGED Writing BY <2>1 DEF Writing
  <2>6. UNCHANGED <<Target, Off>> BY <2>1 DEF Target, Off
  <2>7. \A i : Piece(i)' = Piece(i) BY <2>1, <2>6 DEF Piece, Behind, Place
  <2>8. UNCHANGED Done BY <2>1 DEF Done, Writing, ReadsBack, Piece, Behind, Place, Target
  <2>9. Placed' BY <2>1, <2>2, <2>3, <2>8 DEF PairInv, Placed
  <2>10. Progress' BY <2>1, <2>5, <2>6, <2>7, <2>8 DEF PairInv, Progress, BlankFrom, Filled
  <2>11. UNCHANGED Taken BY <2>1, <2>6, <2>8 DEF Taken
  <2>12. Results' BY <2>1, <2>3, <2>11 DEF PairInv, Results
  <2>13. Follows' BY <2>1, <2>3, <2>6, <2>8 DEF PairInv, Follows, Fetched
  <2>14. FaultFree' BY <2>1, <2>5, <2>6, <2>7 DEF PairInv, FaultFree, BlankFrom
  <2>15. CellStep BY <2>1, <2>3 DEF CellStep
  <2>16. QED BY <2>3, <2>4, <2>9, <2>10, <2>12, <2>13, <2>14, <2>15 DEF PairInv
<1>13. QED
  BY <1>1, <1>2, <1>3, <1>4, <1>5, <1>6, <1>7, <1>8, <1>9, <1>10, <1>11, <1>12 DEF PairNext

PairIInv == UsedOK /\ (Regular => PairInv)

(* The invariant of a metadata pair holds for every region, page count,    *)
(* commit size, revision width, wear period and sequence of refusals and   *)
(* power failures (lfs_dir_commit, lfs_dir_compact, lfs_dir_fetchmatch):   *)
(* the newer block is found, what lies behind its log is the rest of one   *)
(* interrupted commit, and an open file's copy names that block; as long   *)
(* as the flash has not refused the parent the commit that names a moved   *)
(* pair.                                                                   *)
THEOREM PairOrdered == PairSpec => []PairIInv
<1>1. PairInit => PairIInv BY Initially DEF PairIInv
<1>2. PairIInv /\ [PairNext]_pairVars => PairIInv'
  <2> SUFFICES ASSUME PairIInv, [PairNext]_pairVars PROVE PairIInv' OBVIOUS
  <2>1. UsedOK' /\ (Regular' => Regular) BY UsedStep DEF PairIInv, Regular
  <2>2. Regular' => PairInv' BY <2>1, PairStep DEF PairIInv
  <2>3. QED BY <2>1, <2>2 DEF PairIInv
<1>3. QED BY <1>1, <1>2, PTL DEF PairSpec

(* dir->erased, for every value of the constants: as long as the flash has *)
(* refused nothing, lfs_dir_commit appends only to erased pages, whatever  *)
(* an interrupted program or erase left behind the log (the forward        *)
(* checksum is what makes it true).                                        *)
THEOREM ErasedBehindAppend == PairSpec => []AppendsToErased
<1>1. PairIInv => AppendsToErased
  BY DEF PairIInv, Regular, PairInv, FaultFree, AppendsToErased, BlankFrom
<1>2. QED BY <1>1, PairOrdered, PTL

(* lfs_dir_commit is atomic for every value of the constants but one: when *)
(* the flash does not refuse the commit that names a moved pair in its     *)
(* parent, the pair refines a cell whose value changes from one commit to  *)
(* the next at one instant, is the new one if the commit reports success   *)
(* and the old one if it reports an error, through bad blocks, wear and    *)
(* power failures.                                                         *)
THEOREM CommitsAreAtomic == ~ParentFails => (PairSpec => ImplementsCell)
<1> SUFFICES ASSUME ~ParentFails PROVE PairSpec => ImplementsCell OBVIOUS
<1>1. PairInit => Cell!Init BY Initially
<1>2. PairIInv /\ [PairNext]_pairVars => [Cell!Next]_(Cell!vars)
  <2> SUFFICES ASSUME PairIInv, [PairNext]_pairVars PROVE Cell!Next \/ UNCHANGED Cell!vars
    OBVIOUS
  <2>1. CellStep BY PairStep DEF PairIInv, Regular
  <2>2. QED BY <2>1 DEF CellStep, Cell!vars
<1>3. QED BY <1>1, <1>2, PairOrdered, PTL DEF PairSpec, ImplementsCell, Cell!Spec
-----------------------------------------------------------------------------
(* Wear levelling. *)
SpareBlocks == RegionBlock \ (ToSet(Root) \cup ToSet(ptr))
IsRoot == Synced(ptr, Root)
CurRev == chip[Cur][1].rev
Even(r) == (r % Period) % 2 = 0

(* The last revision before the wrap has an even place in the period, as   *)
(* 2^32 - 1 has with the 500 cycles of the glue.                           *)
WrapIsEven == Even(RevMod - 1)

(* A pair moves at an even place in the period, and its blocks take turns  *)
(* in between, an odd number of times; so the block that entered the pair  *)
(* last is the newer one exactly at the even places.                       *)
Levelled ==
  IsRoot \/ since[Cur] = since[Oth]
         \/ /\ SpareBlocks # {}
            /\ IF Even(CurRev) THEN since[Oth] <= since[Cur] ELSE since[Cur] <= since[Oth]

(* The superblock's pair never moves and lends no block. *)
Apart == IsRoot \/ ToSet(ptr) \cap ToSet(Root) = {}
Taking == w.at \in {"erase", "write", "publish"}
NewBlock == IF w.at = "publish" THEN w.d.pair[1] ELSE w.d.pair[2]
TakesBlocks ==
  Taking => \A b \in {w.d.pair[1], w.d.pair[2]} : b \in ToSet(ptr) \/ b \notin ToSet(Root)
Leaving ==
  Taking /\ w.moved /\ ~w.fresh =>
    ~IsRoot /\ (SpareBlocks # {} => NewBlock \notin ToSet(ptr))

(* A commit that goes to another block moves the pair exactly when it is   *)
(* worn, and what the parent is to name is the moved pair.                 *)
Swapped == Done /\ Target \in ToSet(ptr)
Rewriting ==
  w.at \in {"erase", "write"} /\ ~w.fresh /\ ~Swapped =>
    /\ w.d.pair[1] = Cur /\ w.d.rev = (CurRev + 1) % RevMod
    /\ ~IsRoot => (w.moved <=> NeedsRelocation(CurRev))
Naming ==
  w.at = "publish" /\ ~w.fresh =>
    /\ w.moved
    /\ NewBlock \notin ToSet(ptr) =>
         /\ w.d.pair[2] = Cur /\ w.d.rev = (CurRev + 1) % RevMod /\ NeedsRelocation(CurRev)
Since == since \in [RegionBlock -> Nat] /\ \A b \in RegionBlock : since[b] <= used.commits
WearInv ==
  /\ Since
  /\ w.at = "idle" => w.d = NoDir
  /\ Apart /\ Levelled /\ TakesBlocks /\ Leaving /\ Rewriting /\ Naming

LEMMA PeriodOdd == Period % 2 = 1 /\ Period \in Nat \ {0}
<1>1. BlockCycles \in Nat BY RevisionAssumption
<1>2. BlockCycles % 2 = 0 \/ BlockCycles % 2 = 1 BY <1>1
<1>3. BlockCycles % 2 = 0 => (BlockCycles + 1) % 2 = 1 BY <1>1
<1>4. BlockCycles % 2 = 1 => (BlockCycles + 2) % 2 = 1 BY <1>1
<1>5. Period \in Nat \ {0} BY RevisionFacts
<1>6. QED BY <1>2, <1>3, <1>4, <1>5 DEF Period

(* The glue's 500 cycles and revisions of 32 bits are such values. *)
LEMMA GlueWrapsEven ==
  ASSUME RevMod = 4294967296, BlockCycles = 500
  PROVE  WrapIsEven
<1>1. Period = 501 BY DEF Period
<1>2. (4294967295 % 501) % 2 = 0 OBVIOUS
<1>3. QED BY <1>1, <1>2 DEF WrapIsEven, Even

(* The places of a revision and of the next one. *)
LEMMA NextPlace ==
  ASSUME NEW r \in Rev
  PROVE  /\ (r + 1) % RevMod \in Rev
         /\ NeedsRelocation(r) => Even((r + 1) % RevMod) /\ (WrapIsEven => Even(r))
         /\ ~NeedsRelocation(r) => (Even((r + 1) % RevMod) <=> ~Even(r))
<1> DEFINE m == r % Period
           q == r \div Period
           n == (r + 1) % RevMod
<1>1. /\ r \in 0 .. RevMod - 1 /\ RevMod \in Nat /\ Period \in Nat \ {0} /\ Period % 2 = 1
      /\ Period >= 3 /\ n \in Rev
  BY RevisionFacts, PeriodOdd, NextAhead DEF Rev
<1>2. m \in 0 .. Period - 1 /\ q \in Nat /\ r = q * Period + m BY <1>1
<1>3. NeedsRelocation(r) <=> n % Period = 0 BY DEF NeedsRelocation
<1>4. CASE r = RevMod - 1
  <2>1. n = 0
    <3>1. 0 \in 0 .. RevMod - 1 BY <1>1
    <3>2. (0 + RevMod) % RevMod = 0 BY <3>1, ModSmall
    <3>3. r + 1 = 0 + RevMod BY <1>1, <1>4
    <3>4. QED BY <3>2, <3>3
  <2>2. 0 % Period = 0
    <3>1. (0 * Period + 0) % Period = 0 BY <1>1, ModUnique
    <3>2. QED BY <1>1, <3>1
  <2>3. Even(0) BY <2>2 DEF Even
  <2> HIDE DEF n
  <2>4. QED BY <1>1, <1>3, <1>4, <2>1, <2>2, <2>3 DEF WrapIsEven, n
<1>5. CASE r # RevMod - 1
  <2>1. n = r + 1
    <3>1. r + 1 \in 0 .. RevMod - 1 BY <1>1, <1>5
    <3>2. QED BY <3>1, ModSmall
  <2>2. CASE m + 1 < Period
    <3>1. n % Period = m + 1
      <4> HIDE DEF m, q, n
      <4>1. m + 1 \in 0 .. Period - 1 BY <1>1, <1>2, <2>2
      <4>2. (q * Period + (m + 1)) % Period = m + 1 BY <1>1, <1>2, <4>1, ModUnique
      <4>3. q * Period \in Nat BY <1>1, <1>2
      <4>4. q * Period + (m + 1) = n BY <1>1, <1>2, <2>1, <4>3
      <4>5. QED BY <4>2, <4>4
    <3>2. m + 1 # 0 BY <1>2
    <3>3. (m + 1) % 2 = 0 <=> ~(m % 2 = 0)
      <4> HIDE DEF m
      <4>1. m \in Nat BY <1>1, <1>2
      <4>2. QED BY <4>1
    <3> HIDE DEF n
    <3>4. QED BY <1>1, <1>3, <3>1, <3>2, <3>3 DEF Even, n
  <2>3. CASE m + 1 = Period
    <3>1. n % Period = 0
      <4> HIDE DEF m, q, n
      <4>1. 0 \in 0 .. Period - 1 /\ q + 1 \in Int BY <1>1, <1>2
      <4>2. ((q + 1) * Period + 0) % Period = 0 BY <1>1, <4>1, ModUnique
      <4>3. (q + 1) * Period + 0 = n BY <1>1, <1>2, <2>1, <2>3
      <4>5. QED BY <4>2, <4>3
    <3>2. m % 2 = 0
      <4> HIDE DEF m
      <4>1. m \in Nat /\ m = Period - 1 BY <1>1, <1>2, <2>3
      <4>2. QED BY <1>1, <4>1
    <3> HIDE DEF n
    <3>3. QED BY <1>1, <1>3, <3>1, <3>2 DEF Even, n
  <2>4. QED BY <1>1, <1>2, <2>2, <2>3
<1>6. QED BY <1>4, <1>5

(* Between the commits of a pair, every block but its own is free. *)
LEMMA FreeIsSpare ==
  ASSUME Typed, Sound, w.d.pair[1] \in {Cur, Blocks}, w.d.pair[2] \in {Oth, Blocks}
  PROVE  Free = SpareBlocks
<1>1. w.d.pair \in (0 .. Blocks) \X (0 .. Blocks) BY DEF Typed, Commits, Dirs
<1>2. ToSet(w.d.pair) = {w.d.pair[1], w.d.pair[2]} BY <1>1, SetOfPair
<1>3. ToSet(ptr) = {Cur, Oth} BY NamedPair
<1>4. QED BY <1>2, <1>3, BlockFacts DEF Free, SpareBlocks

(* lfs_dir_compact, as the wear sees it. *)
Rewrites(y) ==
  /\ y.at = "erase" /\ ~y.fresh /\ y.d.pair[1] = Cur
  /\ y.d.pair[2] \in ToSet(ptr) \/ y.d.pair[2] \in SpareBlocks
  /\ y.d.rev = (CurRev + 1) % RevMod
  /\ ~IsRoot => (y.moved <=> NeedsRelocation(CurRev))
  /\ y.moved => ~IsRoot /\ (SpareBlocks # {} => y.d.pair[2] \notin ToSet(ptr))
LEMMA CompactingWear ==
  ASSUME Typed, Sound, NEW x \in Commits, x.d.pair = <<Cur, Oth>>, x.d.rev = CurRev,
         ~x.moved, ~x.fresh, Free = SpareBlocks
  PROVE  Rewrites(Compacting(x))
<1> DEFINE r == (x.d.rev + 1) % RevMod
           e == [x.d EXCEPT !.rev = r]
           t == NeedsRelocation(x.d.rev)
           z == [x EXCEPT !.at = "erase", !.part = 0, !.tired = t, !.d = e]
           y == Compacting(x)
<1>1. x.d \in Dirs BY DEF Commits
<1>2. e.rev = r /\ e.pair = <<Cur, Oth>> BY <1>1 DEF Dirs
<1>3. y = IF z.tired /\ ~Synced(z.d.pair, Root) THEN Relocating(z) ELSE z
  BY DEF Compacting
<1>4. /\ z.at = "erase" /\ ~z.fresh /\ z.d = e /\ z.part = 0 /\ ~z.moved /\ z.tired = t
  BY DEF Commits
<1>5. ToSet(ptr) = {Cur, Oth} BY NamedPair
<1>6. Synced(z.d.pair, Root) <=> IsRoot
  <2>1. z.d.pair = <<Cur, Oth>> BY <1>2, <1>4
  <2> HIDE DEF z
  <2>2. ToSet(z.d.pair) = ToSet(ptr) BY <1>5, <2>1, PairSet
  <2>3. QED BY <2>2 DEF Synced, IsRoot
<1>7. t = NeedsRelocation(CurRev) /\ r = (CurRev + 1) % RevMod OBVIOUS
<1> HIDE DEF e, r, t, y
<1>8. CASE z.tired /\ ~Synced(z.d.pair, Root)
  <2> DEFINE b == IF Free = {} THEN Oth ELSE Min(Free)
  <2> HIDE DEF z
  <2>1. y = [z EXCEPT !.at = "erase", !.moved = TRUE, !.tired = FALSE, !.part = 0,
                      !.d = [e EXCEPT !.pair = <<Cur, b>>]]
    <3> DEFINE m == IF Free = {} THEN z.d.pair[2] ELSE Min(Free)
    <3>1. y = Relocating(z) BY <1>3, <1>8
    <3>2. [z.d.pair EXCEPT ![2] = m] = <<z.d.pair[1], m>> BY <1>2, <1>4
    <3>3. Relocating(z) =
            [z EXCEPT !.at = "erase", !.moved = TRUE, !.tired = FALSE, !.part = 0,
                      !.d = [z.d EXCEPT !.pair = <<z.d.pair[1], m>>]]
      BY <1>8, <3>2 DEF Relocating
    <3>4. z.d = e /\ z.d.pair[1] = Cur /\ m = b BY <1>2, <1>4 DEF b
    <3> HIDE DEF m
    <3>5. QED BY <3>1, <3>3, <3>4
  <2>2. b \in ToSet(ptr) \/ b \in SpareBlocks
    <3>1. Free # {} => Min(Free) \in Free BY FreeBlocks
    <3>2. QED BY <1>5, <3>1
  <2>3. SpareBlocks # {} => b \notin ToSet(ptr)
    <3>1. Free # {} => Min(Free) \in Free BY FreeBlocks
    <3>2. QED BY <3>1 DEF SpareBlocks
  <2> HIDE DEF b
  <2>4. y.at = "erase" /\ y.moved /\ ~y.fresh /\ y.d.pair = <<Cur, b>> /\ y.d.rev = r
    <3>1. QED BY <1>1, <1>2, <1>4, <2>1 DEF Dirs, e, z, Commits
  <2>5. QED BY <1>4, <1>6, <1>7, <1>8, <2>2, <2>3, <2>4 DEF Rewrites, y
<1>9. CASE ~(z.tired /\ ~Synced(z.d.pair, Root))
  <2>1. y = z BY <1>3, <1>9
  <2> HIDE DEF z
  <2>2. QED BY <1>2, <1>4, <1>5, <1>6, <1>7, <1>9, <2>1 DEF Rewrites, y
<1>10. QED BY <1>8, <1>9

(* The pair and its ages stay. *)
LEMMA WearKept ==
  ASSUME UNCHANGED <<ptr, since>>, Stays, UsedOK, WearInv,
         used'.commits \in {used.commits, used.commits + 1}
  PROVE  /\ Since' /\ Apart' /\ Levelled'
         /\ UNCHANGED <<IsRoot, SpareBlocks, CurRev, Cur, Oth>> /\ UNCHANGED ToSet(ptr)
<1>1. UNCHANGED ToSet(ptr) OBVIOUS
<1>2. UNCHANGED <<IsRoot, SpareBlocks>> BY <1>1 DEF IsRoot, Synced, SpareBlocks
<1>3. UNCHANGED <<Cur, Oth, CurRev>> BY DEF Stays, CurRev
<1>4. Since'
  <2>1. since \in [RegionBlock -> Nat] /\ used.commits \in Nat BY DEF WearInv, Since, UsedOK
  <2>2. ASSUME NEW b \in RegionBlock PROVE since[b] <= used'.commits
    <3>1. since[b] <= used.commits /\ since[b] \in Nat BY <2>1 DEF WearInv, Since
    <3>2. QED BY <2>1, <3>1
  <2>3. QED BY <2>1, <2>2 DEF Since
<1>5. Apart' BY <1>1, <1>2 DEF WearInv, Apart
<1>6. Levelled' BY <1>2, <1>3 DEF WearInv, Levelled
<1>7. QED BY <1>1, <1>2, <1>3, <1>4, <1>5, <1>6

(* No commit takes a block. *)
LEMMA NothingTaken ==
  ASSUME w'.at \notin {"erase", "write", "publish"}
  PROVE  TakesBlocks' /\ Leaving' /\ Rewriting' /\ Naming'
  BY DEF Taking, TakesBlocks, Leaving, Rewriting, Naming

(* A commit goes to another block. *)
LEMMA BeginsRewrite ==
  ASSUME Typed, Sound, UNCHANGED <<IsRoot, SpareBlocks, CurRev, Cur>>, UNCHANGED ToSet(ptr),
         Rewrites(w')
  PROVE  TakesBlocks' /\ Leaving' /\ Rewriting' /\ Naming'
<1>1. ToSet(ptr) = {Cur, Oth} BY NamedPair
<1>2. /\ w'.at = "erase" /\ ~w'.fresh /\ w'.d.pair[1] = Cur
      /\ w'.d.pair[2] \in ToSet(ptr) \/ w'.d.pair[2] \in SpareBlocks
      /\ w'.d.rev = (CurRev + 1) % RevMod
      /\ ~IsRoot => (w'.moved <=> NeedsRelocation(CurRev))
      /\ w'.moved => ~IsRoot /\ (SpareBlocks # {} => w'.d.pair[2] \notin ToSet(ptr))
  BY DEF Rewrites
<1>3. TakesBlocks' BY <1>1, <1>2 DEF TakesBlocks, SpareBlocks
<1>4. Leaving' BY <1>2 DEF Leaving, NewBlock
<1>5. Rewriting' BY <1>2 DEF Rewriting
<1>6. Naming' BY <1>2 DEF Naming
<1>7. QED BY <1>3, <1>4, <1>5, <1>6

LEMMA CommitWear ==
  ASSUME PairInv, UsedOK, WearInv, CommitPair
  PROVE  WearInv'
<1>1. Typed /\ Sound BY DEF PairInv
<1>2. w.at = "idle" /\ UNCHANGED <<chip, ptr, held, since>> BY DEF CommitPair
<1>3. PICK d \in {Fetch(ptr)} \cup ({held} \ {NoDir}), n \in Sizes, again \in BOOLEAN :
        /\ w' = Started(d, IF again THEN call ELSE call + 1, n, FALSE)
        /\ used' = IF again THEN used ELSE [used EXCEPT !.commits = @ + 1]
  BY DEF CommitPair
<1> DEFINE v == IF again THEN call ELSE call + 1
           x == Begun(d, v, n, FALSE)
<1>4. d \in Dirs /\ Fetched(d) BY <1>1, <1>2, CommitDirs
<1>5. v \in Int /\ n \in 1 .. Pages BY <1>1, RegionAssumption DEF Typed
<1>6. w' = IF d.erased THEN x ELSE Compacting(x)
  <2>1. w' = Started(d, v, n, FALSE) BY <1>3
  <2>2. QED BY <2>1 DEF Started, Begun
<1> HIDE DEF v
<1>7. x \in Commits /\ x.at = "append" /\ x.d = d /\ ~x.moved /\ ~x.fresh
  <2>1. x \in Commits BY <1>4, <1>5, PagesFacts DEF Begun, Commits
  <2>2. QED BY <2>1 DEF Begun
<1> HIDE DEF x
<1>8. UNCHANGED <<Cur, Oth>> BY <1>1, <1>2, SameFlash
<1>9. Stays BY <1>2, <1>8 DEF Stays
<1>10. used'.commits \in {used.commits, used.commits + 1} BY <1>3 DEF UsedOK
<1>11. /\ Since' /\ Apart' /\ Levelled'
       /\ UNCHANGED <<IsRoot, SpareBlocks, CurRev, Cur, Oth>> /\ UNCHANGED ToSet(ptr)
  BY <1>2, <1>9, <1>10, WearKept
<1>12. CASE d.erased
  <2>1. w'.at = "append" BY <1>6, <1>7, <1>12
  <2>2. QED BY <1>11, <2>1, NothingTaken DEF WearInv
<1>13. CASE ~d.erased
  <2>1. d.pair = <<Cur, Oth>> /\ d.rev = CurRev BY <1>4 DEF Fetched, CurRev
  <2>2. Free = SpareBlocks
    <3>1. w.d.pair[1] = Blocks /\ w.d.pair[2] = Blocks BY <1>2 DEF WearInv, NoDir
    <3>2. QED BY <1>1, <3>1, FreeIsSpare
  <2>3. Rewrites(Compacting(x)) BY <1>1, <1>7, <2>1, <2>2, CompactingWear
  <2>4. Rewrites(w') BY <1>6, <1>13, <2>3
  <2>5. TakesBlocks' /\ Leaving' /\ Rewriting' /\ Naming' BY <1>1, <1>11, <2>4, BeginsRewrite
  <2>6. w'.at # "idle" BY <2>4 DEF Rewrites
  <2>7. QED BY <1>11, <2>5, <2>6 DEF WearInv
<1>14. QED BY <1>12, <1>13

LEMMA AllocWear ==
  ASSUME PairInv, UsedOK, WearInv, AllocPair
  PROVE  WearInv'
<1>1. Typed /\ Sound BY DEF PairInv
<1>2. UNCHANGED <<chip, ptr, since>> /\ used' = [used EXCEPT !.commits = @ + 1]
  BY DEF AllocPair
<1>3. w'.at = "erase" /\ w'.fresh /\ w'.d.pair[1] \in Free /\ w'.d.pair[2] \in Free
  BY AllocStep
<1>4. UNCHANGED <<Cur, Oth>> BY <1>1, <1>2, SameFlash
<1>5. Stays BY <1>2, <1>4 DEF Stays
<1>6. used'.commits \in {used.commits, used.commits + 1} BY <1>2 DEF UsedOK
<1>7. /\ Since' /\ Apart' /\ Levelled' BY <1>2, <1>5, <1>6, WearKept
<1>8. TakesBlocks' BY <1>3 DEF TakesBlocks, Free
<1>9. Leaving' /\ Rewriting' /\ Naming' BY <1>3 DEF Leaving, Rewriting, Naming
<1>10. QED BY <1>3, <1>7, <1>8, <1>9 DEF WearInv

LEMMA NoRoomWear ==
  ASSUME PairInv, UsedOK, WearInv, NoRoom
  PROVE  WearInv'
<1>1. Typed /\ Sound /\ Placed /\ w \in Commits BY DEF PairInv, Typed
<1>2. w.at = "append" /\ w' = Compacting(w) /\ UNCHANGED <<chip, ptr, since, used>> BY DEF NoRoom
<1>3. UNCHANGED <<Cur, Oth>> BY <1>1, <1>2, SameFlash
<1>4. Stays BY <1>2, <1>3 DEF Stays
<1>5. /\ Since' /\ Apart' /\ Levelled'
      /\ UNCHANGED <<IsRoot, SpareBlocks, CurRev, Cur, Oth>> /\ UNCHANGED ToSet(ptr)
  BY <1>2, <1>4, WearKept
<1>6. /\ w.d.pair[1] = Cur /\ w.d.pair[2] = Oth /\ w.d.rev = CurRev /\ ~w.fresh /\ ~w.moved
  BY <1>1, <1>2 DEF Placed, CurRev
<1>7. w.d.pair = <<Cur, Oth>>
  <2>1. w.d.pair \in (0 .. Blocks) \X (0 .. Blocks) BY <1>1 DEF Commits, Dirs
  <2>2. w.d.pair = <<w.d.pair[1], w.d.pair[2]>> BY <2>1
  <2>3. QED BY <1>6, <2>2
<1>8. Free = SpareBlocks BY <1>1, <1>6, FreeIsSpare
<1>9. Rewrites(w') BY <1>1, <1>2, <1>6, <1>7, <1>8, CompactingWear
<1>10. TakesBlocks' /\ Leaving' /\ Rewriting' /\ Naming' BY <1>1, <1>5, <1>9, BeginsRewrite
<1>11. w'.at # "idle" BY <1>9 DEF Rewrites
<1>12. QED BY <1>5, <1>10, <1>11 DEF WearInv

(* The block is erased; the commit has not taken effect. *)
LEMMA EraseWear ==
  ASSUME PairInv, UsedOK, WearInv, EraseBlock, used'.faults = 0, used.faults = 0
  PROVE  WearInv'
<1>1. w \in Commits BY DEF PairInv, Typed
<1>2. w.at = "erase" /\ UNCHANGED <<ptr, since>> BY DEF EraseBlock
<1>3. w' = [w EXCEPT !.at = "write"] /\ UNCHANGED used
  <2>1. used' # [used EXCEPT !.faults = @ + 1] BY DEF UsedOK
  <2>2. QED BY <2>1 DEF EraseBlock
<1>4. Stays BY EraseStep
<1>5. /\ Since' /\ Apart' /\ Levelled'
      /\ UNCHANGED <<IsRoot, SpareBlocks, CurRev, Cur, Oth>> /\ UNCHANGED ToSet(ptr)
  BY <1>2, <1>3, <1>4, WearKept
<1>6. w'.at = "write" /\ w'.d = w.d /\ w'.moved = w.moved /\ w'.fresh = w.fresh
  BY <1>1, <1>3 DEF Commits
<1>7. ~Swapped BY <1>2 DEF Swapped, Done, Writing
<1>8. TakesBlocks' BY <1>2, <1>5, <1>6 DEF WearInv, TakesBlocks, Taking
<1>9. Leaving' BY <1>2, <1>5, <1>6 DEF WearInv, Leaving, Taking, NewBlock
<1>10. Rewriting' BY <1>2, <1>5, <1>6, <1>7 DEF WearInv, Rewriting
<1>11. Naming' BY <1>6 DEF Naming
<1>12. QED BY <1>5, <1>6, <1>8, <1>9, <1>10, <1>11 DEF WearInv

(* The commit is complete in the other block of the pair, which is the     *)
(* newer one now: the blocks took turns, and so did the place's parity.    *)
LEMMA TurnsLevelled ==
  ASSUME Typed, Sound, Placed, WearInv, Turns, UNCHANGED <<ptr, since>>
  PROVE  Levelled'
<1>1. w.at = "write" /\ Target \in ToSet(ptr) /\ ~Swapped BY DEF Turns, Swapped
<1>2. Target = w.d.pair[2] /\ ~w.fresh BY <1>1 DEF Target, Placed
<1>3. UNCHANGED ToSet(ptr) OBVIOUS
<1>4. UNCHANGED <<IsRoot, SpareBlocks>> BY <1>3 DEF IsRoot, Synced, SpareBlocks
<1>5. CurRev' = (CurRev + 1) % RevMod /\ (~IsRoot => (w.moved <=> NeedsRelocation(CurRev)))
  <2>1. CurRev' = w.d.rev BY DEF Turns, CurRev
  <2>2. QED BY <1>1, <1>2, <2>1 DEF WearInv, Rewriting
<1>6. Cur' = Oth /\ Oth' = Cur BY DEF Turns
<1>7. SUFFICES ASSUME ~IsRoot, since[Cur] # since[Oth] PROVE Levelled'
  BY <1>4, <1>6 DEF Levelled
<1>8. /\ SpareBlocks # {}
      /\ IF Even(CurRev) THEN since[Oth] <= since[Cur] ELSE since[Cur] <= since[Oth]
  BY <1>7 DEF WearInv, Levelled
<1>9. ~w.moved BY <1>1, <1>2, <1>8 DEF WearInv, Leaving, Taking, NewBlock
<1>10. CurRev \in Rev BY CurrentLog DEF CurRev
<1>11. Even(CurRev') <=> ~Even(CurRev) BY <1>5, <1>7, <1>9, <1>10, NextPlace
<1>12. QED BY <1>4, <1>6, <1>8, <1>11 DEF Levelled

LEMMA ProgramWear ==
  ASSUME PairInv, UsedOK, WearInv, Program, used'.faults = 0
  PROVE  WearInv'
<1>1. Typed /\ Sound /\ Placed /\ w \in Commits BY DEF PairInv, Typed
<1>2. Writing /\ w.part < w.n /\ UNCHANGED <<ptr, since>> BY DEF Program, Writing
<1>3. OnePage BY ProgramStep
<1>4. /\ w'.at = w.at /\ w'.d = w.d /\ w'.moved = w.moved /\ w'.fresh = w.fresh
      /\ UNCHANGED used
  BY <1>1, <1>3 DEF Commits, OnePage
<1>5. Target' = Target BY <1>4 DEF Target
<1>6. ~Done BY <1>2, WritingFacts
<1>7. UNCHANGED ToSet(ptr) BY <1>2
<1>8. UNCHANGED <<IsRoot, SpareBlocks>> BY <1>7 DEF IsRoot, Synced, SpareBlocks
<1>9. TakesBlocks' BY <1>4, <1>7 DEF WearInv, TakesBlocks, Taking
<1>10. Leaving' BY <1>4, <1>7, <1>8 DEF WearInv, Leaving, Taking, NewBlock
<1>11. Naming' BY <1>2, <1>4 DEF Naming, Writing
<1>12. w'.at # "idle" BY <1>2, <1>4 DEF Writing
<1>13. CASE Turns
  <2>1. Levelled' BY <1>1, <1>2, <1>13, TurnsLevelled
  <2>2. Swapped' BY <1>5, <1>7, <1>13 DEF Turns, Swapped
  <2>3. Rewriting' BY <2>2 DEF Rewriting
  <2>4. Apart' BY <1>7, <1>8 DEF WearInv, Apart
  <2>5. Since' BY <1>2, <1>4 DEF WearInv, Since
  <2>6. QED BY <1>9, <1>10, <1>11, <1>12, <2>1, <2>3, <2>4, <2>5 DEF WearInv
<1>14. CASE Stays /\ (w.at = "write" /\ Done' => Target \notin ToSet(ptr))
  <2>1. /\ Since' /\ Apart' /\ Levelled' /\ UNCHANGED <<CurRev, Cur>>
    BY <1>2, <1>4, <1>14, WearKept
  <2>2. ~Swapped BY <1>6 DEF Swapped
  <2>3. Rewriting' BY <1>4, <1>8, <2>1, <2>2 DEF WearInv, Rewriting
  <2>4. QED BY <1>9, <1>10, <1>11, <1>12, <2>1, <2>3 DEF WearInv
<1>15. QED BY <1>3, <1>13, <1>14 DEF OnePage

(* What was programmed without a fault is read back. *)
LEMMA CleanReadsBack ==
  ASSUME PairInv, Writing, w.part = w.n, used.faults = 0
  PROVE  ReadsBack
<1>1. \A i \in 1 .. w.n : chip[Target][Off + i] = Piece(i) BY DEF PairInv, FaultFree
<1>2. Target \in RegionBlock BY WritingPlaces DEF PairInv
<1>3. \A i \in 1 .. w.n : Place(i) = Off + i
  <2>1. w.n \in 1 .. Pages BY DEF PairInv, Typed, Commits
  <2>2. QED BY <1>2, <2>1, PieceFacts DEF PairInv
<1>4. QED BY <1>1, <1>3 DEF ReadsBack

LEMMA VerifyWear ==
  ASSUME PairInv, UsedOK, WearInv, Verify, used.faults = 0
  PROVE  WearInv'
<1>1. Typed /\ Sound /\ Placed /\ w \in Commits BY DEF PairInv, Typed
<1>2. Writing /\ w.part = w.n /\ UNCHANGED <<chip, ptr, since, used>> BY DEF Verify, Writing
<1>3. ReadsBack /\ Done BY <1>2, CleanReadsBack DEF Done
<1>4. w' = [w EXCEPT !.at = IF w.moved \/ w.fresh THEN "publish" ELSE "return", !.d = Written]
  BY <1>3 DEF Verify
<1>5. UNCHANGED <<Cur, Oth>> BY <1>1, <1>2, SameFlash
<1>6. Stays BY <1>2, <1>5 DEF Stays
<1>7. /\ Since' /\ Apart' /\ Levelled'
      /\ UNCHANGED <<IsRoot, SpareBlocks, CurRev, Cur, Oth>> /\ UNCHANGED ToSet(ptr)
  BY <1>2, <1>6, WearKept
<1>8. CASE ~(w.moved \/ w.fresh)
  <2>1. w'.at = "return" BY <1>1, <1>4, <1>8 DEF Commits
  <2>2. QED BY <1>7, <2>1, NothingTaken DEF WearInv
<1>9. CASE w.moved \/ w.fresh
  <2>1. w.at = "write" BY <1>1, <1>2, <1>9 DEF Placed, Writing
  <2>2. Written.pair = <<w.d.pair[2], w.d.pair[1]>> /\ Written.rev = w.d.rev
    BY <1>1, <2>1 DEF Written, Commits, Dirs
  <2>3. /\ w'.at = "publish" /\ w'.moved = w.moved /\ w'.fresh = w.fresh
        /\ w'.d.pair[1] = w.d.pair[2] /\ w'.d.pair[2] = w.d.pair[1] /\ w'.d.rev = w.d.rev
    BY <1>1, <1>4, <1>9, <2>2 DEF Commits
  <2>4. NewBlock' = w.d.pair[2] /\ NewBlock = w.d.pair[2] /\ Target = w.d.pair[2]
    BY <2>1, <2>3 DEF NewBlock, Target
  <2>5. TakesBlocks' BY <1>7, <2>1, <2>3 DEF WearInv, TakesBlocks, Taking
  <2>6. Leaving' BY <1>7, <2>1, <2>3, <2>4 DEF WearInv, Leaving, Taking
  <2>7. Rewriting' BY <2>3 DEF Rewriting
  <2>8. ASSUME ~w.fresh, w.d.pair[2] \notin ToSet(ptr)
        PROVE  w.d.pair[1] = Cur /\ w.d.rev = (CurRev + 1) % RevMod /\ NeedsRelocation(CurRev)
    <3>1. ~Swapped BY <2>4, <2>8 DEF Swapped
    <3>2. ~IsRoot BY <1>9, <2>1, <2>8 DEF WearInv, Leaving, Taking
    <3>3. QED BY <1>9, <2>1, <2>8, <3>1, <3>2 DEF WearInv, Rewriting
  <2>9. Naming' BY <1>7, <1>9, <2>3, <2>4, <2>8 DEF Naming
  <2>10. QED BY <1>7, <2>3, <2>5, <2>6, <2>7, <2>9 DEF WearInv
<1>10. QED BY <1>8, <1>9

(* The parent names the moved pair: the block that leaves it came into it  *)
(* no later than the one that stays.                                       *)
LEMMA PublishWear ==
  ASSUME PairInv, UsedOK, WearInv, WrapIsEven, Publish, used.faults = 0, used'.faults = 0
  PROVE  /\ WearInv'
         /\ ~w.fresh => \A b \in ToSet(ptr) \ ToSet(ptr'), c \in ToSet(ptr) : since[b] <= since[c]
<1>1. Typed /\ Sound /\ Placed BY DEF PairInv
<1>2. w.at = "publish" /\ UNCHANGED chip BY DEF Publish
<1>3. PICK s, t : s = w.d.pair[1] /\ t = w.d.pair[2] OBVIOUS
<1>4. /\ ptr' = w.d.pair /\ w'.at = "return" /\ Cur' = s /\ Oth' = t /\ UNCHANGED used
      /\ since' = [b \in RegionBlock |->
                     IF b \in ToSet(w.d.pair) \ ToSet(ptr) THEN used.commits ELSE since[b]]
  BY <1>3, PublishStep
<1>5. ToSet(w.d.pair) = {s, t} /\ ToSet(ptr') = {s, t}
  <2>1. w.d.pair \in (0 .. Blocks) \X (0 .. Blocks) BY <1>1 DEF Typed, Commits, Dirs
  <2>2. ToSet(w.d.pair) = {s, t} BY <1>3, <2>1, SetOfPair
  <2>3. QED BY <1>4, <2>2
<1>6. /\ s \in RegionBlock /\ t \in RegionBlock /\ s # t /\ w.d.rev = chip[s][1].rev
      /\ w.fresh => s \notin ToSet(ptr) /\ t \notin ToSet(ptr)
      /\ ~w.fresh => t \in ToSet(ptr)
  BY <1>1, <1>2, <1>3 DEF Placed
<1>7. ToSet(ptr) = {Cur, Oth} /\ Cur \in RegionBlock /\ Oth \in RegionBlock /\ Cur # Oth
  BY <1>1, NamedPair
<1>8. /\ s \in ToSet(ptr) \/ s \notin ToSet(Root)
      /\ t \in ToSet(ptr) \/ t \notin ToSet(Root)
  BY <1>2, <1>3 DEF WearInv, TakesBlocks, Taking
<1>9. since \in [RegionBlock -> Nat] /\ used.commits \in Nat
      /\ \A b \in RegionBlock : since[b] <= used.commits
  BY DEF WearInv, Since, UsedOK
<1>10. /\ since'[s] = IF s \in ToSet(ptr) THEN since[s] ELSE used.commits
       /\ since'[t] = IF t \in ToSet(ptr) THEN since[t] ELSE used.commits
  BY <1>4, <1>5, <1>6
<1>11. Since'
  <2>1. \A b \in RegionBlock : since'[b] \in {since[b], used.commits} BY <1>4
  <2>2. since' \in [RegionBlock -> Nat] BY <1>4, <1>9
  <2>3. QED BY <1>4, <1>9, <2>1, <2>2 DEF Since
<1>12. TakesBlocks' /\ Leaving' /\ Rewriting' /\ Naming' /\ w'.at # "idle"
  BY <1>4, NothingTaken
<1>13. IsRoot' <=> {s, t} = ToSet(Root) BY <1>5 DEF IsRoot, Synced
<1>14. IsRoot <=> ToSet(ptr) = ToSet(Root) BY DEF IsRoot, Synced
<1>15. CASE w.fresh
  <2>1. Apart' BY <1>5, <1>6, <1>8, <1>15 DEF Apart
  <2>2. Levelled' BY <1>4, <1>6, <1>10, <1>15 DEF Levelled
  <2>3. QED BY <1>11, <1>12, <1>15, <2>1, <2>2 DEF WearInv
<1>16. CASE ~w.fresh /\ s \in ToSet(ptr)
  <2>1. {s, t} = ToSet(ptr) BY <1>6, <1>7, <1>16
  <2>2. ~IsRoot /\ SpareBlocks = {}
    BY <1>2, <1>3, <1>16 DEF WearInv, Naming, Leaving, Taking, NewBlock
  <2>3. since[Cur] = since[Oth] BY <2>2 DEF WearInv, Levelled
  <2>4. since'[Cur'] = since'[Oth'] BY <1>4, <1>6, <1>7, <1>10, <1>16, <2>1, <2>3
  <2>5. Levelled' BY <2>4 DEF Levelled
  <2>6. Apart' BY <1>5, <1>13, <1>14, <2>1 DEF WearInv, Apart
  <2>7. QED BY <1>5, <1>11, <1>12, <2>1, <2>5, <2>6 DEF WearInv
<1>17. CASE ~w.fresh /\ s \notin ToSet(ptr)
  <2>1. /\ w.moved /\ t = Cur /\ w.d.rev = (CurRev + 1) % RevMod /\ NeedsRelocation(CurRev)
    BY <1>2, <1>3, <1>17 DEF WearInv, Naming, NewBlock
  <2>2. ~IsRoot BY <1>2, <1>17, <2>1 DEF WearInv, Leaving, Taking
  <2>3. CurRev \in Rev BY <1>1, CurrentLog DEF CurRev
  <2>4. Even((CurRev + 1) % RevMod) /\ Even(CurRev) BY <2>1, <2>3, NextPlace
  <2>5. since[Oth] <= since[Cur] BY <1>7, <1>9, <2>2, <2>4 DEF WearInv, Levelled
  <2>6. ToSet(ptr) \cap ToSet(Root) = {} BY <2>2 DEF WearInv, Apart
  <2>7. Apart' BY <1>5, <1>7, <1>8, <1>17, <2>1, <2>6 DEF Apart
  <2>8. Levelled'
    <3>1. CurRev' = (CurRev + 1) % RevMod BY <1>2, <1>4, <1>6, <2>1 DEF CurRev
    <3>2. Oth \in SpareBlocks'
      <4>1. Oth \notin ToSet(Root) /\ Oth \notin {s, t} BY <1>7, <1>17, <2>1, <2>6
      <4>2. QED BY <1>5, <1>7, <4>1 DEF SpareBlocks
    <3>3. since'[Oth'] <= since'[Cur'] BY <1>4, <1>6, <1>7, <1>9, <1>10, <1>17, <2>1
    <3>4. QED BY <2>4, <3>1, <3>2, <3>3 DEF Levelled
  <2>9. \A b \in ToSet(ptr) \ ToSet(ptr'), c \in ToSet(ptr) : since[b] <= since[c]
    <3>1. SUFFICES ASSUME NEW b \in ToSet(ptr) \ ToSet(ptr'), NEW c \in ToSet(ptr)
                   PROVE  since[b] <= since[c]
      OBVIOUS
    <3>2. b = Oth /\ c \in {Cur, Oth} BY <1>5, <1>7, <2>1
    <3>3. QED BY <1>7, <1>9, <2>5, <3>2
  <2>10. QED BY <1>11, <1>12, <2>7, <2>8, <2>9 DEF WearInv
<1>18. QED BY <1>15, <1>16, <1>17

(* A commit ends, or power fails. *)
LEMMA EndWear ==
  ASSUME UsedOK, WearInv, Stays, UNCHANGED <<ptr, since>>, UNCHANGED used.commits,
         w' = NoCommit \/ w' = [NoCommit EXCEPT !.n = w.n]
  PROVE  WearInv'
<1>1. w'.at = "idle" /\ w'.d = NoDir BY DEF NoCommit
<1>2. /\ Since' /\ Apart' /\ Levelled' BY WearKept
<1>3. QED BY <1>1, <1>2, NothingTaken DEF WearInv

LEMMA WearStep ==
  ASSUME PairInv, UsedOK, WearInv, WrapIsEven, [PairNext]_pairVars,
         used.faults = 0, used'.faults = 0
  PROVE  /\ WearInv'
         /\ ptr' # ptr /\ ~w.fresh =>
              \A b \in ToSet(ptr) \ ToSet(ptr'), c \in ToSet(ptr) : since[b] <= since[c]
<1>1. Typed /\ Sound BY DEF PairInv
<1>2. CASE CommitPair BY <1>2, CommitWear DEF CommitPair
<1>3. CASE AllocPair BY <1>3, AllocWear DEF AllocPair
<1>4. CASE NoRoom BY <1>4, NoRoomWear DEF NoRoom
<1>5. CASE Program BY <1>5, ProgramWear DEF Program
<1>6. CASE Verify BY <1>6, VerifyWear DEF Verify
<1>7. CASE EraseBlock BY <1>7, EraseWear DEF EraseBlock
<1>8. CASE NoSpace
  <2>1. w.at = "nospace" BY <1>8 DEF NoSpace
  <2>2. QED BY <2>1 DEF PairInv, FaultFree
<1>9. CASE Publish BY <1>9, PublishWear
<1>10. CASE Return
  <2>1. UNCHANGED <<chip, ptr, since, used>> /\ w' = [NoCommit EXCEPT !.n = w.n]
    BY <1>10 DEF Return, End
  <2>2. UNCHANGED <<Cur, Oth>> BY <1>1, <2>1, SameFlash
  <2>3. Stays BY <2>1, <2>2 DEF Stays
  <2>4. QED BY <2>1, <2>3, EndWear
<1>11. CASE PowerLoss
  <2>1. UNCHANGED <<ptr, since>> /\ w' = NoCommit /\ used' = [used EXCEPT !.losses = @ + 1]
    BY <1>11 DEF PowerLoss
  <2>2. UNCHANGED used.commits BY <2>1 DEF UsedOK
  <2>3. Stays BY <1>11, PowerLossStep
  <2>4. QED BY <2>1, <2>2, <2>3, EndWear
<1>12. CASE OpenDir \/ UNCHANGED pairVars
  <2>1. UNCHANGED <<chip, ptr, w, since, used>> BY <1>12 DEF OpenDir, pairVars
  <2>2. UNCHANGED <<Cur, Oth>> BY <1>1, <2>1, SameFlash
  <2>3. Stays BY <2>1, <2>2 DEF Stays
  <2>4. /\ Since' /\ Apart' /\ Levelled'
        /\ UNCHANGED <<IsRoot, SpareBlocks, CurRev, Cur, Oth>> /\ UNCHANGED ToSet(ptr)
    BY <2>1, <2>3, WearKept
  <2>5. UNCHANGED Swapped
    BY <2>1 DEF Swapped, Done, Writing, ReadsBack, Piece, Behind, Place, Target
  <2>6. TakesBlocks' BY <2>1 DEF WearInv, TakesBlocks, Taking
  <2>7. Leaving' BY <2>1, <2>4 DEF WearInv, Leaving, Taking, NewBlock
  <2>8. Rewriting' BY <2>1, <2>4, <2>5 DEF WearInv, Rewriting
  <2>9. Naming' BY <2>1, <2>4 DEF WearInv, Naming, NewBlock
  <2>10. QED BY <2>1, <2>4, <2>6, <2>7, <2>8, <2>9 DEF WearInv
<1>13. QED
  BY <1>2, <1>3, <1>4, <1>5, <1>6, <1>7, <1>8, <1>9, <1>10, <1>11, <1>12 DEF PairNext

LEMMA InitiallyLevelled == PairInit => WearInv
<1> SUFFICES ASSUME PairInit PROVE WearInv OBVIOUS
<1>1. /\ ptr \in {Root, <<2, 3>>} /\ w = NoCommit /\ since = [b \in RegionBlock |-> 0]
      /\ used.commits = 0
  BY DEF PairInit
<1>2. Since BY <1>1 DEF Since
<1>3. w.at = "idle" /\ w.d = NoDir BY <1>1 DEF NoCommit
<1>4. Apart
  <2>1. ToSet(Root) = {0, 1} /\ ToSet(<<2, 3>>) = {2, 3} BY PairSet DEF Root
  <2>2. CASE ptr = Root BY <2>2 DEF Apart, IsRoot, Synced
  <2>3. CASE ptr = <<2, 3>> BY <2>1, <2>3 DEF Apart
  <2>4. QED BY <1>1, <2>2, <2>3
<1>5. Levelled
  <2>1. PairInv BY Initially
  <2>2. Cur \in RegionBlock /\ Oth \in RegionBlock BY <2>1, NamedPair DEF PairInv
  <2>3. QED BY <1>1, <2>2 DEF Levelled
<1>6. TakesBlocks /\ Leaving /\ Rewriting /\ Naming
  BY <1>3 DEF TakesBlocks, Leaving, Rewriting, Naming, Taking
<1>7. QED BY <1>2, <1>3, <1>4, <1>5, <1>6 DEF WearInv

(* lfs_dir_needsrelocation and the odd period of lfs_dir_compact: as long  *)
(* as the flash has refused nothing, the block a worn pair leaves is one   *)
(* that came into it no later than the block that stays, so that wear      *)
(* moves through both.  For every value of the constants for which the     *)
(* last revision before the wrap has an even place in the period: at the   *)
(* wrap the places start again.                                            *)
THEOREM WearMovesThroughBoth == WrapIsEven => (PairSpec => WearLevelled)
<1> SUFFICES ASSUME WrapIsEven PROVE PairSpec => WearLevelled OBVIOUS
<1> DEFINE WearIInv == used.faults = 0 => WearInv
           Level == ptr' # ptr /\ ~w.fresh /\ used.faults = 0 =>
                      \A b \in ToSet(ptr) \ ToSet(ptr'), c \in ToSet(ptr) : since[b] <= since[c]
<1>1. PairInit => WearIInv BY InitiallyLevelled
<1>2. PairIInv /\ WearIInv /\ [PairNext]_pairVars => WearIInv' /\ Level
  <2> SUFFICES ASSUME PairIInv, WearIInv, [PairNext]_pairVars PROVE WearIInv' /\ Level
    OBVIOUS
  <2>1. UsedOK /\ (used.faults = 0 => PairInv) BY DEF PairIInv, Regular
  <2>2. used'.faults = 0 => used.faults = 0 BY <2>1, UsedStep
  <2>3. CASE used'.faults = 0 BY <2>1, <2>2, <2>3, WearStep
  <2>4. CASE used'.faults # 0 /\ ptr' = ptr BY <2>4
  <2>5. CASE used'.faults # 0 /\ ptr' # ptr /\ used.faults # 0 BY <2>5
  <2>6. CASE used'.faults # 0 /\ ptr' # ptr /\ used.faults = 0
    <3>1. ~Publish
      <4>1. UNCHANGED ptr \/ UNCHANGED used \/ ~Publish BY DEF Publish
      <4>2. QED BY <2>6, <4>1
    <3>2. UNCHANGED ptr
      BY <3>1, <2>6 DEF PairNext, CommitPair, AllocPair, OpenDir, Program, NoRoom, Verify,
         EraseBlock, NoSpace, Return, PowerLoss, pairVars
    <3>3. QED BY <2>6, <3>2
  <2>7. QED BY <2>3, <2>4, <2>5, <2>6
<1>3. PairIInv /\ WearIInv /\ [PairNext]_pairVars => [Level]_pairVars BY <1>2
<1> HIDE DEF WearIInv, Level
<1>4. PairSpec => [][Level]_pairVars BY <1>1, <1>2, <1>3, PairOrdered, PTL DEF PairSpec
<1>5. QED BY <1>4 DEF WearLevelled, Level
=============================================================================
