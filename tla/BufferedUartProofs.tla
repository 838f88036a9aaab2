------------------------- MODULE BufferedUartProofs -------------------------
(***************************************************************************)
(* Proofs about BufferedUart for any bytes, rings, counters and FIFOs.     *)
(*                                                                         *)
(* The steps of the pipes need to know that the rings never hold more than *)
(* their capacity and are empty in a closed stream (Rings), and that calls *)
(* and handler keep out of each other's way (Calls).  That received bytes  *)
(* are announced is inductive once it says what the handler owes while it  *)
(* runs (Announced).                                                       *)
(***************************************************************************)
EXTENDS BufferedUart, TLAPS

-----------------------------------------------------------------------------
(* Ring counters and slot indices, for every ring size and every counter   *)
(* range that is a multiple of it.                                         *)

(* Division with remainder is unique. *)
LEMMA ModUnique ==
  ASSUME NEW C \in Nat \ {0}, NEW q \in Int, NEW r \in 0 .. C - 1
  PROVE  (q * C + r) % C = r
  OBVIOUS
(* A slot index stays inside the ring. *)
LEMMA ModRange ==
  ASSUME NEW C \in Nat \ {0}, NEW a \in Int
  PROVE  a % C \in 0 .. C - 1
  OBVIOUS
(* A positive multiple of c is at least c. *)
LEMMA MulMono ==
  ASSUME NEW C \in Nat \ {0}, NEW k \in Int, k * C > 0
  PROVE  k * C >= C
<1>1. k >= 1
  <2>1. CASE k <= 0
     BY <2>1
  <2>q. QED BY <2>1
<1>q. QED BY <1>1

(* Two counters less than a ring apart index different slots. *)
LEMMA ModDistinct ==
  ASSUME NEW C \in Nat \ {0}, NEW a \in Nat, NEW b \in Nat, a < b, b < a + C
  PROVE  a % C # b % C
<1>1. SUFFICES ASSUME a % C = b % C PROVE FALSE
  OBVIOUS
<1>2. PICK p \in Int : a = p * C + (a % C)
  <2>1. a \div C \in Int /\ a = (a \div C) * C + (a % C)
    OBVIOUS
  <2>q. QED BY <2>1
<1>3. PICK q \in Int : b = q * C + (b % C)
  <2>1. b \div C \in Int /\ b = (b \div C) * C + (b % C)
    OBVIOUS
  <2>q. QED BY <2>1
<1>4. a % C \in Int
  BY ModRange
<1>5. (q - p) * C = b - a
  <2>1. (q - p) * C = q * C - p * C
     OBVIOUS
  <2>q. QED BY <1>1, <1>2, <1>3, <1>4, <2>1
<1>6. (q - p) * C >= C
   BY <1>5, MulMono
<1>q. QED BY <1>5, <1>6

(* The counters wrap at a multiple of the ring, so wrapping moves no slot. *)
LEMMA ModPeriod ==
  ASSUME NEW C \in Nat \ {0}, NEW W \in Nat, W % C = 0, NEW a \in Nat
  PROVE  (a + W) % C = a % C
<1>1. PICK p \in Int : a = p * C + (a % C)
  <2>1. a \div C \in Int /\ a = (a \div C) * C + (a % C)
    OBVIOUS
  <2>q. QED BY <2>1
<1>2. PICK q \in Int : W = q * C + (W % C)
  <2>1. W \div C \in Int /\ W = (W \div C) * C + (W % C)
    OBVIOUS
  <2>q. QED BY <2>1
<1>3. a % C \in 0 .. C - 1
  BY ModRange
<1>4. a + W = (p + q) * C + (a % C)
  <2>1. (p + q) * C = p * C + q * C
     OBVIOUS
  <2> DEFINE r == a % C
  <2>2. r \in Int /\ a = p * C + r /\ W = q * C
     BY <1>1, <1>2, <1>3
  <2>3. a + W = (p + q) * C + r
     <3> HIDE DEF r
     <3> QED BY <2>1, <2>2
  <2>q. QED BY <2>3
<1>5. ((p + q) * C + (a % C)) % C = a % C
  BY <1>3, ModUnique
<1>q. QED BY <1>4, <1>5

(* Advancing the writer of a ring that is not full adds one element.       *)
LEMMA DistanceGrows ==
  ASSUME NEW W \in Nat \ {0}, NEW p \in 0 .. W - 1, NEW g \in 0 .. W - 1,
         Distance(p, g, W) < W - 1
  PROVE  Distance(Advance(p, W), g, W) = Distance(p, g, W) + 1
  BY DEF Distance, Advance

(* Advancing the reader of a ring that is not empty removes one element.   *)
LEMMA DistanceShrinks ==
  ASSUME NEW W \in Nat \ {0}, NEW p \in 0 .. W - 1, NEW g \in 0 .. W - 1,
         p # g
  PROVE  /\ Distance(p, g, W) > 0
         /\ Distance(p, Advance(g, W), W) = Distance(p, g, W) - 1
  BY DEF Distance, Advance

(* A counter advanced stays a counter, and a distance is a counter value.  *)
LEMMA CounterTypes ==
  ASSUME NEW W \in Nat \ {0}, NEW p \in 0 .. W - 1, NEW g \in 0 .. W - 1
  PROVE  /\ Advance(p, W) \in 0 .. W - 1
         /\ Distance(p, g, W) \in 0 .. W - 1
         /\ Distance(p, g, W) = 0 <=> p = g
  BY DEF Distance, Advance

(* The writer's slot lies as many places behind the reader's as the ring   *)
(* holds elements, whether or not the writer has wrapped.                  *)
LEMMA WriterSlot ==
  ASSUME NEW C \in Nat \ {0}, NEW W \in Nat \ {0}, W % C = 0,
         NEW p \in 0 .. W - 1, NEW g \in 0 .. W - 1
  PROVE  (g + Distance(p, g, W)) % C = p % C
<1>1. CASE p >= g
  BY <1>1 DEF Distance
<1>2. CASE p < g
  <2>1. g + Distance(p, g, W) = p + W
    BY <1>2 DEF Distance
  <2>2. QED BY <2>1, ModPeriod
<1>3. QED BY <1>1, <1>2

(* After the reader advances, its k-th slot is what was its (k+1)-th.      *)
LEMMA ReaderSlot ==
  ASSUME NEW C \in Nat \ {0}, NEW W \in Nat \ {0}, W % C = 0,
         NEW g \in 0 .. W - 1, NEW k \in Nat
  PROVE  (Advance(g, W) + k) % C = (g + k + 1) % C
<1>1. CASE g # W - 1
  BY <1>1 DEF Advance
<1>2. CASE g = W - 1
  <2>1. Advance(g, W) + k = k /\ g + k + 1 = k + W
    BY <1>2 DEF Advance
  <2>2. (k + W) % C = k % C
    BY ModPeriod
  <2>3. QED BY <2>1, <2>2
<1>3. QED BY <1>1, <1>2

-----------------------------------------------------------------------------
Calls ==
  /\ masked <=> pc \in {"read", "fill", "drain", "sent"}
  /\ masked => hpc = "off" /\ open
  /\ hpc # "off" => open
  /\ pc = "close" => open
  /\ pc = "sent" => ~Empty(tx)
  /\ pc = "fill" => left + count <= MaxWrite

Rings ==
  /\ Used(rx) <= RxCapacity /\ Used(tx) <= TxCapacity
  /\ ~open => Empty(rx) /\ Empty(tx) /\ dropped = 0

News == "rx" \in posted \/ told

Announced ==
  /\ open /\ hpc # "rx" /\ ~Empty(rx) => News
  /\ hpc = "rx" /\ ~wasEmpty => News

IInv == TypeOK /\ Calls /\ Rings /\ Announced

-----------------------------------------------------------------------------
(* What the proofs use of the constants. *)
LEMMA ConstantFacts ==
  /\ RxByte # {} /\ TxByte # {}
  /\ RxCapacity \in Nat \ {0} /\ TxCapacity \in Nat \ {0}
  /\ Wrap \in Nat \ {0} /\ Wrap > RxCapacity /\ Wrap > TxCapacity
  /\ Wrap % RxCapacity = 0 /\ Wrap % TxCapacity = 0
  /\ MaxDropped \in Nat \ {0} /\ Fifo \in Nat \ {0}
  /\ MaxRead \in Nat \ {0} /\ MaxWrite \in Nat \ {0}
  BY UartAssumption

-----------------------------------------------------------------------------
(* A ring of any capacity c and bytes B. *)

LEMMA RingFields ==
  ASSUME NEW c \in Nat \ {0}, NEW B, NEW r \in Ring(c, B)
  PROVE  /\ r.slots \in [0 .. c - 1 -> B]
         /\ r.put \in 0 .. Wrap - 1 /\ r.get \in 0 .. Wrap - 1
         /\ Used(r) \in Nat /\ Used(r) <= Wrap - 1
         /\ Empty(r) <=> Used(r) = 0
<1>1. /\ r.slots \in [0 .. c - 1 -> B]
      /\ r.put \in 0 .. Wrap - 1 /\ r.get \in 0 .. Wrap - 1
  BY DEF Ring, Counter
<1>2. Wrap \in Nat \ {0} BY ConstantFacts
<1>3. /\ Distance(r.put, r.get, Wrap) \in 0 .. Wrap - 1
      /\ Distance(r.put, r.get, Wrap) = 0 <=> r.put = r.get
  <2>1. \A p, g \in 0 .. Wrap - 1 :
          Distance(p, g, Wrap) \in 0 .. Wrap - 1 /\ (Distance(p, g, Wrap) = 0 <=> p = g)
    BY <1>2, CounterTypes
  <2>2. QED BY <1>1, <2>1
<1>4. Used(r) \in 0 .. Wrap - 1 /\ (Empty(r) <=> Used(r) = 0) BY <1>3 DEF Used, Empty
<1>5. QED BY <1>1, <1>2, <1>4

LEMMA ContentsType ==
  ASSUME NEW c \in Nat \ {0}, NEW B, NEW r \in Ring(c, B)
  PROVE  /\ Contents(r, c) \in Seq(B) /\ Len(Contents(r, c)) = Used(r)
         /\ \A i \in 1 .. Used(r) : Contents(r, c)[i] = r.slots[(r.get + i - 1) % c]
<1>1. Used(r) \in Nat /\ r.slots \in [0 .. c - 1 -> B] /\ r.get \in Nat
  BY RingFields, ConstantFacts
<1>2. ASSUME NEW i \in 1 .. Used(r) PROVE r.slots[(r.get + i - 1) % c] \in B
  <2>1. r.get + i - 1 \in Int BY <1>1
  <2>2. (r.get + i - 1) % c \in 0 .. c - 1 BY <2>1, ModRange
  <2>3. QED BY <1>1, <2>2
<1>3. Contents(r, c) = [i \in 1 .. Used(r) |-> r.slots[(r.get + i - 1) % c]]
  BY DEF Contents
<1> DEFINE n == Used(r)
           elem(i) == r.slots[(r.get + i - 1) % c]
           s == [i \in 1 .. n |-> elem(i)]
<1>4. n \in Nat /\ (\A i \in 1 .. n : elem(i) \in B) BY <1>1, <1>2
<1>5. s = Contents(r, c) BY <1>3
<1>6. \A i \in 1 .. n : s[i] = elem(i) OBVIOUS
<1>7. s \in Seq(B) /\ Len(s) = n
  <2> HIDE DEF n, elem
  <2>1. QED BY <1>4
<1> HIDE DEF s
<1>8. QED BY <1>5, <1>6, <1>7

(* Two rings with the same elements have the same contents. *)
LEMMA SameContents ==
  ASSUME NEW c \in Nat \ {0}, NEW B, NEW r \in Ring(c, B), NEW s \in Seq(B),
         Len(s) = Used(r), \A i \in 1 .. Used(r) : s[i] = r.slots[(r.get + i - 1) % c]
  PROVE  Contents(r, c) = s
<1>1. /\ Contents(r, c) \in Seq(B) /\ Len(Contents(r, c)) = Len(s)
      /\ \A i \in 1 .. Len(s) : Contents(r, c)[i] = s[i]
  BY ContentsType
<1>2. QED BY <1>1

LEMMA EmptyContents ==
  ASSUME NEW c \in Nat \ {0}, NEW B, NEW r \in Ring(c, B), Empty(r)
  PROVE  Contents(r, c) = <<>>
<1>1. Used(r) = 0 BY RingFields
<1>2. Contents(r, c) \in Seq(B) /\ Len(Contents(r, c)) = 0 BY <1>1, ContentsType
<1>3. QED BY <1>2

LEMMA ClearedRing ==
  ASSUME NEW c \in Nat \ {0}, NEW B, B # {}
  PROVE  /\ Cleared(c, B) \in Ring(c, B) /\ Empty(Cleared(c, B))
         /\ Used(Cleared(c, B)) = 0 /\ Contents(Cleared(c, B), c) = <<>>
<1>1. Cleared(c, B) \in Ring(c, B) BY ConstantFacts DEF Cleared, Ring, Counter
<1>2. Empty(Cleared(c, B)) BY DEF Empty, Cleared
<1>3. Used(Cleared(c, B)) = 0 BY <1>1, <1>2, RingFields
<1>4. Contents(Cleared(c, B), c) = <<>> BY <1>1, <1>2, EmptyContents
<1>5. QED BY <1>1, <1>2, <1>3, <1>4

LEMMA PutAppends ==
  ASSUME NEW c \in Nat \ {0}, Wrap > c, Wrap % c = 0,
         NEW B, NEW r \in Ring(c, B), NEW b \in B, Used(r) < c
  PROVE  /\ Put(r, c, b) \in Ring(c, B) /\ Used(Put(r, c, b)) = Used(r) + 1
         /\ Contents(Put(r, c, b), c) = Append(Contents(r, c), b)
<1> DEFINE new == Put(r, c, b)
<1>1. /\ r.slots \in [0 .. c - 1 -> B] /\ Used(r) \in Nat
      /\ r.put \in 0 .. Wrap - 1 /\ r.get \in 0 .. Wrap - 1
      /\ r.put \in Nat /\ r.get \in Nat
  BY RingFields, ConstantFacts
<1>2. r.put % c \in 0 .. c - 1
  <2>1. r.put \in Int BY <1>1
  <2>2. QED BY <2>1, ModRange
<1>0. Wrap \in Nat \ {0} BY ConstantFacts
<1>3. Advance(r.put, Wrap) \in 0 .. Wrap - 1 BY <1>0, <1>1, CounterTypes
<1>4. /\ new.slots = [r.slots EXCEPT ![r.put % c] = b]
      /\ new.put = Advance(r.put, Wrap) /\ new.get = r.get
  BY DEF Put, Ring
<1>5. new \in Ring(c, B) BY <1>1, <1>3 DEF Put, Ring, Counter
<1>6. Used(new) = Used(r) + 1
  BY <1>1, <1>4, ConstantFacts, DistanceGrows DEF Used
<1>7. Append(Contents(r, c), b) \in Seq(B) /\ Len(Append(Contents(r, c), b)) = Used(r) + 1
  BY ContentsType
<1>11. (r.get + Used(r)) % c = r.put % c
  <2>1. \A p, g \in 0 .. Wrap - 1 : (g + Distance(p, g, Wrap)) % c = p % c
    BY <1>0, WriterSlot
  <2>2. QED BY <1>1, <2>1 DEF Used
<1>8. ASSUME NEW i \in 1 .. Used(r) + 1
      PROVE  Append(Contents(r, c), b)[i] = new.slots[(new.get + i - 1) % c]
  <2>1. CASE i = Used(r) + 1
    <3>1. (r.get + i - 1) % c = r.put % c
      <4>1. r.get + i - 1 = r.get + Used(r) BY <1>1, <2>1
      <4>2. QED BY <1>11, <4>1
    <3>2. Append(Contents(r, c), b)[i] = b BY <2>1, ContentsType
    <3>3. QED BY <1>1, <1>2, <1>4, <3>1, <3>2
  <2>2. CASE i # Used(r) + 1
    <3>1. i \in 1 .. Used(r) BY <1>1, <2>2
    <3>2. (r.get + i - 1) % c # r.put % c
      <4>2. (r.get + i - 1) % c # (r.get + Used(r)) % c
        <5>1. /\ r.get + i - 1 \in Nat /\ r.get + Used(r) \in Nat
              /\ r.get + i - 1 < r.get + Used(r)
              /\ r.get + Used(r) < (r.get + i - 1) + c
          BY <1>1, <3>1
        <5>2. QED BY <5>1, ModDistinct
      <4>3. QED BY <1>11, <4>2
    <3>3. (r.get + i - 1) % c \in 0 .. c - 1
      <4>1. r.get + i - 1 \in Int BY <1>1, <3>1
      <4>2. QED BY <4>1, ModRange
    <3>4. new.slots[(new.get + i - 1) % c] = r.slots[(r.get + i - 1) % c]
      BY <1>1, <1>4, <3>2, <3>3
    <3>5. Append(Contents(r, c), b)[i] = Contents(r, c)[i] BY <3>1, ContentsType
    <3>6. QED BY <3>1, <3>4, <3>5, ContentsType
  <2>3. QED BY <2>1, <2>2
<1> HIDE DEF new
<1>9. Contents(new, c) = Append(Contents(r, c), b)
  BY <1>5, <1>6, <1>7, <1>8, SameContents
<1>10. QED BY <1>5, <1>6, <1>9 DEF new

LEMMA DropRemoves ==
  ASSUME NEW c \in Nat \ {0}, Wrap > c, Wrap % c = 0,
         NEW B, NEW r \in Ring(c, B), ~Empty(r)
  PROVE  /\ Drop(r) \in Ring(c, B) /\ Used(Drop(r)) = Used(r) - 1 /\ Used(r) > 0
         /\ Contents(r, c) # <<>> /\ Oldest(r, c) = Head(Contents(r, c))
         /\ Oldest(r, c) \in B
         /\ Contents(Drop(r), c) = Tail(Contents(r, c))
<1> DEFINE new == Drop(r)
<1>1. /\ r.slots \in [0 .. c - 1 -> B] /\ Used(r) \in Nat
      /\ r.put \in 0 .. Wrap - 1 /\ r.get \in 0 .. Wrap - 1 /\ r.put # r.get
      /\ r.put \in Nat /\ r.get \in Nat
  BY RingFields, ConstantFacts DEF Empty
<1>2. Advance(r.get, Wrap) \in 0 .. Wrap - 1 BY <1>1, ConstantFacts, CounterTypes
<1>3. new.slots = r.slots /\ new.put = r.put /\ new.get = Advance(r.get, Wrap)
  BY DEF Drop, Ring
<1>4. new \in Ring(c, B) BY <1>2 DEF Drop, Ring, Counter
<1>5. Used(new) = Used(r) - 1 /\ Used(r) > 0
  BY <1>1, <1>3, ConstantFacts, DistanceShrinks DEF Used
<1>6. /\ Contents(r, c) \in Seq(B) /\ Len(Contents(r, c)) = Used(r)
      /\ \A i \in 1 .. Used(r) : Contents(r, c)[i] = r.slots[(r.get + i - 1) % c]
  BY ContentsType
<1>7. Contents(r, c) # <<>> /\ Oldest(r, c) = Head(Contents(r, c)) /\ Oldest(r, c) \in B
  <2>1. 1 \in 1 .. Used(r) /\ r.get + 1 - 1 = r.get BY <1>1, <1>5
  <2>2. Contents(r, c)[1] = Oldest(r, c) BY <1>6, <2>1 DEF Oldest
  <2>3. QED BY <1>1, <1>5, <1>6, <2>1, <2>2
<1>8. Tail(Contents(r, c)) \in Seq(B) /\ Len(Tail(Contents(r, c))) = Used(r) - 1
  BY <1>5, <1>6, <1>7
<1>9. ASSUME NEW i \in 1 .. Used(r) - 1
      PROVE  Tail(Contents(r, c))[i] = new.slots[(new.get + i - 1) % c]
  <2>1. Tail(Contents(r, c))[i] = Contents(r, c)[i + 1] BY <1>1, <1>6, <1>7
  <2>2. Contents(r, c)[i + 1] = r.slots[(r.get + i) % c]
    <3>1. i + 1 \in 1 .. Used(r) /\ r.get + (i + 1) - 1 = r.get + i BY <1>1
    <3>2. QED BY <1>6, <3>1
  <2>3. (Advance(r.get, Wrap) + (i - 1)) % c = (r.get + (i - 1) + 1) % c
    <3>1. i - 1 \in Nat BY <1>1
    <3>2. Wrap \in Nat \ {0} BY ConstantFacts
    <3>3. \A g \in 0 .. Wrap - 1, k \in Nat : (Advance(g, Wrap) + k) % c = (g + k + 1) % c
      BY <3>2, ReaderSlot
    <3>4. QED BY <1>1, <3>1, <3>3
  <2>4. /\ Advance(r.get, Wrap) + (i - 1) = new.get + i - 1
        /\ r.get + (i - 1) + 1 = r.get + i
    BY <1>1, <1>2, <1>3
  <2>5. QED BY <1>3, <2>1, <2>2, <2>3, <2>4
<1> HIDE DEF new
<1>10. Contents(new, c) = Tail(Contents(r, c))
  BY <1>4, <1>5, <1>8, <1>9, SameContents
<1>11. QED BY <1>4, <1>5, <1>7, <1>10 DEF new

-----------------------------------------------------------------------------
(* The two rings of the stream. *)

LEMMA RxFacts ==
  ASSUME TypeOK
  PROVE  /\ Used(rx) \in Nat /\ (Empty(rx) <=> Used(rx) = 0)
         /\ Contents(rx, RxCapacity) \in Seq(RxByte)
         /\ Len(Contents(rx, RxCapacity)) = Used(rx)
<1>1. rx \in Ring(RxCapacity, RxByte) BY DEF TypeOK
<1>2. QED BY <1>1, ConstantFacts, RingFields, ContentsType

LEMMA TxFacts ==
  ASSUME TypeOK
  PROVE  /\ Used(tx) \in Nat /\ (Empty(tx) <=> Used(tx) = 0)
         /\ Contents(tx, TxCapacity) \in Seq(TxByte)
         /\ Len(Contents(tx, TxCapacity)) = Used(tx)
<1>1. tx \in Ring(TxCapacity, TxByte) BY DEF TypeOK
<1>2. QED BY <1>1, ConstantFacts, RingFields, ContentsType

LEMMA RxPut ==
  ASSUME TypeOK, Used(rx) < RxCapacity, NEW b \in RxByte, rx' = Put(rx, RxCapacity, b)
  PROVE  /\ rx' \in Ring(RxCapacity, RxByte) /\ Used(rx') = Used(rx) + 1
         /\ Contents(rx, RxCapacity)' = Append(Contents(rx, RxCapacity), b)
<1>1. rx \in Ring(RxCapacity, RxByte) BY DEF TypeOK
<1>2. /\ Put(rx, RxCapacity, b) \in Ring(RxCapacity, RxByte)
      /\ Used(Put(rx, RxCapacity, b)) = Used(rx) + 1
      /\ Contents(Put(rx, RxCapacity, b), RxCapacity) = Append(Contents(rx, RxCapacity), b)
  BY <1>1, ConstantFacts, PutAppends
<1>3. QED BY <1>2

LEMMA RxDrop ==
  ASSUME TypeOK, ~Empty(rx), rx' = Drop(rx)
  PROVE  /\ rx' \in Ring(RxCapacity, RxByte) /\ Used(rx') = Used(rx) - 1
         /\ Contents(rx, RxCapacity) # <<>>
         /\ Contents(rx, RxCapacity)' = Tail(Contents(rx, RxCapacity))
<1>1. rx \in Ring(RxCapacity, RxByte) BY DEF TypeOK
<1>2. /\ Drop(rx) \in Ring(RxCapacity, RxByte) /\ Used(Drop(rx)) = Used(rx) - 1
      /\ Contents(rx, RxCapacity) # <<>>
      /\ Contents(Drop(rx), RxCapacity) = Tail(Contents(rx, RxCapacity))
  BY <1>1, ConstantFacts, DropRemoves
<1>3. QED BY <1>2

LEMMA TxPut ==
  ASSUME TypeOK, Used(tx) < TxCapacity, NEW b \in TxByte, tx' = Put(tx, TxCapacity, b)
  PROVE  /\ tx' \in Ring(TxCapacity, TxByte) /\ Used(tx') = Used(tx) + 1
         /\ Contents(tx, TxCapacity)' = Append(Contents(tx, TxCapacity), b)
<1>1. tx \in Ring(TxCapacity, TxByte) BY DEF TypeOK
<1>2. /\ Put(tx, TxCapacity, b) \in Ring(TxCapacity, TxByte)
      /\ Used(Put(tx, TxCapacity, b)) = Used(tx) + 1
      /\ Contents(Put(tx, TxCapacity, b), TxCapacity) = Append(Contents(tx, TxCapacity), b)
  BY <1>1, ConstantFacts, PutAppends
<1>3. QED BY <1>2

LEMMA TxDrop ==
  ASSUME TypeOK, ~Empty(tx)
  PROVE  /\ Drop(tx) \in Ring(TxCapacity, TxByte) /\ Used(Drop(tx)) = Used(tx) - 1
         /\ Contents(tx, TxCapacity) # <<>>
         /\ Oldest(tx, TxCapacity) = Head(Contents(tx, TxCapacity))
         /\ Oldest(tx, TxCapacity) \in TxByte
         /\ Contents(Drop(tx), TxCapacity) = Tail(Contents(tx, TxCapacity))
<1>1. tx \in Ring(TxCapacity, TxByte) BY DEF TypeOK
<1>2. QED BY <1>1, ConstantFacts, DropRemoves

LEMMA RingsCleared ==
  ASSUME rx' = Cleared(RxCapacity, RxByte), tx' = Cleared(TxCapacity, TxByte)
  PROVE  /\ rx' \in Ring(RxCapacity, RxByte) /\ tx' \in Ring(TxCapacity, TxByte)
         /\ Empty(rx)' /\ Empty(tx)' /\ Used(rx)' = 0 /\ Used(tx)' = 0
         /\ Contents(rx, RxCapacity)' = <<>> /\ Contents(tx, TxCapacity)' = <<>>
<1>1. LET r == Cleared(RxCapacity, RxByte) IN
        r \in Ring(RxCapacity, RxByte) /\ Empty(r) /\ Used(r) = 0
          /\ Contents(r, RxCapacity) = <<>>
  BY ConstantFacts, ClearedRing
<1>2. LET r == Cleared(TxCapacity, TxByte) IN
        r \in Ring(TxCapacity, TxByte) /\ Empty(r) /\ Used(r) = 0
          /\ Contents(r, TxCapacity) = <<>>
  BY ConstantFacts, ClearedRing
<1>3. QED BY <1>1, <1>2

LEMMA Transmitted ==
  ASSUME TypeOK, Transmit
  PROVE  /\ fifoOut' \in Seq(TxByte) /\ Len(fifoOut') <= Fifo /\ txRaised' = FALSE
         /\ ~Empty(tx) /\ fifoOut' = Append(fifoOut, Head(Contents(tx, TxCapacity)))
<1>1. ~Empty(tx) /\ fifoOut' = Append(fifoOut, Oldest(tx, TxCapacity))
        /\ Len(fifoOut) < Fifo /\ txRaised' = FALSE
  BY DEF Transmit, Writable
<1>2. Oldest(tx, TxCapacity) = Head(Contents(tx, TxCapacity)) /\ Oldest(tx, TxCapacity) \in TxByte
  BY <1>1, TxDrop
<1>3. fifoOut' \in Seq(TxByte) /\ Len(fifoOut') = Len(fifoOut) + 1
  BY <1>1, <1>2 DEF TypeOK
<1>4. Len(fifoOut) \in Nat /\ Fifo \in Nat BY ConstantFacts DEF TypeOK
<1>5. QED BY <1>1, <1>2, <1>3, <1>4

-----------------------------------------------------------------------------
(* Every variable keeps its type. *)
LEMMA TypeInit == Init => TypeOK
<1> SUFFICES ASSUME Init PROVE TypeOK
  OBVIOUS
<1>1. rx \in Ring(RxCapacity, RxByte) /\ tx \in Ring(TxCapacity, TxByte)
  BY ConstantFacts, ClearedRing DEF Init
<1>2. /\ fifoIn \in Seq(RxByte) /\ Len(fifoIn) = 0
      /\ fifoOut \in Seq(TxByte) /\ Len(fifoOut) = 0
  BY DEF Init
<1>3. /\ 0 \in 0 .. MaxRead \cup 0 .. MaxWrite /\ 0 \in 0 .. MaxWrite
      /\ 0 \in 0 .. MaxDropped
  BY ConstantFacts
<1>4. Len(fifoIn) <= Fifo /\ Len(fifoOut) <= Fifo BY <1>2, ConstantFacts
<1>5. QED BY <1>1, <1>2, <1>3, <1>4 DEF Init, TypeOK, Event

LEMMA TypeStep == TypeOK /\ Calls /\ [Next]_vars => TypeOK'
<1> SUFFICES ASSUME TypeOK, Calls, [Next]_vars PROVE TypeOK'
  OBVIOUS
<1> USE DEF TypeOK, hardware, rings, irqs, progress, call, handler, news, Event
<1>0. /\ Fifo \in Nat \ {0} /\ MaxDropped \in Nat \ {0} /\ MaxRead \in Nat /\ MaxWrite \in Nat
      /\ Len(fifoIn) \in Nat /\ Len(fifoOut) \in Nat
  BY ConstantFacts
<1>00. /\ 0 \in 0 .. MaxRead \cup 0 .. MaxWrite /\ 0 \in 0 .. MaxWrite
       /\ 0 \in 0 .. MaxDropped
  BY <1>0
<1>1. ASSUME NEW b \in RxByte, HwReceive(b) PROVE TypeOK'
  <2>1. fifoIn' \in Seq(RxByte) /\ Len(fifoIn') <= Fifo /\ error' \in BOOLEAN
    <3>1. CASE Len(fifoIn) < Fifo
      <4>1. fifoIn' = Append(fifoIn, b) /\ error' \in BOOLEAN
        BY <1>1, <3>1 DEF HwReceive
      <4>2. fifoIn' \in Seq(RxByte) /\ Len(fifoIn') = Len(fifoIn) + 1 BY <4>1
      <4>3. QED BY <1>0, <3>1, <4>1, <4>2
    <3>2. CASE ~(Len(fifoIn) < Fifo) BY <1>1, <3>2 DEF HwReceive
    <3>3. QED BY <3>1, <3>2
  <2>2. QED BY <1>1, <2>1 DEF HwReceive
<1>2. CASE HwSend
  <2>1. fifoOut' \in Seq(TxByte) /\ Len(fifoOut') <= Fifo
    <3>1. fifoOut # <<>> /\ fifoOut' = Tail(fifoOut) BY <1>2 DEF HwSend
    <3>2. fifoOut' \in Seq(TxByte) /\ Len(fifoOut') = Len(fifoOut) - 1 BY <3>1
    <3>3. QED BY <1>0, <3>2
  <2>2. QED BY <1>2, <2>1 DEF HwSend
<1>3. CASE HandlerEnter
  <2>1. posted' \subseteq Event BY <1>3 DEF HandlerEnter
  <2>2. wasEmpty' \in BOOLEAN BY <1>3 DEF HandlerEnter, Empty
  <2>3. QED BY <1>3, <2>1, <2>2 DEF HandlerEnter
<1>4. CASE HandlerReceive
  <2>1. fifoIn # <<>> /\ fifoIn' = Tail(fifoIn) BY <1>4 DEF HandlerReceive
  <2>2. /\ fifoIn' \in Seq(RxByte) /\ Len(fifoIn') = Len(fifoIn) - 1
        /\ Head(fifoIn) \in RxByte
    BY <2>1
  <2>3. rx' \in Ring(RxCapacity, RxByte)
    <3>1. CASE Used(rx) >= RxCapacity BY <1>4, <3>1 DEF HandlerReceive
    <3>2. CASE ~(Used(rx) >= RxCapacity)
      <4>1. Used(rx) < RxCapacity BY <3>2, RxFacts, ConstantFacts
      <4>2. rx' = Put(rx, RxCapacity, Head(fifoIn)) BY <1>4, <3>2 DEF HandlerReceive
      <4>3. QED BY <2>2, <4>1, <4>2, RxPut
    <3>3. QED BY <3>1, <3>2
  <2>4. dropped' \in 0 .. MaxDropped BY <1>0, <1>4 DEF HandlerReceive
  <2>5. QED BY <1>0, <1>4, <2>1, <2>2, <2>3, <2>4 DEF HandlerReceive
<1>5. CASE HandlerReceived
  <2>1. hadData' \in BOOLEAN BY <1>5 DEF HandlerReceived, Empty
  <2>2. posted' \subseteq Event BY <1>5 DEF HandlerReceived
  <2>3. QED BY <1>5, <2>1, <2>2 DEF HandlerReceived
<1>6. CASE HandlerTransmit
  <2>1. Transmit BY <1>6 DEF HandlerTransmit
  <2>2. tx' \in Ring(TxCapacity, TxByte) BY <1>6, <2>1, Transmitted, TxDrop DEF HandlerTransmit
  <2>3. fifoOut' \in Seq(TxByte) /\ Len(fifoOut') <= Fifo /\ txRaised' \in BOOLEAN
    BY <2>1, Transmitted
  <2>4. UNCHANGED <<open, rx, dropped, irqs, fifoIn, error, call, handler, news>>
    BY <1>6 DEF HandlerTransmit
  <2>5. QED BY <2>2, <2>3, <2>4
<1>7. CASE HandlerLeave
  <2>1. txIrq' \in BOOLEAN BY <1>7 DEF HandlerLeave, Empty
  <2>2. posted' \subseteq Event BY <1>7 DEF HandlerLeave
  <2>3. QED BY <1>7, <2>1, <2>2 DEF HandlerLeave
<1>8. CASE CloseState
  <2>1. rx' \in Ring(RxCapacity, RxByte) /\ tx' \in Ring(TxCapacity, TxByte)
    BY <1>8, RingsCleared DEF CloseState
  <2>2. QED BY <1>00, <1>8, <2>1 DEF CloseState
<1>9. CASE ReadByte
  <2>1. rx' \in Ring(RxCapacity, RxByte) BY <1>9, RxDrop DEF ReadByte
  <2>2. told' \in BOOLEAN BY <1>9 DEF ReadByte
  <2>3. left' \in 0 .. MaxRead \cup 0 .. MaxWrite BY <1>0, <1>9 DEF ReadByte
  <2>4. QED BY <1>9, <2>1, <2>2, <2>3 DEF ReadByte
<1>10. CASE ReadEnd BY <1>00, <1>10 DEF ReadEnd, End
<1>11. CASE WriteByte
  <2>1. tx' \in Ring(TxCapacity, TxByte)
    <3>1. PICK b \in TxByte : tx' = Put(tx, TxCapacity, b) BY <1>11 DEF WriteByte
    <3>2. QED BY <1>11, <3>1, TxPut DEF WriteByte
  <2>2. left' \in 0 .. MaxRead \cup 0 .. MaxWrite BY <1>0, <1>11 DEF WriteByte
  <2>3. count' \in 0 .. MaxWrite
    <3>1. left > 0 /\ count' = count + 1 /\ left + count <= MaxWrite
      BY <1>11 DEF WriteByte, Calls
    <3>2. left \in Nat /\ count \in Nat BY <1>0
    <3>3. QED BY <1>0, <3>1, <3>2
  <2>4. QED BY <1>11, <2>1, <2>2, <2>3 DEF WriteByte
<1>12. CASE WriteFilled BY <1>12 DEF WriteFilled
<1>13. CASE WriteTransmit
  <2>1. Transmit BY <1>13 DEF WriteTransmit
  <2>2. fifoOut' \in Seq(TxByte) /\ Len(fifoOut') <= Fifo /\ txRaised' = FALSE
    BY <2>1, Transmitted
  <2>3. QED BY <1>13, <2>2 DEF WriteTransmit
<1>14. CASE WriteAdvance
  <2>1. ~Empty(tx) /\ tx' = Drop(tx) BY <1>14 DEF WriteAdvance, Calls
  <2>2. tx' \in Ring(TxCapacity, TxByte) BY <2>1, TxDrop
  <2>3. QED BY <1>14, <2>2 DEF WriteAdvance
<1>15. CASE WriteEnd
  <2>1. txIrq' \in BOOLEAN BY <1>15 DEF WriteEnd, Empty
  <2>2. posted' \subseteq Event BY <1>15 DEF WriteEnd
  <2>3. QED BY <1>00, <1>15, <2>1, <2>2 DEF WriteEnd, End
<1>16. CASE OpenUart
  <2>1. rx' \in Ring(RxCapacity, RxByte) /\ tx' \in Ring(TxCapacity, TxByte)
    BY <1>16, RingsCleared DEF OpenUart
  <2>2. QED BY <1>00, <1>16, <2>1 DEF OpenUart
<1>17. CASE CloseIrqs BY <1>17 DEF CloseIrqs
<1>18. ASSUME NEW n \in 0 .. MaxRead, Read(n) PROVE TypeOK'
  BY <1>00, <1>18 DEF Read, Begin
<1>19. ASSUME NEW n \in 0 .. MaxWrite, Write(n) PROVE TypeOK'
  BY <1>00, <1>19 DEF Write, Begin
<1>20. ASSUME NEW e \in Event, TakeEvent(e) PROVE TypeOK'
  <2>1. told' \in BOOLEAN BY <1>20 DEF TakeEvent, Empty
  <2>2. posted' \subseteq Event BY <1>20 DEF TakeEvent
  <2>3. QED BY <1>20, <2>1, <2>2 DEF TakeEvent
<1>21. CASE UNCHANGED vars BY <1>21 DEF vars
<1>22. QED BY <1>1, <1>2, <1>3, <1>4, <1>5, <1>6, <1>7, <1>8, <1>9, <1>10, <1>11, <1>12,
              <1>13, <1>14, <1>15, <1>16, <1>17, <1>18, <1>19, <1>20, <1>21
           DEF Next, Handler, Step

-----------------------------------------------------------------------------
(* Calls and handler keep out of each other's way. *)
LEMMA CallsInit == Init => Calls
  BY DEF Init, Calls

LEMMA CallsStep == TypeOK /\ Calls /\ [Next]_vars => Calls'
<1> SUFFICES ASSUME TypeOK, Calls, [Next]_vars PROVE Calls'
  OBVIOUS
<1>0. left \in Nat /\ count \in Nat BY ConstantFacts DEF TypeOK
<1> USE DEF Calls, hardware, rings, irqs, progress, call, handler, news
<1>1. ASSUME NEW b \in RxByte, HwReceive(b) PROVE Calls' BY <1>1 DEF HwReceive
<1>2. CASE HwSend BY <1>2 DEF HwSend
<1>3. CASE HandlerEnter BY <1>3 DEF HandlerEnter
<1>4. CASE HandlerReceive BY <1>4 DEF HandlerReceive
<1>5. CASE HandlerReceived BY <1>5 DEF HandlerReceived
<1>6. CASE HandlerTransmit BY <1>6 DEF HandlerTransmit
<1>7. CASE HandlerLeave BY <1>7 DEF HandlerLeave
<1>8. CASE CloseState BY <1>8 DEF CloseState
<1>9. CASE ReadByte BY <1>9 DEF ReadByte
<1>10. CASE ReadEnd BY <1>10 DEF ReadEnd, End
<1>11. CASE WriteByte BY <1>0, <1>11 DEF WriteByte
<1>12. CASE WriteFilled BY <1>12 DEF WriteFilled
<1>13. CASE WriteTransmit BY <1>13, Transmitted DEF WriteTransmit
<1>14. CASE WriteAdvance BY <1>14 DEF WriteAdvance
<1>15. CASE WriteEnd BY <1>15 DEF WriteEnd, End
<1>16. CASE OpenUart BY <1>16 DEF OpenUart
<1>17. CASE CloseIrqs BY <1>17 DEF CloseIrqs
<1>18. ASSUME NEW n \in 0 .. MaxRead, Read(n) PROVE Calls' BY <1>18 DEF Read, Begin
<1>19. ASSUME NEW n \in 0 .. MaxWrite, Write(n) PROVE Calls'
  BY <1>19, ConstantFacts DEF Write, Begin
<1>20. ASSUME NEW e \in Event, TakeEvent(e) PROVE Calls' BY <1>20 DEF TakeEvent
<1>21. CASE UNCHANGED vars BY <1>21 DEF vars
<1>22. QED BY <1>1, <1>2, <1>3, <1>4, <1>5, <1>6, <1>7, <1>8, <1>9, <1>10, <1>11, <1>12,
              <1>13, <1>14, <1>15, <1>16, <1>17, <1>18, <1>19, <1>20, <1>21
           DEF Next, Handler, Step

(* The rings stay within their capacity, and empty in a closed stream. *)
LEMMA RingsInit == Init => Rings
<1> SUFFICES ASSUME Init PROVE Rings
  OBVIOUS
<1>1. Used(rx) = 0 /\ Used(tx) = 0 /\ Empty(rx) /\ Empty(tx)
  BY ConstantFacts, ClearedRing DEF Init
<1>2. QED BY <1>1, ConstantFacts DEF Init, Rings

LEMMA RingsStep == TypeOK /\ Calls /\ Rings /\ [Next]_vars => Rings'
<1> SUFFICES ASSUME TypeOK, Calls, Rings, [Next]_vars PROVE Rings'
  OBVIOUS
<1>0. /\ Used(rx) \in Nat /\ Used(tx) \in Nat /\ RxCapacity \in Nat /\ TxCapacity \in Nat
  BY RxFacts, TxFacts, ConstantFacts
<1> USE DEF hardware, rings, irqs, progress, call, handler, news
<1>1. ASSUME UNCHANGED <<rx, tx, dropped>>, open' = open PROVE Rings'
  BY <1>1 DEF Rings, Used, Empty
<1>2. ASSUME UNCHANGED tx, open, open', Used(rx') <= RxCapacity PROVE Rings'
  BY <1>2 DEF Rings, Used
<1>3. ASSUME UNCHANGED rx, open, open', Used(tx') <= TxCapacity PROVE Rings'
  BY <1>3 DEF Rings, Used
<1>4. ASSUME NEW b \in RxByte, HwReceive(b) PROVE Rings' BY <1>1, <1>4 DEF HwReceive
<1>5. CASE HwSend BY <1>1, <1>5 DEF HwSend
<1>6. CASE HandlerEnter BY <1>1, <1>6 DEF HandlerEnter
<1>7. CASE HandlerReceive
  <2>1. open /\ open' = open /\ tx' = tx BY <1>7 DEF HandlerReceive, Calls
  <2>2. CASE Used(rx) >= RxCapacity
    <3>1. rx' = rx BY <1>7, <2>2 DEF HandlerReceive
    <3>2. Used(rx') = Used(rx) BY <3>1
    <3>3. QED BY <1>2, <2>1, <3>2 DEF Rings
  <2>3. CASE ~(Used(rx) >= RxCapacity)
    <3>1. Used(rx) < RxCapacity BY <1>0, <2>3
    <3>2. rx' = Put(rx, RxCapacity, Head(fifoIn)) BY <1>7, <2>3 DEF HandlerReceive
    <3>3. Head(fifoIn) \in RxByte BY <1>7 DEF HandlerReceive, TypeOK
    <3>4. Used(rx') = Used(rx) + 1 BY <3>1, <3>2, <3>3, RxPut
    <3>5. Used(rx') <= RxCapacity BY <1>0, <3>1, <3>4
    <3>6. QED BY <1>2, <2>1, <3>5
  <2>4. QED BY <2>2, <2>3
<1>8. CASE HandlerReceived BY <1>1, <1>8 DEF HandlerReceived
<1>9. ASSUME UNCHANGED rx, open, open' = open, ~Empty(tx), tx' = Drop(tx) PROVE Rings'
  <2>1. Used(tx') = Used(tx) - 1 BY <1>9, TxDrop
  <2>2. Used(tx') <= TxCapacity BY <1>0, <2>1 DEF Rings
  <2>3. QED BY <1>3, <1>9, <2>2
<1>10. CASE HandlerTransmit
  <2>1. open /\ open' = open /\ rx' = rx /\ tx' = Drop(tx)
    BY <1>10 DEF HandlerTransmit, Calls
  <2>2. ~Empty(tx) BY <1>10 DEF HandlerTransmit, Transmit
  <2>3. QED BY <1>9, <2>1, <2>2
<1>11. CASE HandlerLeave BY <1>1, <1>11 DEF HandlerLeave
<1>12. CASE CloseState \/ OpenUart
  <2>1. Used(rx)' = 0 /\ Used(tx)' = 0 /\ Empty(rx)' /\ Empty(tx)' /\ dropped' = 0
    BY <1>12, RingsCleared DEF CloseState, OpenUart
  <2>2. QED BY <1>0, <2>1 DEF Rings
<1>13. CASE ReadByte
  <2>1. open /\ open' = open /\ tx' = tx /\ ~Empty(rx) /\ rx' = Drop(rx)
    BY <1>13 DEF ReadByte, Calls
  <2>2. Used(rx') = Used(rx) - 1 BY <2>1, RxDrop
  <2>3. Used(rx') <= RxCapacity BY <1>0, <2>2 DEF Rings
  <2>4. QED BY <1>2, <2>1, <2>3
<1>14. CASE ReadEnd BY <1>1, <1>14 DEF ReadEnd
<1>15. CASE WriteByte
  <2>1. open /\ open' = open /\ rx' = rx BY <1>15 DEF WriteByte, Calls
  <2>2. PICK b \in TxByte : tx' = Put(tx, TxCapacity, b) BY <1>15 DEF WriteByte
  <2>3. Used(tx') = Used(tx) + 1 /\ Used(tx) < TxCapacity
    BY <1>15, <2>2, TxPut DEF WriteByte
  <2>4. Used(tx') <= TxCapacity BY <1>0, <2>3
  <2>5. QED BY <1>3, <2>1, <2>4
<1>16. CASE WriteFilled BY <1>1, <1>16 DEF WriteFilled
<1>17. CASE WriteTransmit BY <1>1, <1>17 DEF WriteTransmit
<1>18. CASE WriteAdvance BY <1>9, <1>18 DEF WriteAdvance, Calls
<1>19. CASE WriteEnd BY <1>1, <1>19 DEF WriteEnd
<1>20. CASE CloseIrqs BY <1>1, <1>20 DEF CloseIrqs
<1>21. ASSUME NEW to, NEW n, Begin(to, n) PROVE Rings' BY <1>1, <1>21 DEF Begin
<1>22. ASSUME NEW e \in Event, TakeEvent(e) PROVE Rings' BY <1>1, <1>22 DEF TakeEvent
<1>23. CASE UNCHANGED vars BY <1>1, <1>23 DEF vars
<1>24. QED BY <1>4, <1>5, <1>6, <1>7, <1>8, <1>10, <1>11, <1>12,
              <1>13, <1>14, <1>15, <1>16, <1>17, <1>18, <1>19, <1>20, <1>21, <1>22, <1>23
           DEF Next, Handler, Step, Read, Write

(* Bytes that wait are announced, or about to be by the handler. *)
LEMMA AnnouncedInit == Init => Announced
  BY DEF Init, Announced

LEMMA AnnouncedStep ==
  TypeOK /\ Calls /\ Rings /\ Announced /\ [Next]_vars => Announced'
<1> SUFFICES ASSUME TypeOK, Calls, Rings, Announced, [Next]_vars PROVE Announced'
  OBVIOUS
<1> USE DEF Announced, News, hardware, rings, irqs, progress, call, handler, news
<1>1. ASSUME UNCHANGED <<rx, open, hpc, wasEmpty, told>>, "rx" \in posted => "rx" \in posted'
      PROVE  Announced'
  BY <1>1 DEF Empty
<1>2. ASSUME NEW b \in RxByte, HwReceive(b) PROVE Announced' BY <1>1, <1>2 DEF HwReceive
<1>3. CASE HwSend BY <1>1, <1>3 DEF HwSend
<1>4. CASE HandlerEnter
  <2>1. /\ wasEmpty' <=> Empty(rx)
        /\ open /\ hpc # "rx" /\ hpc' = "rx" /\ told' = told
        /\ "rx" \in posted => "rx" \in posted'
    BY <1>4 DEF HandlerEnter, Empty
  <2>2. QED BY <2>1
<1>5. CASE HandlerReceive BY <1>5 DEF HandlerReceive
<1>6. CASE HandlerReceived
  <2>1. /\ hpc = "rx" /\ hpc' = "tx" /\ rx' = rx /\ told' = told
        /\ posted' = IF wasEmpty /\ ~Empty(rx) THEN posted \cup {"rx"} ELSE posted
    BY <1>6 DEF HandlerReceived
  <2>2. Empty(rx)' <=> Empty(rx) BY <2>1 DEF Empty
  <2>3. ASSUME ~Empty(rx) PROVE News'
    <3>1. CASE wasEmpty BY <2>1, <2>3, <3>1
    <3>2. CASE ~wasEmpty BY <2>1, <3>2
    <3>3. QED BY <3>1, <3>2
  <2>4. QED BY <2>1, <2>2, <2>3
<1>7. CASE HandlerTransmit BY <1>1, <1>7 DEF HandlerTransmit
<1>8. CASE HandlerLeave BY <1>8 DEF HandlerLeave, Empty
<1>9. CASE CloseState
  <2>1. ~open' /\ hpc' = "off" BY <1>9 DEF CloseState
  <2>2. QED BY <2>1
<1>10. CASE OpenUart
  <2>1. Empty(rx)' BY <1>10, RingsCleared DEF OpenUart
  <2>2. hpc' = "off" BY <1>10 DEF OpenUart
  <2>3. QED BY <2>1, <2>2
<1>11. CASE ReadByte
  <2>1. /\ hpc = "off" /\ hpc' = "off" /\ open' = open /\ posted' = posted /\ ~Empty(rx)
        /\ told' <=> told /\ ~Empty(rx)'
    BY <1>11 DEF ReadByte, Empty
  <2>2. open BY <1>11 DEF ReadByte, Calls
  <2>3. QED BY <2>1, <2>2
<1>12. CASE ReadEnd BY <1>1, <1>12 DEF ReadEnd
<1>13. CASE WriteByte BY <1>1, <1>13 DEF WriteByte
<1>14. CASE WriteFilled BY <1>1, <1>14 DEF WriteFilled
<1>15. CASE WriteTransmit BY <1>1, <1>15 DEF WriteTransmit
<1>16. CASE WriteAdvance BY <1>1, <1>16 DEF WriteAdvance
<1>17. CASE WriteEnd BY <1>1, <1>17 DEF WriteEnd
<1>18. CASE CloseIrqs BY <1>1, <1>18 DEF CloseIrqs
<1>19. ASSUME NEW to, NEW n, Begin(to, n) PROVE Announced' BY <1>1, <1>19 DEF Begin
<1>20. ASSUME NEW e \in Event, TakeEvent(e) PROVE Announced'
  <2>1. /\ hpc = "off" /\ hpc' = "off" /\ rx' = rx /\ open' = open
        /\ posted' = posted \ {e}
        /\ told' <=> (told \/ (e = "rx" /\ ~Empty(rx)))
    BY <1>20 DEF TakeEvent
  <2>2. Empty(rx)' <=> Empty(rx) BY <2>1 DEF Empty
  <2>3. QED BY <2>1, <2>2
<1>21. CASE UNCHANGED vars BY <1>1, <1>21 DEF vars
<1>22. QED BY <1>2, <1>3, <1>4, <1>5, <1>6, <1>7, <1>8, <1>9, <1>10, <1>11, <1>12,
              <1>13, <1>14, <1>15, <1>16, <1>17, <1>18, <1>19, <1>20, <1>21
           DEF Next, Handler, Step, Read, Write

-----------------------------------------------------------------------------
LEMMA Invariance == Spec => []IInv
<1>1. Init => IInv
  BY TypeInit, CallsInit, RingsInit, AnnouncedInit DEF IInv
<1>2. IInv /\ [Next]_vars => IInv'
  BY TypeStep, CallsStep, RingsStep, AnnouncedStep DEF IInv
<1>3. QED BY <1>1, <1>2, PTL DEF Spec

(* Received bytes never wait unannounced, whatever the handler, the calls  *)
(* and the program that takes the events interleave.                       *)
THEOREM BytesAnnounced == Spec => []NewsOfBytes
<1>1. IInv => NewsOfBytes BY DEF IInv, Announced, News, NewsOfBytes
<1>2. QED BY <1>1, Invariance, PTL

-----------------------------------------------------------------------------
(* The receive ring is a byte pipe. *)

LEMMA ReceiveInit == Init => Rx!Init
<1> SUFFICES ASSUME Init PROVE Rx!Init
  OBVIOUS
<1>1. Contents(rx, RxCapacity) = <<>> BY ConstantFacts, ClearedRing DEF Init
<1>2. QED BY <1>1 DEF Init, Rx!Init

LEMMA ReceiveStep == IInv /\ [Next]_vars => [Rx!Next]_(Rx!vars)
<1> SUFFICES ASSUME IInv, [Next]_vars PROVE [Rx!Next]_(Rx!vars)
  OBVIOUS
<1>0. TypeOK /\ Calls /\ Rings BY DEF IInv
<1> DEFINE pipe == Contents(rx, RxCapacity)
<1>1. /\ Len(pipe) = Used(rx) /\ Used(rx) \in Nat /\ RxCapacity \in Nat
      /\ pipe \in Seq(RxByte)
  BY <1>0, RxFacts, ConstantFacts
<1> USE DEF hardware, rings, irqs, progress, call, handler, news
<1>2. ASSUME UNCHANGED <<rx, dropped, open>> PROVE UNCHANGED Rx!vars
  BY <1>2 DEF Rx!vars
<1>3. ASSUME NEW b \in RxByte, HwReceive(b) PROVE UNCHANGED Rx!vars
  BY <1>2, <1>3 DEF HwReceive
<1>4. CASE HwSend BY <1>2, <1>4 DEF HwSend
<1>5. CASE HandlerEnter BY <1>2, <1>5 DEF HandlerEnter
<1>6. CASE HandlerReceive
  <2>1. open /\ open' = open BY <1>0, <1>6 DEF HandlerReceive, Calls
  <2>2. CASE Used(rx) >= RxCapacity
    <3>1. /\ rx' = rx
          /\ dropped' = IF dropped = MaxDropped THEN dropped ELSE dropped + 1
      BY <1>6, <2>2 DEF HandlerReceive
    <3>2. pipe' = pipe BY <3>1
    <3>3. Len(pipe) = RxCapacity BY <1>0, <1>1, <2>2 DEF Rings
    <3> HIDE DEF pipe
    <3>4. Rx!Lose BY <2>1, <3>1, <3>2, <3>3 DEF Rx!Lose, pipe
    <3>5. QED BY <3>4 DEF Rx!Next
  <2>3. CASE ~(Used(rx) >= RxCapacity)
    <3>1. Used(rx) < RxCapacity BY <1>1, <2>3
    <3>2. /\ rx' = Put(rx, RxCapacity, Head(fifoIn)) /\ dropped' = dropped
          /\ Head(fifoIn) \in RxByte
      BY <1>0, <1>6, <2>3 DEF HandlerReceive, TypeOK
    <3>3. pipe' = Append(pipe, Head(fifoIn)) BY <1>0, <3>1, <3>2, RxPut
    <3>4. Rx!Accept BY <1>1, <2>1, <3>1, <3>2, <3>3 DEF Rx!Accept
    <3>5. QED BY <3>4 DEF Rx!Next
  <2>4. QED BY <2>2, <2>3
<1>7. CASE HandlerReceived BY <1>2, <1>7 DEF HandlerReceived
<1>8. CASE HandlerTransmit BY <1>2, <1>8 DEF HandlerTransmit
<1>9. CASE HandlerLeave BY <1>2, <1>9 DEF HandlerLeave
<1>10. CASE CloseState
  <2>1. pipe' = <<>> /\ open /\ open' = FALSE /\ dropped' = 0
    BY <1>0, <1>10, RingsCleared DEF CloseState, Calls
  <2>2. 0 \in 0 .. Len(pipe) /\ SubSeq(pipe, 1, 0) = <<>> BY <1>1
  <2>3. \E n \in 0 .. Len(pipe) : pipe' = SubSeq(pipe, 1, n) BY <2>1, <2>2
  <2>4. Rx!Close BY <2>1, <2>3 DEF Rx!Close
  <2>5. QED BY <2>4 DEF Rx!Next
<1>11. CASE OpenUart
  <2>1. /\ ~open /\ open' = TRUE /\ dropped' = 0 /\ dropped = 0 /\ Empty(rx)
        /\ pipe' = <<>>
    BY <1>0, <1>11, RingsCleared DEF OpenUart, Rings
  <2>2. pipe = <<>>
    <3>1. Len(pipe) = 0 BY <1>0, <1>1, <2>1, RxFacts
    <3>2. QED BY <1>1, <3>1
  <2>3. Rx!Open BY <2>1, <2>2 DEF Rx!Open
  <2>4. QED BY <2>3 DEF Rx!Next
<1>12. CASE ReadByte
  <2>1. ~Empty(rx) /\ rx' = Drop(rx) /\ open' = open /\ dropped' = dropped
    BY <1>12 DEF ReadByte
  <2>2. pipe # <<>> /\ pipe' = Tail(pipe) BY <1>0, <2>1, RxDrop
  <2>3. Rx!Leave BY <2>1, <2>2 DEF Rx!Leave
  <2>4. QED BY <2>3 DEF Rx!Next
<1>13. CASE ReadEnd BY <1>2, <1>13 DEF ReadEnd
<1>14. CASE WriteByte BY <1>2, <1>14 DEF WriteByte
<1>15. CASE WriteFilled BY <1>2, <1>15 DEF WriteFilled
<1>16. CASE WriteTransmit BY <1>2, <1>16 DEF WriteTransmit
<1>17. CASE WriteAdvance BY <1>2, <1>17 DEF WriteAdvance
<1>18. CASE WriteEnd BY <1>2, <1>18 DEF WriteEnd
<1>19. CASE CloseIrqs BY <1>2, <1>19 DEF CloseIrqs
<1>20. ASSUME NEW to, NEW n, Begin(to, n) PROVE UNCHANGED Rx!vars
  BY <1>2, <1>20 DEF Begin
<1>21. ASSUME NEW e \in Event, TakeEvent(e) PROVE UNCHANGED Rx!vars
  BY <1>2, <1>21 DEF TakeEvent
<1>22. CASE UNCHANGED vars BY <1>2, <1>22 DEF vars
<1>23. QED BY <1>3, <1>4, <1>5, <1>6, <1>7, <1>8, <1>9, <1>10, <1>11, <1>12,
              <1>13, <1>14, <1>15, <1>16, <1>17, <1>18, <1>19, <1>20, <1>21, <1>22
           DEF Next, Handler, Step, Read, Write

(* Every received byte that finds room is read once and in order, and the  *)
(* others are counted, through every wrap of the counters.                 *)
THEOREM ReceivesInOrder == Spec => ReceivePipe
  BY ReceiveInit, ReceiveStep, Invariance, PTL DEF Spec, ReceivePipe, Rx!Spec

-----------------------------------------------------------------------------
(* What moves a byte from one sequence to the next. *)

LEMMA SeqEqual ==
  ASSUME NEW B, NEW s \in Seq(B), NEW t \in Seq(B), Len(s) = Len(t),
         \A i \in 1 .. Len(s) : s[i] = t[i]
  PROVE  s = t
  OBVIOUS

LEMMA ConcatFacts ==
  ASSUME NEW B, NEW s \in Seq(B), NEW t \in Seq(B)
  PROVE  /\ s \o t \in Seq(B) /\ Len(s \o t) = Len(s) + Len(t)
         /\ \A i \in 1 .. Len(s) : (s \o t)[i] = s[i]
         /\ \A i \in 1 .. Len(t) : (s \o t)[Len(s) + i] = t[i]
<1>1. Len(s) \in Nat /\ Len(t) \in Nat OBVIOUS
<1>2. s \o t \in Seq(B) /\ Len(s \o t) = Len(s) + Len(t) OBVIOUS
<1>3. \A i \in 1 .. Len(s) : (s \o t)[i] = s[i] BY <1>1
<1>4. ASSUME NEW i \in 1 .. Len(t) PROVE (s \o t)[Len(s) + i] = t[i] BY <1>1
<1>5. QED BY <1>2, <1>3, <1>4

LEMMA ConcatAppend ==
  ASSUME NEW B, NEW s \in Seq(B), NEW t \in Seq(B), NEW b \in B
  PROVE  s \o Append(t, b) = Append(s \o t, b)
  OBVIOUS

LEMMA ConcatTail ==
  ASSUME NEW B, NEW s \in Seq(B), NEW t \in Seq(B), s # <<>>
  PROVE  s \o t # <<>> /\ Tail(s \o t) = Tail(s) \o t
  OBVIOUS

LEMMA ConcatMove ==
  ASSUME NEW B, NEW s \in Seq(B), NEW t \in Seq(B), t # <<>>
  PROVE  Append(s, Head(t)) \o Tail(t) = s \o t
  OBVIOUS

LEMMA ConcatPrefix ==
  ASSUME NEW B, NEW s \in Seq(B), NEW t \in Seq(B)
  PROVE  /\ s \o <<>> = s
         /\ Len(s) \in 0 .. Len(s \o t) /\ SubSeq(s \o t, 1, Len(s)) = s
  OBVIOUS


-----------------------------------------------------------------------------
(* The transmit ring and the hardware FIFO together are a byte pipe. *)

LEMMA UnsentFacts ==
  ASSUME TypeOK, Calls
  PROVE  /\ Unsent \in Seq(TxByte)
         /\ pc # "sent" => Unsent = Contents(tx, TxCapacity)
         /\ pc = "sent" => Unsent = Tail(Contents(tx, TxCapacity))
         /\ fifoOut \in Seq(TxByte) /\ Len(fifoOut) \in Nat /\ Len(fifoOut) <= Fifo
<1>1. pc # "sent" => Unsent = Contents(tx, TxCapacity) BY DEF Unsent
<1>2. pc = "sent" => Unsent = Tail(Contents(tx, TxCapacity))
  BY TxDrop DEF Unsent, Calls
<1>3. Unsent \in Seq(TxByte)
  <2>1. CASE pc = "sent"
    <3>1. Drop(tx) \in Ring(TxCapacity, TxByte) BY <2>1, TxDrop DEF Calls
    <3>2. Unsent = Contents(Drop(tx), TxCapacity) BY <2>1 DEF Unsent
    <3>3. QED BY <3>1, <3>2, ConstantFacts, ContentsType
  <2>2. CASE pc # "sent" BY <1>1, <2>2, TxFacts
  <2>3. QED BY <2>1, <2>2
<1>4. QED BY <1>1, <1>2, <1>3 DEF TypeOK

LEMMA TransmitInit == Init => Tx!Init
<1> SUFFICES ASSUME Init PROVE Tx!Init
  OBVIOUS
<1>1. Contents(tx, TxCapacity) = <<>> BY ConstantFacts, ClearedRing DEF Init
<1>2. Unsent = <<>> /\ fifoOut = <<>> BY <1>1 DEF Init, Unsent
<1>3. fifoOut \o Unsent = <<>> BY <1>2
<1>4. QED BY <1>3 DEF Init, Tx!Init

LEMMA TransmitStep == IInv /\ IInv' /\ [Next]_vars => [Tx!Next]_(Tx!vars)
<1> SUFFICES ASSUME IInv, IInv', [Next]_vars PROVE [Tx!Next]_(Tx!vars)
  OBVIOUS
<1> DEFINE c == Contents(tx, TxCapacity)
<1>0. TypeOK /\ Calls /\ Rings /\ TypeOK' /\ Calls' BY DEF IInv
<1>1. /\ c \in Seq(TxByte) /\ Len(c) = Used(tx) /\ Used(tx) \in Nat
      /\ TxCapacity \in Nat /\ Fifo \in Nat
      /\ fifoOut \in Seq(TxByte) /\ Len(fifoOut) \in Nat /\ Len(fifoOut) <= Fifo
      /\ Unsent \in Seq(TxByte)
      /\ pc # "sent" => Unsent = c
      /\ pc = "sent" => Unsent = Tail(c)
  BY <1>0, TxFacts, UnsentFacts, ConstantFacts
<1>2. /\ pc' # "sent" => Unsent' = c'
      /\ pc' = "sent" => Unsent' = Tail(c')
  <2>1. \A r \in Ring(TxCapacity, TxByte) :
          ~Empty(r) => Contents(Drop(r), TxCapacity) = Tail(Contents(r, TxCapacity))
    BY ConstantFacts, DropRemoves
  <2>2. tx' \in Ring(TxCapacity, TxByte) /\ (pc' = "sent" => ~Empty(tx'))
    BY <1>0 DEF TypeOK, Calls, Empty
  <2>3. QED BY <2>1, <2>2 DEF Unsent
<1> HIDE DEF c
<1> USE DEF hardware, rings, irqs, progress, call, handler, news
<1>3. ASSUME UNCHANGED <<fifoOut, open>>, Unsent' = Unsent PROVE UNCHANGED Tx!vars
  BY <1>3 DEF Tx!vars
<1>4. ASSUME UNCHANGED <<tx, fifoOut, open>>, pc' = "sent" <=> pc = "sent"
      PROVE  UNCHANGED Tx!vars
  <2>1. Unsent' = Unsent BY <1>4 DEF Unsent
  <2>2. QED BY <1>3, <1>4, <2>1
<1>5. ASSUME NEW b \in RxByte, HwReceive(b) PROVE UNCHANGED Tx!vars
  BY <1>4, <1>5 DEF HwReceive
<1>6. CASE HwSend
  <2>1. fifoOut # <<>> /\ fifoOut' = Tail(fifoOut) /\ open' = open /\ Unsent' = Unsent
    BY <1>6 DEF HwSend, Unsent
  <2>2. /\ fifoOut \o Unsent # <<>>
        /\ Tail(fifoOut \o Unsent) = Tail(fifoOut) \o Unsent
    BY <1>1, <2>1, ConcatTail
  <2>3. Tx!Leave BY <2>1, <2>2 DEF Tx!Leave
  <2>4. QED BY <2>3 DEF Tx!Next
<1>7. CASE HandlerEnter BY <1>4, <1>7 DEF HandlerEnter
<1>8. CASE HandlerReceive BY <1>4, <1>8 DEF HandlerReceive
<1>9. CASE HandlerReceived BY <1>4, <1>9 DEF HandlerReceived
<1>10. ASSUME Transmit, Unsent = c, Unsent' = Tail(c), open' = open
       PROVE  UNCHANGED Tx!vars
  <2>1. fifoOut' = Append(fifoOut, Head(c)) /\ ~Empty(tx)
    BY <1>0, <1>10, Transmitted DEF c
  <2>2. c # <<>> BY <1>0, <2>1, TxDrop DEF c
  <2>3. Append(fifoOut, Head(c)) \o Tail(c) = fifoOut \o c BY <1>1, <2>2, ConcatMove
  <2>4. QED BY <1>10, <2>1, <2>3 DEF Tx!vars
<1>11. CASE HandlerTransmit
  <2>1. /\ Transmit /\ tx' = Drop(tx) /\ open' = open /\ pc' = pc /\ ~Empty(tx)
        /\ pc # "sent"
    BY <1>0, <1>11 DEF HandlerTransmit, Transmit, Calls
  <2>2. c' = Tail(c)
    <3>1. Contents(Drop(tx), TxCapacity) = Tail(c) BY <1>0, <2>1, TxDrop DEF c
    <3>2. QED BY <2>1, <3>1 DEF c
  <2>3. QED BY <1>1, <1>2, <1>10, <2>1, <2>2
<1>12. CASE HandlerLeave BY <1>4, <1>12 DEF HandlerLeave
<1>13. CASE CloseState
  <2>1. c' = <<>> BY <1>13, RingsCleared DEF CloseState, c
  <2>2. /\ pc' = "idle" /\ pc = "close" /\ fifoOut' = fifoOut /\ open' = FALSE /\ open
    BY <1>0, <1>13 DEF CloseState, Calls
  <2>3. Unsent' = <<>> BY <1>2, <2>1, <2>2
  <2>4. /\ fifoOut \o <<>> = fifoOut
        /\ Len(fifoOut) \in 0 .. Len(fifoOut \o Unsent)
        /\ SubSeq(fifoOut \o Unsent, 1, Len(fifoOut)) = fifoOut
    BY <1>1, ConcatPrefix
  <2>5. (fifoOut \o Unsent)' = fifoOut BY <2>2, <2>3, <2>4
  <2>6. \E n \in 0 .. Len(fifoOut \o Unsent) :
          (fifoOut \o Unsent)' = SubSeq(fifoOut \o Unsent, 1, n)
    BY <2>4, <2>5
  <2>7. Tx!Close BY <2>2, <2>6 DEF Tx!Close
  <2>8. QED BY <2>7 DEF Tx!Next
<1>14. CASE OpenUart
  <2>1. c' = <<>> BY <1>14, RingsCleared DEF OpenUart, c
  <2>2. /\ ~open /\ open' = TRUE /\ fifoOut' = fifoOut /\ pc = "idle" /\ pc' = "idle"
    BY <1>14 DEF OpenUart
  <2>3. c = <<>>
    <3>1. Len(c) = 0 BY <1>0, <1>1, <2>2, TxFacts DEF Rings
    <3>2. QED BY <1>1, <3>1
  <2>4. Unsent' = Unsent BY <1>1, <1>2, <2>1, <2>2, <2>3
  <2>5. Tx!Open BY <2>2, <2>4 DEF Tx!Open
  <2>6. QED BY <2>5 DEF Tx!Next
<1>15. CASE ReadByte BY <1>4, <1>15 DEF ReadByte
<1>16. CASE ReadEnd BY <1>4, <1>16 DEF ReadEnd, End
<1>17. CASE WriteByte
  <2>1. /\ open /\ open' = open /\ fifoOut' = fifoOut /\ pc = "fill" /\ pc' = "fill"
        /\ Used(tx) < TxCapacity
    BY <1>0, <1>17 DEF WriteByte, Calls
  <2>2. PICK b \in TxByte : tx' = Put(tx, TxCapacity, b) BY <1>17 DEF WriteByte
  <2>3. c' = Append(c, b) BY <1>0, <2>1, <2>2, TxPut DEF c
  <2>4. fifoOut \o Append(c, b) = Append(fifoOut \o c, b) BY <1>1, ConcatAppend
  <2>5. Unsent = c /\ Unsent' = Append(c, b) BY <1>1, <1>2, <2>1, <2>3
  <2>6. (fifoOut \o Unsent)' = Append(fifoOut \o Unsent, b) BY <2>1, <2>4, <2>5
  <2>7. Len(fifoOut \o Unsent) < TxCapacity + Fifo
    <3>1. Len(fifoOut \o c) = Len(fifoOut) + Len(c) BY <1>1, ConcatFacts
    <3>2. QED BY <1>1, <2>1, <2>5, <3>1
  <2>8. Tx!Accept BY <2>1, <2>6, <2>7 DEF Tx!Accept
  <2>9. QED BY <2>8 DEF Tx!Next
<1>18. CASE WriteFilled BY <1>4, <1>18 DEF WriteFilled
<1>19. CASE WriteTransmit
  <2>1. Transmit /\ tx' = tx /\ open' = open /\ pc = "drain" /\ pc' = "sent"
    BY <1>19 DEF WriteTransmit
  <2>2. c' = c BY <2>1 DEF c
  <2>3. QED BY <1>1, <1>2, <1>10, <2>1, <2>2
<1>20. CASE WriteAdvance
  <2>1. /\ tx' = Drop(tx) /\ pc = "sent" /\ pc' = "drain" /\ ~Empty(tx)
        /\ UNCHANGED <<fifoOut, open>>
    BY <1>0, <1>20 DEF WriteAdvance, Calls
  <2>2. c' = Tail(c)
    <3>1. Contents(Drop(tx), TxCapacity) = Tail(c) BY <1>0, <2>1, TxDrop DEF c
    <3>2. QED BY <2>1, <3>1 DEF c
  <2>3. Unsent' = Unsent BY <1>1, <1>2, <2>1, <2>2
  <2>4. QED BY <1>3, <2>1, <2>3
<1>21. CASE WriteEnd BY <1>4, <1>21 DEF WriteEnd, End
<1>22. CASE CloseIrqs BY <1>4, <1>22 DEF CloseIrqs
<1>23. ASSUME NEW n \in 0 .. MaxRead, Read(n) PROVE UNCHANGED Tx!vars
  BY <1>4, <1>23 DEF Read, Begin
<1>24. ASSUME NEW n \in 0 .. MaxWrite, Write(n) PROVE UNCHANGED Tx!vars
  BY <1>4, <1>24 DEF Write, Begin
<1>25. ASSUME NEW e \in Event, TakeEvent(e) PROVE UNCHANGED Tx!vars
  BY <1>4, <1>25 DEF TakeEvent
<1>26. CASE UNCHANGED vars BY <1>4, <1>26 DEF vars
<1>27. QED BY <1>5, <1>6, <1>7, <1>8, <1>9, <1>11, <1>12, <1>13, <1>14, <1>15, <1>16, <1>17,
              <1>18, <1>19, <1>20, <1>21, <1>22, <1>23, <1>24, <1>25, <1>26
           DEF Next, Handler, Step

(* Every accepted byte is sent once and in order, by the handler or by the *)
(* call that wrote it, and closing throws away the youngest.               *)
THEOREM SendsInOrder == Spec => TransmitPipe
  BY TransmitInit, TransmitStep, Invariance, PTL DEF Spec, TransmitPipe, Tx!Spec

=============================================================================
