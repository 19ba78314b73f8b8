----------------------------- MODULE SweepProofs -----------------------------
(***************************************************************************)
(* Theorems of the depth sweep, for every snapshot, depth, distribution of *)
(* the targets and number of variants: populating only appends, every      *)
(* target rests in every book that is measured, rows labelled real are,    *)
(* and the headline names the cheapest variant.                            *)
(*                                                                         *)
(* The argument: the levels of a row come side by side, each side from its *)
(* worst to its best, so that what is laid down by the first n of them is  *)
(* known without looking at how an add finds its place.  Every book is one *)
(* of those.                                                               *)
(***************************************************************************)
EXTENDS Sweep, FiniteSetTheorems, SequenceTheorems, TLAPS

SweepLevels == [side : Side, price : Int, qty : Nat \ {0}]

(* What BuildLevels makes of a depth d. *)
IsPlan(lv, d) ==
  /\ lv \in Seq(SweepLevels) /\ Len(lv) = 2 * d
  /\ \A k \in 1 .. 2 * d : lv[k].side = IF k <= d THEN "buy" ELSE "sell"
  /\ \A j, k \in 1 .. 2 * d :
       j < k /\ lv[j].side = lv[k].side => Before(lv[k].side, lv[j].price, lv[k].price)

(* The book that the first n levels make: how many of them are of a side,  *)
(* and after how many that side's begin.                                   *)
Start(side, d) == IF side = "buy" THEN 0 ELSE d

Count(side, d, n) ==
  IF side = "buy" THEN IF n <= d THEN n ELSE d
                  ELSE IF n <= d THEN 0 ELSE n - d

LaidLadder(lv, d, n, side) ==
  [k \in 1 .. Count(side, d, n) |->
     Level(lv[Start(side, d) + k].price, lv[Start(side, d) + k].qty)]

Laid(lv, d, n) == [side \in Side |-> LaidLadder(lv, d, n, side)]

-----------------------------------------------------------------------------
(***************************************************************************)
(* The levels of a row are such a plan, whichever source they come from.   *)
(***************************************************************************)

(* The levels a side contributes come after those of the other. *)
LEMMA CountsWithin ==
  ASSUME NEW side \in Side, NEW d \in Nat \ {0}, NEW n \in 0 .. 2 * d
  PROVE  /\ Count(side, d, n) \in 0 .. d /\ Start(side, d) \in {0, d}
         /\ Start(side, d) + Count(side, d, n) <= 2 * d
         /\ \A k \in 1 .. d : Start(side, d) + k \in 1 .. 2 * d
         /\ Count(side, d, 0) = 0 /\ Count(side, d, 2 * d) = d
BY DEF Count, Start, Side

(* Two ladders of d levels, each in its order, make a plan. *)
LEMMA LaddersMakePlan ==
  ASSUME NEW d \in Nat \ {0},
         NEW buys \in [1 .. d -> SweepLevels], NEW sells \in [1 .. d -> SweepLevels],
         \A p \in 1 .. d : buys[p].side = "buy" /\ sells[p].side = "sell",
         \A p, q \in 1 .. d : p < q => /\ buys[p].price < buys[q].price
                                       /\ sells[p].price > sells[q].price
  PROVE  IsPlan(buys \o sells, d)
<1> DEFINE lv == buys \o sells
<1>1. buys \in Seq(SweepLevels) /\ Len(buys) = d
  OBVIOUS
<1>2. sells \in Seq(SweepLevels) /\ Len(sells) = d
  OBVIOUS
<1>3. /\ lv \in Seq(SweepLevels) /\ Len(lv) = 2 * d
      /\ \A k \in 1 .. 2 * d : lv[k] = IF k <= d THEN buys[k] ELSE sells[k - d]
  BY <1>1, <1>2
<1> HIDE DEF lv
<1>4. \A k \in 1 .. 2 * d : lv[k].side = IF k <= d THEN "buy" ELSE "sell"
  <2> TAKE k \in 1 .. 2 * d
  <2>1. CASE k <= d
    <3>1. k \in 1 .. d /\ lv[k] = buys[k]
      BY <1>3, <2>1
    <3> QED  BY <2>1, <3>1
  <2>2. CASE ~(k <= d)
    <3>1. k - d \in 1 .. d /\ lv[k] = sells[k - d]
      BY <1>3, <2>2
    <3> QED  BY <2>2, <3>1
  <2> QED  BY <2>1, <2>2
<1>5. ASSUME NEW j \in 1 .. 2 * d, NEW k \in 1 .. 2 * d, j < k, lv[j].side = lv[k].side
      PROVE  Before(lv[k].side, lv[j].price, lv[k].price)
  <2>1. CASE k <= d
    <3>1. j \in 1 .. d /\ k \in 1 .. d /\ lv[j] = buys[j] /\ lv[k] = buys[k]
      BY <1>3, <1>5, <2>1
    <3>2. lv[j].price < lv[k].price /\ lv[k].side = "buy"
      BY <1>5, <3>1
    <3> QED  BY <3>2 DEF Before
  <2>2. CASE ~(k <= d)
    <3>1. ~(j <= d) /\ lv[k].side = "sell"
      BY <1>4, <1>5, <2>2
    <3>2. j - d \in 1 .. d /\ k - d \in 1 .. d /\ j - d < k - d
      BY <1>5, <2>2, <3>1
    <3>3. lv[j] = sells[j - d] /\ lv[k] = sells[k - d]
      BY <1>3, <2>2, <3>1
    <3>4. lv[j].price > lv[k].price
      BY <3>2, <3>3
    <3> QED  BY <3>1, <3>4 DEF Before
  <2> QED  BY <2>1, <2>2
<1> QED  BY <1>3, <1>4, <1>5 DEF IsPlan, lv

(* The levels of the real book, if it is deep enough. *)
LEMMA RealLevelsArePlan ==
  ASSUME snapshot \in Snapshots, NEW d \in Nat \ {0}, d <= SnapshotDepth
  PROVE  /\ IsPlan(RealLevels(d), d)
         /\ \A side \in Side : \A p \in 1 .. d :
              /\ d <= Len(snapshot[side])
              /\ RealLevels(d)[Start(side, d) + p] =
                   SweepLevel(side, snapshot[side][Len(snapshot[side]) - d + p])
<1> DEFINE down(side) == [p \in 1 .. d |-> SweepLevel(side, Nth(snapshot[side], d - p))]
<1>1. ASSUME NEW side \in Side
      PROVE  /\ IsLadder(side, snapshot[side]) /\ Len(snapshot[side]) \in Nat
             /\ d <= Len(snapshot[side])
  <2>1. \A s \in Side : IsLadder(s, snapshot[s])
    BY SnapshotsAssumption DEF SnapshotsAssumption
  <2>2. \A s \in Side : Len(snapshot[s]) \in Nat
    BY <2>1 DEF IsLadder
  <2>3. "buy" \in Side /\ "sell" \in Side
    BY DEF Side
  <2>4. d <= Len(snapshot["buy"]) /\ d <= Len(snapshot["sell"])
    BY <2>2, <2>3 DEF SnapshotDepth
  <2> QED  BY <2>1, <2>2, <2>4 DEF Side
<1>2. ASSUME NEW side \in Side, NEW p \in 1 .. d
      PROVE  /\ Len(snapshot[side]) - d + p \in DOMAIN snapshot[side]
             /\ down(side)[p] =
                  SweepLevel(side, snapshot[side][Len(snapshot[side]) - d + p])
  <2>1. /\ d <= Len(snapshot[side]) /\ Len(snapshot[side]) \in Nat
        /\ snapshot[side] \in Seq(LevelRecord)
    BY <1>1 DEF IsLadder
  <2>2. /\ d - p \in Nat /\ ~(d - p >= Len(snapshot[side]))
        /\ Len(snapshot[side]) - (d - p) = Len(snapshot[side]) - d + p
    BY <2>1
  <2>3. Nth(snapshot[side], d - p) = snapshot[side][Len(snapshot[side]) - d + p]
    BY <2>2 DEF Nth
  <2> QED  BY <2>1, <2>3
<1>3. ASSUME NEW side \in Side, NEW p \in 1 .. d
      PROVE  /\ down(side)[p] \in SweepLevels /\ down(side)[p].side = side
             /\ down(side)[p].price = snapshot[side][Len(snapshot[side]) - d + p].price
  <2> DEFINE l == snapshot[side][Len(snapshot[side]) - d + p]
  <2>1. l \in LevelRecord
    BY <1>1, <1>2 DEF IsLadder
  <2>2. down(side)[p] = SweepLevel(side, l)
    BY <1>2
  <2> HIDE DEF down, l
  <2>3. SweepLevel(side, l) \in SweepLevels
    BY <2>1 DEF SweepLevel, SweepLevels, LevelRecord
  <2>4. SweepLevel(side, l).side = side /\ SweepLevel(side, l).price = l.price
    BY DEF SweepLevel
  <2> QED  BY <2>2, <2>3, <2>4 DEF l
<1>4. ASSUME NEW side \in Side, NEW p \in 1 .. d, NEW q \in 1 .. d, p < q
      PROVE  Before(side, down(side)[p].price, down(side)[q].price)
  <2>1. Len(snapshot[side]) - d + p < Len(snapshot[side]) - d + q
    BY <1>1, <1>4
  <2> HIDE DEF down
  <2> QED  BY <1>1, <1>2, <1>3, <2>1 DEF IsLadder
<1>5. RealLevels(d) = down("buy") \o down("sell")
  BY DEF RealLevels
<1>6. IsPlan(down("buy") \o down("sell"), d)
  <2>1. \A s \in Side : down(s) \in [1 .. d -> SweepLevels]
    BY <1>3
  <2> HIDE DEF down
  <2>2. "buy" \in Side /\ "sell" \in Side
    BY DEF Side
  <2>3. \A p \in 1 .. d : down("buy")[p].side = "buy" /\ down("sell")[p].side = "sell"
    BY <1>3, <2>2
  <2>4. \A p, q \in 1 .. d : p < q => /\ down("buy")[p].price < down("buy")[q].price
                                      /\ down("sell")[p].price > down("sell")[q].price
    BY <1>4, <2>2 DEF Before
  <2> QED  BY <2>1, <2>2, <2>3, <2>4, LaddersMakePlan
<1>7. ASSUME NEW side \in Side, NEW p \in 1 .. d
      PROVE  RealLevels(d)[Start(side, d) + p] = down(side)[p]
  <2>1. Len(down("buy")) = d /\ Len(down("sell")) = d
    OBVIOUS
  <2>2. down("buy") \in Seq(SweepLevels) /\ down("sell") \in Seq(SweepLevels)
    <3>1. \A s \in Side : down(s) \in [1 .. d -> SweepLevels]
      BY <1>3
    <3> HIDE DEF down
    <3> QED  BY <3>1 DEF Side
  <2> HIDE DEF down
  <2>3. CASE side = "buy"
    BY <1>5, <2>1, <2>2, <2>3 DEF Start
  <2>4. CASE side = "sell"
    BY <1>5, <2>1, <2>2, <2>4 DEF Start
  <2> QED  BY <2>3, <2>4 DEF Side
<1> HIDE DEF down
<1> QED  BY <1>1, <1>2, <1>5, <1>6, <1>7

(* And those made from thin air. *)
LEMMA SyntheticLevelsArePlan ==
  ASSUME NEW d \in Nat \ {0}, NEW qty \in [1 .. 2 * d -> Sizes]
  PROVE  IsPlan(SyntheticLevels(d, qty), d)
<1> DEFINE buys  == [p \in 1 .. d |->
                      SweepLevel("buy", Level(Mid - OffsetDown(d, p), qty[p]))]
           sells == [p \in 1 .. d |->
                      SweepLevel("sell", Level(Mid + OffsetDown(d, p), qty[d + p]))]
<1>1. Mid \in Int /\ Sizes \subseteq Nat \ {0}
  BY DrawsAssumption DEF DrawsAssumption
<1>2. ASSUME NEW p \in 1 .. d
      PROVE  /\ buys[p].side = "buy" /\ sells[p].side = "sell"
             /\ buys[p].price = Mid - (d - p + 1)
             /\ sells[p].price = Mid + (d - p + 1)
  BY DEF SweepLevel, Level, OffsetDown
<1>3. \A p \in 1 .. d : qty[p] \in Nat \ {0} /\ qty[d + p] \in Nat \ {0}
  <2> TAKE p \in 1 .. d
  <2>1. p \in 1 .. 2 * d /\ d + p \in 1 .. 2 * d
    OBVIOUS
  <2> QED  BY <1>1, <2>1
<1>4. \A p \in 1 .. d : buys[p] \in SweepLevels /\ sells[p] \in SweepLevels
  <2> TAKE p \in 1 .. d
  <2>1. Mid - (d - p + 1) \in Int /\ Mid + (d - p + 1) \in Int
    BY <1>1
  <2>2. qty[p] \in Nat \ {0} /\ qty[d + p] \in Nat \ {0}
    BY <1>3
  <2> QED  BY <2>1, <2>2 DEF SweepLevels, Side, SweepLevel, Level, OffsetDown
<1>5. /\ buys \in [1 .. d -> SweepLevels] /\ sells \in [1 .. d -> SweepLevels]
      /\ SyntheticLevels(d, qty) = buys \o sells
  BY <1>4 DEF SyntheticLevels
<1> HIDE DEF buys, sells
<1>6. \A p \in 1 .. d : buys[p].side = "buy" /\ sells[p].side = "sell"
  BY <1>2
<1>7. ASSUME NEW p \in 1 .. d, NEW q \in 1 .. d, p < q
      PROVE  buys[p].price < buys[q].price /\ sells[p].price > sells[q].price
  <2>1. /\ buys[p].price = Mid - (d - p + 1) /\ buys[q].price = Mid - (d - q + 1)
        /\ sells[p].price = Mid + (d - p + 1) /\ sells[q].price = Mid + (d - q + 1)
    BY <1>2
  <2> QED  BY <1>1, <1>7, <2>1
<1>8. \A p, q \in 1 .. d : p < q => /\ buys[p].price < buys[q].price
                                    /\ sells[p].price > sells[q].price
  BY <1>7
<1>9. IsPlan(buys \o sells, d)
  BY <1>5, <1>6, <1>8, LaddersMakePlan
<1> QED  BY <1>5, <1>9

-----------------------------------------------------------------------------
(***************************************************************************)
(* What the first n levels of a plan make.                                 *)
(***************************************************************************)
LEMMA LaidTypes ==
  ASSUME NEW d \in Nat \ {0}, NEW lv, IsPlan(lv, d), NEW n \in 0 .. 2 * d, NEW side \in Side
  PROVE  /\ Laid(lv, d, n)[side] = LaidLadder(lv, d, n, side)
         /\ Laid(lv, d, n)[side] \in Seq(LevelRecord)
         /\ Len(Laid(lv, d, n)[side]) = Count(side, d, n)
         /\ Count(side, d, n) \in 0 .. d
         /\ \A k \in 1 .. Count(side, d, n) :
              /\ Start(side, d) + k \in 1 .. 2 * d
              /\ Laid(lv, d, n)[side][k].price = lv[Start(side, d) + k].price
              /\ Laid(lv, d, n)[side][k].quantity = lv[Start(side, d) + k].qty
<1> DEFINE ladder == Laid(lv, d, n)[side]
           c      == Count(side, d, n)
           start  == Start(side, d)
<1>1. c \in 0 .. d /\ \A k \in 1 .. c : start + k \in 1 .. 2 * d
  <2>1. c \in 0 .. d /\ \A k \in 1 .. d : start + k \in 1 .. 2 * d
    BY CountsWithin
  <2> HIDE DEF c, start
  <2> QED  BY <2>1
<1>2. ladder = [k \in 1 .. c |-> Level(lv[start + k].price, lv[start + k].qty)]
  BY DEF Laid, LaidLadder
<1>3. ASSUME NEW k \in 1 .. c
      PROVE  Level(lv[start + k].price, lv[start + k].qty) \in LevelRecord
  <2>1. lv[start + k] \in SweepLevels
    <3> HIDE DEF c, start
    <3> QED  BY <1>1 DEF IsPlan
  <2> HIDE DEF c, start
  <2> QED  BY <2>1 DEF SweepLevels, Level, LevelRecord
<1>4. ladder = LaidLadder(lv, d, n, side)
  BY DEF Laid
<1> HIDE DEF ladder, c, start
<1>5. ladder \in [1 .. c -> LevelRecord]
  BY <1>2, <1>3
<1>6. \A k \in 1 .. c : /\ ladder[k].price = lv[start + k].price
                        /\ ladder[k].quantity = lv[start + k].qty
  BY <1>2 DEF Level
<1>7. ladder \in Seq(LevelRecord) /\ Len(ladder) = c
  BY <1>1, <1>5
<1> QED  BY <1>1, <1>4, <1>6, <1>7 DEF ladder, c, start

(* A side is laid down from its worst level to its best.                   *)
LEMMA LaidOrder ==
  ASSUME NEW d \in Nat \ {0}, NEW lv, IsPlan(lv, d), NEW n \in 0 .. 2 * d,
         NEW side \in Side, NEW j \in 1 .. d, NEW k \in 1 .. d, j < k
  PROVE  /\ lv[Start(side, d) + j].side = side
         /\ lv[Start(side, d) + k].side = side
         /\ Before(side, lv[Start(side, d) + j].price, lv[Start(side, d) + k].price)
         /\ lv[Start(side, d) + j].price # lv[Start(side, d) + k].price
<1> DEFINE x == Start(side, d) + j
           y == Start(side, d) + k
<1>1. /\ x \in 1 .. 2 * d /\ y \in 1 .. 2 * d /\ x < y
  BY DEF Start, Side
<1>2. x <= d <=> side = "buy"
  BY DEF Start, Side
<1>3. y <= d <=> side = "buy"
  BY DEF Start, Side
<1> HIDE DEF x, y
<1>4. lv[x].side = side /\ lv[y].side = side
  BY <1>1, <1>2, <1>3 DEF IsPlan, Side
<1>5. Before(side, lv[x].price, lv[y].price)
  BY <1>1, <1>4 DEF IsPlan
<1>6. lv[x].price \in Int /\ lv[y].price \in Int
  <2>1. lv[x] \in SweepLevels /\ lv[y] \in SweepLevels
    BY <1>1 DEF IsPlan
  <2> QED  BY <2>1 DEF SweepLevels
<1>7. lv[x].price # lv[y].price
  BY <1>5, <1>6 DEF Before
<1> QED  BY <1>4, <1>5, <1>7 DEF x, y

(* The side of the next level, and its place: after those of its side.     *)
LEMMA NextOfPlan ==
  ASSUME NEW d \in Nat \ {0}, NEW lv, IsPlan(lv, d), NEW n \in 0 .. 2 * d - 1
  PROVE  /\ lv[n + 1].side \in Side
         /\ n + 1 = Start(lv[n + 1].side, d) + Count(lv[n + 1].side, d, n) + 1
         /\ Count(lv[n + 1].side, d, n) \in 0 .. d - 1
         /\ \A side \in Side : Count(side, d, n + 1) =
              IF side = lv[n + 1].side THEN Count(side, d, n) + 1 ELSE Count(side, d, n)
<1>1. lv[n + 1].side = IF n + 1 <= d THEN "buy" ELSE "sell"
  BY DEF IsPlan
<1>2. CASE n + 1 <= d
  BY <1>1, <1>2 DEF Start, Count, Side
<1>3. CASE ~(n + 1 <= d)
  BY <1>1, <1>3 DEF Start, Count, Side
<1> QED  BY <1>2, <1>3

(* A set of the first c indices has c members. *)
LEMMA FirstIndices ==
  ASSUME NEW c \in Nat
  PROVE  Cardinality(1 .. c) = c
BY FS_Interval

(* An insertion behind the last element is an Append. *)
LEMMA InsertLast ==
  ASSUME NEW S, NEW s \in Seq(S), NEW e \in S
  PROVE  InsertAt(s, Len(s) + 1, e) = Append(s, e)
<1>1. SubSeq(s, 1, Len(s)) = s /\ SubSeq(s, Len(s) + 1, Len(s)) = << >>
  BY SMTT(30)
<1>2. InsertAt(s, Len(s) + 1, e) = (s \o <<e>>) \o << >>
  <2>1. PICK k : k = Len(s) + 1
    OBVIOUS
  <2>2. InsertAt(s, k, e) = (SubSeq(s, 1, k - 1) \o <<e>>) \o SubSeq(s, k, Len(s))
    BY DEF InsertAt
  <2>3. k - 1 = Len(s)
    BY <2>1
  <2> QED  BY <1>1, <2>1, <2>2, <2>3, Zenon
<1>3. s \o <<e>> = Append(s, e) /\ Append(s, e) \in Seq(S)
  OBVIOUS
<1>4. Append(s, e) \o << >> = Append(s, e)
  BY <1>3
<1> QED  BY <1>2, <1>3, <1>4

(***************************************************************************)
(* The add of the next level finds no level of its price and nothing but   *)
(* worse ones: it appends (sweep.hpp:89-99).                               *)
(***************************************************************************)
LEMMA AddsLayNext ==
  ASSUME NEW d \in Nat \ {0}, NEW lv, IsPlan(lv, d), NEW n \in 0 .. 2 * d - 1
  PROVE  AddTo(Laid(lv, d, n), lv[n + 1]) = Laid(lv, d, n + 1)
<1> DEFINE b      == Laid(lv, d, n)
           l      == lv[n + 1]
           ladder == b[l.side]
           c      == Count(l.side, d, n)
           worse  == {k \in DOMAIN ladder : Before(l.side, ladder[k].price, l.price)}
           e      == Level(l.price, l.qty)
<1>1. /\ l.side \in Side /\ n + 1 = Start(l.side, d) + c + 1 /\ c \in 0 .. d - 1
      /\ \A side \in Side : Count(side, d, n + 1) =
           IF side = l.side THEN Count(side, d, n) + 1 ELSE Count(side, d, n)
  BY NextOfPlan
<1>2. n \in 0 .. 2 * d /\ n + 1 \in 0 .. 2 * d
  OBVIOUS
<1>3. /\ ladder \in Seq(LevelRecord) /\ Len(ladder) = c /\ DOMAIN ladder = 1 .. c
      /\ \A k \in 1 .. c : ladder[k].price = lv[Start(l.side, d) + k].price
  <2>1. \A side \in Side :
          /\ b[side] \in Seq(LevelRecord) /\ Len(b[side]) = Count(side, d, n)
          /\ \A k \in 1 .. Count(side, d, n) :
               b[side][k].price = lv[Start(side, d) + k].price
    BY <1>2, LaidTypes
  <2> HIDE DEF b, l
  <2> QED  BY <1>1, <2>1
<1>4. \A k \in 1 .. c : /\ Before(l.side, ladder[k].price, l.price)
                        /\ ladder[k].price # l.price
  <2> TAKE k \in 1 .. c
  <2>1. k \in 1 .. d /\ c + 1 \in 1 .. d /\ k < c + 1
    BY <1>1
  <2>2. n + 1 = Start(l.side, d) + (c + 1)
    BY <1>1 DEF Start
  <2>3. /\ Before(l.side, lv[Start(l.side, d) + k].price, lv[n + 1].price)
        /\ lv[Start(l.side, d) + k].price # lv[n + 1].price
    <3> HIDE DEF c, l, ladder
    <3> QED  BY <1>1, <1>2, <2>1, <2>2, LaidOrder
  <2> QED  BY <1>3, <2>3
<1>5. l \in SweepLevels
  BY DEF IsPlan
<1>6. e \in LevelRecord
  BY <1>5 DEF SweepLevels, Level, LevelRecord
<1>7. b = [side \in Side |-> LaidLadder(lv, d, n, side)]
  BY DEF Laid
<1>8. AddTo(b, l) = [b EXCEPT ![l.side] = InsertAt(@, Cardinality(worse) + 1, e)]
  <2>1. {k \in 1 .. Len(ladder) : ladder[k].price = l.price} = {}
    BY <1>3, <1>4
  <2>2. SelectInSeq(ladder, LAMBDA level : level.price = l.price) = 0
    BY <2>1 DEF SelectInSeq
  <2> QED  BY <2>2 DEF AddTo
<1>9. worse = 1 .. c
  BY <1>3, <1>4
<1>10. Cardinality(worse) = Len(ladder)
  <2>1. c \in Nat
    BY <1>1
  <2> QED  BY <1>3, <1>9, <2>1, FirstIndices
<1>11. InsertAt(ladder, Cardinality(worse) + 1, e) = Append(ladder, e)
  BY <1>3, <1>6, <1>10, InsertLast
<1>12. AddTo(b, l) = [b EXCEPT ![l.side] = Append(ladder, e)]
  BY <1>8, <1>11
<1> HIDE DEF worse
<1>13. Append(ladder, e) = LaidLadder(lv, d, n + 1, l.side)
  <2>1. /\ LaidLadder(lv, d, n + 1, l.side) =
             [k \in 1 .. c + 1 |-> Level(lv[Start(l.side, d) + k].price,
                                         lv[Start(l.side, d) + k].qty)]
        /\ ladder = [k \in 1 .. c |-> Level(lv[Start(l.side, d) + k].price,
                                            lv[Start(l.side, d) + k].qty)]
    BY <1>1, <1>7 DEF LaidLadder
  <2>2. e = Level(lv[Start(l.side, d) + (c + 1)].price, lv[Start(l.side, d) + (c + 1)].qty)
    <3>1. n + 1 = Start(l.side, d) + (c + 1)
      BY <1>1 DEF Start
    <3> QED  BY <3>1
  <2>3. c \in Nat
    BY <1>1
  <2> HIDE DEF c, e, l, ladder, b
  <2> QED  BY <1>3, <2>1, <2>2, <2>3
<1>14. \A side \in Side : side # l.side =>
         LaidLadder(lv, d, n + 1, side) = LaidLadder(lv, d, n, side)
  BY <1>1 DEF LaidLadder
<1>15. [b EXCEPT ![l.side] = Append(ladder, e)] = Laid(lv, d, n + 1)
  <2> HIDE DEF e, l, ladder, c
  <2> QED  BY <1>1, <1>7, <1>13, <1>14 DEF Laid
<1> QED  BY <1>12, <1>15

(* Of no level at all the empty book is made. *)
LEMMA NothingLaid ==
  ASSUME NEW d \in Nat \ {0}, NEW lv
  PROVE  Laid(lv, d, 0) = Empty
<1>1. \A side \in Side : Count(side, d, 0) = 0
  BY DEF Count
<1>2. \A side \in Side : LaidLadder(lv, d, 0, side) = << >>
  BY <1>1 DEF LaidLadder
<1> QED  BY <1>2 DEF Laid, Empty

(* When IsPrefix holds. *)
LEMMA PrefixIf ==
  ASSUME NEW S, NEW s \in Seq(S), NEW t \in Seq(S), Len(s) <= Len(t),
         \A k \in 1 .. Len(s) : s[k] = t[k]
  PROVE  IsPrefix(s, t)
<1> DEFINE head == SubSeq(s, 1, Len(s))
           tail == SubSeq(t, 1, Len(s))
<1>1. Len(s) \in Nat /\ Len(t) \in Nat
  OBVIOUS
<1>2. /\ head \in Seq(S) /\ Len(head) = Len(s)
      /\ \A k \in 1 .. Len(s) : head[k] = s[k]
  BY <1>1, SMTT(30)
<1>3. /\ tail \in Seq(S) /\ Len(tail) = Len(s)
      /\ \A k \in 1 .. Len(s) : tail[k] = t[k]
  BY <1>1, SMTT(30)
<1> HIDE DEF head, tail
<1>4. head = tail
  BY <1>1, <1>2, <1>3, SeqEqual
<1> QED  BY <1>4 DEF IsPrefix, head, tail

(* Every ladder starts with itself. *)
LEMMA PrefixOfItself ==
  ASSUME NEW S, NEW s \in Seq(S)
  PROVE  IsPrefix(s, s)
<1>1. Len(s) <= Len(s)
  OBVIOUS
<1> QED  BY <1>1, PrefixIf

(* What is laid down stays where it is. *)
LEMMA LaidPrefix ==
  ASSUME NEW d \in Nat \ {0}, NEW lv, IsPlan(lv, d), NEW n \in 0 .. 2 * d - 1,
         NEW side \in Side
  PROVE  IsPrefix(Laid(lv, d, n)[side], Laid(lv, d, n + 1)[side])
<1> DEFINE s == Laid(lv, d, n)[side]
           t == Laid(lv, d, n + 1)[side]
<1>1. n \in 0 .. 2 * d /\ n + 1 \in 0 .. 2 * d
  OBVIOUS
<1>2. /\ s \in Seq(LevelRecord) /\ Len(s) = Count(side, d, n)
      /\ t \in Seq(LevelRecord) /\ Len(t) = Count(side, d, n + 1)
      /\ s = LaidLadder(lv, d, n, side) /\ t = LaidLadder(lv, d, n + 1, side)
  BY <1>1, LaidTypes
<1>3. Count(side, d, n) \in Nat /\ Count(side, d, n + 1) \in Nat
      /\ Count(side, d, n) <= Count(side, d, n + 1)
  BY DEF Count, Side
<1> HIDE DEF s, t
<1>4. \A k \in 1 .. Len(s) : s[k] = t[k]
  BY <1>2, <1>3 DEF LaidLadder
<1>5. Len(s) <= Len(t)
  BY <1>2, <1>3
<1> QED  BY <1>2, <1>4, <1>5, PrefixIf DEF s, t

(* Searching a book for the price of one of its levels finds that level.   *)
LEMMA LaidFinds ==
  ASSUME NEW d \in Nat \ {0}, NEW lv, IsPlan(lv, d), NEW side \in Side, NEW j \in 1 .. d
  PROVE  QuantityAt(Laid(lv, d, 2 * d), side, Laid(lv, d, 2 * d)[side][j].price) > 0
<1> DEFINE b      == Laid(lv, d, 2 * d)
           ladder == b[side]
           price  == ladder[j].price
           at     == SelectInSeq(ladder, LAMBDA level : level.price = price)
<1>1. 2 * d \in 0 .. 2 * d /\ Count(side, d, 2 * d) = d
  BY DEF Count
<1>2. /\ ladder \in Seq(LevelRecord) /\ Len(ladder) = d
      /\ \A k \in 1 .. d : ladder[k].price = lv[Start(side, d) + k].price
  <2>1. /\ ladder \in Seq(LevelRecord) /\ Len(ladder) = Count(side, d, 2 * d)
        /\ \A k \in 1 .. Count(side, d, 2 * d) :
             ladder[k].price = lv[Start(side, d) + k].price
    BY <1>1, LaidTypes
  <2> HIDE DEF ladder
  <2> QED  BY <1>1, <2>1
<1>3. \A k \in 1 .. d : ladder[k].price = price <=> k = j
  <2> TAKE k \in 1 .. d
  <2>1. ASSUME k # j PROVE ladder[k].price # price
    <3>1. k < j \/ j < k
      BY <2>1
    <3>2. lv[Start(side, d) + k].price # lv[Start(side, d) + j].price
      BY <1>1, <3>1, LaidOrder
    <3> HIDE DEF ladder
    <3> QED  BY <1>2, <3>2
  <2> QED  BY <2>1
<1> HIDE DEF b
<1>4. at = j
  <2>1. {k \in 1 .. Len(ladder) : ladder[k].price = price} = {j}
    BY <1>2, <1>3
  <2>2. Min({j}) = j
    BY DEF Min
  <2> QED  BY <2>1, <2>2 DEF SelectInSeq
<1>5. QuantityAt(b, side, price) = ladder[j].quantity
  <2>1. j # 0
    OBVIOUS
  <2>2. QuantityAt(b, side, price) = IF at = 0 THEN 0 ELSE b[side][at].quantity
    BY Zenon DEF QuantityAt
  <2> HIDE DEF at
  <2> QED  BY <1>4, <2>1, <2>2
<1>6. ladder[j] \in LevelRecord
  BY <1>2
<1> QED  BY <1>5, <1>6 DEF LevelRecord, b

(* The best d levels of the real book are laid down as they are there.     *)
LEMMA LaidIsReal ==
  ASSUME snapshot \in Snapshots, NEW d \in Nat \ {0}, d <= SnapshotDepth, NEW side \in Side
  PROVE  IsSuffix(Laid(RealLevels(d), d, 2 * d)[side], snapshot[side])
<1> DEFINE lv     == RealLevels(d)
           ladder == Laid(lv, d, 2 * d)[side]
           real   == snapshot[side]
<1>1. IsPlan(lv, d)
  BY RealLevelsArePlan
<1>2. \A k \in 1 .. d : /\ d <= Len(real)
                        /\ lv[Start(side, d) + k] = SweepLevel(side, real[Len(real) - d + k])
  BY RealLevelsArePlan
<1>3. 2 * d \in 0 .. 2 * d /\ Count(side, d, 2 * d) = d
  BY DEF Count
<1> HIDE DEF lv
<1>4. /\ ladder \in Seq(LevelRecord) /\ Len(ladder) = d
      /\ \A k \in 1 .. d : /\ ladder[k].price = lv[Start(side, d) + k].price
                           /\ ladder[k].quantity = lv[Start(side, d) + k].qty
  <2> DEFINE n == 2 * d
             c == Count(side, d, n)
  <2>1. n \in 0 .. 2 * d /\ c = d
    BY <1>3
  <2> HIDE DEF n
  <2>2. /\ Laid(lv, d, n)[side] \in Seq(LevelRecord)
        /\ Len(Laid(lv, d, n)[side]) = c
        /\ \A k \in 1 .. c : /\ Laid(lv, d, n)[side][k].price = lv[Start(side, d) + k].price
                             /\ Laid(lv, d, n)[side][k].quantity = lv[Start(side, d) + k].qty
    BY <1>1, <2>1, LaidTypes
  <2>3. ladder = Laid(lv, d, n)[side]
    BY DEF n
  <2> HIDE DEF ladder, c
  <2> QED  BY <2>1, <2>2, <2>3
<1>5. real \in Seq(LevelRecord) /\ Len(real) \in Nat /\ d <= Len(real)
  <2>1. IsLadder(side, real)
    BY SnapshotsAssumption DEF SnapshotsAssumption
  <2>2. 1 \in 1 .. d
    OBVIOUS
  <2> QED  BY <1>2, <2>1, <2>2 DEF IsLadder
<1> HIDE DEF ladder, real
<1>6. \A k \in 1 .. d : ladder[k] = real[Len(real) - d + k]
  <2> TAKE k \in 1 .. d
  <2> DEFINE m == Len(real) - d + k
  <2>1. m \in 1 .. Len(real)
    BY <1>5
  <2>2. ladder[k] \in LevelRecord /\ real[m] \in LevelRecord
    BY <1>4, <1>5, <2>1
  <2>3. ladder[k].price = real[m].price /\ ladder[k].quantity = real[m].quantity
    <3>1. lv[Start(side, d) + k] = SweepLevel(side, real[m])
      BY <1>2
    <3>2. /\ SweepLevel(side, real[m]).price = real[m].price
          /\ SweepLevel(side, real[m]).qty = real[m].quantity
      BY DEF SweepLevel
    <3> HIDE DEF m
    <3> QED  BY <1>4, <3>1, <3>2
  <2> HIDE DEF m
  <2>4. ladder[k] = real[m]
    BY <2>2, <2>3 DEF LevelRecord
  <2> QED  BY <2>4 DEF m
<1>7. /\ Reverse(ladder) \in Seq(LevelRecord) /\ Len(Reverse(ladder)) = d
      /\ \A k \in 1 .. d : Reverse(ladder)[k] = ladder[d - k + 1]
  <2>1. \A k \in 1 .. d : d - k + 1 \in 1 .. d
    OBVIOUS
  <2>2. Reverse(ladder) = [k \in 1 .. d |-> ladder[d - k + 1]]
    BY <1>4 DEF Reverse
  <2>3. Reverse(ladder) \in [1 .. d -> LevelRecord]
    BY <1>4, <2>1, <2>2
  <2> QED  BY <2>2, <2>3
<1>8. /\ Reverse(real) \in Seq(LevelRecord) /\ Len(Reverse(real)) = Len(real)
      /\ \A k \in 1 .. Len(real) : Reverse(real)[k] = real[Len(real) - k + 1]
  <2>1. \A k \in 1 .. Len(real) : Len(real) - k + 1 \in 1 .. Len(real)
    BY <1>5
  <2>2. Reverse(real) = [k \in 1 .. Len(real) |-> real[Len(real) - k + 1]]
    BY DEF Reverse
  <2>3. Reverse(real) \in [1 .. Len(real) -> LevelRecord]
    BY <1>5, <2>1, <2>2
  <2> QED  BY <1>5, <2>2, <2>3
<1>9. \A k \in 1 .. d : Reverse(ladder)[k] = Reverse(real)[k]
  <2> TAKE k \in 1 .. d
  <2> DEFINE m == d - k + 1
  <2>1. m \in 1 .. d /\ k \in 1 .. Len(real) /\ Len(real) - d + m = Len(real) - k + 1
    BY <1>5
  <2>2. Reverse(ladder)[k] = ladder[m]
    BY <1>7
  <2> HIDE DEF m
  <2>3. ladder[m] = real[Len(real) - k + 1]
    BY <1>6, <2>1
  <2> QED  BY <1>8, <2>1, <2>2, <2>3
<1>10. IsPrefix(Reverse(ladder), Reverse(real))
  BY <1>5, <1>7, <1>8, <1>9, PrefixIf
<1> QED  BY <1>10 DEF IsSuffix, ladder, real, lv

-----------------------------------------------------------------------------
(***************************************************************************)
(* The inductive invariant.                                                *)
(***************************************************************************)
Books == [Side -> Seq(LevelRecord)]

Types ==
  /\ snapshot \in Snapshots /\ row \in 1 .. Len(Depths)
  /\ step \in {"build", "reference", "targets", "populate", "measure", "headline", "done"}
  /\ turn \in Nat /\ variant \in 1 .. Variants
  /\ reference \in Books /\ book \in Books

(* A row is labelled real only if its levels are.                          *)
Planned ==
  step # "build" =>
    /\ IsPlan(levels, Depth)
    /\ source = "LOBSTER" => Depth <= SnapshotDepth /\ levels = RealLevels(Depth)

(* Every book is what the first levels make, however far it is.            *)
Filled ==
  /\ step = "reference" => turn <= 2 * Depth /\ reference = Laid(levels, Depth, turn)
  /\ step \notin {"build", "reference"} => reference = Laid(levels, Depth, 2 * Depth)
  /\ step = "populate" => turn <= 2 * Depth /\ book = Laid(levels, Depth, turn)
  /\ step = "measure" => book = Laid(levels, Depth, 2 * Depth)

(* There is a target for every turn, and each is the price of a level.     *)
Target == [side : Side, price : Int]

Drawn ==
  step \notin {"build", "reference"} =>
    /\ targets \in Seq(Target)
    /\ step = "targets" => turn <= Lookups
    /\ Len(targets) = IF step = "targets" THEN turn ELSE Lookups
    /\ \A k \in 1 .. Len(targets) : \E j \in 1 .. Depth :
         targets[k].price = reference[targets[k].side][j].price

(* One result for each variant that had its turn.                          *)
Measured ==
  /\ results \in Seq({NoReading} \cup Cycles)
  /\ step \in {"build", "reference", "targets", "done"} => results = << >>
  /\ step \in {"populate", "measure"} => Len(results) = variant - 1
  /\ step = "headline" => Len(results) = Variants

(* The cheapest c of the first n results r, of b cycles, if any was read.  *)
ReadOf(r, n) == {v \in 1 .. n : r[v] # NoReading}

LeastRead(r, n, c, b) ==
  /\ ReadOf(r, n) = {} <=> c = 0
  /\ ReadOf(r, n) # {} => /\ c \in ReadOf(r, n)
                          /\ b = r[c]
                          /\ \A v \in ReadOf(r, n) : b <= r[v]

Compared ==
  /\ step # "headline" => cheapest = 0 /\ best = 0
  /\ step = "headline" => turn <= Variants /\ LeastRead(results, turn, cheapest, best)

IInv == Types /\ Planned /\ Filled /\ Drawn /\ Measured /\ Compared

(* What the constants are. *)
LEMMA Numbers ==
  /\ Variants \in Nat \ {0} /\ Lookups \in Nat \ {0}
  /\ Offsets \subseteq Nat /\ Cycles \subseteq Nat \ {0}
  /\ \A r \in 1 .. Len(Depths) : Depths[r] \in Nat \ {0}
  /\ Len(Depths) \in Nat \ {0}
<1>1. /\ Variants \in Nat \ {0} /\ Lookups \in Nat \ {0}
      /\ Offsets \subseteq Nat /\ Cycles \subseteq Nat \ {0}
  BY CountsAssumption, DrawsAssumption, CyclesAssumption
  DEF CountsAssumption, DrawsAssumption, CyclesAssumption
<1>2. Depths \in Seq(Nat \ {0}) /\ Depths # << >>
  BY DepthsAssumption DEF DepthsAssumption
<1>3. Len(Depths) \in Nat /\ Len(Depths) # 0
  BY <1>2
<1>4. \A r \in 1 .. Len(Depths) : Depths[r] \in Nat \ {0}
  BY <1>2
<1> QED  BY <1>1, <1>3, <1>4

(* A row has a depth. *)
LEMMA DepthIsPositive ==
  ASSUME Types
  PROVE  Depth \in Nat \ {0}
BY Numbers DEF Types, Depth

(* Books that are laid down are books. *)
LEMMA LaidIsBook ==
  ASSUME NEW d \in Nat \ {0}, NEW lv, IsPlan(lv, d), NEW n \in 0 .. 2 * d
  PROVE  Laid(lv, d, n) \in Books
<1>1. \A side \in Side : Laid(lv, d, n)[side] \in Seq(LevelRecord)
  BY LaidTypes
<1>2. Laid(lv, d, n) = [side \in Side |-> Laid(lv, d, n)[side]]
  BY DEF Laid
<1> DEFINE b == Laid(lv, d, n)
<1> HIDE DEF b
<1>3. \A side \in Side : b[side] \in Seq(LevelRecord)
  BY <1>1 DEF b
<1>4. b = [side \in Side |-> b[side]]
  BY <1>2 DEF b
<1>5. b \in [Side -> Seq(LevelRecord)]
  BY <1>3, <1>4
<1> QED  BY <1>5 DEF b, Books

(* At the beginning. *)
LEMMA InitIInv == Init => IInv
<1> SUFFICES ASSUME Init PROVE IInv
  OBVIOUS
<1>1. 1 \in 1 .. Len(Depths) /\ 1 \in 1 .. Variants
  BY Numbers
<1>2. Empty \in Books
  BY DEF Empty, Books
<1>3. Types
  BY <1>1, <1>2 DEF Init, Types
<1>4. Measured /\ Compared
  BY DEF Init, Measured, Compared
<1>5. Planned /\ Filled /\ Drawn
  BY DEF Init, Planned, Filled, Drawn
<1> QED  BY <1>3, <1>4, <1>5 DEF IInv

(* The levels of a row. *)
LEMMA BuildLevelsKeeps ==
  ASSUME IInv, BuildLevels
  PROVE  IInv'
<1>0. Depth \in Nat \ {0} /\ Depth' = Depth /\ SnapshotDepth' = SnapshotDepth
  BY DepthIsPositive DEF IInv, BuildLevels, Depth, SnapshotDepth
<1>1. /\ step = "build" /\ step' = "reference" /\ turn' = 0 /\ reference' = Empty
      /\ UNCHANGED <<snapshot, row, targets, variant, book, results, cheapest, best>>
  BY DEF BuildLevels, headline
<1>2. IsPlan(levels', Depth)
  <2>1. CASE Depth <= SnapshotDepth /\ levels' = RealLevels(Depth)
    BY <1>0, <2>1, RealLevelsArePlan DEF IInv, Types
  <2>2. CASE \E qty \in [1 .. 2 * Depth -> Sizes] : levels' = SyntheticLevels(Depth, qty)
    BY <1>0, <2>2, SyntheticLevelsArePlan
  <2> QED  BY <2>1, <2>2 DEF BuildLevels
<1>3. source' = "LOBSTER" => Depth <= SnapshotDepth /\ levels' = RealLevels(Depth)
  BY DEF BuildLevels
<1>4. RealLevels(Depth)' = RealLevels(Depth)
  BY <1>0, <1>1 DEF RealLevels
<1>5. Planned'
  BY <1>0, <1>2, <1>3, <1>4 DEF Planned
<1>6. Types'
  <2>1. Empty \in Books
    BY DEF Empty, Books
  <2> QED  BY <1>1, <2>1 DEF IInv, Types
<1>7. Laid(levels', Depth, 0) = Empty
  BY <1>0, NothingLaid
<1>8. Filled'
  BY <1>0, <1>1, <1>7 DEF Filled
<1>9. Drawn' /\ Measured' /\ Compared'
  BY <1>1 DEF IInv, Drawn, Measured, Compared
<1> QED  BY <1>5, <1>6, <1>8, <1>9 DEF IInv

(* A step that leaves row, levels and label leaves the plan. *)
LEMMA PlanStays ==
  ASSUME IInv, step # "build", UNCHANGED <<snapshot, row, source, levels>>
  PROVE  Planned' /\ Depth' = Depth /\ Depth \in Nat \ {0} /\ IsPlan(levels, Depth)
<1>1. Depth' = Depth /\ SnapshotDepth' = SnapshotDepth
  BY DEF Depth, SnapshotDepth
<1>2. RealLevels(Depth)' = RealLevels(Depth)
  BY <1>1 DEF RealLevels
<1> QED  BY <1>1, <1>2, DepthIsPositive DEF IInv, Planned

(* One more level in the reference. *)
LEMMA PopulateReferenceKeeps ==
  ASSUME IInv, PopulateReference
  PROVE  IInv'
<1>1. /\ step = "reference"
      /\ UNCHANGED <<snapshot, row, source, levels, variant, book, results, cheapest, best>>
  BY DEF PopulateReference, headline
<1>2. Planned' /\ Depth' = Depth /\ Depth \in Nat \ {0} /\ IsPlan(levels, Depth)
  BY <1>1, PlanStays
<1>3. Len(levels) = 2 * Depth
  BY <1>2 DEF IsPlan
<1>4. turn \in Nat /\ turn <= 2 * Depth /\ reference = Laid(levels, Depth, turn)
  BY <1>1 DEF IInv, Types, Filled
<1>5. CASE turn < Len(levels)
  <2>1. /\ reference' = AddTo(reference, levels[turn + 1]) /\ turn' = turn + 1
        /\ UNCHANGED <<step, targets>>
    BY <1>5 DEF PopulateReference
  <2>2. turn \in 0 .. 2 * Depth - 1 /\ turn + 1 \in 0 .. 2 * Depth
    BY <1>2, <1>3, <1>4, <1>5
  <2>3. reference' = Laid(levels, Depth, turn + 1)
    BY <1>2, <1>4, <2>1, <2>2, AddsLayNext
  <2>4. reference' \in Books
    BY <1>2, <2>2, <2>3, LaidIsBook
  <2>5. Types'
    BY <1>1, <1>4, <2>1, <2>4 DEF IInv, Types
  <2>6. Filled'
    BY <1>1, <1>2, <2>1, <2>2, <2>3 DEF Filled
  <2>7. Drawn' /\ Measured' /\ Compared'
    BY <1>1, <2>1 DEF IInv, Drawn, Measured, Compared
  <2> QED  BY <1>2, <2>5, <2>6, <2>7 DEF IInv
<1>6. CASE ~(turn < Len(levels))
  <2>1. step' = "targets" /\ turn' = 0 /\ targets' = << >> /\ reference' = reference
    BY <1>6 DEF PopulateReference
  <2>2. turn = 2 * Depth
    BY <1>2, <1>3, <1>4, <1>6
  <2>3. Types'
    BY <1>1, <2>1 DEF IInv, Types
  <2>4. Filled'
    BY <1>1, <1>2, <1>4, <2>1, <2>2 DEF Filled
  <2>5. Drawn'
    BY <2>1, Numbers DEF Drawn
  <2>6. Measured' /\ Compared'
    BY <1>1, <2>1 DEF IInv, Measured, Compared
  <2> QED  BY <1>2, <2>3, <2>4, <2>5, <2>6 DEF IInv
<1> QED  BY <1>5, <1>6

(* One more target: the rank asked for is one of the ladder, which is as   *)
(* deep as the row says.                                                   *)
LEMMA BuildTargetsKeeps ==
  ASSUME IInv, BuildTargets
  PROVE  IInv'
<1>1. /\ step = "targets"
      /\ UNCHANGED <<snapshot, row, source, levels, reference, results, cheapest, best>>
  BY DEF BuildTargets, headline
<1>2. Planned' /\ Depth' = Depth /\ Depth \in Nat \ {0} /\ IsPlan(levels, Depth)
  BY <1>1, PlanStays
<1>3. reference = Laid(levels, Depth, 2 * Depth)
  BY <1>1 DEF IInv, Filled
<1>4. /\ targets \in Seq(Target) /\ turn <= Lookups /\ Len(targets) = turn /\ turn \in Nat
      /\ \A k \in 1 .. Len(targets) : \E j \in 1 .. Depth :
           targets[k].price = reference[targets[k].side][j].price
  BY <1>1 DEF IInv, Types, Drawn
<1>5. CASE turn < Lookups
  <2> DEFINE side == IF turn % 2 = 0 THEN "buy" ELSE "sell"
  <2>1. /\ turn' = turn + 1 /\ UNCHANGED <<step, variant, book>>
        /\ \E offset \in Offsets :
             targets' = IF reference[side] = << >> THEN targets
                        ELSE Append(targets, TargetOf(side, offset))
    BY <1>5 DEF BuildTargets
  <2>2. side \in Side
    BY DEF Side
  <2> HIDE DEF side
  <2>3. /\ reference[side] \in Seq(LevelRecord) /\ Len(reference[side]) = Depth
    <3>1. 2 * Depth \in 0 .. 2 * Depth /\ Count(side, Depth, 2 * Depth) = Depth
      BY <1>2 DEF Count
    <3> QED  BY <1>2, <1>3, <2>2, <3>1, LaidTypes
  <2>4. PICK offset \in Offsets : targets' = Append(targets, TargetOf(side, offset))
    <3>1. reference[side] # << >>
      BY <1>2, <2>3
    <3> QED  BY <2>1, <3>1
  <2> DEFINE rank == RankFor(offset, reference[side])
             j    == Depth - rank
  <2>5. rank \in 0 .. Depth - 1
    BY <1>2, <2>3, Numbers DEF RankFor
  <2>6. j \in 1 .. Depth
    BY <1>2, <2>5
  <2>7. Nth(reference[side], rank) = reference[side][j]
    BY <1>2, <2>3, <2>5 DEF Nth
  <2>8. TargetOf(side, offset).side = side
        /\ TargetOf(side, offset).price = reference[side][j].price
    BY <2>7 DEF TargetOf
  <2>9. TargetOf(side, offset) \in Target
    <3>1. reference[side][j] \in LevelRecord
      BY <2>3, <2>6
    <3>2. Nth(reference[side], rank).price \in Int
      BY <2>7, <3>1 DEF LevelRecord
    <3> QED  BY <2>2, <3>2 DEF TargetOf, Target
  <2> HIDE DEF rank, j
  <2> DEFINE t == TargetOf(side, offset)
  <2>10. /\ targets' \in Seq(Target) /\ Len(targets') = turn + 1
         /\ \A k \in 1 .. turn : targets'[k] = targets[k]
         /\ targets'[turn + 1] = t
    <3> HIDE DEF t
    <3>1. targets' = Append(targets, t) /\ t \in Target
      BY <2>4, <2>9 DEF t
    <3> QED  BY <1>4, <3>1
  <2>11. \A k \in 1 .. Len(targets') : \E i \in 1 .. Depth :
           targets'[k].price = reference[targets'[k].side][i].price
    <3> TAKE k \in 1 .. Len(targets')
    <3>1. CASE k = turn + 1
      <4>1. targets'[k].price = reference[targets'[k].side][j].price
        BY <2>8, <2>10, <3>1
      <4> QED  BY <2>6, <4>1
    <3>2. CASE k # turn + 1
      <4>1. k \in 1 .. turn
        BY <1>4, <2>10, <3>2
      <4> QED  BY <1>4, <2>10, <4>1
    <3> QED  BY <3>1, <3>2
  <2>12. Drawn'
    <3>1. step' = "targets" /\ turn' <= Lookups /\ Len(targets') = turn'
      BY <1>1, <1>4, <1>5, <2>1, <2>10, Numbers
    <3> QED  BY <1>1, <1>2, <2>10, <2>11, <3>1 DEF Drawn
  <2>13. Types'
    BY <1>1, <1>4, <2>1 DEF IInv, Types
  <2>14. Filled' /\ Measured' /\ Compared'
    BY <1>1, <1>2, <1>3, <2>1 DEF IInv, Filled, Measured, Compared
  <2> QED  BY <1>2, <2>12, <2>13, <2>14 DEF IInv
<1>6. CASE ~(turn < Lookups)
  <2>1. /\ step' = "populate" /\ turn' = 0 /\ variant' = 1 /\ book' = Empty
        /\ targets' = targets
    BY <1>6 DEF BuildTargets
  <2>2. turn = Lookups
    BY <1>4, <1>6, Numbers
  <2>3. Types'
    <3>1. Empty \in Books /\ 1 \in 1 .. Variants
      BY Numbers DEF Empty, Books
    <3> QED  BY <1>1, <2>1, <3>1 DEF IInv, Types
  <2>4. Laid(levels, Depth, 0) = Empty
    BY <1>2, NothingLaid
  <2>5. Filled'
    BY <1>1, <1>2, <1>3, <2>1, <2>4 DEF Filled
  <2>6. Drawn'
    BY <1>1, <1>2, <1>4, <2>1, <2>2 DEF Drawn
  <2>7. Measured' /\ Compared'
    BY <1>1, <2>1 DEF IInv, Measured, Compared
  <2> QED  BY <1>2, <2>3, <2>5, <2>6, <2>7 DEF IInv
<1> QED  BY <1>5, <1>6

(* One more level in the book of a variant. *)
LEMMA PopulateKeeps ==
  ASSUME IInv, Populate
  PROVE  IInv'
<1>1. /\ step = "populate"
      /\ UNCHANGED <<snapshot, row, source, levels, reference, targets, variant, results,
                     cheapest, best>>
  BY DEF Populate, headline
<1>2. Planned' /\ Depth' = Depth /\ Depth \in Nat \ {0} /\ IsPlan(levels, Depth)
  BY <1>1, PlanStays
<1>3. Len(levels) = 2 * Depth
  BY <1>2 DEF IsPlan
<1>4. /\ turn \in Nat /\ turn <= 2 * Depth /\ book = Laid(levels, Depth, turn)
      /\ reference = Laid(levels, Depth, 2 * Depth)
  BY <1>1 DEF IInv, Types, Filled
<1>5. CASE turn < Len(levels)
  <2>1. book' = AddTo(book, levels[turn + 1]) /\ turn' = turn + 1 /\ step' = step
    BY <1>5 DEF Populate
  <2>2. turn \in 0 .. 2 * Depth - 1 /\ turn + 1 \in 0 .. 2 * Depth
    BY <1>2, <1>3, <1>4, <1>5
  <2>3. book' = Laid(levels, Depth, turn + 1)
    BY <1>2, <1>4, <2>1, <2>2, AddsLayNext
  <2>4. book' \in Books
    BY <1>2, <2>2, <2>3, LaidIsBook
  <2>5. Types'
    BY <1>1, <1>4, <2>1, <2>4 DEF IInv, Types
  <2>6. Filled'
    BY <1>1, <1>2, <1>4, <2>1, <2>2, <2>3 DEF Filled
  <2>7. Drawn' /\ Measured' /\ Compared'
    BY <1>1, <1>2, <2>1 DEF IInv, Drawn, Measured, Compared
  <2> QED  BY <1>2, <2>5, <2>6, <2>7 DEF IInv
<1>6. CASE ~(turn < Len(levels))
  <2>1. step' = "measure" /\ UNCHANGED <<book, turn>>
    BY <1>6 DEF Populate
  <2>2. turn = 2 * Depth
    BY <1>2, <1>3, <1>4, <1>6
  <2>3. Types'
    BY <1>1, <2>1 DEF IInv, Types
  <2>4. Filled'
    BY <1>1, <1>2, <1>4, <2>1, <2>2 DEF Filled
  <2>5. Drawn' /\ Measured' /\ Compared'
    BY <1>1, <1>2, <2>1 DEF IInv, Drawn, Measured, Compared
  <2> QED  BY <1>2, <2>3, <2>4, <2>5 DEF IInv
<1> QED  BY <1>5, <1>6

(* One more result: there are targets, so that it is no zero.              *)
LEMMA MeasureLookupsKeeps ==
  ASSUME IInv, MeasureLookups
  PROVE  IInv'
<1>1. /\ step = "measure" /\ book' = Empty /\ turn' = 0
      /\ UNCHANGED <<snapshot, row, source, levels, reference, targets, cheapest, best>>
  BY DEF MeasureLookups
<1>2. Planned' /\ Depth' = Depth /\ Depth \in Nat \ {0} /\ IsPlan(levels, Depth)
  BY <1>1, PlanStays
<1>3. targets # << >>
  BY <1>1, Numbers DEF IInv, Drawn
<1>4. PICK figure \in {NoReading} \cup Cycles : results' = Append(results, figure)
  BY <1>3 DEF MeasureLookups
<1>5. results \in Seq({NoReading} \cup Cycles) /\ Len(results) = variant - 1
  BY <1>1 DEF IInv, Measured
<1>6. variant \in 1 .. Variants /\ Variants \in Nat
  BY Numbers DEF IInv, Types
<1>7. results' \in Seq({NoReading} \cup Cycles) /\ Len(results') = variant
  BY <1>4, <1>5, <1>6
<1>8. \/ variant < Variants /\ variant' = variant + 1 /\ step' = "populate"
      \/ variant = Variants /\ variant' = variant /\ step' = "headline"
  BY DEF MeasureLookups
<1>9. Empty \in Books
  BY DEF Empty, Books
<1>10. Types'
  BY <1>1, <1>6, <1>8, <1>9 DEF IInv, Types
<1>11. Filled'
  <2>1. Laid(levels, Depth, 0) = Empty
    BY <1>2, NothingLaid
  <2>2. reference = Laid(levels, Depth, 2 * Depth)
    BY <1>1 DEF IInv, Filled
  <2> QED  BY <1>1, <1>2, <1>8, <2>1, <2>2 DEF Filled
<1>12. Drawn'
  BY <1>1, <1>2, <1>8 DEF IInv, Drawn
<1>13. Measured'
  BY <1>6, <1>7, <1>8 DEF Measured
<1>14. Compared'
  <2>1. cheapest = 0 /\ best = 0
    BY <1>1 DEF IInv, Compared
  <2>2. LeastRead(results', 0, 0, 0)
    BY DEF LeastRead, ReadOf
  <2> QED  BY <1>1, <1>6, <2>1, <2>2 DEF Compared
<1> QED  BY <1>2, <1>10, <1>11, <1>12, <1>13, <1>14 DEF IInv

(* One more result compared: of those read so far one is the cheapest.     *)
LEMMA FindCheapestKeeps ==
  ASSUME IInv, FindCheapest
  PROVE  IInv'
<1>1. /\ step = "headline" /\ step' = "headline" /\ turn < Variants /\ turn' = turn + 1
      /\ UNCHANGED <<snapshot, row, source, levels, reference, targets, variant, book,
                     results>>
  BY DEF FindCheapest
<1>2. Planned' /\ Depth' = Depth /\ Depth \in Nat \ {0} /\ IsPlan(levels, Depth)
  BY <1>1, PlanStays
<1>3. Types' /\ Filled' /\ Drawn' /\ Measured'
  BY <1>1, <1>2 DEF IInv, Types, Filled, Drawn, Measured
<1>4. /\ turn \in Nat /\ Variants \in Nat
      /\ results \in Seq({NoReading} \cup Cycles) /\ Len(results) = Variants
  BY <1>1, Numbers DEF IInv, Types, Measured
<1>5. LeastRead(results, turn, cheapest, best)
  BY <1>1 DEF IInv, Compared
<1> DEFINE before == ReadOf(results, turn)
           after  == ReadOf(results, turn + 1)
<1>6. \A v \in after : results[v] \in Nat
  <2> TAKE v \in after
  <2>1. v \in 1 .. Variants /\ results[v] # NoReading
    BY <1>1, <1>4 DEF ReadOf
  <2>2. results[v] \in {NoReading} \cup Cycles
    BY <1>4, <2>1
  <2> QED  BY <2>1, <2>2, Numbers
<1>7. /\ before \subseteq after
      /\ \A v \in after : v = turn + 1 \/ v \in before
      /\ results[turn + 1] = NoReading => after = before
      /\ results[turn + 1] # NoReading => turn + 1 \in after
  BY <1>4 DEF ReadOf
<1>8. turn + 1 # 0 /\ turn + 1 <= Variants
  BY <1>1, <1>4
<1>9. LeastRead(results, turn + 1, cheapest', best')
  <2>1. CASE Cheaper(turn + 1)
    <3>1. results[turn + 1] # NoReading /\ (cheapest = 0 \/ results[turn + 1] < best)
      BY <2>1 DEF Cheaper, Figure
    <3>2. cheapest' = turn + 1 /\ best' = results[turn + 1]
      BY <2>1, <3>1 DEF FindCheapest, Figure
    <3>3. ASSUME NEW v \in after
          PROVE  results[turn + 1] <= results[v]
      <4>1. CASE v = turn + 1
        BY <1>6, <4>1
      <4>2. CASE v \in before
        <5>1. /\ cheapest \in before /\ cheapest # 0
              /\ best = results[cheapest] /\ best <= results[v]
          BY <1>5, <4>2 DEF LeastRead
        <5>2. best \in Nat /\ results[v] \in Nat /\ results[turn + 1] \in Nat
          BY <1>6, <1>7, <3>1, <5>1
        <5> QED  BY <3>1, <5>1, <5>2
      <4> QED  BY <1>7, <4>1, <4>2
    <3>4. turn + 1 \in after
      BY <1>7, <3>1
    <3> QED  BY <1>8, <3>2, <3>3, <3>4 DEF LeastRead
  <2>2. CASE ~Cheaper(turn + 1)
    <3>1. cheapest' = cheapest /\ best' = best
      BY <2>2 DEF FindCheapest
    <3>2. CASE results[turn + 1] = NoReading
      BY <1>5, <1>7, <3>1, <3>2 DEF LeastRead
    <3>3. CASE results[turn + 1] # NoReading
      <4>1. cheapest # 0 /\ ~(results[turn + 1] < best)
        BY <2>2, <3>3 DEF Cheaper, Figure
      <4>2. /\ cheapest \in before /\ best = results[cheapest]
            /\ \A v \in before : best <= results[v]
        BY <1>5, <4>1 DEF LeastRead
      <4>3. best <= results[turn + 1]
        <5>1. best \in Nat /\ results[turn + 1] \in Nat
          BY <1>6, <1>7, <3>3, <4>2
        <5> QED  BY <4>1, <5>1
      <4>4. \A v \in after : best <= results[v]
        BY <1>7, <4>2, <4>3
      <4>5. cheapest \in after
        BY <1>7, <4>2
      <4> QED  BY <3>1, <4>1, <4>2, <4>4, <4>5 DEF LeastRead
    <3> QED  BY <3>2, <3>3
  <2> QED  BY <2>1, <2>2
<1>10. Compared'
  BY <1>1, <1>8, <1>9 DEF Compared
<1> QED  BY <1>2, <1>3, <1>10 DEF IInv

(* After a row the headline is empty. *)
LEMMA NextRowKeeps ==
  ASSUME IInv, NextRow
  PROVE  IInv'
<1>1. /\ step = "headline" /\ turn = Variants
      /\ results' = << >> /\ cheapest' = 0 /\ best' = 0
      /\ UNCHANGED <<snapshot, source, levels, turn, reference, targets, variant, book>>
  BY DEF NextRow
<1>2. Measured' /\ Compared'
  <2>1. step' \in {"build", "done"}
    BY DEF NextRow
  <2> QED  BY <1>1, <2>1 DEF Measured, Compared
<1>3. CASE row < Len(Depths) /\ row' = row + 1 /\ step' = "build"
  <2>1. row' \in 1 .. Len(Depths)
    BY <1>3, Numbers DEF IInv, Types
  <2>2. Types'
    BY <1>1, <1>3, <2>1 DEF IInv, Types
  <2>3. Planned' /\ Filled' /\ Drawn'
    BY <1>3 DEF Planned, Filled, Drawn
  <2> QED  BY <1>2, <2>2, <2>3 DEF IInv
<1>4. CASE row' = row /\ step' = "done"
  <2>1. Planned' /\ Depth' = Depth
    BY <1>1, <1>4, PlanStays
  <2>2. Types' /\ Filled' /\ Drawn'
    BY <1>1, <1>4, <2>1 DEF IInv, Types, Filled, Drawn
  <2> QED  BY <1>2, <2>1, <2>2 DEF IInv
<1> QED  BY <1>3, <1>4 DEF NextRow

(* Every step keeps it. *)
LEMMA NextIInv ==
  ASSUME IInv, [Next]_vars
  PROVE  IInv'
<1>1. CASE UNCHANGED vars
  <2>1. UNCHANGED <<snapshot, row, step, source, levels, turn, reference, targets, variant,
                    book, results, cheapest, best>>
    BY <1>1 DEF vars, headline
  <2>2. Depth' = Depth /\ SnapshotDepth' = SnapshotDepth
    BY <2>1 DEF Depth, SnapshotDepth
  <2>3. RealLevels(Depth)' = RealLevels(Depth)
    BY <2>1, <2>2 DEF RealLevels
  <2> QED
    BY <2>1, <2>2, <2>3 DEF IInv, Types, Planned, Filled, Drawn, Measured, Compared
<1> QED
  BY <1>1, BuildLevelsKeeps, PopulateReferenceKeeps, BuildTargetsKeeps, PopulateKeeps,
     MeasureLookupsKeeps, FindCheapestKeeps, NextRowKeeps DEF Next

(* At all times. *)
LEMMA AlwaysIInv == Spec => []IInv
BY InitIInv, NextIInv, PTL DEF Spec

-----------------------------------------------------------------------------
(***************************************************************************)
(* Populating only appends, to the reference and to the book of every      *)
(* variant, at every depth and with levels from either source              *)
(* (sweep.hpp:89-91).                                                      *)
(***************************************************************************)
THEOREM PopulatingAppends == Spec => AppendsOnly
<1>1. ASSUME IInv, Next, turn' > turn
      PROVE  OnlyAppends
  <2> SUFFICES ASSUME NEW side \in Side
               PROVE  /\ IsPrefix(reference[side], reference'[side])
                      /\ IsPrefix(book[side], book'[side])
    BY DEF OnlyAppends
  <2>1. reference[side] \in Seq(LevelRecord) /\ book[side] \in Seq(LevelRecord)
    BY <1>1 DEF IInv, Types, Books
  <2>2. IsPrefix(reference[side], reference[side]) /\ IsPrefix(book[side], book[side])
    BY <2>1, PrefixOfItself
  <2>3. turn \in Nat /\ turn' # 0 /\ turn' # turn
    BY <1>1 DEF IInv, Types
  <2>4. CASE PopulateReference
    <3>1. /\ step = "reference" /\ turn < Len(levels) /\ book' = book
          /\ reference' = AddTo(reference, levels[turn + 1])
      BY <2>3, <2>4 DEF PopulateReference
    <3>2. Depth \in Nat \ {0} /\ IsPlan(levels, Depth)
      BY <1>1, <3>1, DepthIsPositive DEF IInv, Planned
    <3>3. turn \in 0 .. 2 * Depth - 1 /\ reference = Laid(levels, Depth, turn)
      BY <1>1, <2>3, <3>1, <3>2 DEF IInv, Filled, IsPlan
    <3>4. reference' = Laid(levels, Depth, turn + 1)
      BY <3>1, <3>2, <3>3, AddsLayNext
    <3>5. IsPrefix(reference[side], reference'[side])
      BY <3>2, <3>3, <3>4, LaidPrefix
    <3> QED  BY <2>2, <3>1, <3>5
  <2>5. CASE Populate
    <3>1. /\ step = "populate" /\ turn < Len(levels) /\ reference' = reference
          /\ book' = AddTo(book, levels[turn + 1])
      BY <2>3, <2>5 DEF Populate
    <3>2. Depth \in Nat \ {0} /\ IsPlan(levels, Depth)
      BY <1>1, <3>1, DepthIsPositive DEF IInv, Planned
    <3>3. turn \in 0 .. 2 * Depth - 1 /\ book = Laid(levels, Depth, turn)
      BY <1>1, <2>3, <3>1, <3>2 DEF IInv, Filled, IsPlan
    <3>4. book' = Laid(levels, Depth, turn + 1)
      BY <3>1, <3>2, <3>3, AddsLayNext
    <3>5. IsPrefix(book[side], book'[side])
      BY <3>2, <3>3, <3>4, LaidPrefix
    <3> QED  BY <2>2, <3>1, <3>5
  <2>6. CASE BuildTargets \/ FindCheapest
    <3>1. reference' = reference /\ book' = book
      BY <2>3, <2>6 DEF BuildTargets, FindCheapest
    <3> QED  BY <2>2, <3>1
  <2>7. CASE BuildLevels \/ MeasureLookups \/ NextRow
    BY <2>3, <2>7 DEF BuildLevels, MeasureLookups, NextRow
  <2> QED  BY <1>1, <2>4, <2>5, <2>6, <2>7 DEF Next
<1>2. IInv /\ [Next]_vars => [turn' > turn => OnlyAppends]_vars
  BY <1>1
<1> QED  BY <1>2, AlwaysIInv, PTL DEF Spec, AppendsOnly

(***************************************************************************)
(* In the book each variant is measured on every target finds the level of *)
(* the reference it was drawn from, whatever the distribution yields, and  *)
(* the book is as deep as the row says on both sides (sweep.hpp:142-145).  *)
(***************************************************************************)
THEOREM TargetsRest == Spec => []EveryTargetRests
<1>1. IInv => EveryTargetRests
  <2> SUFFICES ASSUME IInv, step = "measure"
               PROVE  /\ \A side \in Side : Len(book[side]) = Depth
                      /\ Len(targets) = Lookups
                      /\ \A k \in 1 .. Len(targets) :
                           LET found == QuantityAt(book, targets[k].side, targets[k].price)
                           IN  /\ found > 0
                               /\ found = QuantityAt(reference, targets[k].side,
                                                     targets[k].price)
    BY DEF EveryTargetRests
  <2>1. Depth \in Nat \ {0} /\ IsPlan(levels, Depth)
    BY DepthIsPositive DEF IInv, Planned
  <2>2. book = Laid(levels, Depth, 2 * Depth) /\ reference = Laid(levels, Depth, 2 * Depth)
    BY DEF IInv, Filled
  <2>3. /\ targets \in Seq(Target) /\ Len(targets) = Lookups
        /\ \A k \in 1 .. Len(targets) : \E j \in 1 .. Depth :
             targets[k].price = reference[targets[k].side][j].price
    BY DEF IInv, Drawn
  <2>4. \A side \in Side : Len(book[side]) = Depth
    <3>1. /\ 2 * Depth \in 0 .. 2 * Depth
          /\ \A side \in Side : Count(side, Depth, 2 * Depth) = Depth
      BY <2>1 DEF Count
    <3>2. \A side \in Side :
            Len(Laid(levels, Depth, 2 * Depth)[side]) = Count(side, Depth, 2 * Depth)
      BY <2>1, <3>1, LaidTypes
    <3> QED  BY <2>2, <3>1, <3>2
  <2>5. ASSUME NEW k \in 1 .. Len(targets)
        PROVE  QuantityAt(book, targets[k].side, targets[k].price) > 0
    <3>1. targets[k] \in Target
      BY <2>3
    <3>2. targets[k].side \in Side
      BY <3>1 DEF Target
    <3>3. PICK j \in 1 .. Depth : targets[k].price = reference[targets[k].side][j].price
      BY <2>3
    <3> QED  BY <2>1, <2>2, <3>2, <3>3, LaidFinds
  <2> QED  BY <2>2, <2>3, <2>4, <2>5
<1> QED  BY <1>1, AlwaysIInv, PTL

(***************************************************************************)
(* A row labelled LOBSTER measures the top of the real book and nothing    *)
(* else (sweep.hpp:18-22).                                                 *)
(***************************************************************************)
THEOREM LabelledRowsAreReal == Spec => []RealRowsAreReal
<1>1. IInv => RealRowsAreReal
  <2> SUFFICES ASSUME IInv, source = "LOBSTER", step \notin {"build", "reference"},
                      NEW side \in Side
               PROVE  IsSuffix(reference[side], snapshot[side])
    BY DEF RealRowsAreReal
  <2>1. Depth \in Nat \ {0} /\ Depth <= SnapshotDepth /\ levels = RealLevels(Depth)
    BY DepthIsPositive DEF IInv, Planned
  <2>2. reference = Laid(RealLevels(Depth), Depth, 2 * Depth)
    BY <2>1 DEF IInv, Filled
  <2> QED  BY <2>1, <2>2, LaidIsReal DEF IInv, Types
<1> QED  BY <1>1, AlwaysIInv, PTL

(***************************************************************************)
(* The headline of a row names a variant that was read, and none that was  *)
(* read took fewer cycles; the figures in the table are those of the       *)
(* readings, or zero in the place of one that failed (sweep.hpp:297-318).  *)
(***************************************************************************)
THEOREM HeadlineIsLeast == Spec => []CheapestIsLeast
<1>1. IInv => CheapestIsLeast
  <2> SUFFICES ASSUME IInv, step = "headline", turn = Variants
               PROVE  LET read == {v \in 1 .. Variants : results[v] # NoReading}
                      IN  /\ read = {} <=> cheapest = 0
                          /\ read # {} => /\ cheapest \in read
                                          /\ \A v \in read : results[cheapest] <= results[v]
                          /\ \A v \in DOMAIN Table :
                               \/ Table[v] = results[v]
                               \/ v \notin read /\ v # 1 /\ Table[v] < Table[cheapest]
    BY DEF CheapestIsLeast
  <2> DEFINE read == {v \in 1 .. Variants : results[v] # NoReading}
  <2>1. /\ read = {} <=> cheapest = 0
        /\ read # {} => /\ cheapest \in read
                        /\ \A v \in read : results[cheapest] <= results[v]
    BY DEF IInv, Compared, LeastRead, ReadOf
  <2>2. /\ results \in Seq({NoReading} \cup Cycles) /\ Len(results) = Variants
        /\ Variants \in Nat \ {0} /\ Cycles \subseteq Nat \ {0}
    BY Numbers DEF IInv, Measured
  <2>3. ASSUME NEW v \in DOMAIN Table
        PROVE  \/ Table[v] = results[v]
               \/ v \notin read /\ v # 1 /\ Table[v] < Table[cheapest]
    <3>1. results[1] # NoReading /\ v \in 1 .. Variants
      BY <2>2 DEF Table
    <3>2. \A w \in 1 .. Variants : Table[w] = IF w \in read THEN results[w] ELSE 0
      BY <2>2, <3>1 DEF Table, Figure
    <3>3. CASE v \in read
      BY <3>1, <3>2, <3>3
    <3>4. CASE v \notin read
      <4>1. 1 \in read
        BY <2>2, <3>1
      <4>2. cheapest \in read
        BY <2>1, <4>1
      <4>3. results[cheapest] \in Nat \ {0}
        <5>1. cheapest \in 1 .. Variants /\ results[cheapest] # NoReading
          BY <4>2
        <5>2. results[cheapest] \in {NoReading} \cup Cycles
          BY <2>2, <5>1
        <5> QED  BY <2>2, <5>1, <5>2
      <4> HIDE DEF read
      <4>4. Table[v] = 0
        BY <3>1, <3>2, <3>4
      <4>5. Table[cheapest] = results[cheapest]
        <5>1. cheapest \in 1 .. Variants
          BY <4>2 DEF read
        <5> QED  BY <3>2, <4>2, <5>1
      <4> QED  BY <3>4, <4>1, <4>3, <4>4, <4>5
    <3> QED  BY <3>3, <3>4
  <2> QED  BY <2>1, <2>3
<1> QED  BY <1>1, AlwaysIInv, PTL
=============================================================================
