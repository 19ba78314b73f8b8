------------------------ MODULE ContiguousBookProofs ------------------------
(***************************************************************************)
(* Theorems of the vector variants: their ladders stay sorted, each search *)
(* stays in its vector and finds the one place of its price, and the book  *)
(* is the map book, in its levels and in everything it is asked to show.   *)
(***************************************************************************)
EXTENDS ContiguousBook, BookLemmas, SequenceTheorems

-----------------------------------------------------------------------------
(***************************************************************************)
(* The order of the prices on a side is a strict total order.              *)
(***************************************************************************)
LEMMA BeforeOrders ==
  ASSUME NEW side \in Side, NEW p \in Prices, NEW q \in Prices, NEW r \in Prices
  PROVE  /\ ~Before(side, p, p)
         /\ Before(side, p, q) => ~Before(side, q, p)
         /\ Before(side, p, q) \/ Before(side, q, p) \/ p = q
         /\ Before(side, p, q) /\ Before(side, q, r) => Before(side, p, r)
BY PricesAssumption DEF Before

Levels == [price : Prices, quantity : Nat]

SortedOn(side, ladder) ==
  \A a, b \in 1 .. Len(ladder) :
    a < b => Before(side, ladder[a].price, ladder[b].price)

IsLadder(side, ladder) == ladder \in Seq(Levels) /\ SortedOn(side, ladder)

(* What locate has found of a price. *)
IsHeld(ladder, price) == \E k \in 1 .. Len(ladder) : ladder[k].price = price

IsPlace(side, ladder, price, place) ==
  \A k \in 1 .. Len(ladder) :
    k <= place <=> Before(side, ladder[k].price, price)

(* The map a ladder is. *)
LevelMap(ladder) ==
  [p \in {ladder[k].price : k \in 1 .. Len(ladder)} |->
     ladder[CHOOSE k \in 1 .. Len(ladder) : ladder[k].price = p].quantity]

(* A price has one level. *)
LEMMA OneLevel ==
  ASSUME NEW side \in Side, NEW ladder, IsLadder(side, ladder),
         NEW a \in 1 .. Len(ladder), NEW b \in 1 .. Len(ladder),
         ladder[a].price = ladder[b].price
  PROVE  a = b
<1>1. ladder[a] \in Levels /\ ladder[b] \in Levels /\ Len(ladder) \in Nat
  BY DEF IsLadder
<1>2. ladder[a].price \in Prices
  BY <1>1 DEF Levels
<1>3. ~Before(side, ladder[a].price, ladder[b].price)
  BY <1>2, BeforeOrders
<1>4. ~Before(side, ladder[b].price, ladder[a].price)
  BY <1>2, BeforeOrders
<1> QED  BY <1>1, <1>3, <1>4 DEF IsLadder, SortedOn

IsMapOf(f, ladder) ==
  /\ f = [p \in DOMAIN f |-> f[p]]
  /\ DOMAIN f = {ladder[k].price : k \in 1 .. Len(ladder)}
  /\ \A k \in 1 .. Len(ladder) : f[ladder[k].price] = ladder[k].quantity

(* A function that gives each price of a ladder its quantity is its map. *)
LEMMA LevelMapIs ==
  ASSUME NEW side \in Side, NEW ladder, IsLadder(side, ladder),
         NEW f, IsMapOf(f, ladder)
  PROVE  LevelMap(ladder) = f
<1> USE DEF IsMapOf
<1> SUFFICES ASSUME NEW p \in DOMAIN f PROVE LevelMap(ladder)[p] = f[p]
  BY DEF LevelMap
<1> DEFINE k == CHOOSE k \in 1 .. Len(ladder) : ladder[k].price = p
<1>1. k \in 1 .. Len(ladder) /\ ladder[k].price = p
  OBVIOUS
<1>2. LevelMap(ladder)[p] = ladder[k].quantity
  BY DEF LevelMap
<1> HIDE DEF k
<1> QED  BY <1>1, <1>2

(* The map of a ladder gives each price the quantity of its level. *)
LEMMA LevelMapAt ==
  ASSUME NEW side \in Side, NEW ladder, IsLadder(side, ladder)
  PROVE  /\ LevelMap(ladder) = [p \in DOMAIN LevelMap(ladder) |-> LevelMap(ladder)[p]]
         /\ DOMAIN LevelMap(ladder) = {ladder[k].price : k \in 1 .. Len(ladder)}
         /\ \A k \in 1 .. Len(ladder) :
              LevelMap(ladder)[ladder[k].price] = ladder[k].quantity
<1>1. ASSUME NEW k \in 1 .. Len(ladder)
      PROVE  LevelMap(ladder)[ladder[k].price] = ladder[k].quantity
  <2> DEFINE j == CHOOSE j \in 1 .. Len(ladder) : ladder[j].price = ladder[k].price
  <2>1. j \in 1 .. Len(ladder) /\ ladder[j].price = ladder[k].price
    OBVIOUS
  <2>2. LevelMap(ladder)[ladder[k].price] = ladder[j].quantity
    BY DEF LevelMap
  <2> HIDE DEF j
  <2> QED  BY <2>1, <2>2, OneLevel
<1>2. LevelMap(ladder) = [p \in DOMAIN LevelMap(ladder) |-> LevelMap(ladder)[p]]
  BY DEF LevelMap
<1>3. DOMAIN LevelMap(ladder) = {ladder[k].price : k \in 1 .. Len(ladder)}
  BY DEF LevelMap
<1> QED  BY <1>1, <1>2, <1>3

(* locate points at the level when there is one, ... *)
LEMMA PointsAtLevel ==
  ASSUME NEW side \in Side, NEW ladder, IsLadder(side, ladder), NEW price \in Prices,
         NEW place \in 0 .. Len(ladder), IsPlace(side, ladder, price, place),
         IsHeld(ladder, price)
  PROVE  place + 1 \in 1 .. Len(ladder) /\ ladder[place + 1].price = price
<1>1. Len(ladder) \in Nat /\ \A k \in 1 .. Len(ladder) : ladder[k] \in Levels
  BY ElementOfSeq DEF IsLadder
<1>2. PICK k \in 1 .. Len(ladder) : ladder[k].price = price
  BY DEF IsHeld
<1>3. ~(k <= place)
  BY <1>2, BeforeOrders DEF IsPlace
<1>4. ASSUME k > place + 1 PROVE FALSE
  <2>1. place + 1 \in 1 .. Len(ladder) /\ ~(place + 1 <= place)
    BY <1>1, <1>2, <1>4
  <2>2. Before(side, ladder[place + 1].price, ladder[k].price)
    BY <1>4, <2>1 DEF IsLadder, SortedOn
  <2> QED  BY <1>2, <2>1, <2>2 DEF IsPlace
<1>5. k = place + 1
  BY <1>1, <1>3, <1>4
<1> QED  BY <1>2, <1>5

(* ... and otherwise between the levels the price belongs between. *)
LEMMA PointsBetween ==
  ASSUME NEW side \in Side, NEW ladder, IsLadder(side, ladder), NEW price \in Prices,
         NEW place \in 0 .. Len(ladder), IsPlace(side, ladder, price, place),
         ~IsHeld(ladder, price), NEW k \in 1 .. Len(ladder), k > place
  PROVE  Before(side, price, ladder[k].price)
<1>1. ladder[k] \in Levels /\ ~(k <= place)
  BY ElementOfSeq DEF IsLadder
<1>2. ladder[k].price # price /\ ~Before(side, ladder[k].price, price)
  BY <1>1 DEF IsPlace, IsHeld
<1> QED  BY <1>1, <1>2, BeforeOrders DEF Levels

-----------------------------------------------------------------------------
(***************************************************************************)
(* The updates of a vector, element by element.                            *)
(***************************************************************************)
LEMMA InsertAtIs ==
  ASSUME NEW S, NEW s \in Seq(S), NEW k \in 1 .. Len(s) + 1, NEW e \in S
  PROVE  /\ InsertAt(s, k, e) \in Seq(S)
         /\ Len(InsertAt(s, k, e)) = Len(s) + 1
         /\ \A j \in 1 .. k - 1 : InsertAt(s, k, e)[j] = s[j]
         /\ InsertAt(s, k, e)[k] = e
         /\ \A j \in k + 1 .. Len(s) + 1 : InsertAt(s, k, e)[j] = s[j - 1]
<1> DEFINE front == SubSeq(s, 1, k - 1)
           back == SubSeq(s, k, Len(s))
           mid == front \o <<e>>
<1>1. Len(s) \in Nat /\ k \in Int /\ \A j \in 1 .. Len(s) : s[j] \in S
  BY ElementOfSeq
<1>2. /\ front \in Seq(S) /\ Len(front) = k - 1
      /\ \A j \in 1 .. k - 1 : front[j] = s[j]
  <2>1. \A j \in 1 .. k - 1 : s[j] \in S
    BY <1>1
  <2>2. /\ front \in Seq(S) /\ Len(front) = IF 1 <= k - 1 THEN k - 1 - 1 + 1 ELSE 0
        /\ \A j \in 1 .. k - 1 - 1 + 1 : front[j] = s[1 + j - 1]
    BY <1>1, <2>1, SubSeqProperties
  <2> HIDE DEF front
  <2> QED  BY <1>1, <2>2
<1>3. /\ back \in Seq(S) /\ Len(back) = Len(s) - k + 1
      /\ \A j \in 1 .. Len(s) - k + 1 : back[j] = s[k + j - 1]
  <2>1. \A j \in k .. Len(s) : s[j] \in S
    BY <1>1
  <2>2. /\ back \in Seq(S) /\ Len(back) = IF k <= Len(s) THEN Len(s) - k + 1 ELSE 0
        /\ \A j \in 1 .. Len(s) - k + 1 : back[j] = s[k + j - 1]
    BY <1>1, <2>1, SubSeqProperties
  <2> HIDE DEF back
  <2> QED  BY <1>1, <2>2
<1>4. InsertAt(s, k, e) = mid \o back
  BY DEF InsertAt
<1>5. <<e>> \in Seq(S) /\ Len(<<e>>) = 1 /\ <<e>>[1] = e
  OBVIOUS
<1> HIDE DEF front, back
<1>6. /\ mid \in Seq(S) /\ Len(mid) = k
      /\ \A j \in 1 .. k : mid[j] = IF j < k THEN s[j] ELSE e
  <2>1. /\ mid \in Seq(S) /\ Len(mid) = Len(front) + 1
        /\ \A j \in 1 .. Len(front) + 1 :
             mid[j] = IF j <= Len(front) THEN front[j] ELSE <<e>>[j - Len(front)]
    BY <1>2, <1>5, ConcatProperties
  <2> HIDE DEF mid
  <2>2. ASSUME NEW j \in 1 .. k PROVE mid[j] = IF j < k THEN s[j] ELSE e
    <3>1. CASE j < k
      BY <1>1, <1>2, <2>1, <3>1
    <3>2. CASE j = k
      BY <1>1, <1>2, <1>5, <2>1, <3>2
    <3> QED  BY <1>1, <3>1, <3>2
  <2> QED  BY <1>1, <1>2, <2>1, <2>2
<1> HIDE DEF mid
<1>7. /\ mid \o back \in Seq(S) /\ Len(mid \o back) = Len(mid) + Len(back)
      /\ \A j \in 1 .. Len(mid) + Len(back) :
           (mid \o back)[j] = IF j <= Len(mid) THEN mid[j] ELSE back[j - Len(mid)]
  BY <1>3, <1>6, ConcatProperties
<1> DEFINE whole == mid \o back
<1>8. /\ whole \in Seq(S) /\ Len(whole) = Len(s) + 1
      /\ \A j \in 1 .. Len(s) + 1 :
           whole[j] = IF j <= k THEN mid[j] ELSE back[j - k]
  BY <1>1, <1>3, <1>6, <1>7
<1>9. InsertAt(s, k, e) = whole
  BY <1>4
<1> HIDE DEF whole
<1>10. ASSUME NEW j \in 1 .. k - 1 PROVE whole[j] = s[j]
  BY <1>1, <1>6, <1>8
<1>11. whole[k] = e
  BY <1>1, <1>6, <1>8
<1>12. ASSUME NEW j \in k + 1 .. Len(s) + 1 PROVE whole[j] = s[j - 1]
  <2>1. j - k \in 1 .. Len(s) - k + 1 /\ k + (j - k) - 1 = j - 1 /\ ~(j <= k)
    BY <1>1
  <2>2. back[j - k] = s[j - 1]
    BY <1>3, <2>1
  <2>3. whole[j] = back[j - k]
    BY <1>1, <1>8, <2>1
  <2> QED  BY <2>2, <2>3
<1> QED  BY <1>8, <1>9, <1>10, <1>11, <1>12

(* An erase moves the elements behind the removed one forward. *)
LEMMA RemoveAtIs ==
  ASSUME NEW S, NEW s \in Seq(S), NEW k \in 1 .. Len(s)
  PROVE  /\ RemoveAt(s, k) \in Seq(S)
         /\ Len(RemoveAt(s, k)) = Len(s) - 1
         /\ \A j \in 1 .. Len(s) - 1 :
              RemoveAt(s, k)[j] = IF j < k THEN s[j] ELSE s[j + 1]
<1> DEFINE front == SubSeq(s, 1, k - 1)
           back == SubSeq(s, k + 1, Len(s))
<1>1. Len(s) \in Nat /\ k \in Int /\ \A j \in 1 .. Len(s) : s[j] \in S
  BY ElementOfSeq
<1>2. /\ front \in Seq(S) /\ Len(front) = k - 1
      /\ \A j \in 1 .. k - 1 : front[j] = s[j]
  <2>1. \A j \in 1 .. k - 1 : s[j] \in S
    BY <1>1
  <2>2. /\ front \in Seq(S) /\ Len(front) = IF 1 <= k - 1 THEN k - 1 - 1 + 1 ELSE 0
        /\ \A j \in 1 .. k - 1 - 1 + 1 : front[j] = s[1 + j - 1]
    BY <1>1, <2>1, SubSeqProperties
  <2> HIDE DEF front
  <2> QED  BY <1>1, <2>2
<1>3. /\ back \in Seq(S) /\ Len(back) = Len(s) - k
      /\ \A j \in 1 .. Len(s) - k : back[j] = s[k + j]
  <2>1. \A j \in k + 1 .. Len(s) : s[j] \in S
    BY <1>1
  <2>2. /\ back \in Seq(S)
        /\ Len(back) = IF k + 1 <= Len(s) THEN Len(s) - (k + 1) + 1 ELSE 0
        /\ \A j \in 1 .. Len(s) - (k + 1) + 1 : back[j] = s[(k + 1) + j - 1]
    BY <1>1, <2>1, SubSeqProperties
  <2> HIDE DEF back
  <2> QED  BY <1>1, <2>2
<1>4. RemoveAt(s, k) = front \o back
  BY DEF RemoveAt
<1> HIDE DEF front, back
<1>5. /\ front \o back \in Seq(S) /\ Len(front \o back) = Len(front) + Len(back)
      /\ \A j \in 1 .. Len(front) + Len(back) :
           (front \o back)[j] = IF j <= Len(front) THEN front[j] ELSE back[j - Len(front)]
  BY <1>2, <1>3, ConcatProperties
<1>6. ASSUME NEW j \in 1 .. Len(s) - 1
      PROVE  (front \o back)[j] = IF j < k THEN s[j] ELSE s[j + 1]
  <2>0. j \in Int
    BY <1>1
  <2>1. CASE j < k
    BY <1>1, <1>2, <1>3, <1>5, <2>1
  <2>2. CASE j >= k
    <3>1. j - (k - 1) \in 1 .. Len(s) - k /\ k + (j - (k - 1)) = j + 1
      BY <1>1, <2>2
    <3>2. back[j - (k - 1)] = s[j + 1]
      BY <1>3, <3>1
    <3> QED  BY <1>1, <1>2, <1>3, <1>5, <2>2, <3>2
  <2>3. j < k \/ j >= k
    BY <1>1, <2>0
  <2> QED  BY <2>1, <2>2, <2>3
<1> QED  BY <1>1, <1>2, <1>3, <1>4, <1>5, <1>6

-----------------------------------------------------------------------------
(***************************************************************************)
(* What the calls make of a ladder once locate has answered exactly: the   *)
(* ladder stays sorted, and it is the map the map book would have.         *)
(***************************************************************************)
LEMMA LadderGains ==
  ASSUME NEW side \in Side, NEW ladder, IsLadder(side, ladder), NEW price \in Prices,
         NEW qty \in Nat,
         NEW place \in 0 .. Len(ladder), IsPlace(side, ladder, price, place), NEW next,
         next = IF IsHeld(ladder, price)
                  THEN [ladder EXCEPT ![place + 1].quantity = @ + qty]
                  ELSE InsertAt(ladder, place + 1, Level(price, qty))
  PROVE  /\ IsLadder(side, next)
         /\ LevelMap(next) = Map!AddLevel(LevelMap(ladder), price, qty)
<1> DEFINE m == LevelMap(ladder)
           f == Map!AddLevel(m, price, qty)
<1>1. /\ Len(ladder) \in Nat /\ ladder \in Seq(Levels)
      /\ \A k \in 1 .. Len(ladder) : ladder[k] \in Levels
  BY ElementOfSeq DEF IsLadder
<1>2. /\ DOMAIN m = {ladder[k].price : k \in 1 .. Len(ladder)}
      /\ \A k \in 1 .. Len(ladder) : m[ladder[k].price] = ladder[k].quantity
  BY LevelMapAt
<1>3. /\ f = [p \in DOMAIN m \cup {price} |->
                IF p = price THEN (IF price \in DOMAIN m THEN m[price] ELSE 0) + qty
                             ELSE m[p]]
  BY DEF Map!AddLevel, Map!With, Map!LevelQuantity
<1> HIDE DEF m, f
<1>4. f = [p \in DOMAIN f |-> f[p]] /\ DOMAIN f = DOMAIN m \cup {price}
  BY <1>3
<1>5. CASE IsHeld(ladder, price)
  <2>1. place + 1 \in 1 .. Len(ladder) /\ ladder[place + 1].price = price
    BY <1>5, PointsAtLevel
  <2>2. next = [ladder EXCEPT ![place + 1] =
                  [ladder[place + 1] EXCEPT !.quantity = @ + qty]]
    BY <1>5
  <2>3. [ladder[place + 1] EXCEPT !.quantity = @ + qty] \in Levels
    BY <1>1, <2>1 DEF Levels
  <2>4. next \in Seq(Levels) /\ Len(next) = Len(ladder)
    BY <1>1, <2>1, <2>2, <2>3, ExceptSeq
  <2>5. ASSUME NEW k \in 1 .. Len(ladder)
        PROVE  /\ next[k].price = ladder[k].price
               /\ next[k].quantity =
                    ladder[k].quantity + (IF k = place + 1 THEN qty ELSE 0)
    <3>1. CASE k = place + 1
      <4>1. next[k] = [ladder[k] EXCEPT !.quantity = @ + qty]
        BY <1>1, <2>1, <2>2, <3>1
      <4> QED  BY <1>1, <3>1, <4>1 DEF Levels
    <3>2. CASE k # place + 1
      BY <1>1, <2>1, <2>2, <3>2 DEF Levels
    <3> QED  BY <3>1, <3>2
  <2>6. IsLadder(side, next)
    BY <2>4, <2>5 DEF IsLadder, SortedOn
  <2>7. DOMAIN f = {next[k].price : k \in 1 .. Len(next)}
    BY <1>2, <1>4, <2>1, <2>4, <2>5
  <2>8. ASSUME NEW k \in 1 .. Len(next) PROVE f[next[k].price] = next[k].quantity
    <3>1. CASE k = place + 1
      BY <1>2, <1>3, <2>1, <2>4, <2>5, <3>1
    <3>2. CASE k # place + 1
      <4>1. ladder[k].price # price
        BY <2>1, <2>4, <3>2, OneLevel
      <4>2. next[k].quantity = ladder[k].quantity
        BY <1>1, <2>4, <2>5, <3>2 DEF Levels
      <4> QED  BY <1>2, <1>3, <2>4, <2>5, <4>1, <4>2
    <3> QED  BY <3>1, <3>2
  <2>9. LevelMap(next) = f
    <3>1. IsMapOf(f, next)
        BY <1>4, <2>6, <2>7, <2>8 DEF IsMapOf
    <3> QED  BY <3>1, LevelMapIs, <2>6
  <2> QED  BY <2>6, <2>9 DEF f, m
<1>6. CASE ~IsHeld(ladder, price)
  <2> DEFINE e == Level(price, qty)
  <2>1. e \in Levels /\ e.price = price /\ e.quantity = qty
    BY DEF Level, Levels
  <2> HIDE DEF e
  <2>2. place + 1 \in 1 .. Len(ladder) + 1 /\ next = InsertAt(ladder, place + 1, e)
    BY <1>1, <1>6 DEF e
  <2>3. /\ next \in Seq(Levels) /\ Len(next) = Len(ladder) + 1
        /\ \A j \in 1 .. Len(ladder) + 1 :
             next[j] = IF j < place + 1 THEN ladder[j]
                       ELSE IF j = place + 1 THEN e ELSE ladder[j - 1]
    <3> DEFINE pos == place + 1
    <3>1. pos \in 1 .. Len(ladder) + 1 /\ pos = place + 1 /\ next = InsertAt(ladder, pos, e)
      BY <2>2
    <3> HIDE DEF pos
    <3>2. /\ next \in Seq(Levels) /\ Len(next) = Len(ladder) + 1
          /\ \A j \in 1 .. pos - 1 : next[j] = ladder[j]
          /\ next[pos] = e
          /\ \A j \in pos + 1 .. Len(ladder) + 1 : next[j] = ladder[j - 1]
      BY <1>1, <2>1, <3>1, InsertAtIs
    <3>3. ASSUME NEW j \in 1 .. Len(ladder) + 1
          PROVE  next[j] = IF j < place + 1 THEN ladder[j]
                           ELSE IF j = place + 1 THEN e ELSE ladder[j - 1]
      <4>0. pos \in Int /\ j \in Int
        BY <1>1, <3>1
      <4>1. ASSUME j < pos PROVE next[j] = ladder[j]
        <5>1. j \in 1 .. pos - 1
          BY <4>0, <4>1
        <5> QED  BY <3>2, <5>1
      <4>2. ASSUME j > pos PROVE next[j] = ladder[j - 1]
        <5>1. j \in pos + 1 .. Len(ladder) + 1
          BY <1>1, <4>0, <4>2
        <5> QED  BY <3>2, <5>1
      <4> QED  BY <1>1, <3>1, <3>2, <4>1, <4>2
    <3> QED  BY <3>2, <3>3
  <2>4. \A k \in 1 .. Len(ladder) : k < place + 1 => Before(side, ladder[k].price, price)
    BY <1>1 DEF IsPlace
  <2>5. \A k \in 1 .. Len(ladder) : k > place => Before(side, price, ladder[k].price)
    BY <1>6, PointsBetween
  <2>6. SortedOn(side, next)
    <3> SUFFICES ASSUME NEW a \in 1 .. Len(ladder) + 1, NEW b \in 1 .. Len(ladder) + 1, a < b
                 PROVE  Before(side, next[a].price, next[b].price)
      BY <2>3 DEF SortedOn
    <3>1. SortedOn(side, ladder)
      BY DEF IsLadder
    <3>2. CASE b < place + 1
      <4>1. next[a] = ladder[a] /\ next[b] = ladder[b]
            /\ a \in 1 .. Len(ladder) /\ b \in 1 .. Len(ladder)
        BY <1>1, <2>3, <3>2
      <4> QED  BY <3>1, <4>1 DEF SortedOn
    <3>3. CASE b = place + 1
      <4>1. next[a] = ladder[a] /\ next[b] = e /\ a \in 1 .. Len(ladder) /\ a < place + 1
        BY <1>1, <2>3, <3>3
      <4> QED  BY <2>1, <2>4, <4>1
    <3>4. CASE a = place + 1
      <4>1. /\ next[a] = e /\ next[b] = ladder[b - 1]
            /\ b - 1 \in 1 .. Len(ladder) /\ b - 1 > place
        BY <1>1, <2>3, <3>4
      <4> QED  BY <2>1, <2>5, <4>1
    <3>5. CASE a < place + 1 /\ b > place + 1
      <4>1. /\ next[a] = ladder[a] /\ next[b] = ladder[b - 1]
            /\ a \in 1 .. Len(ladder) /\ b - 1 \in 1 .. Len(ladder) /\ a < b - 1
        BY <1>1, <2>3, <3>5
      <4> QED  BY <3>1, <4>1 DEF SortedOn
    <3>6. CASE a > place + 1
      <4>1. /\ next[a] = ladder[a - 1] /\ next[b] = ladder[b - 1]
            /\ a - 1 \in 1 .. Len(ladder) /\ b - 1 \in 1 .. Len(ladder) /\ a - 1 < b - 1
        BY <1>1, <2>3, <3>6
      <4> QED  BY <3>1, <4>1 DEF SortedOn
    <3> QED  BY <1>1, <3>2, <3>3, <3>4, <3>5, <3>6
  <2>7. IsLadder(side, next)
    BY <2>3, <2>6 DEF IsLadder
  <2>8. price \notin DOMAIN m
    BY <1>2, <1>6 DEF IsHeld
  <2>9. ASSUME NEW j \in 1 .. Len(next)
        PROVE  f[next[j].price] = next[j].quantity /\ next[j].price \in DOMAIN f
    <3>1. CASE j = place + 1
      BY <1>3, <2>1, <2>3, <2>8, <3>1
    <3>2. CASE j # place + 1
      <4>1. PICK k \in 1 .. Len(ladder) : next[j] = ladder[k]
        <5>1. CASE j < place + 1
          BY <1>1, <2>3, <5>1
        <5>2. CASE j > place + 1
          <6>1. j - 1 \in 1 .. Len(ladder) /\ next[j] = ladder[j - 1]
            BY <1>1, <2>3, <5>2
          <6> QED  BY <6>1
        <5> QED  BY <1>1, <2>3, <3>2, <5>1, <5>2
      <4>2. ladder[k].price \in DOMAIN m /\ m[ladder[k].price] = ladder[k].quantity
        BY <1>2
      <4>3. ladder[k].price # price
        BY <2>8, <4>2
      <4>4. f[ladder[k].price] = m[ladder[k].price] /\ ladder[k].price \in DOMAIN f
        BY <1>3, <4>2, <4>3
      <4> QED  BY <4>1, <4>2, <4>4
    <3> QED  BY <3>1, <3>2
  <2>10. ASSUME NEW p \in DOMAIN f PROVE \E j \in 1 .. Len(next) : next[j].price = p
    <3>1. CASE p = price
      <4>1. place + 1 \in 1 .. Len(next) /\ next[place + 1].price = p
        BY <1>1, <2>1, <2>2, <2>3, <3>1
      <4> QED  BY <4>1
    <3>2. CASE p # price
      <4>1. PICK k \in 1 .. Len(ladder) : ladder[k].price = p
        BY <1>2, <1>4, <3>2
      <4>2. CASE k < place + 1
        <5>1. k \in 1 .. Len(next) /\ next[k] = ladder[k]
          BY <1>1, <2>3, <4>2
        <5> QED  BY <4>1, <5>1
      <4>3. CASE k >= place + 1
        <5>1. k + 1 \in 1 .. Len(next) /\ next[k + 1] = ladder[k]
          BY <1>1, <2>3, <4>3
        <5> QED  BY <4>1, <5>1
      <4> QED  BY <1>1, <4>2, <4>3
    <3> QED  BY <3>1, <3>2
  <2>11. DOMAIN f = {next[k].price : k \in 1 .. Len(next)}
    BY <2>9, <2>10
  <2>12. LevelMap(next) = f
    <3>1. IsMapOf(f, next)
        BY <1>4, <2>7, <2>9, <2>11 DEF IsMapOf
    <3> QED  BY <3>1, LevelMapIs, <2>7
  <2> QED  BY <2>7, <2>12 DEF f, m
<1> QED  BY <1>5, <1>6

TakenFrom(ladder, price, place, amount) ==
  IF IsHeld(ladder, price)
    THEN LET left == ladder[place + 1].quantity - amount
         IN  IF left <= 0
               THEN RemoveAt(ladder, place + 1)
               ELSE [ladder EXCEPT ![place + 1].quantity = left]
    ELSE ladder

(* The ladder a cancel or a reduce has taken an amount from. *)
LEMMA LadderLoses ==
  ASSUME NEW side \in Side, NEW ladder, IsLadder(side, ladder), NEW price \in Prices,
         NEW amount \in Nat,
         NEW place \in 0 .. Len(ladder), IsPlace(side, ladder, price, place), NEW next,
         next = TakenFrom(ladder, price, place, amount)
  PROVE  /\ IsLadder(side, next)
         /\ LevelMap(next) = Map!SubLevel(LevelMap(ladder), price, amount)
<1> USE DEF TakenFrom
<1> DEFINE m == LevelMap(ladder)
           f == Map!SubLevel(m, price, amount)
           left == ladder[place + 1].quantity - amount
<1>1. /\ Len(ladder) \in Nat /\ ladder \in Seq(Levels)
      /\ \A k \in 1 .. Len(ladder) : ladder[k] \in Levels
  BY ElementOfSeq DEF IsLadder
<1>2. /\ m = [p \in DOMAIN m |-> m[p]]
      /\ DOMAIN m = {ladder[k].price : k \in 1 .. Len(ladder)}
      /\ \A k \in 1 .. Len(ladder) : m[ladder[k].price] = ladder[k].quantity
  BY LevelMapAt
<1> HIDE DEF m
<1>3. CASE ~IsHeld(ladder, price)
  <2>1. price \notin DOMAIN m
    BY <1>2, <1>3 DEF IsHeld
  <2>2. f = m
    BY <2>1 DEF Map!SubLevel
  <2> QED  BY <1>3, <2>2 DEF m
<1>4. CASE IsHeld(ladder, price)
  <2>1. place + 1 \in 1 .. Len(ladder) /\ ladder[place + 1].price = price
    BY <1>4, PointsAtLevel
  <2>2. price \in DOMAIN m /\ m[price] = ladder[place + 1].quantity
    BY <1>2, <2>1
  <2>3. \A k \in 1 .. Len(ladder) : k # place + 1 => ladder[k].price # price
    BY <2>1, OneLevel
  <2>4. CASE left <= 0
    <3>1. next = RemoveAt(ladder, place + 1)
      BY <1>4, <2>4
    <3>2. /\ next \in Seq(Levels) /\ Len(next) = Len(ladder) - 1
          /\ \A j \in 1 .. Len(ladder) - 1 :
               next[j] = IF j < place + 1 THEN ladder[j] ELSE ladder[j + 1]
      BY <1>1, <2>1, <3>1, RemoveAtIs
    <3>3. f = [p \in DOMAIN m \ {price} |-> m[p]]
      BY <2>2, <2>4 DEF Map!SubLevel, Map!Without, Map!Restrict
    <3> HIDE DEF f
    <3>4. SortedOn(side, next)
      <4> SUFFICES ASSUME NEW a \in 1 .. Len(ladder) - 1, NEW b \in 1 .. Len(ladder) - 1, a < b
                   PROVE  Before(side, next[a].price, next[b].price)
        BY <3>2 DEF SortedOn
      <4>1. \E c, d \in 1 .. Len(ladder) : next[a] = ladder[c] /\ next[b] = ladder[d] /\ c < d
        <5> DEFINE c == IF a < place + 1 THEN a ELSE a + 1
                   d == IF b < place + 1 THEN b ELSE b + 1
        <5>1. c \in 1 .. Len(ladder) /\ d \in 1 .. Len(ladder) /\ c < d
          BY <1>1
        <5>2. next[a] = ladder[c] /\ next[b] = ladder[d]
          BY <3>2
        <5> HIDE DEF c, d
        <5> QED  BY <5>1, <5>2
      <4> QED  BY <4>1 DEF IsLadder, SortedOn
    <3>5. IsLadder(side, next)
      BY <3>2, <3>4 DEF IsLadder
    <3>6. ASSUME NEW j \in 1 .. Len(next)
          PROVE  f[next[j].price] = next[j].quantity /\ next[j].price \in DOMAIN f
      <4>1. PICK k \in 1 .. Len(ladder) : next[j] = ladder[k] /\ k # place + 1
        <5>1. CASE j < place + 1
          BY <1>1, <3>2, <5>1
        <5>2. CASE ~(j < place + 1)
          <6>1. j + 1 \in 1 .. Len(ladder) /\ j + 1 # place + 1
            BY <1>1, <3>2, <5>2
          <6>2. next[j] = ladder[j + 1]
            BY <1>1, <3>2, <5>2
          <6> QED  BY <6>1, <6>2
        <5> QED  BY <5>1, <5>2
      <4>2. ladder[k].price \in DOMAIN m \ {price}
        BY <1>2, <2>3, <4>1
      <4>3. f[ladder[k].price] = m[ladder[k].price] /\ ladder[k].price \in DOMAIN f
        BY <3>3, <4>2
      <4> QED  BY <1>2, <4>1, <4>3
    <3>7. ASSUME NEW p \in DOMAIN f PROVE \E j \in 1 .. Len(next) : next[j].price = p
      <4>1. PICK k \in 1 .. Len(ladder) : ladder[k].price = p /\ k # place + 1
        BY <1>2, <2>1, <3>3
      <4>2. CASE k < place + 1
        <5>1. k \in 1 .. Len(next) /\ next[k] = ladder[k]
          BY <1>1, <2>1, <3>2, <4>2
        <5> QED  BY <4>1, <5>1
      <4>3. CASE k > place + 1
        <5>1. k - 1 \in 1 .. Len(next) /\ next[k - 1] = ladder[k]
          BY <1>1, <2>1, <3>2, <4>3
        <5> QED  BY <4>1, <5>1
      <4> QED  BY <1>1, <4>1, <4>2, <4>3
    <3>8. DOMAIN f = {next[k].price : k \in 1 .. Len(next)}
      BY <3>6, <3>7
    <3>10. f = [p \in DOMAIN f |-> f[p]]
      BY <3>3
    <3>9. LevelMap(next) = f
      <4>1. IsMapOf(f, next)
          BY <3>5, <3>6, <3>8, <3>10 DEF IsMapOf
      <4> QED  BY <4>1, LevelMapIs, <3>5
    <3> QED  BY <3>5, <3>9 DEF f, m
  <2>5. CASE ~(left <= 0)
    <3>1. next = [ladder EXCEPT ![place + 1] = [ladder[place + 1] EXCEPT !.quantity = left]]
      BY <1>4, <2>5
    <3>2. left \in Nat
      BY <1>1, <2>1, <2>5 DEF Levels
    <3>3. [ladder[place + 1] EXCEPT !.quantity = left] \in Levels
      BY <1>1, <2>1, <3>2 DEF Levels
    <3>4. next \in Seq(Levels) /\ Len(next) = Len(ladder)
      BY <1>1, <2>1, <3>1, <3>3, ExceptSeq
    <3>5. f = [m EXCEPT ![price] = left]
      BY <2>2, <2>5 DEF Map!SubLevel
    <3> HIDE DEF left
    <3>6. ASSUME NEW k \in 1 .. Len(ladder)
          PROVE  /\ next[k].price = ladder[k].price
                 /\ next[k].quantity = IF k = place + 1 THEN left ELSE ladder[k].quantity
      <4>1. CASE k = place + 1
        <5>1. next[k] = [ladder[k] EXCEPT !.quantity = left]
          BY <1>1, <2>1, <3>1, <4>1
        <5> QED  BY <1>1, <4>1, <5>1 DEF Levels
      <4>2. CASE k # place + 1
        BY <1>1, <2>1, <3>1, <4>2 DEF Levels
      <4> QED  BY <4>1, <4>2
    <3> HIDE DEF f
    <3>7. IsLadder(side, next)
      BY <3>4, <3>6 DEF IsLadder, SortedOn
    <3>8. DOMAIN f = {next[k].price : k \in 1 .. Len(next)}
      BY <1>2, <3>4, <3>5, <3>6
    <3>11. f = [p \in DOMAIN f |-> f[p]]
      BY <1>2, <3>5
    <3>9. ASSUME NEW k \in 1 .. Len(next) PROVE f[next[k].price] = next[k].quantity
      <4>1. CASE k = place + 1
        BY <2>1, <2>2, <3>4, <3>5, <3>6, <4>1
      <4>2. CASE k # place + 1
        BY <1>2, <2>2, <2>3, <3>4, <3>5, <3>6, <4>2
      <4> QED  BY <4>1, <4>2
    <3>10. LevelMap(next) = f
      <4>1. IsMapOf(f, next)
          BY <3>7, <3>8, <3>9, <3>11 DEF IsMapOf
      <4> QED  BY <4>1, LevelMapIs, <3>7
    <3> QED  BY <3>7, <3>10 DEF f, m
  <2> QED  BY <2>4, <2>5
<1> QED  BY <1>3, <1>4

-----------------------------------------------------------------------------
(***************************************************************************)
(* The inductive invariant: the index is a table with its records and room *)
(* left, the ladders are sorted, the call that runs is about the order the *)
(* index holds, and its search has ruled out what it has passed.           *)
(***************************************************************************)
CallIsOne ==
  /\ pc \in {"idle", "scan", "bound", "halve", "located"}
  /\ pc = "idle" => call = NoCall /\ i = 0 /\ n = 0 /\ at = Nowhere
  /\ pc # "idle" =>
       /\ call.op \in {"add", "cancel", "reduce", "read"}
       /\ call.side \in Side /\ call.price \in Prices
       /\ call.op = "add" => call.qty \in Nat
       /\ call.op \in {"cancel", "reduce"} =>
            /\ call.id \in Ids /\ FindIn(slots, call.id)
            /\ call.side = orders[call.id].side
            /\ call.price = orders[call.id].price
       /\ call.op = "cancel" => call.qty = orders[call.id].remaining
       /\ call.op = "reduce" => call.qty \in Sizes

ScanIsOn ==
  /\ i \in -1 .. Len(Run) - 1
  /\ \A k \in 1 .. Len(Run) :
       k > i + 1 => Before(call.side, call.price, Run[k].price)

HalvingIsOn ==
  /\ n >= 1 /\ i >= 0 /\ i + n <= Len(Run)
  /\ \A k \in 1 .. Len(Run) :
       /\ k <= i => Before(call.side, Run[k].price, call.price)
       /\ k > i + n => ~Before(call.side, Run[k].price, call.price)

IsLocated ==
  /\ at.found <=> IsHeld(Run, call.price)
  /\ IsPlace(call.side, Run, call.price, at.index)

SearchIsOn ==
  /\ i \in -1 .. Len(Run) /\ n \in 0 .. Len(Run)
  /\ at \in [found : BOOLEAN, index : 0 .. Len(Run)]
  /\ pc = "scan" => ScanIsOn
  /\ pc = "halve" => HalvingIsOn
  /\ pc = "located" => IsLocated

HoldsOrders ==
  /\ IsIndex(slots, orders, MaxHeld)
  /\ HasRecords(orders, Prices)

HasLadders == \A side \in Side : IsLadder(side, Ladder(side))

IInv == search \in Searches /\ HoldsOrders /\ HasLadders /\ CallIsOne /\ SearchIsOn

(* The ladder of the call that runs is one of the two. *)
LEMMA RunIsLadder ==
  ASSUME IInv
  PROVE  /\ call.side \in Side /\ IsLadder(call.side, Run) /\ Len(Run) \in Nat
         /\ \A k \in 1 .. Len(Run) : Run[k] \in Levels /\ Run[k].price \in Prices
<1>1. call.side \in Side
  BY DEF IInv, CallIsOne, NoCall, Side
<1>2. IsLadder(call.side, Run)
  BY <1>1 DEF IInv, HasLadders, Run
<1>3. \A k \in 1 .. Len(Run) : Run[k] \in Levels
  BY <1>2, ElementOfSeq DEF IsLadder
<1>4. \A k \in 1 .. Len(Run) : Run[k].price \in Prices
  BY <1>3 DEF Levels
<1> QED  BY <1>1, <1>2, <1>3, <1>4 DEF IsLadder

(* The invariant implies the types, ... *)
LEMMA IInvIsTyped == IInv /\ turns \in Nat => TypeOK
<1> SUFFICES ASSUME IInv, turns \in Nat PROVE TypeOK
  OBVIOUS
<1>1. \A side \in Side : Ladder(side) \in Seq([price : Prices, quantity : Nat])
  BY DEF IInv, HasLadders, IsLadder, Levels
<1>2. pc = "idle" <=> call = NoCall
  BY DEF IInv, CallIsOne, NoCall
<1>3. DOMAIN orders = StoredIn(slots)
  BY DEF IInv, HoldsOrders, IsIndex
<1>4. pc \in {"idle", "scan", "bound", "halve", "located"}
  BY DEF IInv, CallIsOne
<1>5. /\ i \in -1 .. Len(Run) /\ n \in 0 .. Len(Run)
      /\ at \in [found : BOOLEAN, index : 0 .. Len(Run)]
  BY DEF IInv, SearchIsOn
<1>6. search \in Searches
  BY DEF IInv
<1> QED  BY <1>1, <1>2, <1>3, <1>4, <1>5, <1>6, RunIsLadder DEF TypeOK

(* ... and what the run checks of the ladders and of the searches. *)
LEMMA IInvImplies == IInv => Sorted /\ SearchInBounds /\ LocateIsExact
<1> SUFFICES ASSUME IInv PROVE Sorted /\ SearchInBounds /\ LocateIsExact
  OBVIOUS
<1>1. Sorted
  BY DEF IInv, HasLadders, IsLadder, SortedOn, Sorted
<1>2. SearchInBounds
  BY DEF IInv, SearchIsOn, ScanIsOn, HalvingIsOn, SearchInBounds
<1>3. LocateIsExact
  BY DEF IInv, SearchIsOn, IsLocated, IsHeld, IsPlace, LocateIsExact
<1> QED  BY <1>1, <1>2, <1>3

(* It holds of an empty book. *)
LEMMA InitIInv == Init => IInv
<1> SUFFICES ASSUME Init PROVE IInv
  OBVIOUS
<1>1. HoldsOrders
  BY IndexStarts, HeldAssumption DEF Init, HoldsOrders
<1>2. ASSUME NEW side \in Side
      PROVE  Ladder(side) = << >> /\ IsLadder(side, Ladder(side)) /\ Len(Ladder(side)) = 0
  BY DEF Init, Ladder, IsLadder, SortedOn
<1>3. CallIsOne
  BY DEF Init, CallIsOne
<1>4. SearchIsOn
  <2>1. Len(Run) = 0
    BY <1>2 DEF Init, NoCall, Run, Side
  <2> QED  BY <2>1 DEF Init, SearchIsOn, Nowhere, Located
<1> QED  BY <1>1, <1>2, <1>3, <1>4 DEF Init, IInv, HasLadders

-----------------------------------------------------------------------------
(***************************************************************************)
(* A call enters its search with nothing ruled out.                        *)
(***************************************************************************)
LEMMA EnterStarts ==
  ASSUME IInv, NEW op, NEW x, NEW side \in Side, NEW price \in Prices, NEW qty,
         Enter(op, x, side, price, qty)
  PROVE  HasLadders' /\ SearchIsOn' /\ search' \in Searches
<1>1. call'.side = side /\ call'.price = price
  BY DEF Enter
<1>2. \A s : Ladder(s)' = Ladder(s)
  BY DEF Enter, levels, Ladder
<1>3. Run' = Ladder(side)
  BY <1>1 DEF Enter, levels, Ladder, Run
<1>4. HasLadders'
  BY <1>2 DEF IInv, HasLadders
<1>5. Len(Ladder(side)) \in Nat /\ Ladder(side) \in Seq(Levels)
  BY DEF IInv, HasLadders, IsLadder
<1>6. i = 0 /\ n = 0 /\ at = [found |-> FALSE, index |-> 0]
  BY DEF IInv, CallIsOne, Enter, Nowhere, Located
<1>7. SearchIsOn'
  <2> DEFINE L == Ladder(side)
  <2>1. CASE pc' = "scan"
    <3>1. i' = Len(L) - 1 /\ n' = 0 /\ at' = at
      BY <1>6, <2>1 DEF Enter
    <3>2. ScanIsOn'
      BY <1>3, <1>5, <3>1 DEF ScanIsOn
    <3> QED  BY <1>3, <1>5, <1>6, <2>1, <3>1, <3>2 DEF SearchIsOn
  <2>2. CASE pc' = "bound"
    <3>1. i' = 0 /\ n' = 0 /\ at' = at
      BY <1>6, <2>2 DEF Enter
    <3> QED  BY <1>3, <1>5, <1>6, <2>2, <3>1 DEF SearchIsOn
  <2>3. CASE pc' = "halve"
    <3>1. i' = 0 /\ n' = Len(L) /\ at' = at /\ L # << >>
      BY <1>6, <2>3 DEF Enter
    <3>2. Len(L) >= 1
      BY <1>5, <3>1
    <3>3. HalvingIsOn'
      BY <1>3, <1>5, <3>1, <3>2 DEF HalvingIsOn
    <3> QED  BY <1>3, <1>5, <1>6, <2>3, <3>1, <3>3 DEF SearchIsOn
  <2>4. CASE pc' = "located"
    <3>1. i' = 0 /\ n' = 0 /\ at' = [found |-> FALSE, index |-> 0] /\ L = << >>
      BY <1>6, <2>4 DEF Enter, Located
    <3>2. Len(L) = 0
      BY <3>1
    <3>3. IsLocated'
      BY <1>3, <3>1, <3>2 DEF IsLocated, IsHeld, IsPlace
    <3> QED  BY <1>3, <1>5, <2>4, <3>1, <3>3 DEF SearchIsOn
  <2>5. pc' \in {"scan", "bound", "halve", "located"}
    BY DEF Enter
  <2> QED  BY <2>1, <2>2, <2>3, <2>4, <2>5
<1> QED  BY <1>4, <1>7 DEF IInv, Enter

(* The start of an add, which has given the index its order already. *)
LEMMA CallAddKeeps ==
  ASSUME IInv, NEW x \in Ids, NEW side \in Side, NEW price \in Prices,
         NEW qty \in Sizes, CallAdd(x, side, price, qty)
  PROVE  IInv'
<1>1. qty \in Nat
  BY SizesAssumption
<1>2. Enter("add", x, side, price, qty)
  BY DEF CallAdd
<1>3. HoldsOrders'
  <2>1. IsIndex(slots', orders', MaxHeld)
    BY IndexAdds DEF IInv, HoldsOrders, CallAdd
  <2>2. HasRecords(With(orders, x, Order(side, price, qty)), Prices)
    BY <1>1, RecordsStay DEF IInv, HoldsOrders
  <2> QED  BY <2>1, <2>2 DEF HoldsOrders, CallAdd
<1>4. CallIsOne'
  <2>1. pc' \in {"scan", "bound", "halve", "located"}
    BY <1>2 DEF Enter
  <2>2. /\ call'.op = "add" /\ call'.side = side /\ call'.price = price /\ call'.qty = qty
    BY <1>2 DEF Enter
  <2> QED  BY <1>1, <2>1, <2>2 DEF CallIsOne
<1> QED  BY <1>2, <1>3, <1>4, EnterStarts DEF IInv

(* The start of a cancel or a reduce of an order the index finds. *)
LEMMA CallFoundKeeps ==
  ASSUME IInv, NEW x \in Ids, FindIn(slots, x), NEW op, NEW qty,
         Enter(op, x, orders[x].side, orders[x].price, qty), UNCHANGED index,
         \/ op = "cancel" /\ qty = orders[x].remaining
         \/ op = "reduce" /\ qty \in Sizes
  PROVE  IInv'
<1>1. x \in DOMAIN orders
  BY IndexFinds DEF IInv, HoldsOrders
<1>2. orders[x].side \in Side /\ orders[x].price \in Prices
  BY <1>1 DEF IInv, HoldsOrders, HasRecords
<1>3. HoldsOrders'
  BY DEF IInv, HoldsOrders, index
<1>4. CallIsOne'
  <2>1. pc' \in {"scan", "bound", "halve", "located"}
    BY DEF Enter
  <2>2. /\ call'.op = op /\ call'.id = x /\ call'.qty = qty
        /\ call'.side = orders[x].side /\ call'.price = orders[x].price
    BY DEF Enter
  <2>3. slots' = slots /\ orders' = orders
    BY DEF index
  <2> QED  BY <1>2, <2>1, <2>2, <2>3 DEF CallIsOne
<1> QED  BY <1>2, <1>3, <1>4, EnterStarts DEF IInv

(* The start of a quantity_at. *)
LEMMA CallReadKeeps ==
  ASSUME IInv, NEW side \in Side, NEW price \in Prices, CallQuantityAt(side, price)
  PROVE  IInv'
<1>1. Enter("read", kEmpty, side, price, 0)
  BY DEF CallQuantityAt
<1>2. HoldsOrders'
  BY DEF IInv, HoldsOrders, CallQuantityAt, index
<1>3. CallIsOne'
  <2>1. pc' \in {"scan", "bound", "halve", "located"}
    BY <1>1 DEF Enter
  <2>2. call'.op = "read" /\ call'.side = side /\ call'.price = price
    BY <1>1 DEF Enter
  <2> QED  BY <2>1, <2>2 DEF CallIsOne
<1> QED  BY <1>1, <1>2, <1>3, EnterStarts DEF IInv

-----------------------------------------------------------------------------
(***************************************************************************)
(* The searches.                                                           *)
(***************************************************************************)

(* A search step that leaves the ladders keeps all but what it says.       *)
LEMMA SearchKeeps ==
  ASSUME IInv, Unmoved, pc # "idle", pc' \in {"scan", "bound", "halve", "located"},
         SearchIsOn'
  PROVE  IInv'
<1>1. HoldsOrders' /\ HasLadders' /\ search' \in Searches
  BY DEF IInv, HoldsOrders, HasLadders, Unmoved, index, levels, Ladder
<1>2. CallIsOne'
  BY DEF IInv, CallIsOne, Unmoved, index
<1> QED  BY <1>1, <1>2 DEF IInv

(* A search changes neither the ladders nor the call. *)
LEMMA RunStays == Unmoved => Run' = Run /\ call' = call
BY DEF Unmoved, levels, Run, Ladder

(* The place a search ends at tells whether the level is there.            *)
LEMMA FoundIsHeld ==
  ASSUME IInv, pc # "idle", NEW k \in 0 .. Len(Run),
         IsPlace(call.side, Run, call.price, k)
  PROVE  (k < Len(Run) /\ Price(k) = call.price) <=> IsHeld(Run, call.price)
<1>1. call.price \in Prices
  BY DEF IInv, CallIsOne
<1>2. ASSUME IsHeld(Run, call.price) PROVE k < Len(Run) /\ Price(k) = call.price
  <2>1. k + 1 \in 1 .. Len(Run) /\ Run[k + 1].price = call.price
    BY <1>1, <1>2, RunIsLadder, PointsAtLevel
  <2> QED  BY <2>1, RunIsLadder DEF Price
<1>3. ASSUME k < Len(Run), Price(k) = call.price PROVE IsHeld(Run, call.price)
  <2>1. k + 1 \in 1 .. Len(Run)
    BY <1>3, RunIsLadder
  <2> QED  BY <1>3, <2>1 DEF Price, IsHeld
<1> QED  BY <1>2, <1>3

(* A search that ends at the place of the price has located it. *)
LEMMA EndKeeps ==
  ASSUME IInv, Unmoved, pc # "idle", NEW k \in 0 .. Len(Run), Found(k),
         UNCHANGED <<i, n>>, IsPlace(call.side, Run, call.price, k)
  PROVE  IInv'
<1>1. Run' = Run /\ call' = call
  BY RunStays
<1>2. at' = [found |-> k < Len(Run) /\ Price(k) = call.price, index |-> k]
  BY DEF Found, Located
<1>3. at'.found <=> IsHeld(Run, call.price)
  BY <1>2, FoundIsHeld
<1>4. at' \in [found : BOOLEAN, index : 0 .. Len(Run)]
  BY <1>2
<1>5. IsLocated'
  BY <1>1, <1>2, <1>3 DEF IsLocated
<1>6. pc' = "located"
  BY DEF Found
<1>7. SearchIsOn'
  BY <1>1, <1>4, <1>5, <1>6 DEF IInv, SearchIsOn
<1> QED  BY <1>6, <1>7, SearchKeeps

(* The scan passes a level that lies behind the price, as do all it        *)
(* passed.                                                                 *)
LEMMA ScanStepKeeps == IInv /\ ScanStep => IInv'
<1> SUFFICES ASSUME IInv, ScanStep PROVE IInv'
  OBVIOUS
<1>1. Unmoved /\ pc = "scan" /\ pc' = "scan" /\ i' = i - 1 /\ n' = n /\ at' = at /\ i >= 0
  BY DEF ScanStep, Turn
<1>2. Run' = Run /\ call' = call
  BY <1>1, RunStays
<1>3. ScanIsOn /\ i \in -1 .. Len(Run) /\ Len(Run) \in Nat
  BY <1>1, RunIsLadder DEF IInv, SearchIsOn
<1>4. Before(call.side, call.price, Run[i + 1].price)
  BY DEF ScanStep, Price
<1>5. ScanIsOn'
  <2>1. i' \in -1 .. Len(Run') - 1
    BY <1>1, <1>2, <1>3 DEF ScanIsOn
  <2>2. ASSUME NEW k \in 1 .. Len(Run'), k > i' + 1
        PROVE  Before(call'.side, call'.price, Run'[k].price)
    <3>1. k = i + 1 \/ k > i + 1
      BY <1>1, <1>2, <1>3, <2>2
    <3> QED  BY <1>2, <1>3, <1>4, <3>1 DEF ScanIsOn
  <2> QED  BY <2>1, <2>2 DEF ScanIsOn
<1>6. SearchIsOn'
  BY <1>1, <1>2, <1>3, <1>5 DEF IInv, SearchIsOn
<1> QED  BY <1>1, <1>6, SearchKeeps

(* It stops at the level or right behind the place of a new one. *)
LEMMA ScanStopKeeps == IInv /\ ScanStop => IInv'
<1> SUFFICES ASSUME IInv, ScanStop PROVE IInv'
  OBVIOUS
<1>1. Unmoved /\ pc = "scan" /\ pc' = "located" /\ i' = i /\ n' = n
  BY DEF ScanStop, End
<1>2. Run' = Run /\ call' = call
  BY <1>1, RunStays
<1>3. ScanIsOn /\ Len(Run) \in Nat /\ i \in -1 .. Len(Run) - 1
  BY <1>1, RunIsLadder DEF IInv, SearchIsOn, ScanIsOn
<1>4. call.side \in Side /\ call.price \in Prices /\ IsLadder(call.side, Run)
  BY <1>1, RunIsLadder DEF IInv, CallIsOne
<1>5. ASSUME NEW k \in 1 .. Len(Run), k > i + 1
      PROVE  ~Before(call.side, Run[k].price, call.price) /\ Run[k].price # call.price
  <2>1. Before(call.side, call.price, Run[k].price)
    BY <1>3, <1>5 DEF ScanIsOn
  <2> QED  BY <1>4, <2>1, RunIsLadder, BeforeOrders
<1>6. CASE i >= 0 /\ Price(i) = call.price
  <2>1. at' = [found |-> TRUE, index |-> i] /\ i + 1 \in 1 .. Len(Run)
        /\ Run[i + 1].price = call.price
    BY <1>3, <1>6 DEF ScanStop, Located, Price
  <2>2. IsHeld(Run, call.price)
    BY <2>1 DEF IsHeld
  <2>3. IsPlace(call.side, Run, call.price, i)
    <3> SUFFICES ASSUME NEW k \in 1 .. Len(Run)
                 PROVE  k <= i <=> Before(call.side, Run[k].price, call.price)
      BY DEF IsPlace
    <3>1. CASE k <= i
      BY <1>3, <1>4, <2>1, <3>1 DEF IsLadder, SortedOn
    <3>2. CASE k = i + 1
      BY <1>3, <1>4, <2>1, <3>2, BeforeOrders
    <3>3. CASE k > i + 1
      BY <1>3, <1>5, <3>3
    <3> QED  BY <1>3, <3>1, <3>2, <3>3
  <2>4. IsLocated' /\ at' \in [found : BOOLEAN, index : 0 .. Len(Run)]
    BY <1>2, <1>3, <1>6, <2>1, <2>2, <2>3 DEF IsLocated
  <2>5. SearchIsOn'
    BY <1>1, <1>2, <2>4 DEF IInv, SearchIsOn
  <2> QED  BY <1>1, <2>5, SearchKeeps
<1>7. CASE ~(i >= 0 /\ Price(i) = call.price)
  <2>1. at' = [found |-> FALSE, index |-> i + 1]
    BY <1>7 DEF ScanStop, Located
  <2>2. ASSUME NEW k \in 1 .. Len(Run), k <= i + 1
        PROVE  Before(call.side, Run[k].price, call.price) /\ Run[k].price # call.price
    <3>1. i >= 0 /\ i + 1 \in 1 .. Len(Run)
      BY <1>3, <2>2
    <3>2. Run[i + 1].price # call.price /\ ~Before(call.side, call.price, Run[i + 1].price)
      BY <1>7, <3>1 DEF ScanStop, Price
    <3>3. Before(call.side, Run[i + 1].price, call.price)
      BY <1>4, <3>1, <3>2, RunIsLadder, BeforeOrders
    <3>4. k = i + 1 \/ Before(call.side, Run[k].price, Run[i + 1].price)
      BY <1>3, <1>4, <2>2, <3>1 DEF IsLadder, SortedOn
    <3> QED  BY <1>4, <3>1, <3>2, <3>3, <3>4, RunIsLadder, BeforeOrders
  <2>3. ~IsHeld(Run, call.price)
    <3> SUFFICES ASSUME NEW k \in 1 .. Len(Run) PROVE Run[k].price # call.price
      BY DEF IsHeld
    <3> QED  BY <1>3, <1>5, <2>2
  <2>4. IsPlace(call.side, Run, call.price, i + 1)
    BY <1>3, <1>5, <2>2 DEF IsPlace
  <2>5. IsLocated' /\ at' \in [found : BOOLEAN, index : 0 .. Len(Run)]
    BY <1>2, <1>3, <2>1, <2>3, <2>4 DEF IsLocated
  <2>6. SearchIsOn'
    BY <1>1, <1>2, <2>5 DEF IInv, SearchIsOn
  <2> QED  BY <1>1, <2>6, SearchKeeps
<1> QED  BY <1>6, <1>7

(* std::lower_bound answers with the place. *)
LEMMA LowerBoundKeeps == IInv /\ LowerBound => IInv'
<1> SUFFICES ASSUME IInv, LowerBound PROVE IInv'
  OBVIOUS
<1>1. PICK k \in 0 .. Len(Run) :
        /\ \A m \in 0 .. Len(Run) - 1 : m < k <=> Before(call.side, Price(m), call.price)
        /\ Found(k)
  BY DEF LowerBound
<1>2. IsPlace(call.side, Run, call.price, k)
  <2> SUFFICES ASSUME NEW j \in 1 .. Len(Run)
               PROVE  j <= k <=> Before(call.side, Run[j].price, call.price)
    BY DEF IsPlace
  <2>1. Len(Run) \in Nat
    BY RunIsLadder
  <2>2. j - 1 \in 0 .. Len(Run) - 1 /\ (j - 1) + 1 = j /\ (j - 1 < k <=> j <= k)
    BY <2>1
  <2>3. Price(j - 1) = Run[j].price
    BY <2>2 DEF Price
  <2> QED  BY <1>1, <2>2, <2>3
<1> QED  BY <1>1, <1>2, EndKeeps DEF LowerBound, End

(* A turn of the halving keeps the place within the run that is left. *)
LEMMA HalveStepKeeps == IInv /\ HalveStep => IInv'
<1> SUFFICES ASSUME IInv, HalveStep PROVE IInv'
  OBVIOUS
<1> DEFINE half == n \div 2
<1>1. Unmoved /\ pc = "halve" /\ pc' = "halve" /\ at' = at /\ n > 1 /\ n' = n - half
  BY DEF HalveStep, Turn
<1>2. Run' = Run /\ call' = call
  BY <1>1, RunStays
<1>3. HalvingIsOn /\ Len(Run) \in Nat /\ i \in Int /\ n \in Int
  BY <1>1, RunIsLadder DEF IInv, SearchIsOn
<1>4. half \in Int /\ 1 <= half /\ 2 * half <= n
  BY <1>1, <1>3
<1>5. i' = IF Before(call.side, Run[i + half + 1].price, call.price) THEN i + half ELSE i
  BY DEF HalveStep, Price
<1> HIDE DEF half
<1>6. i >= 0 /\ n >= 1 /\ i + n <= Len(Run) /\ i + half + 1 \in 1 .. Len(Run)
  BY <1>3, <1>4 DEF HalvingIsOn
<1>7. call.side \in Side /\ call.price \in Prices /\ IsLadder(call.side, Run)
  BY <1>1, RunIsLadder DEF IInv, CallIsOne
<1>8. HalvingIsOn' /\ i' \in -1 .. Len(Run)
  <2>1. CASE Before(call.side, Run[i + half + 1].price, call.price)
    <3>1. i' = i + half /\ n' = n - half
      BY <1>1, <1>5, <2>1
    <3>2. ASSUME NEW k \in 1 .. Len(Run), k <= i + half
          PROVE  Before(call.side, Run[k].price, call.price)
      <4>1. Before(call.side, Run[k].price, Run[i + half + 1].price)
        BY <1>3, <1>4, <1>6, <1>7, <3>2 DEF IsLadder, SortedOn
      <4> QED  BY <1>6, <1>7, <2>1, <4>1, RunIsLadder, BeforeOrders
    <3>3. \A k \in 1 .. Len(Run) :
            k > i' + n' => ~Before(call.side, Run[k].price, call.price)
      BY <1>3, <1>4, <3>1 DEF HalvingIsOn
    <3> QED  BY <1>2, <1>3, <1>4, <1>6, <3>1, <3>2, <3>3 DEF HalvingIsOn
  <2>2. CASE ~Before(call.side, Run[i + half + 1].price, call.price)
    <3>1. i' = i /\ n' = n - half
      BY <1>1, <1>5, <2>2
    <3>2. ASSUME NEW k \in 1 .. Len(Run), k > i + n - half
          PROVE  ~Before(call.side, Run[k].price, call.price)
      <4>1. k >= i + half + 1
        BY <1>3, <1>4, <3>2
      <4>2. \/ k = i + half + 1
            \/ Before(call.side, Run[i + half + 1].price, Run[k].price)
        BY <1>3, <1>4, <1>6, <1>7, <4>1 DEF IsLadder, SortedOn
      <4> QED  BY <1>6, <1>7, <2>2, <4>2, RunIsLadder, BeforeOrders
    <3>3. \A k \in 1 .. Len(Run) :
            k > i' + n' => ~Before(call.side, Run[k].price, call.price)
      BY <1>3, <1>4, <3>1, <3>2
    <3> QED  BY <1>2, <1>3, <1>4, <1>6, <3>1, <3>3 DEF HalvingIsOn
  <2> QED  BY <2>1, <2>2
<1>9. SearchIsOn'
  BY <1>1, <1>2, <1>3, <1>4, <1>6, <1>8 DEF IInv, SearchIsOn
<1> QED  BY <1>1, <1>9, SearchKeeps

(* The final adjustment decides about the one level that is left. *)
LEMMA HalveEndKeeps == IInv /\ HalveEnd => IInv'
<1> SUFFICES ASSUME IInv, HalveEnd PROVE IInv'
  OBVIOUS
<1> DEFINE k == i + (IF Before(call.side, Price(i), call.price) THEN 1 ELSE 0)
<1>1. Unmoved /\ pc = "halve" /\ UNCHANGED <<i, n>> /\ Found(k) /\ n <= 1
  BY DEF HalveEnd, End
<1>2. HalvingIsOn /\ Len(Run) \in Nat /\ i \in Int /\ n \in Int
  BY <1>1, RunIsLadder DEF IInv, SearchIsOn
<1>3. n = 1 /\ i + 1 \in 1 .. Len(Run) /\ k \in 0 .. Len(Run)
  BY <1>1, <1>2 DEF HalvingIsOn
<1>4. IsPlace(call.side, Run, call.price, k)
  <2> SUFFICES ASSUME NEW j \in 1 .. Len(Run)
               PROVE  j <= k <=> Before(call.side, Run[j].price, call.price)
    BY DEF IsPlace
  <2>1. CASE j <= i
    BY <1>2, <1>3, <2>1 DEF HalvingIsOn
  <2>2. CASE j = i + 1
    BY <1>2, <1>3, <2>2 DEF Price
  <2>3. CASE j > i + 1
    BY <1>2, <1>3, <2>3 DEF HalvingIsOn
  <2> QED  BY <1>2, <2>1, <2>2, <2>3
<1> HIDE DEF k
<1> QED  BY <1>1, <1>3, <1>4, EndKeeps

-----------------------------------------------------------------------------
(***************************************************************************)
(* The calls return.                                                       *)
(***************************************************************************)
LEMMA ReturnKeeps ==
  ASSUME IInv, NEW op, Return(op), NEW next, SetLadder(next),
         IsLadder(call.side, next), HoldsOrders'
  PROVE  IInv'
<1>1. /\ pc' = "idle" /\ call' = NoCall /\ i' = 0 /\ n' = 0 /\ at' = Nowhere
      /\ search' = search
  BY DEF Return
<1>2. ASSUME NEW side \in Side PROVE IsLadder(side, Ladder(side)')
  <2>1. IsLadder(side, Ladder(side))
    BY DEF IInv, HasLadders
  <2> QED  BY <2>1, RunIsLadder DEF SetLadder, Ladder, Side
<1>3. HasLadders'
  BY <1>2 DEF HasLadders
<1>4. CallIsOne'
  BY <1>1 DEF CallIsOne
<1>5. Len(Run') \in Nat
  <2>1. Run' = Ladder("buy")'
    BY <1>1 DEF Run, NoCall, Ladder
  <2> QED  BY <1>2, <2>1 DEF IsLadder, Side
<1>6. SearchIsOn'
  BY <1>1, <1>5 DEF SearchIsOn, Nowhere, Located
<1> QED  BY <1>1, <1>3, <1>4, <1>6 DEF IInv

(* What a call that adds does to its ladder, ... *)
LEMMA AddedLadder ==
  ASSUME IInv, pc = "located", call.op = "add"
  PROVE  /\ IsLadder(call.side, LevelAdd(Run, call.qty))
         /\ LevelMap(LevelAdd(Run, call.qty)) =
              Map!AddLevel(LevelMap(Run), call.price, call.qty)
<1> DEFINE place == at.index
           next == LevelAdd(Run, call.qty)
<1>1. /\ place \in 0 .. Len(Run) /\ IsPlace(call.side, Run, call.price, place)
      /\ at.found <=> IsHeld(Run, call.price)
  BY DEF IInv, SearchIsOn, IsLocated
<1>2. next = IF IsHeld(Run, call.price)
               THEN [Run EXCEPT ![place + 1].quantity = @ + call.qty]
               ELSE InsertAt(Run, place + 1, Level(call.price, call.qty))
  BY <1>1 DEF LevelAdd
<1>3. call.price \in Prices /\ call.qty \in Nat
  BY DEF IInv, CallIsOne
<1> HIDE DEF place, next
<1>4. IsLadder(call.side, next)
      /\ LevelMap(next) = Map!AddLevel(LevelMap(Run), call.price, call.qty)
  BY <1>1, <1>2, <1>3, RunIsLadder, LadderGains
<1> QED  BY <1>4 DEF next

(* ... and one that takes amount off. *)
LEMMA TakenLadder ==
  ASSUME IInv, pc = "located", NEW amount \in Nat
  PROVE  /\ IsLadder(call.side, LevelSub(Run, amount))
         /\ LevelMap(LevelSub(Run, amount)) =
              Map!SubLevel(LevelMap(Run), call.price, amount)
<1> DEFINE place == at.index
           next == LevelSub(Run, amount)
<1>1. /\ place \in 0 .. Len(Run) /\ IsPlace(call.side, Run, call.price, place)
      /\ at.found <=> IsHeld(Run, call.price)
  BY DEF IInv, SearchIsOn, IsLocated
<1>2. next = TakenFrom(Run, call.price, place, amount)
  BY <1>1 DEF LevelSub, TakenFrom
<1>3. call.price \in Prices
  BY DEF IInv, CallIsOne
<1> HIDE DEF place, next
<1>4. IsLadder(call.side, next)
      /\ LevelMap(next) = Map!SubLevel(LevelMap(Run), call.price, amount)
  BY <1>1, <1>2, <1>3, RunIsLadder, LadderLoses
<1> QED  BY <1>4 DEF next

(* An add returns. *)
LEMMA ReturnAddKeeps == IInv /\ ReturnAdd => IInv'
<1> SUFFICES ASSUME IInv, ReturnAdd PROVE IInv'
  OBVIOUS
<1>1. Return("add") /\ pc = "located" /\ call.op = "add"
      /\ SetLadder(LevelAdd(Run, call.qty))
  BY DEF ReturnAdd, Return
<1>2. HoldsOrders'
  BY DEF IInv, HoldsOrders, ReturnAdd, index
<1>3. IsLadder(call.side, LevelAdd(Run, call.qty))
  BY <1>1, AddedLadder
<1> QED  BY <1>1, <1>2, <1>3, ReturnKeeps

(* The order a cancel or a reduce is about. *)
LEMMA CalledOrder ==
  ASSUME IInv, pc = "located", call.op \in {"cancel", "reduce"}
  PROVE  /\ call.id \in Ids /\ FindIn(slots, call.id) /\ call.id \in DOMAIN orders
         /\ orders[call.id] \in [side : Side, price : Prices, remaining : Nat]
         /\ call.side = orders[call.id].side /\ call.price = orders[call.id].price
         /\ call.op = "cancel" => call.qty = orders[call.id].remaining
         /\ call.op = "reduce" => call.qty \in Sizes /\ call.qty \in Nat
<1>1. /\ call.id \in Ids /\ FindIn(slots, call.id)
      /\ call.side = orders[call.id].side /\ call.price = orders[call.id].price
      /\ call.op = "cancel" => call.qty = orders[call.id].remaining
      /\ call.op = "reduce" => call.qty \in Sizes
  BY DEF IInv, CallIsOne
<1>2. call.id \in DOMAIN orders
  BY <1>1, IndexFinds DEF IInv, HoldsOrders
<1> QED  BY <1>1, <1>2, SizesAssumption DEF IInv, HoldsOrders, HasRecords

(* A cancel returns. *)
LEMMA ReturnCancelKeeps == IInv /\ ReturnCancel => IInv'
<1> SUFFICES ASSUME IInv, ReturnCancel PROVE IInv'
  OBVIOUS
<1>1. Return("cancel") /\ pc = "located" /\ call.op = "cancel"
      /\ SetLadder(LevelSub(Run, call.qty))
  BY DEF ReturnCancel, Return
<1>2. HoldsOrders'
  <2>1. IsIndex(slots', orders', MaxHeld)
    BY <1>1, CalledOrder, IndexErases DEF IInv, HoldsOrders, ReturnCancel
  <2>2. HasRecords(orders', Prices)
    BY RecordsStay DEF IInv, HoldsOrders, ReturnCancel
  <2> QED  BY <2>1, <2>2 DEF HoldsOrders
<1>3. call.qty \in Nat
  BY <1>1, CalledOrder
<1>4. IsLadder(call.side, LevelSub(Run, call.qty))
  BY <1>1, <1>3, TakenLadder
<1> QED  BY <1>1, <1>2, <1>4, ReturnKeeps

(* A reduce returns. *)
LEMMA ReturnReduceKeeps == IInv /\ ReturnReduce => IInv'
<1> SUFFICES ASSUME IInv, ReturnReduce PROVE IInv'
  OBVIOUS
<1> DEFINE amount == Applied(orders[call.id], call.qty)
<1>1. Return("reduce") /\ pc = "located" /\ call.op = "reduce"
      /\ SetLadder(LevelSub(Run, amount))
  BY DEF ReturnReduce, Return
<1>2. HoldsOrders'
  <2>1. IsIndex(slots', orders', MaxHeld)
    BY <1>1, CalledOrder, IndexReduces DEF IInv, HoldsOrders, ReturnReduce
  <2>2. HasRecords(orders', Prices)
    BY <1>1, CalledOrder, RecordsStay DEF IInv, HoldsOrders, ReturnReduce
  <2> QED  BY <2>1, <2>2 DEF HoldsOrders
<1>3. amount \in Nat
  BY <1>1, CalledOrder DEF Applied
<1> HIDE DEF amount
<1>4. IsLadder(call.side, LevelSub(Run, amount))
  BY <1>1, <1>3, TakenLadder
<1> QED  BY <1>1, <1>2, <1>4, ReturnKeeps

(* A quantity_at returns. *)
LEMMA ReturnReadKeeps == IInv /\ ReturnQuantityAt => IInv'
<1> SUFFICES ASSUME IInv, ReturnQuantityAt PROVE IInv'
  OBVIOUS
<1>1. Return("read") /\ HoldsOrders'
  BY DEF ReturnQuantityAt, IInv, HoldsOrders, index
<1>2. SetLadder(Run)
  BY RunIsLadder DEF ReturnQuantityAt, levels, SetLadder, Run, Ladder, Side
<1> QED  BY <1>1, <1>2, RunIsLadder, ReturnKeeps

(* The invariant is inductive: a step of each kind keeps it. *)
LEMMA NextIInv == IInv /\ [Next]_vars => IInv'
<1> SUFFICES ASSUME IInv, [Next]_vars PROVE IInv'
  OBVIOUS
<1>1. ASSUME NEW x \in Ids, CallCancel(x) PROVE IInv'
  BY <1>1, CallFoundKeeps DEF CallCancel
<1>2. ASSUME NEW x \in Ids, NEW delta \in Sizes, CallReduce(x, delta) PROVE IInv'
  BY <1>2, CallFoundKeeps DEF CallReduce
<1>3. CASE UNCHANGED vars
  BY <1>3 DEF vars, IInv, HoldsOrders, HasLadders, CallIsOne, SearchIsOn, ScanIsOn,
              HalvingIsOn, IsLocated, Run, Ladder
<1>4. ASSUME NEW x \in Ids, CallUnknown(x) PROVE IInv'
  BY <1>3, <1>4 DEF CallUnknown
<1>5. CASE Calls
  BY <1>1, <1>2, <1>4, <1>5, CallAddKeeps, CallReadKeeps DEF Calls
<1>6. CASE Search
  BY <1>6, ScanStepKeeps, ScanStopKeeps, LowerBoundKeeps, HalveStepKeeps, HalveEndKeeps
     DEF Search
<1>7. CASE Returns
  BY <1>7, ReturnAddKeeps, ReturnCancelKeeps, ReturnReduceKeeps, ReturnReadKeeps DEF Returns
<1> QED  BY <1>3, <1>5, <1>6, <1>7 DEF Next

(* The inductive invariant holds in every state of every run. *)
THEOREM AlwaysIInv == Spec => []IInv
BY InitIInv, NextIInv, PTL DEF Spec

(* Each vector stays strictly sorted, best price at the back               *)
(* (book_linear.hpp:144-145).                                              *)
THEOREM LaddersStaySorted == Spec => []Sorted
BY AlwaysIInv, IInvImplies, PTL

(* No search reads outside its vector (book_branchless.hpp:69-106). *)
THEOREM SearchesStayInBounds == Spec => []SearchInBounds
BY AlwaysIInv, IInvImplies, PTL

(* locate has one answer, whichever search computed it                     *)
(* (book_branchless.hpp:171-174).                                          *)
THEOREM LocateFindsThePlace == Spec => []LocateIsExact
BY AlwaysIInv, IInvImplies, PTL

(* The turns taken, and those that may be left. *)
TurnsInv ==
  /\ turns \in Nat /\ turns <= Len(Run)
  /\ pc = "scan" => turns + i + 1 <= Len(Run)
  /\ pc = "halve" => turns + n <= Len(Run)

(* Only a turn of the scan or of the halving adds to them. *)
LEMMA StepKeepsTurns == IInv /\ TurnsInv /\ [Next]_vars => TurnsInv'
<1> SUFFICES ASSUME IInv, TurnsInv, [Next]_vars PROVE TurnsInv'
  OBVIOUS
<1>1. i \in Int /\ n \in Int /\ turns \in Nat /\ Len(Run) \in Nat
  BY RunIsLadder DEF IInv, SearchIsOn, TurnsInv
<1>2. \A side \in Side : Len(Ladder(side)) \in Nat
  BY DEF IInv, HasLadders, IsLadder
<1>3. CASE UNCHANGED vars
  BY <1>3 DEF vars, TurnsInv, Run, Ladder
<1>4. ASSUME NEW op, NEW x, NEW side \in Side, NEW price, NEW qty,
             Enter(op, x, side, price, qty)
      PROVE  TurnsInv'
  <2>1. turns' = 0 /\ Run' = Ladder(side)
    BY <1>4 DEF Enter, Run, Ladder, levels
  <2>2. pc' = "scan" => i' = Len(Ladder(side)) - 1
    BY <1>4 DEF Enter
  <2>3. pc' = "halve" => n' = Len(Ladder(side))
    BY <1>4 DEF Enter
  <2> QED  BY <1>2, <2>1, <2>2, <2>3 DEF TurnsInv
<1>5. CASE Calls
  <2>1. ASSUME NEW x \in Ids, CallCancel(x) \/ \E delta \in Sizes : CallReduce(x, delta)
        PROVE  TurnsInv'
    <3>1. orders[x].side \in Side
      BY <2>1, IndexFinds DEF CallCancel, CallReduce, IInv, HoldsOrders, HasRecords
    <3> QED  BY <1>4, <2>1, <3>1 DEF CallCancel, CallReduce
  <2>2. ASSUME NEW x \in Ids, CallUnknown(x) PROVE TurnsInv'
    BY <1>3, <2>2 DEF CallUnknown
  <2> QED  BY <1>4, <1>5, <2>1, <2>2 DEF Calls, CallAdd, CallQuantityAt
<1>6. CASE Search
  <2>1. Run' = Run
    BY <1>6, RunStays DEF Search, ScanStep, ScanStop, LowerBound, HalveStep, HalveEnd, Turn, End
  <2>2. CASE ScanStep
    <3>1. /\ pc = "scan" /\ pc' = "scan" /\ i >= 0 /\ i' = i - 1
          /\ turns' = turns + 1
      BY <2>2 DEF ScanStep, Turn
    <3> QED  BY <1>1, <2>1, <3>1 DEF TurnsInv
  <2>3. CASE HalveStep
    <3>1. /\ pc = "halve" /\ pc' = "halve" /\ n > 1 /\ n' = n - n \div 2
          /\ turns' = turns + 1
      BY <2>3 DEF HalveStep, Turn
    <3>2. n' >= 1 /\ turns' + n' <= turns + n
      BY <1>1, <3>1
    <3>3. n' \in Int /\ turns' \in Nat
      BY <1>1, <3>1
    <3> QED  BY <1>1, <2>1, <3>1, <3>2, <3>3 DEF TurnsInv
  <2>4. CASE ScanStop \/ LowerBound \/ HalveEnd
    <3>1. pc' = "located" /\ turns' = turns
      BY <2>4 DEF ScanStop, LowerBound, HalveEnd, Found, End
    <3> QED  BY <2>1, <3>1 DEF TurnsInv
  <2> QED  BY <1>6, <2>2, <2>3, <2>4 DEF Search
<1>7. CASE Returns
  <2>1. pc' = "idle" /\ turns' = 0
    BY <1>7 DEF Returns, ReturnAdd, ReturnCancel, ReturnReduce, ReturnQuantityAt, Return
  <2>2. call'.side \in Side
    BY <1>7 DEF Returns, ReturnAdd, ReturnCancel, ReturnReduce, ReturnQuantityAt, Return,
                NoCall, Side
  <2>3. HasLadders'
    BY NextIInv DEF IInv
  <2>4. Len(Run') \in Nat
    BY <2>2, <2>3 DEF HasLadders, IsLadder, Run
  <2> QED  BY <2>1, <2>4 DEF TurnsInv
<1> QED  BY <1>3, <1>5, <1>6, <1>7 DEF Next

(* The count of the turns is right in every state of every run. *)
LEMMA AlwaysTurnsInv == Spec => []TurnsInv
<1>1. Init => TurnsInv
  BY DEF Init, TurnsInv, Run, Ladder, NoCall
<1> QED  BY AlwaysIInv, StepKeepsTurns, <1>1, PTL DEF Spec

(* No search takes more turns than its vector has levels                   *)
(* (book_linear.hpp:96-105, book_branchless.hpp:71-100).                   *)
THEOREM SearchesStayShort == Spec => []SearchesAreShort
<1>1. TurnsInv => SearchesAreShort
  BY DEF TurnsInv, SearchesAreShort
<1> QED  BY AlwaysTurnsInv, <1>1, PTL

(* Types. *)
THEOREM TypeCorrect == Spec => []TypeOK
<1>1. TurnsInv => turns \in Nat
  BY DEF TurnsInv
<1> QED  BY AlwaysIInv, AlwaysTurnsInv, <1>1, IInvIsTyped, PTL

-----------------------------------------------------------------------------
(***************************************************************************)
(* The vector variants implement the map book.                             *)
(***************************************************************************)

(* The calls on the index are the same on both sides. *)
LEMMA SameIndexCalls ==
  ASSUME NEW table, NEW x
  PROVE  /\ Map!InsertIn(table, x) = InsertIn(table, x)
         /\ Map!FindIn(table, x) <=> FindIn(table, x)
         /\ Map!EraseIn(table, x) = EraseIn(table, x)
<1>1. ASSUME NEW stops PROVE Map!FirstSlot(table, x, stops) = FirstSlot(table, x, stops)
  BY DEF Map!FirstSlot, FirstSlot, Map!Path, Path, Map!Slot, Slot
<1>2. Map!InsertIn(table, x) = InsertIn(table, x)
  BY <1>1 DEF Map!InsertIn, InsertIn
<1>3. Map!FindIn(table, x) <=> FindIn(table, x)
  BY <1>1 DEF Map!FindIn, FindIn
<1>4. \A first, d : Map!After(first, d) = After(first, d)
  BY DEF Map!After, After
<1>5. \A first : Map!RunLength(table, first) = RunLength(table, first)
  BY DEF Map!RunLength, RunLength, Map!After, After
<1>6. ASSUME NEW first PROVE Map!Turns(table, first) = Turns(table, first)
  BY DEF Map!Turns, Turns, Map!Turned, Turned, Map!After, After, Map!InRange, InRange,
         Map!RunLength, RunLength
<1>7. ASSUME NEW first PROVE Map!Shifted(table, first) = Shifted(table, first)
  BY <1>5, <1>6 DEF Map!Shifted, Shifted
<1>8. Map!EraseIn(table, x) = EraseIn(table, x)
  BY <1>1, <1>3, <1>7 DEF Map!EraseIn, EraseIn
<1> QED  BY <1>2, <1>3, <1>8

(* So is the count of a set. *)
LEMMA SameCardinality == \A S : Map!Cardinality(S) = Cardinality(S)
BY DEF Map!Cardinality, Cardinality, Map!IsFiniteSet, IsFiniteSet

(* The map of a side, with the order that is being added.                  *)
MapFrom(ladder, side, running) ==
  IF running.op = "add" /\ running.side = side
    THEN Map!AddLevel(LevelMap(ladder), running.price, running.qty)
    ELSE LevelMap(ladder)

MapIn(ladder, side, running) ==
  LET held   == {ladder[k].price : k \in 1 .. Len(ladder)}
      sum(p) == IF p \in held
                  THEN ladder[CHOOSE k \in 1 .. Len(ladder) : ladder[k].price = p].quantity
                  ELSE 0
      adding == running.op = "add" /\ running.side = side
  IN  [p \in held \cup (IF adding THEN {running.price} ELSE {}) |->
         IF adding /\ p = running.price THEN sum(p) + running.qty ELSE sum(p)]

(* MapIn and MapFrom say the same. *)
LEMMA MapInIs ==
  ASSUME NEW L, NEW side, NEW c
  PROVE  MapIn(L, side, c) = MapFrom(L, side, c)
<1> DEFINE held == {L[k].price : k \in 1 .. Len(L)}
           sum(p) == IF p \in held
                       THEN L[CHOOSE k \in 1 .. Len(L) : L[k].price = p].quantity
                       ELSE 0
           adding == c.op = "add" /\ c.side = side
<1>1. MapIn(L, side, c) = [p \in held \cup (IF adding THEN {c.price} ELSE {}) |->
                       IF adding /\ p = c.price THEN sum(p) + c.qty ELSE sum(p)]
  BY DEF MapIn
<1>2. DOMAIN LevelMap(L) = held /\ \A p \in held : LevelMap(L)[p] = sum(p)
  BY DEF LevelMap
<1>3. LevelMap(L) = [p \in held |-> sum(p)]
  BY DEF LevelMap
<1>4. \A p : p \notin held => sum(p) = 0
  OBVIOUS
<1>5. CASE ~adding
  <2>1. MapIn(L, side, c) = [p \in held |-> sum(p)]
    <3> HIDE DEF sum, held
    <3> QED  BY <1>1, <1>5
  <2> QED  BY <1>3, <1>5, <2>1 DEF MapFrom
<1>6. CASE adding
  <2>1. Map!AddLevel(LevelMap(L), c.price, c.qty) =
          [p \in held \cup {c.price} |->
             IF p = c.price
               THEN (IF c.price \in held THEN LevelMap(L)[c.price] ELSE 0) + c.qty
               ELSE LevelMap(L)[p]]
    BY <1>2 DEF Map!AddLevel, Map!With, Map!LevelQuantity
  <2> HIDE DEF sum, held
  <2>2. MapIn(L, side, c) = [p \in held \cup {c.price} |->
                         IF p = c.price THEN sum(p) + c.qty ELSE sum(p)]
    BY <1>1, <1>6
  <2>3. MapIn(L, side, c) = Map!AddLevel(LevelMap(L), c.price, c.qty)
    BY <1>2, <1>4, <2>1, <2>2
  <2> QED  BY <1>6, <2>3 DEF MapFrom
<1> QED  BY <1>5, <1>6

(* The map of a side before a step and after it. *)
LEMMA MapOfIs ==
  ASSUME NEW side
  PROVE  /\ MapOf(side) = MapFrom(Ladder(side), side, call)
         /\ MapOf(side)' = MapFrom(Ladder(side)', side, call')
<1>1. MapOf(side) = MapIn(Ladder(side), side, call)
  BY DEF MapOf, MapIn
<1>2. MapOf(side)' = MapIn(Ladder(side)', side, call')
  BY DEF MapOf, MapIn
<1> QED  BY <1>1, <1>2, MapInIs

(* An empty book is an empty map book. *)
LEMMA InitMaps == Init => Map!Init
<1> SUFFICES ASSUME Init PROVE Map!Init
  OBVIOUS
<1>1. ASSUME NEW side \in Side PROVE MapOf(side) = << >>
  <2>1. call.op # "add" /\ Ladder(side) = << >>
    BY DEF Init, NoCall, Ladder
  <2>2. LevelMap(<< >>) = << >>
    BY DEF LevelMap
  <2> QED  BY <2>1, <2>2, MapOfIs DEF MapFrom
<1> QED  BY <1>1 DEF Init, Map!Init, Side, Map!Slot, Slot

(* A step of a search and the start of a call leave the map as it was, an  *)
(* add excepted: its level is in the map from the start.                   *)
LEMMA MapStays ==
  ASSUME levels' = levels, index' = index,
         call'.op = "add" \/ call.op = "add" => call' = call
  PROVE  UNCHANGED Map!vars
<1>1. ASSUME NEW side \in Side PROVE MapOf(side)' = MapOf(side)
  <2>1. Ladder(side)' = Ladder(side)
    BY DEF levels, Ladder
  <2> QED  BY <2>1, MapOfIs DEF MapFrom
<1> QED  BY <1>1 DEF Map!vars, index, Side

(* The map after a return, whose call has its ladder changed to next.      *)
LEMMA MapAfter ==
  ASSUME IInv, NEW op, Return(op), NEW next, SetLadder(next), NEW side \in Side
  PROVE  MapOf(side)' = IF side = call.side THEN LevelMap(next) ELSE LevelMap(Ladder(side))
<1>1. Ladder(side)' = IF side = call.side THEN next ELSE Ladder(side)
  BY RunIsLadder DEF SetLadder, Ladder, Side
<1>2. call'.op # "add"
  BY DEF Return, NoCall
<1> QED  BY <1>1, <1>2, MapOfIs DEF MapFrom

(* The start of an add is the whole add of the map book. *)
LEMMA AddMaps ==
  ASSUME IInv, NEW x \in Ids, NEW side \in Side, NEW price \in Prices,
         NEW qty \in Sizes, CallAdd(x, side, price, qty)
  PROVE  Map!Add(x, side, price, qty)
<1>1. pc = "idle" /\ call.op # "add"
  BY DEF CallAdd, IInv, CallIsOne, NoCall
<1>2. /\ call'.op = "add" /\ call'.side = side /\ call'.price = price /\ call'.qty = qty
      /\ levels' = levels
  BY DEF CallAdd, Enter
<1>3. ASSUME NEW s \in Side
      PROVE  /\ MapOf(s) = LevelMap(Ladder(s))
             /\ MapOf(s)' = IF s = side THEN Map!AddLevel(MapOf(s), price, qty) ELSE MapOf(s)
  <2>1. Ladder(s)' = Ladder(s)
    BY <1>2 DEF levels, Ladder
  <2>2. MapOf(s) = LevelMap(Ladder(s))
    BY <1>1, MapOfIs DEF MapFrom
  <2> QED  BY <1>2, <2>1, <2>2, MapOfIs DEF MapFrom
<1>4. Map!SetLevels(side, Map!AddLevel(Map!Levels(side), price, qty))
  BY <1>3 DEF Map!SetLevels, Map!Levels, Side
<1>5. slots' = Map!InsertIn(slots, x)
  BY SameIndexCalls DEF CallAdd
<1>6. orders' = Map!With(orders, x, Map!Order(side, price, qty))
  BY DEF CallAdd, Map!With, With, Map!Order, Order
<1>7. x \notin DOMAIN orders /\ Cardinality(DOMAIN orders) < MaxHeld
  BY DEF CallAdd
<1> QED  BY <1>4, <1>5, <1>6, <1>7, SameCardinality DEF Map!Add

(* Its return changes nothing more. *)
LEMMA ReturnAddMaps == IInv /\ ReturnAdd => UNCHANGED Map!vars
<1> SUFFICES ASSUME IInv, ReturnAdd PROVE UNCHANGED Map!vars
  OBVIOUS
<1>1. Return("add") /\ SetLadder(LevelAdd(Run, call.qty)) /\ UNCHANGED index
      /\ pc = "located" /\ call.op = "add"
  BY DEF ReturnAdd, Return
<1>2. ASSUME NEW side \in Side PROVE MapOf(side)' = MapOf(side)
  <2>1. MapOf(side)' = IF side = call.side THEN LevelMap(LevelAdd(Run, call.qty))
                                           ELSE LevelMap(Ladder(side))
    BY <1>1, MapAfter
  <2>2. LevelMap(LevelAdd(Run, call.qty)) = Map!AddLevel(LevelMap(Run), call.price, call.qty)
    BY <1>1, AddedLadder
  <2> QED  BY <1>1, <2>1, <2>2, MapOfIs DEF MapFrom, Run
<1> QED  BY <1>1, <1>2 DEF Map!vars, index, Side

(* What cancel and reduce take off the map.                                *)
LEMMA TakeMaps ==
  ASSUME IInv, NEW op, Return(op), op # "add", NEW amount \in Nat,
         SetLadder(LevelSub(Run, amount))
  PROVE  Map!LevelSub(call.side, call.price, amount)
<1>1. pc = "located" /\ call.op # "add"
  BY DEF Return
<1>2. LevelMap(LevelSub(Run, amount)) = Map!SubLevel(LevelMap(Run), call.price, amount)
  BY <1>1, TakenLadder
<1>3. ASSUME NEW s \in Side
      PROVE  MapOf(s)' = IF s = call.side THEN Map!SubLevel(MapOf(s), call.price, amount)
                                          ELSE MapOf(s)
  <2>1. MapOf(s)' = IF s = call.side THEN LevelMap(LevelSub(Run, amount))
                                     ELSE LevelMap(Ladder(s))
    BY MapAfter
  <2>2. MapOf(s) = LevelMap(Ladder(s))
    BY <1>1, MapOfIs DEF MapFrom
  <2> QED  BY <1>2, <2>1, <2>2 DEF Run
<1> QED  BY <1>3, RunIsLadder DEF Map!LevelSub, Map!SetLevels, Map!Levels, Side

(* The return of a cancel is the cancel of the map book, ... *)
LEMMA ReturnCancelMaps == IInv /\ ReturnCancel => Map!Cancel(call.id)
<1> SUFFICES ASSUME IInv, ReturnCancel PROVE Map!Cancel(call.id)
  OBVIOUS
<1>1. Return("cancel") /\ SetLadder(LevelSub(Run, call.qty))
      /\ pc = "located" /\ call.op = "cancel"
  BY DEF ReturnCancel, Return
<1>2. /\ FindIn(slots, call.id) /\ call.qty \in Nat
      /\ call.side = orders[call.id].side /\ call.price = orders[call.id].price
      /\ call.qty = orders[call.id].remaining
  BY <1>1, CalledOrder
<1>3. Map!LevelSub(call.side, call.price, call.qty)
  BY <1>1, <1>2, TakeMaps
<1>4. slots' = Map!EraseIn(slots, call.id) /\ Map!FindIn(slots, call.id)
  BY <1>2, SameIndexCalls DEF ReturnCancel
<1>5. orders' = Map!Without(orders, call.id)
  BY DEF ReturnCancel, Map!Without, Without, Map!Restrict, Restrict
<1> QED  BY <1>2, <1>3, <1>4, <1>5 DEF Map!Cancel

(* ... and that of a reduce its reduce. *)
LEMMA ReturnReduceMaps == IInv /\ ReturnReduce => Map!Reduce(call.id, call.qty)
<1> SUFFICES ASSUME IInv, ReturnReduce PROVE Map!Reduce(call.id, call.qty)
  OBVIOUS
<1> DEFINE amount == Applied(orders[call.id], call.qty)
<1>1. Return("reduce") /\ SetLadder(LevelSub(Run, amount))
      /\ pc = "located" /\ call.op = "reduce"
  BY DEF ReturnReduce, Return
<1>2. /\ FindIn(slots, call.id) /\ call.qty \in Nat
      /\ call.side = orders[call.id].side /\ call.price = orders[call.id].price
      /\ orders[call.id].remaining \in Nat
  BY <1>1, CalledOrder
<1>3. amount \in Nat /\ amount = Map!Applied(orders[call.id], call.qty)
  BY <1>2 DEF Applied, Map!Applied
<1> HIDE DEF amount
<1>4. Map!LevelSub(call.side, call.price, amount)
  BY <1>1, <1>3, TakeMaps
<1>5. orders' = Map!Reduced(orders, call.id, call.qty)
  BY DEF ReturnReduce, Map!Reduced, Reduced, Map!Applied, Applied, Map!With, With,
         Map!Without, Without, Map!Restrict, Restrict
<1>6. /\ slots' = IF call.id \in DOMAIN orders' THEN slots ELSE Map!EraseIn(slots, call.id)
      /\ Map!FindIn(slots, call.id)
  BY <1>2, SameIndexCalls DEF ReturnReduce
<1> QED  BY <1>2, <1>3, <1>4, <1>5, <1>6 DEF Map!Reduce

(* Every step is a step of the map book or leaves it as it was. *)
LEMMA StepMaps == IInv /\ [Next]_vars => [Map!Next]_(Map!vars)
<1> SUFFICES ASSUME IInv, [Next]_vars PROVE [Map!Next]_(Map!vars)
  OBVIOUS
<1> USE DEF Map!Next
<1>1. ASSUME NEW op, NEW x, NEW side, NEW price, NEW qty, op # "add",
             Enter(op, x, side, price, qty), UNCHANGED index
      PROVE  UNCHANGED Map!vars
  <2>1. call'.op # "add" /\ call.op # "add" /\ levels' = levels
    BY <1>1 DEF Enter, IInv, CallIsOne, NoCall
  <2> QED  BY <1>1, <2>1, MapStays
<1>2. CASE UNCHANGED vars
  <2>1. levels' = levels /\ index' = index /\ call' = call
    BY <1>2 DEF vars, levels, index
  <2>2. UNCHANGED Map!vars
    BY <2>1, MapStays
  <2> QED  BY <2>2
<1>3. ASSUME Unmoved PROVE UNCHANGED Map!vars
  <2>1. levels' = levels /\ index' = index /\ call' = call
    BY <1>3 DEF Unmoved
  <2> QED  BY <2>1, MapStays
<1>4. CASE Calls
  <2>1. ASSUME NEW x \in Ids, NEW side \in Side, NEW price \in Prices, NEW qty \in Sizes,
               CallAdd(x, side, price, qty)
        PROVE  Map!Next
    BY <2>1, AddMaps DEF Map!Side, Side
  <2>2. ASSUME NEW x \in Ids, NEW delta \in Sizes, CallReduce(x, delta)
        PROVE  UNCHANGED Map!vars
    BY <1>1, <2>2 DEF CallReduce
  <2>3. ASSUME NEW x \in Ids, CallCancel(x) PROVE UNCHANGED Map!vars
    BY <1>1, <2>3 DEF CallCancel
  <2>4. ASSUME NEW x \in Ids, CallUnknown(x) PROVE UNCHANGED Map!vars
    <3>1. levels' = levels /\ index' = index /\ call' = call
      BY <2>4 DEF CallUnknown, vars, levels, index
    <3> QED  BY <3>1, MapStays
  <2>5. ASSUME NEW side \in Side, NEW price \in Prices, CallQuantityAt(side, price)
        PROVE  UNCHANGED Map!vars
    BY <1>1, <2>5 DEF CallQuantityAt
  <2> HIDE DEF Map!Next
  <2> QED  BY <1>4, <2>1, <2>2, <2>3, <2>4, <2>5 DEF Calls
<1>5. CASE Search
  BY <1>3, <1>5 DEF Search, ScanStep, ScanStop, LowerBound, HalveStep, HalveEnd, Turn, End
<1>6. CASE Returns
  <2>1. CASE ReturnAdd
    BY <2>1, ReturnAddMaps
  <2>2. CASE ReturnCancel
    <3>1. call.id \in Ids
      BY <2>2, CalledOrder DEF ReturnCancel, Return
    <3> QED  BY <2>2, <3>1, ReturnCancelMaps
  <2>3. CASE ReturnReduce
    <3>1. call.id \in Ids /\ call.qty \in Sizes
      BY <2>3, CalledOrder DEF ReturnReduce, Return
    <3> QED  BY <2>3, <3>1, ReturnReduceMaps
  <2>4. CASE ReturnQuantityAt
    BY <2>4, MapStays DEF ReturnQuantityAt, Return, NoCall
  <2> QED  BY <1>6, <2>1, <2>2, <2>3, <2>4 DEF Returns
<1> QED  BY <1>2, <1>4, <1>5, <1>6 DEF Next

(* After the same calls every variant holds what the map book holds        *)
(* (tests/test_book_equivalence.cpp:1-3).                                  *)
THEOREM RefinesBookMap == Spec => ImplementsBookMap
<1>1. Init => Map!Init
  BY InitMaps
<1>2. IInv /\ [Next]_vars => [Map!Next]_(Map!vars)
  BY StepMaps
<1> QED  BY <1>1, <1>2, AlwaysIInv, PTL DEF Spec, ImplementsBookMap, Map!Spec

-----------------------------------------------------------------------------
(***************************************************************************)
(* The reads.                                                              *)
(***************************************************************************)

(* What the map shows of a ladder: as many levels, the k-th of them at the *)
(* rank the vector keeps it at.                                            *)
LEMMA RanksAre ==
  ASSUME NEW side \in Side, NEW ladder, IsLadder(side, ladder)
  PROVE  /\ Cardinality(DOMAIN LevelMap(ladder)) = Len(ladder)
         /\ \A k \in 1 .. Len(ladder) :
              Cardinality({q \in DOMAIN LevelMap(ladder) :
                             Map!Better(side, q, ladder[k].price)}) = Len(ladder) - k
<1>1. Len(ladder) \in Nat /\ \A k \in 1 .. Len(ladder) : ladder[k].price \in Prices
  <2>1. \A k \in 1 .. Len(ladder) : ladder[k] \in Levels
    BY ElementOfSeq DEF IsLadder
  <2> QED  BY <2>1 DEF IsLadder, Levels
<1>2. DOMAIN LevelMap(ladder) = {ladder[j].price : j \in 1 .. Len(ladder)}
  BY LevelMapAt
<1>3. ASSUME NEW k \in 0 .. Len(ladder)
      PROVE  Cardinality({ladder[j].price : j \in k + 1 .. Len(ladder)}) = Len(ladder) - k
  <2> DEFINE S == k + 1 .. Len(ladder)
             T == {ladder[j].price : j \in S}
             f == [j \in S |-> ladder[j].price]
  <2>1. f \in [S -> T] /\ \A t \in T : \E j \in S : f[j] = t
    OBVIOUS
  <2>2. \A a, b \in S : f[a] = f[b] => a = b
    <3> SUFFICES ASSUME NEW a \in S, NEW b \in S, ladder[a].price = ladder[b].price
                 PROVE  a = b
      OBVIOUS
    <3>1. a \in 1 .. Len(ladder) /\ b \in 1 .. Len(ladder)
      BY <1>1
    <3> QED  BY <3>1, OneLevel
  <2>3. ExistsBijection(S, T)
    <3> HIDE DEF f
    <3>1. f \in Bijection(S, T)
      BY <2>1, <2>2 DEF Bijection, Injection, Surjection, IsInjective
    <3> QED  BY <3>1 DEF ExistsBijection
  <2>4. IsFiniteSet(S) /\ Cardinality(S) = Len(ladder) - k
    <3>1. k + 1 \in Int /\ Len(ladder) \in Int
      BY <1>1
    <3>2. IsFiniteSet(S) /\ Cardinality(S) = IF k + 1 > Len(ladder) THEN 0
                                             ELSE Len(ladder) - (k + 1) + 1
      BY <3>1, FS_Interval
    <3> HIDE DEF S
    <3> QED  BY <1>1, <3>2
  <2> HIDE DEF S, T
  <2>5. Cardinality(T) = Len(ladder) - k
    BY <2>3, <2>4, FS_Bijection
  <2> QED  BY <2>5 DEF S, T
<1>4. Cardinality(DOMAIN LevelMap(ladder)) = Len(ladder)
  <2>1. 0 \in 0 .. Len(ladder) /\ 0 + 1 .. Len(ladder) = 1 .. Len(ladder)
    BY <1>1
  <2> QED  BY <1>1, <1>2, <1>3, <2>1
<1>5. ASSUME NEW k \in 1 .. Len(ladder)
      PROVE  {q \in DOMAIN LevelMap(ladder) : Map!Better(side, q, ladder[k].price)} =
               {ladder[j].price : j \in k + 1 .. Len(ladder)}
  <2>1. ASSUME NEW j \in 1 .. Len(ladder)
        PROVE  Map!Better(side, ladder[j].price, ladder[k].price) <=> j > k
    <3>1. Map!Better(side, ladder[j].price, ladder[k].price)
            <=> Before(side, ladder[k].price, ladder[j].price)
      BY <1>1, PricesAssumption DEF Map!Better, Before
    <3>2. j > k => Before(side, ladder[k].price, ladder[j].price)
      BY DEF IsLadder, SortedOn
    <3>3. j < k => Before(side, ladder[j].price, ladder[k].price)
      BY DEF IsLadder, SortedOn
    <3>4. ~Before(side, ladder[k].price, ladder[k].price)
      BY <1>1, BeforeOrders
    <3>5. Before(side, ladder[j].price, ladder[k].price)
            => ~Before(side, ladder[k].price, ladder[j].price)
      BY <1>1, BeforeOrders
    <3> QED  BY <1>1, <3>1, <3>2, <3>3, <3>4, <3>5
  <2>2. k + 1 .. Len(ladder) = {j \in 1 .. Len(ladder) : j > k}
    BY <1>1
  <2> QED  BY <1>2, <2>1, <2>2
<1>6. ASSUME NEW k \in 1 .. Len(ladder)
      PROVE  Cardinality({q \in DOMAIN LevelMap(ladder) :
                            Map!Better(side, q, ladder[k].price)}) = Len(ladder) - k
  <2>1. k \in 0 .. Len(ladder)
    OBVIOUS
  <2> QED  BY <1>3, <1>5, <2>1
<1> QED  BY <1>4, <1>6

(* Between calls the level at a rank is that of the map. *)
LEMMA NthIsLevel ==
  ASSUME IInv, pc = "idle", NEW side \in Side, NEW rank \in 0 .. Len(Ladder(side))
  PROVE  Nth(Ladder(side), rank) = Map!Nth(side, rank)
<1> DEFINE L == Ladder(side)
           D == DOMAIN Map!Levels(side)
<1>1. IsLadder(side, L) /\ Len(L) \in Nat
  BY DEF IInv, HasLadders, IsLadder
<1>2. Map!Levels(side) = LevelMap(L)
  <2>1. MapOf(side) = LevelMap(L)
    BY MapOfIs DEF MapFrom, IInv, CallIsOne, NoCall
  <2> QED  BY <2>1 DEF Map!Levels, Side
<1> HIDE DEF L
<1>3. /\ Cardinality(D) = Len(L)
      /\ \A k \in 1 .. Len(L) : Map!RankOf(side, L[k].price) = Len(L) - k
  <2>1. /\ Cardinality(DOMAIN LevelMap(L)) = Len(L)
        /\ \A k \in 1 .. Len(L) :
             Cardinality({q \in DOMAIN LevelMap(L) :
                            Map!Better(side, q, L[k].price)}) = Len(L) - k
    BY <1>1, RanksAre
  <2>2. \A p : Map!RankOf(side, p) =
                Cardinality({q \in DOMAIN LevelMap(L) : Map!Better(side, q, p)})
    BY <1>2, SameCardinality DEF Map!RankOf
  <2> QED  BY <1>2, <2>1, <2>2
<1>4. /\ D = {L[k].price : k \in 1 .. Len(L)}
      /\ \A k \in 1 .. Len(L) : Map!Levels(side)[L[k].price] = L[k].quantity
  BY <1>1, <1>2, LevelMapAt
<1>5. CASE rank >= Len(L)
  <2>1. Nth(L, rank) = [price |-> NoPrice, quantity |-> 0]
    BY <1>5 DEF Nth, Level
  <2>2. Map!Nth(side, rank) = [price |-> NoPrice, quantity |-> 0]
    BY <1>3, <1>5, SameCardinality DEF Map!Nth, Map!Level
  <2> QED  BY <2>1, <2>2 DEF L
<1>6. CASE rank < Len(L)
  <2> DEFINE k == Len(L) - rank
             p == CHOOSE p \in D : Map!RankOf(side, p) = rank
  <2>1. k \in 1 .. Len(L) /\ Len(L) - k = rank
    BY <1>1, <1>6 DEF L
  <2> HIDE DEF D, k
  <2>2. p \in D /\ Map!RankOf(side, p) = rank
    BY <1>3, <1>4, <2>1
  <2> HIDE DEF p
  <2>3. PICK j \in 1 .. Len(L) : p = L[j].price
    BY <1>4, <2>2
  <2>4. j = k
    BY <1>1, <1>3, <2>1, <2>2, <2>3
  <2>5. Map!Nth(side, rank) = Map!Level(p, Map!Levels(side)[p])
    <3>1. ~(rank >= Cardinality(D))
      BY <1>1, <1>3, <1>6 DEF L
    <3> QED  BY <3>1, SameCardinality DEF Map!Nth, D, p
  <2>6. L[k] = Map!Level(L[k].price, L[k].quantity)
    <3>1. L[k] \in Levels
      BY <1>1, <2>1, ElementOfSeq DEF IsLadder
    <3> QED  BY <3>1 DEF Levels, Map!Level
  <2>7. Nth(L, rank) = L[k]
    BY <1>1, <1>6 DEF Nth, k
  <2> QED  BY <1>4, <2>3, <2>4, <2>5, <2>6, <2>7 DEF L
<1> QED  BY <1>1, <1>5, <1>6 DEF L

(* What a variant shows is what its map shows. *)
LEMMA ReadsAgree == IInv => SameReads
<1> SUFFICES ASSUME IInv PROVE SameReads
  OBVIOUS
<1>1. ASSUME pc = "located", call.op = "read"
      PROVE  QuantityFound = Map!QuantityAt(call.side, call.price)
  <2>1. Map!Levels(call.side) = LevelMap(Run)
    <3>1. MapOf(call.side) = LevelMap(Run)
      BY <1>1, MapOfIs DEF MapFrom, Run
    <3> QED  BY <3>1, RunIsLadder DEF Map!Levels, Side
  <2> DEFINE place == at.index
  <2>2. /\ place \in 0 .. Len(Run) /\ IsPlace(call.side, Run, call.price, place)
        /\ at.found <=> IsHeld(Run, call.price)
        /\ call.price \in Prices
    BY <1>1 DEF IInv, SearchIsOn, IsLocated, CallIsOne
  <2>3. QuantityFound = IF IsHeld(Run, call.price) THEN Run[place + 1].quantity ELSE 0
    BY <2>2 DEF QuantityFound
  <2> HIDE DEF place
  <2>4. /\ DOMAIN LevelMap(Run) = {Run[k].price : k \in 1 .. Len(Run)}
        /\ \A k \in 1 .. Len(Run) : LevelMap(Run)[Run[k].price] = Run[k].quantity
    BY RunIsLadder, LevelMapAt
  <2>5. CASE IsHeld(Run, call.price)
    <3>1. place + 1 \in 1 .. Len(Run) /\ Run[place + 1].price = call.price
      BY <2>2, <2>5, RunIsLadder, PointsAtLevel
    <3>2. call.price \in DOMAIN LevelMap(Run)
          /\ LevelMap(Run)[call.price] = Run[place + 1].quantity
      BY <2>4, <3>1
    <3> QED  BY <2>1, <2>3, <2>5, <3>2 DEF Map!QuantityAt, Map!LevelQuantity
  <2>6. CASE ~IsHeld(Run, call.price)
    <3>1. call.price \notin DOMAIN LevelMap(Run)
      BY <2>4, <2>6 DEF IsHeld
    <3> QED  BY <2>1, <2>3, <2>6, <3>1 DEF Map!QuantityAt, Map!LevelQuantity
  <2> QED  BY <2>5, <2>6
<1>2. ASSUME pc = "idle"
      PROVE  /\ Best(bids) = Map!BestBid /\ Best(asks) = Map!BestAsk
             /\ Len(bids) = Map!BidDepth /\ Len(asks) = Map!AskDepth
             /\ \A rank \in 0 .. Len(bids) : Nth(bids, rank) = Map!Nth("buy", rank)
             /\ \A rank \in 0 .. Len(asks) : Nth(asks, rank) = Map!Nth("sell", rank)
  <2>1. bids = Ladder("buy") /\ asks = Ladder("sell") /\ "buy" \in Side /\ "sell" \in Side
    BY DEF Ladder, Side
  <2>2. IsLadder("buy", bids) /\ IsLadder("sell", asks)
    BY <2>1 DEF IInv, HasLadders
  <2>3. /\ \A rank \in 0 .. Len(bids) : Nth(bids, rank) = Map!Nth("buy", rank)
        /\ \A rank \in 0 .. Len(asks) : Nth(asks, rank) = Map!Nth("sell", rank)
    BY <1>2, <2>1, NthIsLevel
  <2>4. MapOf("buy") = LevelMap(bids) /\ MapOf("sell") = LevelMap(asks)
    BY <1>2, <2>1, MapOfIs DEF MapFrom, IInv, CallIsOne, NoCall
  <2>5. Len(bids) = Map!BidDepth /\ Len(asks) = Map!AskDepth
    <3>1. /\ Cardinality(DOMAIN LevelMap(bids)) = Len(bids)
          /\ Cardinality(DOMAIN LevelMap(asks)) = Len(asks)
      BY <2>1, <2>2, RanksAre
    <3> QED  BY <2>4, <3>1, SameCardinality DEF Map!BidDepth, Map!AskDepth
  <2>6. Best(bids) = Nth(bids, 0) /\ Best(asks) = Nth(asks, 0)
    BY <2>2 DEF Best, Nth, Last, IsLadder
  <2>7. 0 \in 0 .. Len(bids) /\ 0 \in 0 .. Len(asks)
    BY <2>2 DEF IsLadder
  <2> QED  BY <2>3, <2>5, <2>6, <2>7 DEF Map!BestBid, Map!BestAsk
<1> QED  BY <1>1, <1>2 DEF SameReads

(* Every read of every variant agrees with the map book                    *)
(* (tests/test_book_equivalence.cpp:20-50).                                *)
THEOREM ReadsAreSame == Spec => []SameReads
BY AlwaysIInv, ReadsAgree, PTL
=============================================================================
