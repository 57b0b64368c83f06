------------------------- MODULE ExchangeRiskProofs ------------------------
(***************************************************************************)
(* Proofs about admission (canPlaceOrders): what it promises of an order   *)
(* when it is placed holds of the account for as long as it has orders.    *)
(*                                                                         *)
(* The invariant says that the positions and the cash of an account cover  *)
(* what all its live orders have left.  Admission looks at the orders that *)
(* stay and the ones proposed, so it holds of the book with the order of a *)
(* command added; every iteration of the matching loop takes from what the *)
(* orders have left what it settles, and what rests is what is left.       *)
(***************************************************************************)
EXTENDS ExchangeProofs

-----------------------------------------------------------------------------
(* What orders have left *)

\* A finite set of orders.
Some(L) == IsFiniteSet(L) /\ L \subseteq Book!Order

\* What an order has left on a side, and what that costs.
Left(x, side)  == IF x.side = side THEN x.remaining ELSE 0
Costs(x, side) == IF x.side = side THEN x.price * x.remaining ELSE 0

\* The sums over one side, one order at a time.
LEMMA OneMoreOrder ==
    ASSUME NEW L, Some(L), NEW x \in Book!Order, x \notin L, NEW side
    PROVE  /\ Some(L \cup {x})
           /\ OpenQty(L \cup {x}, side) = OpenQty(L, side) + Left(x, side)
           /\ Notional(L \cup {x}, side) = Notional(L, side) + Costs(x, side)
<1> DEFINE M == L \cup {x}
           S == OfSide(L, side)
           T == OfSide(M, side)
           f == [o \in T |-> o.remaining]
           g == [o \in T |-> o.price * o.remaining]
<1>1. Some(M)
  BY FS_AddElement DEF Some
<1>2. IsFiniteSet(T) /\ T \subseteq Book!Order /\ S \subseteq Book!Order
  BY <1>1, FS_Subset DEF OfSide, Some
<1>3. \A o \in T : o.remaining \in Int /\ o.price * o.remaining \in Int
  <2>1. \A o \in T : o.remaining \in Nat /\ o.price \in Nat
    BY <1>2 DEF Book!Order
  <2>2. \A u \in Nat, v \in Nat : u * v \in Int
    OBVIOUS
  <2> HIDE DEF T
  <2>3. QED
    BY <2>1, <2>2
<1>4. f \in [T -> Int] /\ g \in [T -> Int]
  BY <1>3
<1>5. OpenQty(M, side) = SumFunction(f) /\ Notional(M, side) = SumFunction(g)
  BY Zenon DEF OpenQty, Notional
<1>6. OpenQty(L, side) \in Nat /\ Notional(L, side) \in Nat
  BY SideSums DEF Some
<1>7. CASE x.side = side
  <2>1. x \in T /\ T \ {x} = S
    BY <1>7 DEF OfSide
  <2>2. \A y \in S : f[y] = y.remaining /\ g[y] = y.price * y.remaining
    BY <2>1
  <2>3. f[x] = x.remaining /\ g[x] = x.price * x.remaining
    BY <2>1
  <2>4. [y \in S |-> f[y]] = [o \in S |-> o.remaining] /\ [y \in S |-> g[y]] = [o \in S |-> o.price * o.remaining]
    BY <2>2, Zenon
  <2> HIDE DEF f, g, S, T
  <2>5. /\ SumFunction(f) = f[x] + SumFunction([y \in T \ {x} |-> f[y]])
        /\ SumFunction(g) = g[x] + SumFunction([y \in T \ {x} |-> g[y]])
    BY <1>2, <1>4, <2>1, SumFacts
  <2>6. /\ SumFunction([y \in S |-> f[y]]) = OpenQty(L, side)
        /\ SumFunction([y \in S |-> g[y]]) = Notional(L, side)
    BY <2>4, Zenon DEF OpenQty, Notional, S
  <2>7. SumFunction(f) = x.remaining + OpenQty(L, side) /\ SumFunction(g) = x.price * x.remaining + Notional(L, side)
    BY <2>1, <2>3, <2>5, <2>6, Zenon
  <2>8. x.remaining \in Nat /\ x.price * x.remaining \in Int
    BY <1>2, <1>3, <2>1 DEF Book!Order
  <2>9. Left(x, side) = x.remaining /\ Costs(x, side) = x.price * x.remaining
    BY <1>7, Zenon DEF Left, Costs
  <2> HIDE DEF M
  <2>10. OpenQty(M, side) = OpenQty(L, side) + Left(x, side) /\ Notional(M, side) = Notional(L, side) + Costs(x, side)
    BY <1>5, <1>6, <2>7, <2>8, <2>9
  <2>11. QED
    BY <1>1, <2>10 DEF M
<1>8. CASE x.side # side
  <2>1. T = S
    BY <1>8 DEF OfSide
  <2>2. OpenQty(M, side) = OpenQty(L, side) /\ Notional(M, side) = Notional(L, side)
    BY <2>1, Zenon DEF OpenQty, Notional
  <2>3. Left(x, side) = 0 /\ Costs(x, side) = 0
    BY <1>8, Zenon DEF Left, Costs
  <2> HIDE DEF M
  <2>4. OpenQty(M, side) = OpenQty(L, side) + Left(x, side) /\ Notional(M, side) = Notional(L, side) + Costs(x, side)
    BY <1>6, <2>2, <2>3
  <2>5. QED
    BY <1>1, <2>4 DEF M
<1>9. QED
  BY <1>7, <1>8

\* What one set of orders has left is what another has, but for what one order
\* of it gave to a trade.
LessOn(L, M, x, q, side) ==
    /\ OpenQty(M, side) = OpenQty(L, side) - (IF x.side = side THEN q ELSE 0)
    /\ Notional(M, side) = Notional(L, side) - (IF x.side = side THEN x.price * q ELSE 0)

LessBy(L, M, x, q) == Some(L) /\ Some(M) /\ \A side \in Sides : LessOn(L, M, x, q, side)

\* An order that takes part in a trade: it stays with less left, or is gone when
\* it has nothing left.
Gives(L, M, x, q) ==
    /\ Some(L) /\ x \in L /\ q \in Nat /\ q <= x.remaining
    /\ \A y \in L : y.id = x.id => y = x
    /\ M = (L \ {x}) \cup {Book!Less(x, q)} \/ (q = x.remaining /\ M = L \ {x})

\* It has that much less left on its side.
LEMMA TradedSide ==
    ASSUME NEW L, NEW M, NEW x, NEW q, Gives(L, M, x, q), NEW side
    PROVE  Some(M) /\ LessOn(L, M, x, q, side)
<1> DEFINE K == L \ {x}
           y == Book!Less(x, q)
<1>0. /\ Some(L) /\ x \in L /\ q \in Nat /\ q <= x.remaining
      /\ \A z \in L : z.id = x.id => z = x
      /\ M = (L \ {x}) \cup {Book!Less(x, q)} \/ (q = x.remaining /\ M = L \ {x})
  BY Zenon DEF Gives
<1>1. x \in Book!Order /\ x.remaining \in Nat /\ x.price \in Nat
  BY <1>0 DEF Some, Book!Order
<1>2. Some(K) /\ x \notin K /\ K \cup {x} = L
  BY <1>0, FS_RemoveElement, FS_Subset DEF Some
<1>3. /\ y \in Book!Order /\ y.remaining = x.remaining - q
      /\ y.side = x.side /\ y.price = x.price /\ y.id = x.id
  <2>1. /\ Book!Less(x, q) \in Book!Order /\ Book!Less(x, q).remaining = x.remaining - q
        /\ Book!Less(x, q).side = x.side /\ Book!Less(x, q).price = x.price /\ Book!Less(x, q).id = x.id
    BY <1>0, <1>1, BookAssumed, Book!LessIsOrder
  <2>2. QED
    BY <2>1
<1>4a. M = K \cup {y} \/ (q = x.remaining /\ M = K)
  BY <1>0
<1> HIDE DEF y
<1>4. y \notin K
  BY <1>0, <1>3
<1> HIDE DEF K
<1>5. /\ OpenQty(L, side) = OpenQty(K, side) + Left(x, side)
      /\ Notional(L, side) = Notional(K, side) + Costs(x, side)
  BY <1>1, <1>2, OneMoreOrder
<1>6. /\ Some(K \cup {y})
      /\ OpenQty(K \cup {y}, side) = OpenQty(K, side) + Left(y, side)
      /\ Notional(K \cup {y}, side) = Notional(K, side) + Costs(y, side)
  BY <1>2, <1>3, <1>4, OneMoreOrder
<1>7. OpenQty(K, side) \in Nat /\ Notional(K, side) \in Nat
  BY <1>2, SideSums DEF Some
<1>8. /\ Left(x, side) = (IF x.side = side THEN x.remaining ELSE 0)
      /\ Left(y, side) = (IF x.side = side THEN x.remaining - q ELSE 0)
      /\ Costs(x, side) = (IF x.side = side THEN x.price * x.remaining ELSE 0)
      /\ Costs(y, side) = (IF x.side = side THEN x.price * (x.remaining - q) ELSE 0)
  BY <1>3, Zenon DEF Left, Costs
<1> DEFINE u == x.price * x.remaining
           v == x.price * q
           w == x.price * (x.remaining - q)
<1>9. u \in Int /\ v \in Int /\ w = u - v /\ (q = x.remaining => v = u)
  BY <1>0, <1>1
<1>9a. Costs(x, side) = (IF x.side = side THEN u ELSE 0) /\ Costs(y, side) = (IF x.side = side THEN w ELSE 0)
  BY <1>8, Zenon
<1> HIDE DEF u, v, w
<1>9b. /\ OpenQty(L, side) = OpenQty(K, side) + (IF x.side = side THEN x.remaining ELSE 0)
       /\ Notional(L, side) = Notional(K, side) + (IF x.side = side THEN u ELSE 0)
       /\ OpenQty(K \cup {y}, side) = OpenQty(K, side) + (IF x.side = side THEN x.remaining - q ELSE 0)
       /\ Notional(K \cup {y}, side) = Notional(K, side) + (IF x.side = side THEN w ELSE 0)
  BY <1>5, <1>6, <1>8, <1>9a, Zenon
<1>10. /\ Some(M)
       /\ OpenQty(M, side) = OpenQty(L, side) - (IF x.side = side THEN q ELSE 0)
       /\ Notional(M, side) = Notional(L, side) - (IF x.side = side THEN v ELSE 0)
  <2>1. CASE M = K \cup {y}
    <3>1. /\ OpenQty(M, side) = OpenQty(K, side) + (IF x.side = side THEN x.remaining - q ELSE 0)
          /\ Notional(M, side) = Notional(K, side) + (IF x.side = side THEN w ELSE 0)
      BY <1>9b, <2>1, Zenon
    <3>2. Some(M)
      BY <1>6, <2>1, Zenon
    <3>3. QED
      BY <1>0, <1>1, <1>7, <1>9, <1>9b, <3>1, <3>2
  <2>2. CASE q = x.remaining /\ M = K
    <3>1. OpenQty(M, side) = OpenQty(K, side) /\ Notional(M, side) = Notional(K, side) /\ Some(M)
      BY <1>2, <2>2, Zenon
    <3>2. QED
      BY <1>0, <1>1, <1>7, <1>9, <1>9b, <2>2, <3>1
  <2>3. QED
    BY <1>4a, <2>1, <2>2
<1>11. QED
  BY <1>10, Zenon DEF LessOn, v

\* And so on both sides.
LEMMA TradedOrder ==
    ASSUME NEW L, NEW M, NEW x, NEW q, Gives(L, M, x, q)
    PROVE  LessBy(L, M, x, q)
<1>1. \A side \in Sides : Some(M) /\ LessOn(L, M, x, q, side)
  BY TradedSide
<1>2. "buy" \in Sides
  BY DEF Sides
<1>3. QED
  BY <1>1, <1>2, Zenon DEF LessBy, Gives

-----------------------------------------------------------------------------
(* What an account covers *)

\* The limits on positions and the settled cash of an account allow for all of
\* the orders, and for the sale of some more; the credit is the carry that was
\* charged.  A bot that was opened with a debt may have no cash for a purchase.
Fits(account, orders, more, credit) ==
    /\ account.position + OpenQty(orders, "buy") <= MaxPosition
    /\ OpenQty(orders, "sell") + more - account.position <= MaxPosition
    /\ BotCash \in Nat => Notional(orders, "buy") <= account.cash + credit

\* The carry charged so far, which only the player pays.
Credit(c, id) == IF id = Player THEN c.ledger[StorageAccount] ELSE 0

Covers(c, id, orders, more) == Fits(c.accounts[id], orders, more, Credit(c, id))

\* What a trade at the price of its order, or a better one, takes from what the
\* order has left, it takes from the room for it.
LEMMA TradeFits ==
    ASSUME NEW c \in Engines, NEW f, Settles(c, f), NEW a \in Account, NEW more \in Nat, NEW credit \in Int,
           NEW L, NEW M, NEW o \in Book!Order, LessBy(L, M, o, f.quantity),
           o.side = "buy" => f.price <= o.price, Fits(a, L, more, credit)
    PROVE  /\ o.side = "buy" => Fits(Bought(a, f), M, more, credit)
           /\ o.side = "sell" => Fits(Sold(a, f), M, more, credit)
<1> DEFINE x == Bought(a, f)
           y == Sold(a, f)
           side == o.side
           price == o.price
<1>0. /\ Some(L) /\ Some(M) /\ side \in Sides /\ price \in Nat /\ (side = "buy" => f.price <= price)
      /\ \A s \in Sides :
           /\ OpenQty(M, s) = OpenQty(L, s) - (IF side = s THEN f.quantity ELSE 0)
           /\ Notional(M, s) = Notional(L, s) - (IF side = s THEN price * f.quantity ELSE 0)
  BY DEF LessBy, LessOn, Book!Order, Book!Sides, Sides
<1>1. /\ x.cash = a.cash - Paid(f) /\ x.position = a.position + f.quantity
      /\ y.cash = a.cash + Paid(f) /\ y.position = a.position - f.quantity
  BY SidesAfter
<1>2. f.quantity \in Nat /\ f.price \in Nat /\ a.cash \in Int /\ a.position \in Int
  BY DEF Settles, Account
<1>3. Paid(f) = f.price * f.quantity /\ f.price * f.quantity \in Nat
  BY <1>2 DEF Paid
<1>4. /\ OpenQty(L, "buy") \in Nat /\ OpenQty(L, "sell") \in Nat /\ Notional(L, "buy") \in Nat
      /\ OpenQty(M, "buy") \in Nat /\ OpenQty(M, "sell") \in Nat /\ Notional(M, "buy") \in Nat
  BY <1>0, SideSums DEF Some
<1>5. MaxPosition \in Nat
  BY ConfigFacts
<1>6. /\ a.position + OpenQty(L, "buy") <= MaxPosition
      /\ OpenQty(L, "sell") + more - a.position <= MaxPosition
      /\ BotCash \in Nat => Notional(L, "buy") <= a.cash + credit
  BY Zenon DEF Fits
<1> HIDE DEF x, y, side, price
<1>7. CASE side = "buy"
  <2>1. /\ OpenQty(M, "buy") = OpenQty(L, "buy") - f.quantity
        /\ OpenQty(M, "sell") = OpenQty(L, "sell")
        /\ Notional(M, "buy") = Notional(L, "buy") - price * f.quantity
    BY <1>0, <1>4, <1>7 DEF Sides
  <2>2. f.price * f.quantity <= price * f.quantity /\ price * f.quantity \in Nat
    BY <1>0, <1>2, <1>7
  <2>3. Fits(x, M, more, credit)
    BY <1>1, <1>2, <1>3, <1>4, <1>5, <1>6, <2>1, <2>2 DEF Fits
  <2>4. QED
    BY <1>7, <2>3 DEF x, side
<1>8. CASE side = "sell"
  <2>1. /\ OpenQty(M, "buy") = OpenQty(L, "buy")
        /\ OpenQty(M, "sell") = OpenQty(L, "sell") - f.quantity
        /\ Notional(M, "buy") = Notional(L, "buy")
    BY <1>0, <1>4, <1>8 DEF Sides
  <2>2. Fits(y, M, more, credit)
    BY <1>1, <1>2, <1>3, <1>4, <1>5, <1>6, <2>1 DEF Fits
  <2>3. QED
    BY <1>8, <2>2 DEF y, side
<1>9. QED
  BY <1>0, <1>7, <1>8 DEF Sides, side

-----------------------------------------------------------------------------
(* One iteration of the matching loop *)

\* The orders of an account, with one that is submitted.
With(b, o, id) == OrdersOf(b, id) \cup (IF id = o.owner THEN {o} ELSE {})

\* The orders of an account are finitely many, and their numbers tell them apart.
LEMMA OwnOrders ==
    ASSUME NEW b, NEW n \in Nat, Book!Sound(b, n), NEW id
    PROVE  /\ Some(OrdersOf(b, id))
           /\ \A x \in OrdersOf(b, id) : x \in Book!LiveOrders(b) /\ x.owner = id /\ x.id <= n
           /\ \A x, y \in OrdersOf(b, id) : x.id = y.id => x = y
<1>1. Book!IsFiniteSet(Book!LiveOrders(b))
  BY BookAssumed, Book!FiniteLive
<1>2. \A x \in Book!LiveOrders(b) : x \in Book!Order /\ x.id <= n
  BY BookAssumed, Book!LiveInPlace
<1>3. \A x, y \in Book!LiveOrders(b) : x.id = y.id => x = y
  BY BookAssumed, Book!IDsTellApart
<1>4. IsFiniteSet(Book!LiveOrders(b))
  BY <1>1, SameFinite
<1>5. OrdersOf(b, id) = {x \in Book!LiveOrders(b) : x.owner = id}
  BY SameLive, Zenon DEF OrdersOf
<1>6. IsFiniteSet(OrdersOf(b, id))
  BY <1>4, <1>5, FS_Subset
<1>7. QED
  BY <1>2, <1>3, <1>5, <1>6 DEF Some

\* And so are they with an order that has a number of its own.
LEMMA WithOrders ==
    ASSUME NEW b, NEW n \in Nat, Book!Sound(b, n), NEW o \in Book!Order, o.id = n + 1, NEW id
    PROVE  /\ Some(With(b, o, id))
           /\ \A x, y \in With(b, o, id) : x.id = y.id => x = y
           /\ id = o.owner => With(b, o, id) = OrdersOf(b, id) \cup {o} /\ o \notin OrdersOf(b, id)
           /\ id # o.owner => With(b, o, id) = OrdersOf(b, id)
<1> DEFINE K == OrdersOf(b, id)
<1>1. /\ Some(K)
      /\ \A x \in K : x \in Book!LiveOrders(b) /\ x.owner = id /\ x.id <= n
      /\ \A x, y \in K : x.id = y.id => x = y
  BY OwnOrders
<1>2. /\ id = o.owner => With(b, o, id) = K \cup {o}
      /\ id # o.owner => With(b, o, id) = K
  BY DEF With
<1> HIDE DEF K
<1>3. \A x \in K : x.id \in Nat /\ x.id # o.id
  BY <1>1 DEF Some, Book!Order
<1>4. Some(K \cup {o})
  BY <1>1, FS_AddElement DEF Some
<1>5. CASE id = o.owner
  BY <1>1, <1>2, <1>3, <1>4, <1>5 DEF K
<1>6. CASE id # o.owner
  BY <1>1, <1>2, <1>6 DEF K
<1>7. QED
  BY <1>5, <1>6

\* An iteration takes from an order of the maker's owner, from the taker, and
\* from no other.
LEMMA FillTakes ==
    ASSUME NEW n \in Nat, NEW m, NEW f, NEW w, Book!Sound(m.book, n), Book!Fills(m, f, w),
           m.taker \in Book!Order, m.taker.id = n + 1, f.maker.owner # m.taker.owner, NEW id
    PROVE  LET L == With(m.book, m.taker, id)
               M == With(w.book, w.taker, id)
           IN  /\ id = f.maker.owner => LessBy(L, M, f.maker, f.quantity)
               /\ id = m.taker.owner => LessBy(L, M, m.taker, f.quantity)
               /\ id # f.maker.owner /\ id # m.taker.owner => M = L
<1> DEFINE b == m.book
           t == m.taker
           x == f.maker
           q == f.quantity
           L == With(b, t, id)
           M == With(w.book, w.taker, id)
           y == Book!Less(x, q)
           u == Book!Less(t, q)
<1>1. /\ f \in Book!Trade /\ x \in Book!LiveOrders(b)
      /\ q <= x.remaining /\ q <= t.remaining
      /\ w.taker = u
      /\ Book!LiveOrders(w.book) =
           (Book!LiveOrders(b) \ {x}) \cup (IF q = x.remaining THEN {} ELSE {y})
  BY Zenon DEF Book!Fills
<1>2. x \in Book!Order /\ q \in Nat /\ t \in Book!Order /\ t.id = n + 1 /\ x.owner # t.owner
  BY <1>1 DEF Book!Trade
<1>3. Book!Sound(b, n)
  OBVIOUS
<1> HIDE DEF b, t, x, q
<1>4. y.owner = x.owner /\ u.owner = t.owner
  BY <1>1, <1>2, BookAssumed, Book!LessIsOrder
<1>5. /\ OrdersOf(b, id) = {z \in Book!LiveOrders(b) : z.owner = id}
      /\ OrdersOf(w.book, id) = {z \in Book!LiveOrders(w.book) : z.owner = id}
  BY SameLive, Zenon DEF OrdersOf
<1>6. /\ Some(L) /\ \A z, z1 \in L : z.id = z1.id => z = z1
      /\ id = t.owner => L = OrdersOf(b, id) \cup {t} /\ t \notin OrdersOf(b, id)
      /\ id # t.owner => L = OrdersOf(b, id)
  BY <1>2, <1>3, WithOrders
<1>7. /\ id = t.owner => M = OrdersOf(w.book, id) \cup {u}
      /\ id # t.owner => M = OrdersOf(w.book, id)
  BY <1>1, <1>4 DEF With
<1> HIDE DEF y, u, L, M
<1>8. CASE id = x.owner
  <2>1. x \in L
    BY <1>1, <1>2, <1>5, <1>6, <1>8
  <2>2. M = (L \ {x}) \cup {y} \/ (q = x.remaining /\ M = L \ {x})
    BY <1>1, <1>2, <1>4, <1>5, <1>6, <1>7, <1>8
  <2>3. M = (L \ {x}) \cup {Book!Less(x, q)} \/ (q = x.remaining /\ M = L \ {x})
    BY <2>2 DEF y
  <2>4. Gives(L, M, x, q)
    BY <1>1, <1>2, <1>6, <2>1, <2>3 DEF Gives
  <2>6. LessBy(L, M, x, q)
    BY <2>4, TradedOrder
  <2>7. QED
    BY <1>2, <1>8, <2>6 DEF L, M, b, t, x, q
<1>9. CASE id = t.owner
  <2>1. OrdersOf(w.book, id) = OrdersOf(b, id)
    BY <1>1, <1>2, <1>4, <1>5, <1>9
  <2>2. t \in L /\ M = (L \ {t}) \cup {u}
    BY <1>6, <1>7, <1>9, <2>1
  <2>3. M = (L \ {t}) \cup {Book!Less(t, q)}
    BY <2>2 DEF u
  <2>4. Gives(L, M, t, q)
    BY <1>1, <1>2, <1>6, <2>2, <2>3 DEF Gives
  <2>6. LessBy(L, M, t, q)
    BY <2>4, TradedOrder
  <2>7. QED
    BY <1>2, <1>9, <2>6 DEF L, M, b, t, x, q
<1>10. CASE id # x.owner /\ id # t.owner
  <2>1. OrdersOf(w.book, id) = OrdersOf(b, id)
    BY <1>1, <1>2, <1>4, <1>5, <1>10
  <2>2. M = L
    BY <1>6, <1>7, <1>10, <2>1
  <2>3. QED
    BY <1>10, <2>2 DEF L, M, b, t, x, q
<1>11. QED
  BY <1>8, <1>9, <1>10

\* Every account of the venue covers its orders, the submitted one among them.
Covered(c, b, o, more) == \A id \in Venue(c) : Covers(c, id, With(b, o, id), more[id])

\* An iteration: the order of whose trade it is, in a book and of an engine.
Iterates(c, n, m, f, w) ==
    /\ n \in Nat /\ Book!Sound(m.book, n) /\ Book!Fills(m, f, w)
    /\ m.taker \in Book!Order /\ m.taker.id = n + 1 /\ f.maker.owner # m.taker.owner
    /\ f.maker.owner \in DOMAIN c.accounts /\ m.taker.owner \in DOMAIN c.accounts

\* What one side of a trade of an iteration settles, it takes from what its
\* order has left.
LEMMA SideFits ==
    ASSUME NEW c \in Engines, NEW f, Settles(c, f), NEW x \in Book!Order, NEW d, Traded(c, d, f),
           x.side = "buy" => x.owner = Buyer(f) /\ f.price <= x.price,
           x.side = "sell" => x.owner = Seller(f),
           NEW L, NEW M, LessBy(L, M, x, f.quantity), NEW more \in Nat, NEW credit \in Int,
           Fits(c.accounts[x.owner], L, more, credit)
    PROVE  Fits(d.accounts[x.owner], M, more, credit)
<1> DEFINE a == c.accounts[x.owner]
<1>1. x.side \in {"buy", "sell"}
  BY DEF Book!Order, Book!Sides
<1>2. x.owner \in DOMAIN c.accounts
  BY <1>1, TradeSides
<1>3. a \in Account
  BY <1>2, AccountsOf
<1>4. x.side = "buy" => d.accounts[x.owner] = Bought(a, f)
  BY Zenon DEF Traded
<1>5. x.side = "sell" => d.accounts[x.owner] = Sold(a, f)
  BY Zenon DEF Traded
<1>6. Fits(a, L, more, credit)
  OBVIOUS
<1> HIDE DEF a
<1>7. /\ x.side = "buy" => Fits(Bought(a, f), M, more, credit)
      /\ x.side = "sell" => Fits(Sold(a, f), M, more, credit)
  BY <1>3, <1>6, TradeFits
<1>8. QED
  BY <1>1, <1>4, <1>5, <1>7, Zenon

\* The sides of the trade of an iteration, each at the price of its order or a
\* better one.
LEMMA IterationSides ==
    ASSUME NEW c \in Engines, NEW n, NEW m, NEW f, NEW w, Iterates(c, n, m, f, w)
    PROVE  /\ Settles(c, f)
           /\ f.maker \in Book!Order /\ m.taker \in Book!Order
           /\ f.maker.side = "buy" => f.maker.owner = Buyer(f) /\ f.price <= f.maker.price
           /\ f.maker.side = "sell" => f.maker.owner = Seller(f)
           /\ m.taker.side = "buy" => m.taker.owner = Buyer(f) /\ f.price <= m.taker.price
           /\ m.taker.side = "sell" => m.taker.owner = Seller(f)
           /\ {Buyer(f), Seller(f)} = {f.maker.owner, m.taker.owner}
<1> DEFINE x == f.maker
           t == m.taker
<1>1. /\ f \in Book!Trade /\ f.taker = t /\ f.price = x.price
      /\ x.side = Book!Opposite(t.side) /\ Book!Crosses(t.side, t.price, f.price)
  BY Zenon DEF Iterates, Book!Fills
<1>2. /\ t \in Book!Order /\ x.owner # t.owner
      /\ x.owner \in DOMAIN c.accounts /\ t.owner \in DOMAIN c.accounts
  BY Zenon DEF Iterates
<1>3. x \in Book!Order /\ f.quantity \in Nat /\ f.price \in Nat
  BY <1>1 DEF Book!Trade
<1> HIDE DEF x, t
<1>4. x.price \in Nat /\ t.price \in Nat /\ t.side \in {"buy", "sell"}
  BY <1>2, <1>3 DEF Book!Order, Book!Sides
<1>5. Settles(c, f)
  BY <1>1, <1>2, <1>3, <1>4 DEF Settles, x
<1>6. CASE t.side = "buy"
  <2>1. x.side = "sell" /\ f.price <= t.price
    BY <1>1, <1>3, <1>4, <1>6 DEF Book!Opposite, Book!Crosses
  <2>2. Buyer(f) = t.owner /\ Seller(f) = x.owner
    BY <1>1, <1>6 DEF Buyer, Seller, MakerBuys, x
  <2>3. QED
    BY <1>2, <1>3, <1>5, <1>6, <2>1, <2>2 DEF x, t
<1>7. CASE t.side = "sell"
  <2>1. x.side = "buy" /\ f.price <= x.price
    BY <1>1, <1>3, <1>4, <1>7 DEF Book!Opposite
  <2>2. Buyer(f) = x.owner /\ Seller(f) = t.owner
    BY <1>1, <1>7 DEF Buyer, Seller, MakerBuys, x
  <2>3. QED
    BY <1>2, <1>3, <1>5, <1>7, <2>1, <2>2 DEF x, t
<1>8. QED
  BY <1>4, <1>6, <1>7

\* What the charged carry is to an account, before and after trades.
LEMMA SameCredit ==
    ASSUME NEW c \in Engines, NEW d, d.ledger[StorageAccount] = c.ledger[StorageAccount], NEW id
    PROVE  Credit(c, id) \in Int /\ Credit(d, id) = Credit(c, id)
<1>1. StorageAccount \in LedgerAccounts
  BY DEF LedgerAccounts
<1>2. c.ledger[StorageAccount] \in Int
  BY <1>1 DEF Engines, Balances
<1>3. QED
  BY <1>2 DEF Credit

\* An iteration leaves every account with what it covers.
LEMMA IterationCovers ==
    ASSUME NEW c \in Engines, NEW v, Carried(c, v), NEW n, NEW m, NEW f, NEW w, Iterates(c, n, m, f, w),
           NEW more \in [Ids -> Nat], Covered(v, m.book, m.taker, more)
    PROVE  /\ Carried(c, ApplyTrade(v, f))
           /\ Covered(ApplyTrade(v, f), w.book, w.taker, more)
<1> DEFINE d == ApplyTrade(v, f)
<1>1. v \in Engines /\ DOMAIN v.accounts = DOMAIN c.accounts
  BY Zenon DEF Carried
<1>2. Settles(c, f)
  BY IterationSides
<1>3. Carried(c, d) /\ Settles(v, f) /\ Traded(v, d, f)
  BY <1>2, CarriedOn
<1> HIDE DEF d
<1>4. d.ledger[StorageAccount] = v.ledger[StorageAccount] /\ DOMAIN d.accounts = DOMAIN v.accounts
  BY <1>1, <1>3, Zenon DEF Carried
<1>5. Venue(d) = Venue(v)
  BY <1>4, SameVenue
<1>6. ASSUME NEW id \in Venue(v) PROVE Covers(d, id, With(w.book, w.taker, id), more[id])
  <2> DEFINE L == With(m.book, m.taker, id)
             M == With(w.book, w.taker, id)
             k == Credit(v, id)
             x == f.maker
             t == m.taker
  <2>1. id \in DOMAIN v.accounts /\ id \in Ids /\ more[id] \in Nat
    BY <1>1, AccountsOf DEF Venue
  <2>2. k \in Int /\ Credit(d, id) = k
    BY <1>1, <1>4, SameCredit
  <2>3. Fits(v.accounts[id], L, more[id], k)
    BY Zenon DEF Covered, Covers
  <2>4. /\ id = x.owner => LessBy(L, M, x, f.quantity)
        /\ id = t.owner => LessBy(L, M, t, f.quantity)
        /\ id # x.owner /\ id # t.owner => M = L
    BY FillTakes DEF Iterates
  <2>5. /\ x \in Book!Order /\ t \in Book!Order
        /\ x.side = "buy" => x.owner = Buyer(f) /\ f.price <= x.price
        /\ x.side = "sell" => x.owner = Seller(f)
        /\ t.side = "buy" => t.owner = Buyer(f) /\ f.price <= t.price
        /\ t.side = "sell" => t.owner = Seller(f)
        /\ {Buyer(f), Seller(f)} = {x.owner, t.owner}
    BY IterationSides
  <2> HIDE DEF L, M, k, x, t
  <2>6. CASE id = x.owner
    <3>1. LessBy(L, M, x, f.quantity) /\ Fits(v.accounts[x.owner], L, more[id], k)
      BY <2>3, <2>4, <2>6
    <3>2. Fits(d.accounts[x.owner], M, more[id], k)
      BY <1>1, <1>3, <2>1, <2>2, <2>5, <3>1, SideFits
    <3>3. QED
      BY <2>2, <2>6, <3>2, Zenon DEF Covers, M
  <2>7. CASE id = t.owner
    <3>1. LessBy(L, M, t, f.quantity) /\ Fits(v.accounts[t.owner], L, more[id], k)
      BY <2>3, <2>4, <2>7
    <3>2. Fits(d.accounts[t.owner], M, more[id], k)
      BY <1>1, <1>3, <2>1, <2>2, <2>5, <3>1, SideFits
    <3>3. QED
      BY <2>2, <2>7, <3>2, Zenon DEF Covers, M
  <2>8. CASE id # x.owner /\ id # t.owner
    <3>1. M = L /\ id # Buyer(f) /\ id # Seller(f)
      BY <2>4, <2>5, <2>8
    <3>2. d.accounts[id] = v.accounts[id]
      BY <1>3, <2>1, <3>1, Zenon DEF Traded
    <3>3. QED
      BY <2>2, <2>3, <3>1, <3>2, Zenon DEF Covers, M
  <2>9. QED
    BY <2>6, <2>7, <2>8
<1>7. Covered(d, w.book, w.taker, more)
  BY <1>5, <1>6, Zenon DEF Covered
<1>8. QED
  BY <1>3, <1>7 DEF d

-----------------------------------------------------------------------------
(* A whole order *)

\* With one order less there is no less room.
LEMMA FitsFewer ==
    ASSUME NEW a \in Account, NEW L, Some(L), NEW x \in Book!Order, x \notin L, NEW more \in Nat, NEW credit \in Int,
           Fits(a, L \cup {x}, more, credit)
    PROVE  Fits(a, L, more, credit)
<1> DEFINE M == L \cup {x}
           s == x.remaining
           p == x.price * x.remaining
<1>1. s \in Nat /\ p \in Nat /\ x.side \in {"buy", "sell"}
  <2>1. \A u \in Nat, v \in Nat : u * v \in Nat
    OBVIOUS
  <2>2. x.remaining \in Nat /\ x.price \in Nat /\ x.side \in {"buy", "sell"}
    BY DEF Book!Order, Book!Sides
  <2>3. QED
    BY <2>1, <2>2
<1>2. /\ Left(x, "buy") = (IF x.side = "buy" THEN s ELSE 0)
      /\ Left(x, "sell") = (IF x.side = "sell" THEN s ELSE 0)
      /\ Costs(x, "buy") = (IF x.side = "buy" THEN p ELSE 0)
  BY Zenon DEF Left, Costs
<1> HIDE DEF s, p
<1>3. /\ OpenQty(M, "buy") = OpenQty(L, "buy") + Left(x, "buy")
      /\ OpenQty(M, "sell") = OpenQty(L, "sell") + Left(x, "sell")
      /\ Notional(M, "buy") = Notional(L, "buy") + Costs(x, "buy")
  BY OneMoreOrder
<1>4. OpenQty(L, "buy") \in Nat /\ OpenQty(L, "sell") \in Nat /\ Notional(L, "buy") \in Nat
  BY SideSums DEF Some
<1>5. Fits(a, M, more, credit)
  OBVIOUS
<1> HIDE DEF M
<1>6. /\ a.position + OpenQty(M, "buy") <= MaxPosition
      /\ OpenQty(M, "sell") + more - a.position <= MaxPosition
      /\ BotCash \in Nat => Notional(M, "buy") <= a.cash + credit
  BY <1>5, Zenon DEF Fits
<1>7. MaxPosition \in Nat /\ a.position \in Int /\ a.cash \in Int
  BY ConfigFacts DEF Account
<1>8. QED
  BY <1>1, <1>2, <1>3, <1>4, <1>6, <1>7 DEF Fits

\* The engine after the trades of a run so far.
After(e, s) == FoldLeft(ApplyTrade, e, s)

\* One more trade.
LEMMA AfterOneMore ==
    ASSUME NEW e, NEW s \in Seq(Book!Trade), NEW f \in Book!Trade
    PROVE  After(e, Append(s, f)) = ApplyTrade(After(e, s), f)
<1>1. Trades!Fold(Append(s, f), e) = ApplyTrade(Trades!Fold(s, e), f)
  BY Trades!FoldAppend
<1>2. QED
  BY <1>1, SameTrades, Zenon DEF After

\* No trade.
LEMMA AfterNone == \A e : After(e, <<>>) = e
<1>1. \A e : Trades!Fold(<<>>, e) = e
  BY Trades!FoldEmpty
<1>2. QED
  BY <1>1, SameTrades, Zenon DEF After

\* What the engine covers after so many iterations.
Gone(e, m, more) ==
    /\ m.fills \in Seq(Book!Trade) /\ Carried(e, After(e, m.fills))
    /\ Covered(After(e, m.fills), m.book, m.taker, more)

\* One more iteration.
LEMMA GoneOn ==
    ASSUME NEW e \in Engines, NEW n, NEW m, NEW f, NEW w, Iterates(e, n, m, f, w),
           NEW more \in [Ids -> Nat], Gone(e, m, more)
    PROVE  Gone(e, w, more)
<1> DEFINE v == After(e, m.fills)
<1>1. m.fills \in Seq(Book!Trade) /\ Carried(e, v) /\ Covered(v, m.book, m.taker, more)
  BY Zenon DEF Gone
<1>2. f \in Book!Trade /\ w.fills = Append(m.fills, f)
  BY Zenon DEF Iterates, Book!Fills
<1>3. After(e, w.fills) = ApplyTrade(v, f)
  BY <1>1, <1>2, AfterOneMore
<1> HIDE DEF v
<1>4. Carried(e, ApplyTrade(v, f)) /\ Covered(ApplyTrade(v, f), w.book, w.taker, more)
  BY <1>1, IterationCovers
<1>5. w.fills \in Seq(Book!Trade)
  BY <1>1, <1>2
<1>6. QED
  BY <1>3, <1>4, <1>5, Zenon DEF Gone

\* What an account covers of its orders in the book.
CoversAll(c, more) == \A id \in Venue(c) : Covers(c, id, OrdersOf(c.book, id), more[id])

\* The run of an order leaves every account with what it covers.
LEMMA RunCovers ==
    ASSUME NEW e \in Engines, NEW n \in Nat, NEW b, Owned(e, b), NEW o \in Book!Order, o.id = n + 1,
           o.owner \in DOMAIN e.accounts, NEW r, NEW run, NEW limit, Book!Matched(run, b, o, n, limit, r),
           NEW more \in [Ids -> Nat], Covered(e, b, o, more)
    PROVE  Gone(e, run[limit], more)
<1>1. /\ limit \in Nat /\ run[0].taker = o /\ run[0].fills = <<>>
      /\ Book!LiveOrders(run[0].book) = Book!LiveOrders(b)
      /\ \A k \in 1..limit :
           \/ run[k] = run[k - 1]
           \/ /\ Book!Fills(run[k - 1], Book!TradeOf(run[k - 1]), run[k])
              /\ Book!TradeOf(run[k - 1]).maker.owner # o.owner
      /\ \A k \in 0..limit :
           /\ Book!Sound(run[k].book, n) /\ Book!Kept(b, run[k].book)
           /\ run[k].taker \in Book!Order /\ Book!SameOrder(run[k].taker, o)
  BY Zenon DEF Book!Matched
<1> DEFINE S == {k \in 0..limit : Gone(e, run[k], more)}
<1>2. 0 \in S
  <2>1. \A id : With(run[0].book, run[0].taker, id) = With(b, o, id)
    BY <1>1, SameLive, Zenon DEF With, OrdersOf
  <2>2. Covered(e, run[0].book, run[0].taker, more)
    BY <2>1, Zenon DEF Covered
  <2>3. After(e, run[0].fills) = e
    BY <1>1, AfterNone, Zenon
  <2>4. Carried(e, e)
    BY Zenon DEF Carried, SameDay
  <2>5. run[0].fills \in Seq(Book!Trade)
    BY <1>1
  <2>6. Gone(e, run[0], more)
    BY <2>2, <2>3, <2>4, <2>5, Zenon DEF Gone
  <2>7. QED
    BY <1>1, <2>6
<1>3. ASSUME NEW k \in 1..limit, k - 1 \in S PROVE k \in S
  <2> DEFINE m == run[k - 1]
             f == Book!TradeOf(m)
             w == run[k]
  <2>1. k \in 0..limit /\ k - 1 \in 0..limit
    BY <1>1
  <2>2. Gone(e, m, more)
    BY <1>3
  <2>3. w = m \/ (Book!Fills(m, f, w) /\ f.maker.owner # o.owner)
    BY <1>1, Zenon
  <2>4. /\ Book!Sound(m.book, n) /\ Book!Kept(b, m.book) /\ m.taker \in Book!Order
        /\ Book!SameOrder(m.taker, o)
    BY <1>1, <2>1, Zenon
  <2> HIDE DEF m, f, w
  <2>5. CASE w = m
    BY <2>1, <2>2, <2>5 DEF w
  <2>6. CASE Book!Fills(m, f, w) /\ f.maker.owner # o.owner
    <3>1. m.taker.id = n + 1 /\ m.taker.owner = o.owner
      BY <2>4, Zenon DEF Book!SameOrder
    <3>2. f.maker \in Book!LiveOrders(m.book)
      BY <2>6, Zenon DEF Book!Fills
    <3>3. f.maker.owner \in DOMAIN e.accounts
      BY <2>4, <3>2, Zenon DEF Book!Kept, Owned
    <3>4. Iterates(e, n, m, f, w)
      BY <2>4, <2>6, <3>1, <3>3, Zenon DEF Iterates
    <3>5. Gone(e, w, more)
      BY <2>2, <3>4, GoneOn
    <3>6. QED
      BY <2>1, <3>5 DEF w
  <2>7. QED
    BY <2>3, <2>5, <2>6
<1> HIDE DEF S
<1>4. 0..limit \subseteq S
  BY <1>1, <1>2, <1>3, Trades!IndexInduction
<1>5. limit \in S
  BY <1>1, <1>4
<1>6. QED
  BY <1>5 DEF S

\* What is left of the submitted order rests or expires.
LEMMA RestCovers ==
    ASSUME NEW d \in Engines, NEW n \in Nat, NEW w, Book!Sound(w.book, n), w.taker \in Book!Order,
           w.taker.id = n + 1,
           \/ Book!LiveOrders(d.book) = Book!LiveOrders(w.book)
           \/ Book!LiveOrders(d.book) = Book!LiveOrders(w.book) \cup {w.taker},
           NEW more \in [Ids -> Nat], Covered(d, w.book, w.taker, more)
    PROVE  CoversAll(d, more)
<1>1. ASSUME NEW id \in Venue(d) PROVE Covers(d, id, OrdersOf(d.book, id), more[id])
  <2> DEFINE K == OrdersOf(w.book, id)
             L == With(w.book, w.taker, id)
             M == OrdersOf(d.book, id)
             t == w.taker
             a == d.accounts[id]
             k == Credit(d, id)
  <2>1. id \in DOMAIN d.accounts /\ id \in Ids
    BY AccountsOf DEF Venue
  <2>2. a \in Account /\ more[id] \in Nat
    BY <2>1, AccountsOf
  <2>3. k \in Int
    BY SameCredit
  <2>4. Fits(a, L, more[id], k)
    BY Zenon DEF Covered, Covers
  <2>5. /\ id = t.owner => L = K \cup {t} /\ t \notin K
        /\ id # t.owner => L = K
    BY WithOrders
  <2>6. Some(K)
    BY OwnOrders
  <2>7. K = {x \in Book!LiveOrders(w.book) : x.owner = id} /\ M = {x \in Book!LiveOrders(d.book) : x.owner = id}
    BY SameLive, Zenon DEF OrdersOf
  <2>8. t \in Book!Order
    OBVIOUS
  <2>9. Book!LiveOrders(d.book) = Book!LiveOrders(w.book) \/ Book!LiveOrders(d.book) = Book!LiveOrders(w.book) \cup {t}
    OBVIOUS
  <2> HIDE DEF K, L, M, t, a, k
  <2>10. M = K \/ M = L
    BY <2>5, <2>7, <2>9
  <2>11. Fits(a, K, more[id], k)
    <3>1. CASE id = t.owner
      <4>1. Fits(a, K \cup {t}, more[id], k) /\ t \notin K
        BY <2>4, <2>5, <3>1
      <4>2. QED
        BY <2>2, <2>3, <2>6, <2>8, <4>1, FitsFewer
    <3>2. CASE id # t.owner
      BY <2>4, <2>5, <3>2
    <3>3. QED
      BY <3>1, <3>2
  <2>12. Fits(a, M, more[id], k)
    BY <2>4, <2>10, <2>11
  <2>13. QED
    BY <2>12 DEF Covers, a, M, k
<1>2. QED
  BY <1>1 DEF CoversAll

\* A taken order leaves every account with what it covers of its orders.
LEMMA TakenCovers ==
    ASSUME NEW c \in Engines, NEW b, NEW o, Submission(c, b, o),
           NEW r, r.ok, r = SubmitOrder(b, o), NEW more \in [Ids -> Nat], Covered(c, b, o, more)
    PROVE  CoversAll(Settle([c EXCEPT !.nextOrder = c.nextOrder + 1], r), more)
<1> DEFINE n == c.nextOrder
           k == c.nextOrder + 1
           e == [[c EXCEPT !.nextOrder = k] EXCEPT !.book = r.book]
           d == Settle([c EXCEPT !.nextOrder = c.nextOrder + 1], r)
<1>1. n \in Nat /\ k \in Nat /\ k = n + 1
  BY DEF Engines
<1>2. d = After(e, r.fills)
  BY Zenon DEF Settle, After
<1>3. r = Book!SubmitOrder(b, o)
  BY SameSubmit
<1>4. /\ Book!Sound(b, n) /\ Book!Uncrossed(b) /\ Owned(c, b)
      /\ o \in Book!Order /\ o.id = n + 1 /\ o.owner \in DOMAIN c.accounts
      /\ o.tif = "gtc" => o.price \in Prices
  BY Zenon DEF Submission, InOrder
<1> HIDE DEF d, n, k
<1>5. PICK run, limit : Book!Matched(run, b, o, n, limit, r)
  <2>1. Book!SubmitOrder(b, o).ok
    BY <1>3
  <2>2. \E run, limit : Book!Matched(run, b, o, n, limit, Book!SubmitOrder(b, o))
    BY <1>1, <1>4, <2>1, BookAssumed, Book!SubmitMatches
  <2>3. QED
    BY <1>3, <2>2, Zenon
<1>6. r.book \in Book!Books
  <2>1. Book!SubmitOrder(b, o).ok
    BY <1>3
  <2>2. Book!Sound(Book!SubmitOrder(b, o).book, n + 1)
    BY <1>1, <1>4, <2>1, BookAssumed, Book!SubmitOutcome
  <2>3. QED
    BY <1>3, <2>2, Zenon DEF Book!Sound
<1>7. /\ e \in Engines /\ e.accounts = c.accounts /\ e.ledger = c.ledger /\ e.book = r.book
  BY <1>1, <1>6 DEF Engines
<1> HIDE DEF e
<1>8. Venue(e) = Venue(c)
  BY <1>7, SameVenue
<1>9. Owned(e, b) /\ o.owner \in DOMAIN e.accounts
  BY <1>4, <1>7, <1>8, Zenon DEF Owned
<1>10. Covered(e, b, o, more)
  BY <1>7, <1>8, Zenon DEF Covered, Covers, Credit
<1>11. Gone(e, run[limit], more)
  BY <1>1, <1>4, <1>5, <1>7, <1>9, <1>10, RunCovers
<1> DEFINE w == run[limit]
<1>12. /\ limit \in Nat /\ r.fills = w.fills
       /\ \/ Book!LiveOrders(r.book) = Book!LiveOrders(w.book)
          \/ Book!LiveOrders(r.book) = Book!LiveOrders(w.book) \cup {w.taker}
       /\ \A j \in 0..limit :
            /\ Book!Sound(run[j].book, n) /\ run[j].taker \in Book!Order /\ Book!SameOrder(run[j].taker, o)
  BY <1>5, Zenon DEF Book!Matched
<1>13. limit \in 0..limit
  BY <1>12
<1>14. Book!Sound(w.book, n) /\ w.taker \in Book!Order /\ w.taker.id = n + 1
  BY <1>4, <1>12, <1>13, Zenon DEF Book!SameOrder
<1>15. Carried(e, d) /\ Covered(d, w.book, w.taker, more)
  BY <1>2, <1>11, <1>12, Zenon DEF Gone
<1> HIDE DEF w
<1>16. d \in Engines /\ d.book = r.book
  BY <1>7, <1>15, Zenon DEF Carried
<1>17. CoversAll(d, more)
  BY <1>1, <1>12, <1>14, <1>15, <1>16, RestCovers
<1>18. QED
  BY <1>17 DEF d

-----------------------------------------------------------------------------
(* Steps that leave no account with less room *)

\* Orders that are some of an account's: all of them, all but one, or none.
Eases(K, L) == K = L \/ K = {} \/ \E x \in L : K = L \ {x}

\* With fewer orders there is no less room.
LEMMA FitsEased ==
    ASSUME NEW a \in Account, NEW L, Some(L), NEW K, Eases(K, L), NEW more \in Nat, NEW credit \in Int,
           Fits(a, L, more, credit)
    PROVE  Fits(a, K, more, credit)
<1>1. CASE K = L
  BY <1>1
<1>2. CASE K = {}
  <2>1. Some(K) /\ OfSide(K, "buy") = {} /\ OfSide(K, "sell") = {}
    BY <1>2, FS_EmptySet DEF Some, OfSide
  <2>2. OpenQty(K, "buy") = 0 /\ OpenQty(K, "sell") = 0 /\ Notional(K, "buy") = 0
    BY <2>1, SideSums DEF Some
  <2>3. OpenQty(L, "buy") \in Nat /\ OpenQty(L, "sell") \in Nat /\ Notional(L, "buy") \in Nat
    BY SideSums DEF Some
  <2>4. /\ a.position + OpenQty(L, "buy") <= MaxPosition
        /\ OpenQty(L, "sell") + more - a.position <= MaxPosition
        /\ BotCash \in Nat => Notional(L, "buy") <= a.cash + credit
    BY Zenon DEF Fits
  <2>5. MaxPosition \in Nat /\ a.position \in Int /\ a.cash \in Int
    BY ConfigFacts DEF Account
  <2>6. QED
    BY <2>2, <2>3, <2>4, <2>5 DEF Fits
<1>3. CASE \E x \in L : K = L \ {x}
  <2>1. PICK x \in L : K = L \ {x}
    BY <1>3
  <2>2. Some(K) /\ x \in Book!Order /\ x \notin K /\ L = K \cup {x}
    BY <2>1, FS_RemoveElement DEF Some
  <2>3. Fits(a, K \cup {x}, more, credit)
    BY <2>2, Zenon
  <2>4. QED
    BY <2>2, <2>3, FitsFewer
<1>4. QED
  BY <1>1, <1>2, <1>3 DEF Eases

\* Live orders have numbers that proposed ones do not have yet.
Numbered(c) == \A x \in Book!LiveOrders(c.book) : x.id # 0

NoMore == [id \in Ids |-> 0]

\* Every account covers all its orders, and what was charged is an amount.
Secured(c) == CoversAll(c, NoMore) /\ Numbered(c) /\ c.ledger[StorageAccount] >= 0

\* What leaves every account with the room it had: it has its position, the
\* cash it lost was charged, and it has no new order.
Spares(c, d) ==
    /\ d \in Engines /\ DOMAIN d.accounts = DOMAIN c.accounts
    /\ \A id \in Venue(c) : /\ d.accounts[id].position = c.accounts[id].position
                            /\ d.accounts[id].cash + Credit(d, id) = c.accounts[id].cash + Credit(c, id)
                            /\ Eases(OrdersOf(d.book, id), OrdersOf(c.book, id))
    /\ Book!LiveOrders(d.book) \subseteq Book!LiveOrders(c.book)
    /\ d.ledger[StorageAccount] >= c.ledger[StorageAccount]

\* The journal's account of the carry is a number.
LEMMA CarryIsNumber ==
    ASSUME NEW c \in Engines
    PROVE  c.ledger[StorageAccount] \in Int /\ \A id : Credit(c, id) \in Int
<1>1. StorageAccount \in LedgerAccounts
  BY DEF LedgerAccounts
<1>2. c.ledger[StorageAccount] \in Int
  BY <1>1 DEF Engines, Balances
<1>3. QED
  BY <1>2 DEF Credit

\* Room for orders depends on the position and on cash with credit.
LEMMA FitsAlike ==
    ASSUME NEW a \in Account, NEW x \in Account, x.position = a.position, NEW k \in Int, NEW j \in Int,
           x.cash + j = a.cash + k, NEW L, NEW more, Fits(a, L, more, k)
    PROVE  Fits(x, L, more, j)
BY Zenon DEF Fits

\* The orders of an account are some orders.
LEMMA OrdersAreSome ==
    ASSUME NEW c \in Engines, Orderly(c), NEW id
    PROVE  Some(OrdersOf(c.book, id))
<1> DEFINE n == c.nextOrder
           b == c.book
<1>1. n \in Nat /\ Book!Sound(b, n)
  BY Zenon DEF Orderly, InOrder, Engines
<1> HIDE DEF n, b
<1>2. Some(OrdersOf(b, id))
  BY <1>1, OwnOrders
<1>3. QED
  BY <1>2 DEF b

\* It keeps the accounts secured.
LEMMA SparesSecured ==
    ASSUME NEW c \in Engines, Orderly(c), Secured(c), NEW d, Spares(c, d)
    PROVE  Secured(d)
<1>1. d \in Engines /\ DOMAIN d.accounts = DOMAIN c.accounts
  BY Zenon DEF Spares
<1>2. Venue(d) = Venue(c)
  BY <1>1, SameVenue
<1>3. ASSUME NEW id \in Venue(d) PROVE Covers(d, id, OrdersOf(d.book, id), NoMore[id])
  <2> DEFINE a == c.accounts[id]
             x == d.accounts[id]
             k == Credit(c, id)
             j == Credit(d, id)
             K == OrdersOf(d.book, id)
             L == OrdersOf(c.book, id)
             m == NoMore[id]
  <2>1. a \in Account /\ x \in Account /\ id \in Ids
    BY <1>1, AccountsOf DEF Venue
  <2>2. k \in Int /\ j \in Int /\ m \in Nat
    BY <1>1, <2>1, CarryIsNumber DEF NoMore
  <2>3. x.position = a.position /\ x.cash + j = a.cash + k /\ Eases(K, L)
    BY <1>2, Zenon DEF Spares
  <2>4. Fits(a, L, m, k)
    BY <1>2, Zenon DEF Secured, CoversAll, Covers
  <2>5. Some(L)
    BY OrdersAreSome
  <2> HIDE DEF a, x, k, j, K, L, m
  <2>6. Fits(a, K, m, k)
    BY <2>1, <2>2, <2>3, <2>4, <2>5, FitsEased
  <2>7. Fits(x, K, m, j)
    BY <2>1, <2>2, <2>3, <2>6, FitsAlike
  <2>8. QED
    BY <2>7, Zenon DEF Covers, x, j, K, m
<1>4. Numbered(d)
  BY DEF Spares, Secured, Numbered
<1>5. d.ledger[StorageAccount] >= 0
  <2>1. c.ledger[StorageAccount] \in Int /\ d.ledger[StorageAccount] \in Int
    BY <1>1, CarryIsNumber
  <2>2. c.ledger[StorageAccount] >= 0 /\ d.ledger[StorageAccount] >= c.ledger[StorageAccount]
    BY Zenon DEF Secured, Spares
  <2>3. QED
    BY <2>1, <2>2
<1>6. QED
  BY <1>3, <1>4, <1>5, Zenon DEF Secured, CoversAll

\* Marks, the turn count and the end of a session spare the accounts.
LEMMA DaySecured ==
    ASSUME NEW c, Sane(c), Secured(c), NEW d \in Engines, d.accounts = c.accounts,
           d.ledger = c.ledger, d.book = c.book
    PROVE  Secured(d)
<1>1. c \in Engines /\ Orderly(c)
  BY DEF Sane
<1>2. \A id : Credit(d, id) = Credit(c, id)
  BY Zenon DEF Credit
<1>3. \A id : Eases(OrdersOf(d.book, id), OrdersOf(c.book, id))
  BY Zenon DEF Eases
<1>4. d.ledger[StorageAccount] >= c.ledger[StorageAccount]
  BY <1>1, CarryIsNumber
<1>5. Spares(c, d)
  BY <1>2, <1>3, <1>4 DEF Spares
<1>6. QED
  BY <1>1, <1>5, SparesSecured

\* reconcileReservations() moves no settled cash.
LEMMA ReconcileSecured ==
    ASSUME NEW c, Sane(c), Secured(c)
    PROVE  Secured(Reconcile(c))
<1> DEFINE d == Reconcile(c)
<1>1. c \in Engines /\ Orderly(c) /\ Reconciled(c, d)
  BY ReconcileFollows DEF Sane
<1> HIDE DEF d
<1>2. /\ d \in Engines /\ d.book = c.book /\ DOMAIN d.accounts = DOMAIN c.accounts
      /\ \A id \in DOMAIN c.accounts : /\ d.accounts[id].cash = c.accounts[id].cash
                                       /\ d.accounts[id].position = c.accounts[id].position
      /\ d.ledger[StorageAccount] = c.ledger[StorageAccount]
  BY <1>1, Zenon DEF Reconciled
<1>3. \A id : Credit(d, id) = Credit(c, id)
  BY <1>2, Zenon DEF Credit
<1>4. \A id : Eases(OrdersOf(d.book, id), OrdersOf(c.book, id))
  BY <1>2, Zenon DEF Eases
<1>5. d.ledger[StorageAccount] >= c.ledger[StorageAccount]
  BY <1>1, <1>2, CarryIsNumber
<1>6. Spares(c, d)
  BY <1>2, <1>3, <1>4, <1>5 DEF Spares, Venue
<1>7. QED
  BY <1>1, <1>6, SparesSecured DEF d

\* cancelAccountOrders() takes orders away.
LEMMA CancelSecured ==
    ASSUME NEW c, Sane(c), Secured(c), NEW id
    PROVE  Secured(CancelAll(c, id))
<1> DEFINE d == CancelAll(c, id)
<1>1. c \in Engines /\ Orderly(c) /\ Cancelled(c, id, d)
  BY CancelFollows DEF Sane
<1> HIDE DEF d
<1>2. /\ d \in Engines /\ d.accounts = c.accounts /\ d.ledger = c.ledger
      /\ Book!LiveOrders(d.book) = Book!LiveOrders(c.book) \ OrdersOf(c.book, id)
  BY <1>1, Zenon DEF Cancelled
<1>3. \A j : Credit(d, j) = Credit(c, j)
  BY <1>2, Zenon DEF Credit
<1>4. \A j : /\ OrdersOf(d.book, j) = {x \in Book!LiveOrders(d.book) : x.owner = j}
             /\ OrdersOf(c.book, j) = {x \in Book!LiveOrders(c.book) : x.owner = j}
  BY SameLive, Zenon DEF OrdersOf
<1>5. ASSUME NEW j PROVE Eases(OrdersOf(d.book, j), OrdersOf(c.book, j))
  <2>1. CASE j = id
    <3>1. OrdersOf(d.book, j) = {}
      BY <1>2, <1>4, <2>1
    <3>2. QED
      BY <3>1, Zenon DEF Eases
  <2>2. CASE j # id
    <3> DEFINE A == Book!LiveOrders(c.book)
               B == Book!LiveOrders(d.book)
               N == OrdersOf(c.book, id)
    <3>0. B = A \ N /\ \A x \in N : x.owner = id
      BY <1>2, <1>4
    <3> HIDE DEF A, B, N
    <3>1. {x \in B : x.owner = j} = {x \in A : x.owner = j}
      BY <2>2, <3>0
    <3>2. OrdersOf(d.book, j) = OrdersOf(c.book, j)
      BY <1>4, <3>1, Zenon DEF A, B
    <3>3. QED
      BY <3>2, Zenon DEF Eases
  <2>3. QED
    BY <2>1, <2>2
<1>6. d.ledger[StorageAccount] >= c.ledger[StorageAccount]
  BY <1>1, <1>2, CarryIsNumber
<1>7. Spares(c, d)
  BY <1>2, <1>3, <1>5, <1>6 DEF Spares
<1>8. QED
  BY <1>1, <1>7, SparesSecured DEF d

\* Some of the orders in the book.
SomeOf(c, b) ==
    /\ Book!LiveOrders(b) \subseteq Book!LiveOrders(c.book)
    /\ \A id : Eases(OrdersOf(b, id), OrdersOf(c.book, id))

\* All of them are some of them.
LEMMA AllAreSome == \A c : SomeOf(c, c.book)
BY Zenon DEF SomeOf, Eases

\* The orders without one of them, for its owner and for the others.
LEMMA RemoveIsSome ==
    ASSUME NEW c \in Engines, Orderly(c), NEW o \in Book!LiveOrders(c.book)
    PROVE  /\ InOrder(c, RemoveOrder(c.book, o)) /\ SomeOf(c, RemoveOrder(c.book, o))
           /\ OrdersOf(RemoveOrder(c.book, o), o.owner) = OrdersOf(c.book, o.owner) \ {o}
<1> DEFINE b0 == c.book
           b == RemoveOrder(b0, o)
<1>1. InOrder(c, b0) /\ o \in Book!LiveOrders(b0)
  BY DEF Orderly
<1> HIDE DEF b0
<1>2. InOrder(c, b) /\ Book!LiveOrders(b) = Book!LiveOrders(b0) \ {o}
  BY <1>1, RemoveKeeps
<1> HIDE DEF b
<1>3. \A j : /\ OrdersOf(b, j) = {x \in Book!LiveOrders(b) : x.owner = j}
             /\ OrdersOf(b0, j) = {x \in Book!LiveOrders(b0) : x.owner = j}
  BY SameLive, Zenon DEF OrdersOf
<1>4. o \in OrdersOf(b0, o.owner) /\ OrdersOf(b, o.owner) = OrdersOf(b0, o.owner) \ {o}
  BY <1>1, <1>2, <1>3
<1>5. ASSUME NEW j PROVE Eases(OrdersOf(b, j), OrdersOf(b0, j))
  <2>1. CASE j = o.owner
    BY <1>4, <2>1, Zenon DEF Eases
  <2>2. CASE j # o.owner
    <3>1. OrdersOf(b, j) = OrdersOf(b0, j)
      BY <1>2, <1>3, <2>2
    <3>2. QED
      BY <3>1, Zenon DEF Eases
  <2>3. QED
    BY <2>1, <2>2
<1>6. Book!LiveOrders(b) \subseteq Book!LiveOrders(b0)
  BY <1>2
<1>7. QED
  BY <1>2, <1>4, <1>5, <1>6, Zenon DEF SomeOf, b, b0

\* So does cancelling one order.
LEMMA RemoveSecured ==
    ASSUME NEW c, Sane(c), Secured(c), NEW o \in Book!LiveOrders(c.book)
    PROVE  Secured([c EXCEPT !.book = RemoveOrder(c.book, o)])
<1> DEFINE b == RemoveOrder(c.book, o)
           d == [c EXCEPT !.book = b]
<1>1. c \in Engines /\ Orderly(c)
  BY DEF Sane
<1>2. InOrder(c, b) /\ SomeOf(c, b)
  BY <1>1, RemoveIsSome
<1> HIDE DEF b
<1>3. d \in Engines /\ d.accounts = c.accounts /\ d.ledger = c.ledger /\ d.book = b
  BY <1>1, <1>2, OtherBook
<1> HIDE DEF d
<1>4. \A j : Credit(d, j) = Credit(c, j)
  BY <1>3, Zenon DEF Credit
<1>5. d.ledger[StorageAccount] >= c.ledger[StorageAccount]
  BY <1>1, <1>3, CarryIsNumber
<1>6. Spares(c, d)
  BY <1>2, <1>3, <1>4, <1>5, Zenon DEF Spares, SomeOf
<1>7. Secured(d)
  BY <1>1, <1>6, SparesSecured
<1>8. QED
  BY <1>7, Zenon DEF d, b

\* chargeStorage() credits what it takes.
LEMMA ChargeSecured ==
    ASSUME NEW c, Sane(c), Secured(c)
    PROVE  Secured(ChargeStorage(c))
<1> DEFINE d == ChargeStorage(c)
           s == Storage(c)
<1>1. c \in Engines /\ Orderly(c) /\ Charged(c, d) /\ s \in Nat
  BY ChargeStorageCharges, StorageIsAmount DEF Sane
<1> HIDE DEF d, s
<1>2. /\ d \in Engines /\ d.book = c.book /\ DOMAIN d.accounts = DOMAIN c.accounts
      /\ \A id \in DOMAIN c.accounts : id # Player => d.accounts[id] = c.accounts[id]
      /\ d.accounts[Player] = [c.accounts[Player] EXCEPT !.cash = @ - s]
      /\ d.ledger[StorageAccount] = c.ledger[StorageAccount] + s
  BY <1>1, Zenon DEF Charged, s
<1>3. c.ledger[StorageAccount] \in Int
  BY <1>1, CarryIsNumber
<1>4. d.accounts[Player].position = c.accounts[Player].position /\ d.accounts[Player].cash = c.accounts[Player].cash - s
      /\ c.accounts[Player].cash \in Int
  <2> DEFINE a == c.accounts[Player]
             x == d.accounts[Player]
  <2>1. a \in Account
    BY <1>1, AccountsOf
  <2>2. x = [a EXCEPT !.cash = @ - s]
    BY <1>2
  <2> HIDE DEF a, x
  <2>3. x.position = a.position /\ x.cash = a.cash - s /\ a.cash \in Int
    BY <2>1, <2>2 DEF Account
  <2>4. QED
    BY <2>3 DEF a, x
<1>5. ASSUME NEW id \in Venue(c)
      PROVE  /\ d.accounts[id].position = c.accounts[id].position
             /\ d.accounts[id].cash + Credit(d, id) = c.accounts[id].cash + Credit(c, id)
  <2>1. CASE id = Player
    <3>1. Credit(d, id) = c.ledger[StorageAccount] + s /\ Credit(c, id) = c.ledger[StorageAccount]
      BY <1>2, <2>1, Zenon DEF Credit
    <3> DEFINE l == c.ledger[StorageAccount]
               m == c.accounts[id].cash
               j == Credit(d, id)
               k == Credit(c, id)
               p == d.accounts[id].cash
    <3>2. l \in Int /\ m \in Int /\ j = l + s /\ k = l /\ p = m - s
      BY <1>3, <1>4, <2>1, <3>1
    <3> HIDE DEF l, m, j, k, p
    <3>3. p + j = m + k
      BY <1>1, <3>2
    <3>4. QED
      BY <1>4, <2>1, <3>3 DEF m, j, k, p
  <2>2. CASE id # Player
    <3>1. Credit(d, id) = 0 /\ Credit(c, id) = 0
      BY <2>2, Zenon DEF Credit
    <3>2. d.accounts[id] = c.accounts[id]
      BY <1>2, <2>2 DEF Venue
    <3>3. QED
      BY <3>1, <3>2, Zenon
  <2>3. QED
    BY <2>1, <2>2
<1>6. \A id : Eases(OrdersOf(d.book, id), OrdersOf(c.book, id))
  BY <1>2, Zenon DEF Eases
<1>7. d.ledger[StorageAccount] >= c.ledger[StorageAccount]
  BY <1>1, <1>2, <1>3
<1>8. Spares(c, d)
  BY <1>2, <1>5, <1>6, <1>7 DEF Spares
<1>9. QED
  BY <1>1, <1>8, SparesSecured DEF d

\* The end of a real-time day cancels, reserves and says that it is over.
LEMMA EndSecured ==
    ASSUME NEW c, Sane(c), Secured(c), NEW reason \in Reasons
    PROVE  Secured(EndRealTime(c, reason))
<1> DEFINE x == CancelAll(c, Player)
           y == Reconcile(x)
           d == EndSession(y, reason)
<1>1. EndRealTime(c, reason) = d
  BY Zenon DEF EndRealTime
<1>2. Follows(c, x) /\ Secured(x)
  BY CancelFollows, CancelSecured
<1> HIDE DEF x
<1>3. Sane(x)
  BY <1>2, Zenon DEF Follows
<1>4. Fine(y) /\ Secured(y)
  BY <1>2, <1>3, ReconcileFollows, ReconcileSecured
<1> HIDE DEF y
<1>5. Sane(y) /\ y \in Engines
  BY <1>4, Zenon DEF Fine, Sane
<1>6. d \in Engines /\ d.accounts = y.accounts /\ d.ledger = y.ledger /\ d.book = y.book
  BY <1>5, EndSessionKeeps
<1> HIDE DEF d
<1>7. Secured(d)
  BY <1>4, <1>5, <1>6, DaySecured
<1>8. QED
  BY <1>1, <1>7, Zenon

\* A day in breach ends so, another goes on.
LEMMA EndOnBreachSecured ==
    ASSUME NEW c, Sane(c), Secured(c)
    PROVE  Secured(EndOnBreach(c))
<1>1. Secured(EndRealTime(c, BreachReason(c)))
  BY ReasonOfBreach, EndSecured
<1>2. EndOnBreach(c) = EndRealTime(c, BreachReason(c)) \/ EndOnBreach(c) = c
  BY Zenon DEF EndOnBreach
<1>3. QED
  BY <1>1, <1>2, Zenon

-----------------------------------------------------------------------------
(* Orders that are admitted *)

\* What Secured says, with room for the sale of some more.
Holds(c, more) == CoversAll(c, more) /\ Numbered(c) /\ c.ledger[StorageAccount] >= 0

\* A book to which an order may be submitted that the accounts cover.
Admits(c, b, o, more) ==
    /\ more \in [Ids -> Nat] /\ Submission(c, b, o) /\ Covered(c, b, o, more)
    /\ \A x \in Book!LiveOrders(b) : x.id # 0
    /\ c.ledger[StorageAccount] >= 0

\* A taken order that is covered leaves the accounts secured.
LEMMA TakenHolds ==
    ASSUME NEW c \in Engines, Orderly(c), NEW b, NEW o, NEW more, Admits(c, b, o, more),
           NEW r, r.ok, r = SubmitOrder(b, o)
    PROVE  Holds(Settle([c EXCEPT !.nextOrder = c.nextOrder + 1], r), more)
<1> DEFINE d == Settle([c EXCEPT !.nextOrder = c.nextOrder + 1], r)
<1>1. /\ more \in [Ids -> Nat] /\ Submission(c, b, o) /\ Covered(c, b, o, more)
      /\ \A x \in Book!LiveOrders(b) : x.id # 0
      /\ c.ledger[StorageAccount] >= 0
  BY Zenon DEF Admits
<1>2. CoversAll(d, more)
  BY <1>1, TakenCovers
<1>3. Submitted(c, b, o, r, d)
  BY <1>1, TakenKeeps
<1> HIDE DEF d
<1>4. /\ \A x \in Book!LiveOrders(d.book) : Book!Comes(x, b, o)
      /\ d.ledger[StorageAccount] = c.ledger[StorageAccount]
  BY <1>3, Zenon DEF Submitted
<1>5. o.id # 0
  BY <1>1 DEF Submission, Engines
<1>6. Numbered(d)
  <2> SUFFICES ASSUME NEW x \in Book!LiveOrders(d.book) PROVE x.id # 0
    BY Zenon DEF Numbered
  <2>1. (\E y \in Book!LiveOrders(b) : x.id = y.id) \/ x.id = o.id
    BY <1>4, Zenon DEF Book!Comes, Book!SameOrder
  <2>2. QED
    BY <1>1, <1>5, <2>1, Zenon
<1>7. d.ledger[StorageAccount] >= 0
  BY <1>1, <1>4
<1>8. QED
  BY <1>2, <1>6, <1>7, Zenon DEF Holds, d

\* Place() of an order that is covered, unless it is refused.
LEMMA PlaceHolds ==
    ASSUME NEW c, Sane(c), NEW id, NEW side, NEW price, NEW qty, NEW tif,
           Placing(c, id, side, price, qty, tif), NEW more,
           Submission(c, c.book, Placed(c, id, side, price, qty, tif))
             => Admits(c, c.book, Placed(c, id, side, price, qty, tif), more),
           Place(c, id, side, price, qty, tif).ok
    PROVE  Holds(Place(c, id, side, price, qty, tif), more)
<1> DEFINE b == c.book
           o == Placed(c, id, side, price, qty, tif)
           r == SubmitOrder(b, o)
           d == Place(c, id, side, price, qty, tif)
<1>1. c \in Engines /\ Orderly(c)
  BY DEF Sane
<1>2. Submission(c, b, o) /\ Submitted(c, b, o, r, d)
  BY <1>1, PlaceKeeps
<1>3. d = Settle([c EXCEPT !.nextOrder = c.nextOrder + 1], r)
  BY Zenon DEF Place, Placed
<1>4. Admits(c, b, o, more) /\ d.ok
  BY <1>2
<1>5. r = SubmitOrder(b, o)
  OBVIOUS
<1> HIDE DEF b, o, r, d
<1>6. r.ok
  BY <1>2, <1>4, Zenon DEF Submitted
<1>7. Holds(d, more)
  BY <1>1, <1>3, <1>4, <1>5, <1>6, TakenHolds
<1>8. QED
  BY <1>7 DEF d

\* What is admitted fits.
LEMMA AdmittedFits ==
    ASSUME NEW c \in Engines, NEW id \in Venue(c), NEW P, NEW S, Some(P \cup S), CanPlace(c, id, P, S),
           NEW credit \in Int, credit >= 0
    PROVE  Fits(c.accounts[id], P \cup S, 0, credit)
<1> DEFINE a == c.accounts[id]
           L == P \cup S
           x == OpenQty(L, "buy")
           y == OpenQty(L, "sell")
           z == Notional(L, "buy")
<1>1. ~External(id) /\ id \in DOMAIN c.accounts
  BY DEF Venue
<1>2. AbsQty(a.position + x) <= MaxPosition /\ AbsQty(a.position - y) <= MaxPosition /\ a.cash >= z
  BY <1>1, Zenon DEF CanPlace
<1>3. a.position \in Int /\ a.cash \in Int
  BY <1>1, AccountsOf DEF Account
<1>4. x \in Nat /\ y \in Nat /\ z \in Nat
  BY SideSums DEF Some
<1>5. MaxPosition \in Nat
  BY ConfigFacts
<1> HIDE DEF a, x, y, z
<1>6. a.position + x <= MaxPosition /\ y + 0 - a.position <= MaxPosition /\ z <= a.cash + credit
  BY <1>2, <1>3, <1>4, <1>5 DEF AbsQty
<1>7. QED
  BY <1>6, Zenon DEF Fits, a, x, y, z

\* Orders that differ by their numbers only, as the order of an admission and
\* the one that is placed.
Alike(p, o) == p.side = o.side /\ p.price = o.price /\ p.remaining = o.remaining

\* They take the same room.
LEMMA FitsSwapped ==
    ASSUME NEW a, NEW L, Some(L), NEW p \in Book!Order, p \notin L, NEW o \in Book!Order, o \notin L,
           Alike(p, o), NEW more, NEW credit, Fits(a, L \cup {p}, more, credit)
    PROVE  Fits(a, L \cup {o}, more, credit)
<1>1. \A side : Left(o, side) = Left(p, side) /\ Costs(o, side) = Costs(p, side)
  BY Zenon DEF Left, Costs, Alike
<1>2. \A side : /\ OpenQty(L \cup {p}, side) = OpenQty(L, side) + Left(p, side)
                /\ Notional(L \cup {p}, side) = Notional(L, side) + Costs(p, side)
  BY OneMoreOrder
<1>3. \A side : /\ OpenQty(L \cup {o}, side) = OpenQty(L, side) + Left(o, side)
                /\ Notional(L \cup {o}, side) = Notional(L, side) + Costs(o, side)
  BY OneMoreOrder
<1>4. \A side : /\ OpenQty(L \cup {o}, side) = OpenQty(L \cup {p}, side)
                /\ Notional(L \cup {o}, side) = Notional(L \cup {p}, side)
  BY <1>1, <1>2, <1>3, Zenon
<1>5. QED
  BY <1>4, Zenon DEF Fits

\* A sale, and the room for it.
LEMMA FitsSale ==
    ASSUME NEW a \in Account, NEW L, Some(L), NEW o \in Book!Order, o \notin L, o.side = "sell",
           NEW q \in Nat, o.remaining = q, NEW credit \in Int
    PROVE  Fits(a, L \cup {o}, 0, credit) <=> Fits(a, L, q, credit)
<1>1. Left(o, "buy") = 0 /\ Left(o, "sell") = q /\ Costs(o, "buy") = 0
  BY Zenon DEF Left, Costs
<1> DEFINE M == L \cup {o}
<1>2. /\ OpenQty(M, "buy") = OpenQty(L, "buy") + Left(o, "buy")
      /\ OpenQty(M, "sell") = OpenQty(L, "sell") + Left(o, "sell")
      /\ Notional(M, "buy") = Notional(L, "buy") + Costs(o, "buy")
  BY OneMoreOrder
<1>3. OpenQty(L, "buy") \in Nat /\ OpenQty(L, "sell") \in Nat /\ Notional(L, "buy") \in Nat
  BY SideSums DEF Some
<1>4. MaxPosition \in Nat /\ a.position \in Int /\ a.cash \in Int
  BY ConfigFacts DEF Account
<1> HIDE DEF M
<1>5. Fits(a, M, 0, credit) <=> Fits(a, L, q, credit)
  BY <1>1, <1>2, <1>3, <1>4 DEF Fits
<1>6. QED
  BY <1>5 DEF M

\* The accounts cover what is left of their orders.
LEMMA FewerCovered ==
    ASSUME NEW c \in Engines, Orderly(c), Secured(c), NEW b, SomeOf(c, b), NEW id \in Venue(c)
    PROVE  Fits(c.accounts[id], OrdersOf(b, id), 0, Credit(c, id))
<1> DEFINE a == c.accounts[id]
           K == OrdersOf(b, id)
           L == OrdersOf(c.book, id)
           k == Credit(c, id)
<1>1. a \in Account /\ id \in Ids
  BY AccountsOf DEF Venue
<1>2. NoMore[id] = 0 /\ k \in Int
  BY <1>1, CarryIsNumber DEF NoMore
<1>3. Fits(a, L, NoMore[id], k)
  BY Zenon DEF Secured, CoversAll, Covers
<1>4. Some(L) /\ Eases(K, L)
  BY OrdersAreSome DEF SomeOf
<1> HIDE DEF a, K, L, k
<1>5. Fits(a, L, 0, k)
  BY <1>2, <1>3, Zenon
<1>6. Fits(a, K, 0, k)
  BY <1>1, <1>2, <1>4, <1>5, FitsEased
<1>7. QED
  BY <1>6 DEF a, K, k

\* An order of the flow takes no room of an account of the venue.
LEMMA FlowAdmits ==
    ASSUME NEW c, Sane(c), Secured(c), NEW b, SomeOf(c, b), NEW o, Submission(c, b, o),
           o.owner \notin Venue(c)
    PROVE  Admits(c, b, o, NoMore)
<1>1. c \in Engines /\ Orderly(c) /\ Numbered(c) /\ c.ledger[StorageAccount] >= 0
  BY DEF Sane, Secured
<1>2. \A x \in Book!LiveOrders(b) : x.id # 0
  BY <1>1 DEF SomeOf, Numbered
<1>3. ASSUME NEW id \in Venue(c) PROVE Covers(c, id, With(b, o, id), NoMore[id])
  <2>1. NoMore[id] = 0
    BY <1>1, AccountsOf DEF Venue, NoMore
  <2>2. With(b, o, id) = OrdersOf(b, id)
    BY DEF With
  <2>3. Fits(c.accounts[id], OrdersOf(b, id), 0, Credit(c, id))
    BY <1>1, FewerCovered
  <2>4. QED
    BY <2>1, <2>2, <2>3, Zenon DEF Covers
<1>4. NoMore \in [Ids -> Nat]
  BY DEF NoMore
<1>5. QED
  BY <1>1, <1>2, <1>3, <1>4, Zenon DEF Admits, Covered

\* An order that canPlaceOrders() admits next to what is left of its owner's
\* orders is covered, under any number.
LEMMA AdmittedAdmits ==
    ASSUME NEW c, Sane(c), Secured(c), NEW b, SomeOf(c, b), NEW o, Submission(c, b, o),
           o.owner \in Venue(c), NEW p \in Book!Order, p.id = 0, Alike(p, o),
           CanPlace(c, o.owner, {p}, OrdersOf(b, o.owner))
    PROVE  Admits(c, b, o, NoMore)
<1> DEFINE n == c.nextOrder
           j == o.owner
           K == OrdersOf(b, j)
           k == Credit(c, j)
           a == c.accounts[j]
<1>1. c \in Engines /\ Orderly(c) /\ Numbered(c) /\ c.ledger[StorageAccount] >= 0
  BY DEF Sane, Secured
<1>2. \A x \in Book!LiveOrders(b) : x.id # 0
  BY <1>1 DEF SomeOf, Numbered
<1>3. n \in Nat /\ Book!Sound(b, n) /\ o \in Book!Order /\ o.id = n + 1 /\ j \in Venue(c)
  BY <1>1, Zenon DEF Submission, InOrder, Engines
<1> HIDE DEF n
<1>4. Some(K) /\ \A x \in K : x \in Book!LiveOrders(b)
  BY <1>3, OwnOrders
<1>5. o \notin K /\ \A id : /\ id = j => With(b, o, id) = OrdersOf(b, id) \cup {o}
                            /\ id # j => With(b, o, id) = OrdersOf(b, id)
  BY <1>3, WithOrders
<1>6. p \notin K
  BY <1>2, <1>4
<1>7. k \in Int /\ k >= 0
  BY <1>1, CarryIsNumber DEF Credit
<1>8. CanPlace(c, j, {p}, K) /\ Alike(p, o)
  OBVIOUS
<1> HIDE DEF K, j, k
<1>9. Some({p} \cup K) /\ {p} \cup K = K \cup {p}
  <2>1. Some(K \cup {p})
    BY <1>4, <1>6, OneMoreOrder
  <2>2. {p} \cup K = K \cup {p}
    OBVIOUS
  <2>3. QED
    BY <2>1, <2>2
<1>10. Fits(a, {p} \cup K, 0, k)
  BY <1>1, <1>3, <1>7, <1>8, <1>9, AdmittedFits
<1> HIDE DEF a
<1>11. Fits(a, K \cup {p}, 0, k)
  BY <1>9, <1>10, Zenon
<1>12. Fits(a, K \cup {o}, 0, k)
  BY <1>3, <1>4, <1>5, <1>6, <1>8, <1>11, FitsSwapped
<1>13. ASSUME NEW id \in Venue(c) PROVE Covers(c, id, With(b, o, id), NoMore[id])
  <2>1. NoMore[id] = 0
    BY <1>1, AccountsOf DEF Venue, NoMore
  <2>2. CASE id = j
    <3>1. With(b, o, id) = K \cup {o}
      BY <1>5, <2>2 DEF K
    <3>2. QED
      BY <1>12, <2>1, <2>2, <3>1, Zenon DEF Covers, a, k
  <2>3. CASE id # j
    <3>1. With(b, o, id) = OrdersOf(b, id)
      BY <1>5, <2>3
    <3>2. Fits(c.accounts[id], OrdersOf(b, id), 0, Credit(c, id))
      BY <1>1, FewerCovered
    <3>3. QED
      BY <2>1, <3>1, <3>2, Zenon DEF Covers
  <2>4. QED
    BY <2>2, <2>3
<1>14. NoMore \in [Ids -> Nat]
  BY DEF NoMore
<1>15. QED
  BY <1>1, <1>2, <1>13, <1>14, Zenon DEF Admits, Covered

\* What is placed has the side, the price and the quantity of its admission.
LEMMA PlacedIs ==
    ASSUME NEW c \in Engines, NEW id, NEW side, NEW price, NEW qty, NEW tif,
           Placing(c, id, side, price, qty, tif)
    PROVE  LET o == Placed(c, id, side, price, qty, tif)
               p == NewOrder(0, id, side, price, qty, tif)
           IN  /\ o \in Book!Order /\ o.owner = id /\ o.side = side /\ o.price = price /\ o.remaining = qty
               /\ p \in Book!Order /\ p.id = 0 /\ p.side = side /\ p.remaining = qty /\ Alike(p, o)
<1> DEFINE k == c.nextOrder + 1
           zero == 0
<1>1. /\ id \in Ids /\ side \in Sides /\ price \in Nat /\ qty \in Nat /\ tif \in TIFs
      /\ k \in Nat /\ zero \in Nat
  BY AccountsOf DEF Placing, Engines
<1> HIDE DEF k, zero
<1> DEFINE o == NewOrder(k, id, side, price, qty, tif)
           p == NewOrder(zero, id, side, price, qty, tif)
<1>2. o \in Book!Order /\ o.owner = id /\ o.side = side /\ o.price = price /\ o.remaining = qty
  BY <1>1, NewIsOrder
<1>3. p \in Book!Order /\ p.id = zero /\ p.side = side /\ p.price = price /\ p.remaining = qty
  BY <1>1, NewIsOrder
<1>4. o = Placed(c, id, side, price, qty, tif) /\ p = NewOrder(0, id, side, price, qty, tif)
  BY Zenon DEF Placed, k, zero
<1> HIDE DEF o, p
<1>5. Alike(p, o)
  BY <1>2, <1>3, Zenon DEF Alike
<1>6. QED
  BY <1>2, <1>3, <1>4, <1>5, Zenon DEF zero

\* placeLimit().
LEMMA LimitSecured ==
    ASSUME NEW c, Sane(c), Secured(c), NEW id \in DOMAIN c.accounts, NEW side, NEW price, NEW qty, NEW tif,
           Placing(c, id, side, price, qty, tif),
           CanPlace(c, id, {NewOrder(0, id, side, price, qty, tif)}, OrdersOf(c.book, id)),
           Place(c, id, side, price, qty, tif).ok
    PROVE  Secured(Place(c, id, side, price, qty, tif))
<1> DEFINE o == Placed(c, id, side, price, qty, tif)
           p == NewOrder(0, id, side, price, qty, tif)
           d == Place(c, id, side, price, qty, tif)
           b == c.book
<1>1. c \in Engines
  BY DEF Sane
<1>2. o.owner = id /\ p \in Book!Order /\ p.id = 0 /\ Alike(p, o)
  BY <1>1, PlacedIs
<1>3. CanPlace(c, id, {p}, OrdersOf(b, id)) /\ SomeOf(c, b)
  BY AllAreSome
<1>4. ASSUME Submission(c, b, o) PROVE Admits(c, b, o, NoMore)
  <2> HIDE DEF o, p, b
  <2>1. CanPlace(c, o.owner, {p}, OrdersOf(b, o.owner))
    BY <1>2, <1>3, Zenon
  <2>2. QED
    BY <1>2, <1>3, <1>4, <2>1, AdmittedAdmits, FlowAdmits
<1>5. Holds(d, NoMore)
  BY <1>4, PlaceHolds
<1>6. QED
  BY <1>5, Zenon DEF Holds, Secured

\* replaceLimit(): what stays are the owner's other orders.
LEMMA ReplaceSecured ==
    ASSUME NEW c, Sane(c), Secured(c), NEW old \in Book!LiveOrders(c.book), NEW price \in Prices,
           NEW qty \in Nat, NEW tif \in TIFs,
           CanPlace(c, old.owner, {NewOrder(0, old.owner, old.side, price, qty, tif)},
                    OrdersOf(c.book, old.owner) \ {old}),
           NEW d, d.ok,
           d = Settle([c EXCEPT !.nextOrder = c.nextOrder + 1],
                      ReplaceOrder(c.book, old,
                        NewOrder(c.nextOrder + 1, old.owner, old.side, price, qty, tif)))
    PROVE  Secured(d)
<1> DEFINE o == Placed(c, old.owner, old.side, price, qty, tif)
           p == NewOrder(0, old.owner, old.side, price, qty, tif)
           r == ReplaceOrder(c.book, old, o)
           b == RemoveOrder(c.book, old)
           j == old.owner
<1>1. c \in Engines /\ Orderly(c)
  BY DEF Sane
<1>2. old \in Book!Order /\ j \in DOMAIN c.accounts
  BY LiveIs
<1>3. Placing(c, j, old.side, price, qty, tif)
  BY <1>2, ConfigFacts DEF Placing, Book!Order, Book!Sides, Sides
<1>4. /\ o \in Book!Order /\ o.owner = j /\ o.price = price
      /\ p \in Book!Order /\ p.id = 0 /\ Alike(p, o)
  BY <1>1, <1>3, PlacedIs
<1>5. InOrder(c, b) /\ SomeOf(c, b) /\ OrdersOf(b, j) = OrdersOf(c.book, j) \ {old}
  BY <1>1, RemoveIsSome
<1>6. d = Settle([c EXCEPT !.nextOrder = c.nextOrder + 1], r)
  BY Zenon DEF Placed
<1>7. r = Refused \/ r = SubmitOrder(b, o)
  BY Zenon DEF ReplaceOrder
<1>8. CanPlace(c, j, {p}, OrdersOf(b, j))
  BY <1>5, Zenon
<1>9. o.id = c.nextOrder + 1
  <2> DEFINE k == c.nextOrder + 1
  <2>1. k \in Nat /\ j \in Ids /\ old.side \in Sides /\ price \in Nat
    BY <1>1, <1>2, <1>3, AccountsOf DEF Engines, Placing
  <2> HIDE DEF k
  <2>2. NewOrder(k, j, old.side, price, qty, tif).id = k
    BY <2>1, NewIsOrder
  <2>3. QED
    BY <2>2, Zenon DEF Placed, k
<1> HIDE DEF o, p, r, b
<1>10. Submission(c, b, o)
  BY <1>2, <1>4, <1>5, <1>9, Zenon DEF Submission
<1>11. Admits(c, b, o, NoMore)
  <2>1. CanPlace(c, o.owner, {p}, OrdersOf(b, o.owner))
    BY <1>4, <1>8, Zenon
  <2>2. QED
    BY <1>4, <1>5, <1>10, <2>1, AdmittedAdmits, FlowAdmits
<1>12. r.ok
  <2>1. CASE ~r.ok
    <3>1. Submitted(c, b, o, r, d)
      BY <1>1, <1>6, <2>1, RefusedKeeps
    <3>2. QED
      BY <2>1, <3>1, Zenon DEF Submitted
  <2>2. QED
    BY <2>1
<1>13. r = SubmitOrder(b, o)
  <2>1. ~Refused.ok
    BY DEF Refused
  <2>2. QED
    BY <1>7, <1>12, <2>1
<1>14. Holds(d, NoMore)
  BY <1>1, <1>6, <1>11, <1>12, <1>13, TakenHolds
<1>15. QED
  BY <1>14, Zenon DEF Holds, Secured

\* executeCustomerArrival(): the flow has no limits, and its order does not rest.
LEMMA ArriveSecured ==
    ASSUME NEW c, Sane(c), Secured(c), NEW a \in Arrivals, Arrive(c, a).ok
    PROVE  Secured(Arrive(c, a))
<1> DEFINE m == FlowLimit(c, a)
           x == Place(c, Flow, a.side, m, a.qty, "ioc")
           o == Placed(c, Flow, a.side, m, a.qty, "ioc")
           b == c.book
<1>1. Arrive(c, a) = Reconcile(x)
  BY Zenon DEF Arrive
<1>2. c \in Engines /\ m \in Nat
  BY LimitIsPrice DEF Sane
<1>3. Placing(c, Flow, a.side, m, a.qty, "ioc")
  <2>1. Flow \in DOMAIN c.accounts
    BY <1>2, PlayerAndFlow
  <2>2. a.side \in Sides /\ a.qty \in Nat
    BY DEF Arrivals
  <2>3. "ioc" \in TIFs /\ "ioc" # "gtc"
    BY DEF TIFs
  <2>4. QED
    BY <1>2, <2>1, <2>2, <2>3, Zenon DEF Placing
<1> HIDE DEF m
<1>4. o.owner = Flow
  BY <1>2, <1>3, PlacedIs
<1>5. Follows(c, x)
  BY <1>3, PlaceFollows
<1>6. ASSUME Submission(c, b, o) PROVE Admits(c, b, o, NoMore)
  <2> HIDE DEF o
  <2>1. o.owner \notin Venue(c)
    BY <1>2, <1>4, PlayerAndFlow
  <2>2. QED
    BY <1>6, <2>1, AllAreSome, FlowAdmits
<1> DEFINE d == Reconcile(x)
<1>7. Sane(x)
  BY <1>5, Zenon DEF Follows
<1>8. Follows(x, d) /\ d.ok
  BY <1>1, <1>7, ReconcileFollows
<1>9. x.ok
  BY <1>8, Zenon DEF Follows
<1>10. Holds(x, NoMore)
  BY <1>3, <1>6, <1>9, PlaceHolds
<1>11. Secured(x)
  BY <1>10, Zenon DEF Holds, Secured
<1>12. Secured(d)
  BY <1>7, <1>11, ReconcileSecured
<1>13. QED
  BY <1>1, <1>12, Zenon

-----------------------------------------------------------------------------
(* A quote, and a turn *)

\* An order is covered if its owner covers it with its others.
LEMMA OwnerAdmits ==
    ASSUME NEW c, Sane(c), NEW more, Holds(c, more), NEW o, Submission(c, c.book, o),
           o.owner \in Venue(c), NEW then \in [Ids -> Nat],
           \A id \in Ids : id # o.owner => then[id] = more[id],
           Fits(c.accounts[o.owner], OrdersOf(c.book, o.owner) \cup {o}, then[o.owner], Credit(c, o.owner))
    PROVE  Admits(c, c.book, o, then)
<1> DEFINE b == c.book
           j == o.owner
<1>1. c \in Engines /\ CoversAll(c, more) /\ Numbered(c) /\ c.ledger[StorageAccount] >= 0
  BY DEF Sane, Holds
<1>2. ASSUME NEW id \in Venue(c) PROVE Covers(c, id, With(b, o, id), then[id])
  <2>1. CASE id = j
    <3>1. With(b, o, id) = OrdersOf(b, id) \cup {o}
      BY <2>1 DEF With
    <3>2. QED
      BY <2>1, <3>1, Zenon DEF Covers
  <2>2. CASE id # j
    <3>1. With(b, o, id) = OrdersOf(b, id)
      BY <2>2 DEF With
    <3>2. then[id] = more[id]
      BY <1>1, <2>2, AccountsOf DEF Venue
    <3>3. QED
      BY <1>1, <3>1, <3>2, Zenon DEF CoversAll
  <2>3. QED
    BY <2>1, <2>2
<1>3. Covered(c, b, o, then)
  BY <1>2, Zenon DEF Covered
<1>4. QED
  BY <1>1, <1>3, Zenon DEF Admits, Numbered

\* The two orders of an admitted quote, one after the other.
LEMMA QuoteFits ==
    ASSUME NEW c \in Engines, NEW bid \in Prices, NEW ask \in Prices, NEW qty \in Nat,
           CanPlace(c, Player, {NewOrder(0, Player, "buy", bid, qty, "gtc"),
                                NewOrder(0, Player, "sell", ask, qty, "gtc")}, {}),
           c.ledger[StorageAccount] >= 0, NEW o \in Book!Order,
           Alike(NewOrder(0, Player, "buy", bid, qty, "gtc"), o)
    PROVE  Fits(c.accounts[Player], {o}, qty, Credit(c, Player))
<1> DEFINE p == NewOrder(0, Player, "buy", bid, qty, "gtc")
           s == NewOrder(0, Player, "sell", ask, qty, "gtc")
           a == c.accounts[Player]
           k == Credit(c, Player)
<1>1. Player \in Venue(c) /\ a \in Account
  BY PlayerAndFlow, AccountsOf
<1>2. k \in Int /\ k >= 0
  BY CarryIsNumber DEF Credit
<1>3. /\ p \in Book!Order /\ p.side = "buy"
      /\ s \in Book!Order /\ s.side = "sell" /\ s.remaining = qty
  <2>1. bid \in Nat /\ ask \in Nat /\ Player \in Ids /\ 0 \in Nat
    BY ConfigFacts DEF Ids
  <2>2. "buy" \in Sides /\ "sell" \in Sides /\ "gtc" \in TIFs
    BY DEF Sides, TIFs
  <2>3. QED
    BY <2>1, <2>2, NewIsOrder
<1>4. CanPlace(c, Player, {p, s}, {}) /\ Alike(p, o)
  OBVIOUS
<1> HIDE DEF p, s, k
<1>5. Some({})
  BY FS_EmptySet DEF Some
<1>6. Some({p}) /\ s \notin {p} /\ {} \cup {p} = {p} /\ {} \cup {o} = {o}
  <2>1. Some({} \cup {p})
    BY <1>3, <1>5, OneMoreOrder
  <2>2. {} \cup {p} = {p} /\ {} \cup {o} = {o} /\ s \notin {p}
    BY <1>3
  <2>3. QED
    BY <2>1, <2>2
<1>7. Some({p, s} \cup {}) /\ {p, s} \cup {} = {p} \cup {s}
  <2>1. Some({p} \cup {s})
    BY <1>3, <1>6, OneMoreOrder
  <2>2. {p, s} \cup {} = {p} \cup {s}
    OBVIOUS
  <2>3. QED
    BY <2>1, <2>2
<1>8. Fits(a, {p, s} \cup {}, 0, k)
  BY <1>1, <1>2, <1>4, <1>7, AdmittedFits
<1> HIDE DEF a
<1>9. Fits(a, {p} \cup {s}, 0, k)
  BY <1>7, <1>8, Zenon
<1>10. Fits(a, {p}, qty, k)
  BY <1>1, <1>2, <1>3, <1>6, <1>9, FitsSale
<1>11. Fits(a, {} \cup {p}, qty, k)
  BY <1>6, <1>10, Zenon
<1>12. Fits(a, {} \cup {o}, qty, k)
  BY <1>3, <1>4, <1>5, <1>11, FitsSwapped
<1>13. QED
  BY <1>6, <1>12, Zenon DEF a, k

\* replacePlayerQuote(): the bid leaves room for the ask.
LEMMA QuoteSecured ==
    ASSUME NEW c, Sane(c), Secured(c), NEW bid \in Prices, NEW ask \in Prices, NEW qty \in Nat,
           CanPlace(c, Player, {NewOrder(0, Player, "buy", bid, qty, "gtc"),
                                NewOrder(0, Player, "sell", ask, qty, "gtc")}, {}),
           ReplaceQuote(c, bid, ask, qty).ok
    PROVE  Secured(ReplaceQuote(c, bid, ask, qty))
<1> DEFINE x == CancelAll(c, Player)
           y == Place(x, Player, "buy", bid, qty, "gtc")
           z == Place(y, Player, "sell", ask, qty, "gtc")
           d == Reconcile(z)
           u == Placed(x, Player, "buy", bid, qty, "gtc")
           v == Placed(y, Player, "sell", ask, qty, "gtc")
           p == NewOrder(0, Player, "buy", bid, qty, "gtc")
           room == [id \in Ids |-> IF id = Player THEN qty ELSE 0]
<1>0. /\ room \in [Ids -> Nat] /\ room[Player] = qty /\ Player \in Ids
      /\ \A id \in Ids : id # Player => room[id] = NoMore[id]
      /\ NoMore \in [Ids -> Nat] /\ NoMore[Player] = 0
  BY DEF NoMore, Ids
<1> HIDE DEF room
<1>1. d = ReplaceQuote(c, bid, ask, qty) /\ d.ok
  BY Zenon DEF ReplaceQuote
<1>2. c \in Engines /\ c.ledger[StorageAccount] >= 0
  BY DEF Sane, Secured
<1>3. Follows(c, x) /\ Cancelled(c, Player, x) /\ Secured(x)
  BY CancelFollows, CancelSecured
<1>4. ASSUME NEW o \in Book!Order, Alike(p, o)
      PROVE  Fits(c.accounts[Player], {o}, qty, Credit(c, Player))
  BY <1>2, <1>4, QuoteFits
<1> HIDE DEF x, y, z, d, u, v
<1>5. /\ \A e : Sane(e) => Placing(e, Player, "buy", bid, qty, "gtc")
      /\ \A e : Sane(e) => Placing(e, Player, "sell", ask, qty, "gtc")
  <2>1. bid \in Nat /\ ask \in Nat
    BY ConfigFacts
  <2>2. \A e : Sane(e) => Player \in DOMAIN e.accounts /\ Player \in Venue(e)
    BY PlayerAndFlow DEF Sane
  <2>3. QED
    BY <2>1, <2>2 DEF Placing, Sides, TIFs
<1>6. Sane(x) /\ x \in Engines
  BY <1>3, Zenon DEF Follows, Sane
<1>7. Sane(y) /\ y \in Engines
  <2>1. Follows(x, y)
    BY <1>5, <1>6, PlaceFollows DEF y
  <2>2. QED
    BY <2>1, Zenon DEF Follows, Sane
<1>8. Follows(y, z) /\ Sane(z)
  <2>1. Follows(y, z)
    BY <1>5, <1>7, PlaceFollows DEF z
  <2>2. QED
    BY <2>1, Zenon DEF Follows
<1>9. y.ok /\ z.ok
  <2>1. Follows(z, d)
    BY <1>8, ReconcileFollows DEF d
  <2>2. QED
    BY <1>1, <1>8, <2>1, Zenon DEF Follows
<1>10. u \in Book!Order /\ u.owner = Player /\ Alike(p, u)
  BY <1>5, <1>6, PlacedIs DEF u
<1>11. v \in Book!Order /\ v.owner = Player /\ v.side = "sell" /\ v.remaining = qty
  BY <1>5, <1>7, PlacedIs DEF v
<1> HIDE DEF p
<1>12. Fits(x.accounts[Player], OrdersOf(x.book, Player) \cup {u}, qty, Credit(x, Player))
  <2>1. x.accounts = c.accounts /\ x.ledger = c.ledger
        /\ Book!LiveOrders(x.book) = Book!LiveOrders(c.book) \ OrdersOf(c.book, Player)
    BY <1>3, Zenon DEF Cancelled
  <2>2. LiveOrders(x.book) = LiveOrders(c.book) \ OrdersOf(c.book, Player)
    BY <2>1, SameLive, Zenon
  <2>3. OrdersOf(x.book, Player) = {}
    BY <2>2 DEF OrdersOf
  <2>4. OrdersOf(x.book, Player) \cup {u} = {u}
    BY <2>3
  <2>5. Credit(x, Player) = Credit(c, Player)
    BY <2>1, Zenon DEF Credit
  <2>6. Fits(c.accounts[Player], {u}, qty, Credit(c, Player))
    BY <1>4, <1>10
  <2>7. QED
    BY <2>1, <2>4, <2>5, <2>6, Zenon
<1>13. Holds(y, room)
  <2>1. ASSUME Submission(x, x.book, u) PROVE Admits(x, x.book, u, room)
    <3>1. u.owner \in Venue(x)
      BY <1>6, <1>10, PlayerAndFlow
    <3>2. Holds(x, NoMore)
      BY <1>3, Zenon DEF Holds, Secured
    <3>3. /\ \A id \in Ids : id # u.owner => room[id] = NoMore[id]
          /\ Fits(x.accounts[u.owner], OrdersOf(x.book, u.owner) \cup {u}, room[u.owner], Credit(x, u.owner))
      BY <1>0, <1>10, <1>12, Zenon
    <3>4. QED
      BY <1>0, <1>6, <2>1, <3>1, <3>2, <3>3, OwnerAdmits
  <2>2. Place(x, Player, "buy", bid, qty, "gtc").ok
    BY <1>9 DEF y
  <2>3. QED
    BY <1>5, <1>6, <2>1, <2>2, PlaceHolds DEF u, y
<1>14. Holds(z, NoMore)
  <2>1. ASSUME Submission(y, y.book, v) PROVE Admits(y, y.book, v, NoMore)
    <3> DEFINE K == OrdersOf(y.book, Player)
               a == y.accounts[Player]
               k == Credit(y, Player)
               n == y.nextOrder
               b == y.book
    <3>1. Player \in Venue(y) /\ a \in Account /\ k \in Int /\ Orderly(y) /\ n \in Nat
      BY <1>7, PlayerAndFlow, AccountsOf, CarryIsNumber DEF Sane, Engines
    <3>2. Fits(a, K, qty, k)
      BY <1>0, <1>13, <3>1, Zenon DEF Holds, CoversAll, Covers
    <3>3. Book!Sound(b, n) /\ v.id = n + 1
      BY <2>1, Zenon DEF Submission, InOrder
    <3>4. Some(K)
      BY <1>7, <3>1, OrdersAreSome
    <3> HIDE DEF n, a, k
    <3>5. v \notin OrdersOf(b, Player)
      <4> HIDE DEF b
      <4>1. v.owner = Player => v \notin OrdersOf(b, Player)
        BY <1>11, <3>1, <3>3, WithOrders
      <4>2. QED
        BY <1>11, <4>1
    <3>6. v \notin K
      BY <3>5
    <3> HIDE DEF K
    <3>7. Fits(a, K \cup {v}, 0, k)
      BY <1>11, <3>1, <3>2, <3>4, <3>6, FitsSale
    <3>8. /\ v.owner \in Venue(y)
          /\ \A id \in Ids : id # v.owner => NoMore[id] = room[id]
          /\ Fits(y.accounts[v.owner], OrdersOf(y.book, v.owner) \cup {v}, NoMore[v.owner], Credit(y, v.owner))
      BY <1>0, <1>11, <3>1, <3>7, Zenon DEF K, a, k
    <3> HIDE DEF b
    <3>9. QED
      BY <1>0, <1>7, <1>13, <2>1, <3>8, OwnerAdmits
  <2>2. Place(y, Player, "sell", ask, qty, "gtc").ok
    BY <1>9 DEF z
  <2>3. QED
    BY <1>5, <1>7, <2>1, <2>2, PlaceHolds DEF v, z
<1>15. Secured(z)
  BY <1>14, Zenon DEF Holds, Secured
<1>16. Secured(d)
  BY <1>8, <1>15, ReconcileSecured DEF d
<1>17. QED
  BY <1>1, <1>16, Zenon

\* The customers of a turn, one after the other.
LEMMA TradingSecured ==
    ASSUME NEW c, Sane(c), Secured(c), NEW bid \in Prices, NEW ask \in Prices, NEW arrivals \in TurnArrivals,
           CanPlace(c, Player, {NewOrder(0, Player, "buy", bid, MaxOrderQty, "gtc"),
                                NewOrder(0, Player, "sell", ask, MaxOrderQty, "gtc")}, {})
    PROVE  Trading(c, bid, ask, arrivals).ok => Secured(Trading(c, bid, ask, arrivals))
<1> DEFINE x == ReplaceQuote(c, bid, ask, MaxOrderQty)
           K == {v \in Engines : Sane(v) /\ (v.ok => Secured(v))}
           d == Trading(c, bid, ask, arrivals)
<1>1. Fine(x) /\ (x.ok => Secured(x))
  BY ConfigFacts, ReplaceQuoteFollows, QuoteSecured
<1>2. arrivals \in Seq(Arrivals)
  BY TurnIsSequence
<1>3. d = FoldLeft(Arrive, x, arrivals)
  BY Zenon DEF Trading
<1> HIDE DEF x, d
<1>4. x \in K
  BY <1>1 DEF Fine, Sane
<1>5. ASSUME NEW v \in K, NEW i \in 1..Len(arrivals) PROVE Arrive(v, arrivals[i]) \in K
  <2> DEFINE a == arrivals[i]
             w == Arrive(v, a)
  <2>1. a \in Arrivals /\ Sane(v) /\ (v.ok => Secured(v))
    BY <1>2
  <2> HIDE DEF a
  <2>2. Follows(v, w) /\ Fine(w)
    BY <2>1, ArriveFollows
  <2>3. w.ok => v.ok
    BY <2>2, Zenon DEF Follows
  <2>4. w.ok => Secured(w)
    BY <2>1, <2>3, ArriveSecured
  <2> HIDE DEF w
  <2>5. Sane(w) /\ w \in Engines
    BY <2>2, Zenon DEF Fine, Sane
  <2>6. w \in K
    BY <2>4, <2>5
  <2>7. QED
    BY <2>6 DEF w, a
<1> HIDE DEF K
<1>6. Visits!Fold(arrivals, x) \in K
  BY <1>2, <1>4, <1>5, Visits!FoldKeeps
<1>7. d \in K
  BY <1>3, <1>6, SameVisits
<1>8. QED
  BY <1>7 DEF K, d

-----------------------------------------------------------------------------
(* The accounts are secured after every step *)

\* A new account has no orders, and is within its limits.
LEMMA OpenSecured ==
    ASSUME NEW c, Fine(c), Secured(c), NEW id \in Ids, id \notin DOMAIN c.accounts,
           WithinLimits(WithAccount(c, id), id, InitialMarginBps)
    PROVE  Secured(PostEntry(WithAccount(c, id), Opening(id, BotCash, BotPosition)))
<1> DEFINE e == PostEntry(WithAccount(c, id), Opening(id, BotCash, BotPosition))
           w == WithAccount(c, id)
           new == NewAccount(BotCash, BotPosition)
<1>1. /\ Fine(e) /\ e.book = c.book /\ DOMAIN e.accounts = DOMAIN c.accounts \cup {id}
      /\ \A j \in DOMAIN c.accounts : e.accounts[j] = c.accounts[j]
      /\ e.accounts[id] = new /\ e.ledger[StorageAccount] = c.ledger[StorageAccount]
  BY AccountOpens
<1> HIDE DEF e
<1>2. c \in Engines /\ Orderly(c) /\ Player \in DOMAIN c.accounts /\ Flow \in DOMAIN c.accounts
  BY PlayerAndFlow DEF Fine, Sane
<1>3. id # Player /\ id # Flow /\ id \notin Venue(c)
  BY <1>2 DEF Venue
<1>4. w.accounts[id] = new
  <2> DEFINE as == [d \in DOMAIN c.accounts \cup {id} |-> IF d = id THEN new ELSE c.accounts[d]]
  <2>1. w = [c EXCEPT !.accounts = as]
    BY Zenon DEF WithAccount
  <2>2. as[id] = new
    OBVIOUS
  <2> HIDE DEF as, w
  <2>3. w.accounts = as
    BY <1>2, <2>1 DEF Engines
  <2>4. QED
    BY <2>2, <2>3
<1>5. AbsQty(BotPosition) <= MaxPosition
  <2>1. ~External(id)
    BY <1>3 DEF External
  <2>2. AbsQty(w.accounts[id].position) <= MaxPosition
    BY <2>1, Zenon DEF WithinLimits
  <2>3. new.position = BotPosition
    BY DEF NewAccount
  <2>4. QED
    BY <1>4, <2>2, <2>3, Zenon
<1> HIDE DEF w
<1>6. OrdersOf(e.book, id) = {}
  <2>1. \A x \in Book!LiveOrders(c.book) : x.owner \in DOMAIN c.accounts
    BY <1>2, Zenon DEF Orderly, InOrder, Owned
  <2>2. \A x \in LiveOrders(c.book) : x.owner # id
    BY <2>1, SameLive, Zenon
  <2>3. QED
    BY <1>1, <2>2 DEF OrdersOf
<1>7. Covers(e, id, {}, 0)
  <2>1. Some({}) /\ OfSide({}, "buy") = {} /\ OfSide({}, "sell") = {}
    BY FS_EmptySet DEF Some, OfSide
  <2>2. OpenQty({}, "buy") = 0 /\ OpenQty({}, "sell") = 0 /\ Notional({}, "buy") = 0
    BY <2>1, SideSums DEF Some
  <2>3. BotPosition \in Int /\ BotCash \in Int /\ MaxPosition \in Nat
    BY ConfigFacts
  <2>4. new.position = BotPosition /\ new.cash = BotCash
    BY DEF NewAccount
  <2> HIDE DEF new
  <2>5. Fits(new, {}, 0, 0)
    BY <1>5, <2>2, <2>3, <2>4 DEF Fits, AbsQty
  <2>6. Credit(e, id) = 0
    BY <1>3, Zenon DEF Credit
  <2>7. QED
    BY <1>1, <2>5, <2>6, Zenon DEF Covers
<1>8. ASSUME NEW j \in Venue(e) PROVE Covers(e, j, OrdersOf(e.book, j), NoMore[j])
  <2>1. CASE j = id
    <3>1. NoMore[j] = 0
      BY <2>1 DEF NoMore
    <3>2. QED
      BY <1>6, <1>7, <2>1, <3>1, Zenon
  <2>2. CASE j # id
    <3>1. j \in Venue(c) /\ e.accounts[j] = c.accounts[j]
      BY <1>1, <2>2 DEF Venue
    <3>2. Credit(e, j) = Credit(c, j)
      BY <1>1, Zenon DEF Credit
    <3>3. QED
      BY <1>1, <3>1, <3>2, Zenon DEF Secured, CoversAll, Covers
  <2>3. QED
    BY <2>1, <2>2
<1>9. Secured(e)
  BY <1>1, <1>8, Zenon DEF Secured, CoversAll, Numbered
<1>10. QED
  BY <1>9 DEF e

\* New() makes no order, and admits the player's position.
LEMMA InitSecured == Init => Secured(engine)
<1> SUFFICES ASSUME Init PROVE Secured(engine)
  OBVIOUS
<1>1. Ready /\ Book!LiveOrders(engine.book) = {} /\ Opens(engine)
  BY InitReady
<1>2. engine \in Engines
  BY <1>1 DEF Ready, Fine, Sane
<1>3. Venue(engine) = {Player}
  BY <1>1, <1>2, PlayerAndFlow DEF Opens, Venue, External
<1>4. OrdersOf(engine.book, Player) = {}
  BY <1>1, SameLive DEF OrdersOf
<1> DEFINE new == NewAccount(StartingCash, StartingPosition)
<1>5. engine.accounts[Player] = new /\ Credit(engine, Player) = 0 /\ engine.ledger[StorageAccount] = 0
  BY <1>1, Zenon DEF Opens, Credit
<1>6. new.position = StartingPosition /\ new.cash = StartingCash
  BY DEF NewAccount
<1> HIDE DEF new
<1>7. Fits(new, {}, 0, 0)
  <2>1. Some({}) /\ OfSide({}, "buy") = {} /\ OfSide({}, "sell") = {}
    BY FS_EmptySet DEF Some, OfSide
  <2>2. OpenQty({}, "buy") = 0 /\ OpenQty({}, "sell") = 0 /\ Notional({}, "buy") = 0
    BY <2>1, SideSums DEF Some
  <2>3. /\ StartingPosition \in Int /\ StartingCash \in Nat /\ MaxPosition \in Nat
        /\ AbsQty(StartingPosition) <= MaxPosition
    BY ConfigAssumption, ConfigFacts DEF Validate
  <2>4. QED
    BY <1>6, <2>2, <2>3 DEF Fits, AbsQty
<1>8. NoMore[Player] = 0
  BY DEF NoMore, Ids
<1>9. Covers(engine, Player, OrdersOf(engine.book, Player), NoMore[Player])
  BY <1>4, <1>5, <1>7, <1>8, Zenon DEF Covers
<1>10. CoversAll(engine, NoMore)
  BY <1>3, <1>9 DEF CoversAll
<1>11. QED
  BY <1>1, <1>5, <1>10 DEF Secured, Numbered

\* The engine between commands.
Safe == Ready /\ Secured(engine)

\* A command that commits a secured engine leaves the engine secured, and one
\* that faults leaves it alone.
LEMMA CommitSafe ==
    ASSUME NEW c, Fine(c), c.ok, Secured(c), Commit(c)
    PROVE  Safe'
<1>1. /\ Fine(engine') /\ engine'.book = c.book /\ engine'.accounts = c.accounts
      /\ engine'.ledger = c.ledger
  BY CommitKeeps
<1>2. engine' \in Engines /\ Sane(c)
  BY <1>1 DEF Fine, Sane
<1>3. Secured(engine')
  <2> DEFINE d == engine'
  <2>1. d \in Engines /\ d.accounts = c.accounts /\ d.ledger = c.ledger /\ d.book = c.book
    BY <1>1, <1>2
  <2> HIDE DEF d
  <2>2. Secured(d)
    BY <1>2, <2>1, DaySecured
  <2>3. QED
    BY <2>2 DEF d
<1>4. Ready'
  BY CommitReady
<1>5. Secured(engine)'
  BY <1>3
<1>6. QED
  BY <1>4, <1>5 DEF Safe

\* An error leaves the engine alone.
LEMMA FailSafe ==
    ASSUME Safe, NEW why, Fail(why)
    PROVE  Safe'
BY DEF Safe, Ready, Fail

\* A step of the simulation, either way.
LEMMA CommitOrFaultSafe ==
    ASSUME Safe, NEW c, Fine(c), NEW good, good => c.ok, c.ok => Secured(c), CommitOrFault(c, good)
    PROVE  Safe'
<1>1. CASE good /\ Commit(c)
  BY <1>1, CommitSafe
<1>2. CASE Fail("trading")
  BY <1>2, FailSafe
<1>3. QED
  BY <1>1, <1>2, Zenon DEF CommitOrFault

\* What is checked for a breach is secured if it was.
LEMMA CheckedSafe ==
    ASSUME NEW c, Fine(c), c.ok => Secured(c)
    PROVE  LET d == EndOnBreach(c)
           IN  Fine(d) /\ d.ok = c.ok /\ (d.ok => Secured(d))
<1> DEFINE d == EndOnBreach(c)
<1>1. Fine(d) /\ Kept(c, d)
  BY EndOnBreachKeeps
<1>2. Sane(c)
  BY DEF Fine
<1>3. Secured(c) => Secured(d)
  BY <1>2, EndOnBreachSecured
<1> HIDE DEF d
<1>4. d.ok = c.ok
  BY <1>1, Zenon DEF Kept
<1>5. QED
  BY <1>1, <1>3, <1>4, Zenon DEF d

\* The steps of a real-time day.
LEMMA RealTimeStepSafe ==
    ASSUME Safe, RealTimeStep
    PROVE  Safe'
<1>1. Fine(engine) /\ Sane(engine) /\ engine.ok /\ Secured(engine)
  BY DEF Safe, Ready, Fine
<1>2. ASSUME NEW x, Fine(x), x.ok => Secured(x), NEW good, good => x.ok,
             CommitOrFault(EndOnBreach(x), good)
      PROVE  Safe'
  <2> DEFINE c == EndOnBreach(x)
  <2>1. Fine(c) /\ c.ok = x.ok /\ (c.ok => Secured(c))
    BY <1>2, CheckedSafe
  <2>2. CommitOrFault(c, good)
    BY <1>2
  <2> HIDE DEF c
  <2>3. good => c.ok
    BY <1>2, <2>1
  <2>4. QED
    BY <2>1, <2>2, <2>3, CommitOrFaultSafe
<1>3. ASSUME NEW x, Fine(x), x.ok => Secured(x), NEW pnl,
             CommitReconciled(EndOnBreach(x), pnl)
      PROVE  Safe'
  <2> DEFINE c == EndOnBreach(x)
             good == Reconciles(c, pnl)
  <2>1. c.ok = x.ok
    BY <1>3, CheckedSafe
  <2>2. good => x.ok
    BY <2>1, Zenon DEF Reconciles
  <2>3. CommitOrFault(EndOnBreach(x), good)
    BY <1>3, Zenon DEF CommitReconciled
  <2> HIDE DEF c, good
  <2>4. QED
    BY <1>2, <1>3, <2>2, <2>3
<1>4. ASSUME NEW bid \in Prices, NEW ask \in Prices, UpdateQuote(bid, ask) PROVE Safe'
  <2> DEFINE x == ReplaceQuote(engine, bid, ask, QuoteQty)
  <2>1. QuoteQty \in Nat
    BY ConfigFacts
  <2>2. Fine(x)
    BY <1>1, <2>1, ReplaceQuoteFollows
  <2>3. CanPlace(engine, Player, {NewOrder(0, Player, "buy", bid, QuoteQty, "gtc"),
                                  NewOrder(0, Player, "sell", ask, QuoteQty, "gtc")}, {})
    BY <1>4, Zenon DEF UpdateQuote, QuoteAdmitted
  <2>4. x.ok => Secured(x)
    BY <1>1, <2>1, <2>3, QuoteSecured
  <2>5. CommitReconciled(EndOnBreach(x), EndOnBreach(x).edge)
    BY <1>4, Zenon DEF UpdateQuote, CommitTrades
  <2> HIDE DEF x
  <2>6. QED
    BY <1>3, <2>2, <2>4, <2>5
<1>5. ASSUME NEW a \in Arrivals, CustomerArrival(a) PROVE Safe'
  <2> DEFINE x == Arrive(engine, a)
  <2>1. Fine(x)
    BY <1>1, ArriveFollows
  <2>2. x.ok => Secured(x)
    BY <1>1, ArriveSecured
  <2>3. CommitReconciled(EndOnBreach(x), EndOnBreach(x).edge)
    BY <1>5, Zenon DEF CustomerArrival, CommitTrades
  <2> HIDE DEF x
  <2>4. QED
    BY <1>3, <2>1, <2>2, <2>3
<1>6. ASSUME NEW move \in Moves, MarkMove(move) PROVE Safe'
  <2> DEFINE m == NextMark(engine, move)
             x == [engine EXCEPT !.mark = m]
             pnl == MarkPnL(engine, m)
  <2>1. Fail("mark") \/ (m \in Marks /\ CommitReconciled(EndOnBreach(x), pnl))
    BY <1>1, <1>6, MarkMoveWays DEF Sane
  <2> HIDE DEF m, pnl
  <2>2. CASE m \in Marks /\ CommitReconciled(EndOnBreach(x), pnl)
    <3>1. Fine(x) /\ x.accounts = engine.accounts /\ x.book = engine.book /\ x.ledger = engine.ledger
      BY <1>1, <2>2, MarkFine
    <3> HIDE DEF x
    <3>2. x \in Engines
      BY <3>1 DEF Fine, Sane
    <3>3. Secured(x)
      BY <1>1, <3>1, <3>2, DaySecured
    <3>4. QED
      BY <1>3, <2>2, <3>1, <3>3
  <2>3. QED
    BY <2>1, <2>2, FailSafe
<1>7. ASSUME CarryCharge PROVE Safe'
  <2> DEFINE x == ChargeStorage(engine)
             good == Reconciles(x, -Storage(engine))
  <2>1. Fine(x) /\ Secured(x)
    BY <1>1, ChargeKeeps, ChargeSecured
  <2>2. CommitOrFault(EndOnBreach(x), good)
    BY <1>7, Zenon DEF CarryCharge
  <2>3. good => x.ok
    BY Zenon DEF Reconciles
  <2> HIDE DEF x, good
  <2>4. QED
    BY <1>2, <2>1, <2>2, <2>3
<1>8. ASSUME NEW reason \in Reasons,
             CommitOrFault(EndRealTime(engine, reason), EndRealTime(engine, reason).ok)
      PROVE  Safe'
  <2> DEFINE c == EndRealTime(engine, reason)
  <2>1. Ended(engine, reason, c) /\ Secured(c) /\ CommitOrFault(c, c.ok)
    BY <1>1, <1>8, EndRealTimeEnds, EndSecured
  <2> HIDE DEF c
  <2>2. Fine(c)
    BY <2>1, Zenon DEF Ended
  <2>3. QED
    BY <2>1, <2>2, CommitOrFaultSafe
<1>9. "time_expired" \in Reasons /\ "player_quit" \in Reasons
  BY DEF Reasons
<1>10. ASSUME ExpireTradingDay PROVE Safe'
  <2>1. CommitOrFault(EndRealTime(engine, "time_expired"), EndRealTime(engine, "time_expired").ok)
    BY <1>10, Zenon DEF ExpireTradingDay
  <2>2. QED
    BY <1>8, <1>9, <2>1
<1>11. ASSUME QuitRealTime PROVE Safe'
  <2>1. CommitOrFault(EndRealTime(engine, "player_quit"), EndRealTime(engine, "player_quit").ok)
    BY <1>11, Zenon DEF QuitRealTime
  <2>2. QED
    BY <1>8, <1>9, <2>1
<1>12. QED
  BY <1>4, <1>5, <1>6, <1>7, <1>10, <1>11 DEF RealTimeStep

\* The steps of the turn-based game.
LEMMA TurnStepSafe ==
    ASSUME Safe, TurnStep
    PROVE  Safe'
<1>1. Fine(engine) /\ Sane(engine) /\ engine \in Engines /\ engine.ok /\ Secured(engine)
  BY DEF Safe, Ready, Fine, Sane
<1>2. ASSUME NEW bid \in Prices, NEW ask \in Prices, NEW arrivals \in TurnArrivals, NEW move \in Moves,
             SubmitQuote(bid, ask, arrivals, move),
             NextMark(engine, move) \in Marks,
             CloseTurn(Trading(engine, bid, ask, arrivals), NextMark(engine, move))
      PROVE  Safe'
  <2> DEFINE m == NextMark(engine, move)
             t == Trading(engine, bid, ask, arrivals)
             y == ChargeStorage(t)
             x == Marked(t, m)
             c == EndTurn(x)
             pnl == t.edge + MarkPnL(t, m) - Storage(t)
  <2>1. CommitOrFault(c, Reconciles(c, pnl)) /\ m \in Marks
    BY <1>2, Zenon DEF CloseTurn, CommitReconciled
  <2>2. CanPlace(engine, Player, {NewOrder(0, Player, "buy", bid, MaxOrderQty, "gtc"),
                                  NewOrder(0, Player, "sell", ask, MaxOrderQty, "gtc")}, {})
    BY <1>2, Zenon DEF SubmitQuote, QuoteAdmitted
  <2>3. Fine(t) /\ (t.ok => Secured(t))
    BY <1>1, <2>2, TradingFollows, TradingSecured
  <2> HIDE DEF pnl, m, t
  <2>4. Fine(y) /\ (Secured(t) => Secured(y))
    BY <2>3, ChargeKeeps, ChargeSecured DEF Fine
  <2>5. y.ok = t.ok /\ y.book = t.book
    <3>1. Charged(t, y)
      BY <2>3, ChargeStorageCharges DEF Fine, Sane
    <3> HIDE DEF y
    <3>2. QED
      BY <3>1, Zenon DEF Charged
  <2>6. Fine(x) /\ x.ok = y.ok /\ x.accounts = y.accounts
    BY <2>1, <2>3, MarkedFine
  <2>7. Secured(y) => Secured(x)
    <3>1. x = [y EXCEPT !.turn = y.turn + 1, !.mark = m]
      BY Zenon DEF Marked
    <3> HIDE DEF x, y
    <3>2. x.book = y.book /\ x.ledger = y.ledger
      BY <2>4, <3>1 DEF Fine, Sane, Engines
    <3>3. x \in Engines /\ Sane(y)
      BY <2>4, <2>6 DEF Fine, Sane
    <3>4. QED
      BY <2>6, <3>2, <3>3, DaySecured
  <2>8. Fine(c) /\ c.ok = x.ok
    BY <2>6, EndTurnFine
  <2>9. Secured(x) => Secured(c)
    <3>1. c = EndSession(x, BreachReason(x)) \/ c = EndSession(x, "turns_complete") \/ c = x
      BY Zenon DEF EndTurn
    <3>2. BreachReason(x) \in Reasons /\ "turns_complete" \in Reasons
      BY ReasonOfBreach DEF Reasons
    <3>3. x \in Engines /\ c \in Engines /\ Sane(x)
      BY <2>6, <2>8, Zenon DEF Fine, Sane
    <3> HIDE DEF x, c
    <3>4. c.accounts = x.accounts /\ c.ledger = x.ledger /\ c.book = x.book
      <4>1. CASE c = x
        BY <4>1
      <4>2. CASE c # x
        <5>1. PICK reason \in Reasons : c = EndSession(x, reason)
          BY <3>1, <3>2, <4>2
        <5>2. QED
          BY <3>3, <5>1, EndSessionKeeps
      <4>3. QED
        BY <4>1, <4>2
    <3>5. QED
      BY <3>3, <3>4, DaySecured
  <2> HIDE DEF x, y, c
  <2>10. c.ok => Secured(c)
    BY <2>3, <2>4, <2>5, <2>6, <2>7, <2>8, <2>9
  <2>11. Reconciles(c, pnl) => c.ok
    BY Zenon DEF Reconciles
  <2>12. QED
    BY <2>1, <2>8, <2>10, <2>11, CommitOrFaultSafe
<1>3. ASSUME NEW bid \in Prices, NEW ask \in Prices, NEW arrivals \in TurnArrivals, NEW move \in Moves,
             SubmitQuote(bid, ask, arrivals, move)
      PROVE  Safe'
  <2>1. \/ \E why : Fail(why)
        \/ /\ NextMark(engine, move) \in Marks
           /\ CloseTurn(Trading(engine, bid, ask, arrivals), NextMark(engine, move))
    BY <1>1, <1>3, SubmitQuoteWays, Zenon
  <2>2. QED
    BY <1>2, <1>3, <2>1, FailSafe
<1>4. ASSUME Quit PROVE Safe'
  <2> DEFINE c == EndSession(engine, "player_quit")
  <2>1. Commit(c) /\ "player_quit" \in Reasons
    BY <1>4, Zenon DEF Quit, Reasons
  <2>2. /\ c \in Engines /\ c.ok = engine.ok /\ c.accounts = engine.accounts /\ c.ledger = engine.ledger
        /\ c.book = engine.book /\ c.nextOrder = engine.nextOrder
    BY <1>1, <2>1, EndSessionKeeps
  <2> HIDE DEF c
  <2>3. Fine(c)
    BY <1>1, <2>2, FineOf
  <2>4. Secured(c)
    BY <1>1, <2>2, DaySecured
  <2>5. QED
    BY <1>1, <2>1, <2>2, <2>3, <2>4, CommitSafe
<1>5. QED
  BY <1>3, <1>4 DEF TurnStep

\* The commands of other accounts.
LEMMA VenueStepSafe ==
    ASSUME Safe, VenueStep
    PROVE  Safe'
<1>1. Fine(engine) /\ Sane(engine) /\ engine \in Engines /\ engine.ok /\ Secured(engine)
  BY DEF Safe, Ready, Fine, Sane
<1>2. ASSUME NEW c, Sane(c), c.ok => Secured(c), Reconcile(c).ok, Commit(Reconcile(c)) PROVE Safe'
  <2> DEFINE d == Reconcile(c)
  <2>1. Follows(c, d) /\ Fine(d)
    BY <1>2, ReconcileFollows
  <2>2. d.ok /\ Commit(d)
    BY <1>2
  <2>3. Secured(c) => Secured(d)
    BY <1>2, ReconcileSecured
  <2> HIDE DEF d
  <2>4. c.ok
    BY <2>1, <2>2, Zenon DEF Follows
  <2>5. QED
    BY <1>2, <2>1, <2>2, <2>3, <2>4, CommitSafe
<1>3. ASSUME NEW id \in Bots, OpenAccount(id) PROVE Safe'
  <2> DEFINE c == PostEntry(WithAccount(engine, id), Opening(id, BotCash, BotPosition))
  <2>1. /\ id \notin DOMAIN engine.accounts /\ c.ok /\ Commit(c)
        /\ WithinLimits(WithAccount(engine, id), id, InitialMarginBps)
    BY <1>3, Zenon DEF OpenAccount, WithAccount
  <2>2. id \in Ids
    BY DEF Ids
  <2>3. Fine(c)
    BY <1>1, <2>1, <2>2, AccountOpens
  <2>4. Secured(c)
    BY <1>1, <2>1, <2>2, OpenSecured
  <2> HIDE DEF c
  <2>5. QED
    BY <2>1, <2>3, <2>4, CommitSafe
<1>4. ASSUME NEW id \in DOMAIN engine.accounts, NEW side \in Sides, NEW price \in Prices,
             NEW qty \in 1..MaxOrderQty, NEW tif \in TIFs, PlaceLimit(id, side, price, qty, tif)
      PROVE  Safe'
  <2> DEFINE x == Place(engine, id, side, price, qty, tif)
             c == Reconcile(x)
  <2>1. c.ok /\ Commit(c)
    BY <1>4, Zenon DEF PlaceLimit
  <2>2. CanPlace(engine, id, {NewOrder(0, id, side, price, qty, tif)}, OrdersOf(engine.book, id))
    BY <1>4, Zenon DEF PlaceLimit
  <2>3. price \in Nat /\ qty \in Nat
    BY ConfigFacts
  <2>4. Placing(engine, id, side, price, qty, tif)
    BY <2>3 DEF Placing
  <2>5. Follows(engine, x)
    BY <1>1, <2>4, PlaceFollows
  <2>6. x.ok => Secured(x)
    BY <1>1, <2>2, <2>4, LimitSecured
  <2> HIDE DEF x
  <2>7. Sane(x)
    BY <2>5 DEF Follows
  <2>8. QED
    BY <1>2, <2>1, <2>6, <2>7
<1>5. ASSUME NEW order \in LiveOrders(engine.book), Cancel(order) PROVE Safe'
  <2> DEFINE x == [engine EXCEPT !.book = RemoveOrder(engine.book, order)]
             c == Reconcile(x)
  <2>1. c.ok /\ Commit(c)
    BY <1>5, Zenon DEF Cancel
  <2>2. order \in Book!LiveOrders(engine.book)
    BY SameLive
  <2>3. Follows(engine, x)
    BY <1>1, <2>2, RemoveFollows
  <2>4. Secured(x)
    BY <1>1, <2>2, RemoveSecured
  <2> HIDE DEF x
  <2>5. Sane(x)
    BY <2>3 DEF Follows
  <2>6. QED
    BY <1>2, <2>1, <2>4, <2>5
<1>6. ASSUME NEW old \in LiveOrders(engine.book), NEW price \in Prices, NEW qty \in 1..MaxOrderQty,
             NEW tif \in TIFs, ReplaceLimit(old, price, qty, tif)
      PROVE  Safe'
  <2> DEFINE o == NewOrder(engine.nextOrder + 1, old.owner, old.side, price, qty, tif)
             r == ReplaceOrder(engine.book, old, o)
             x == Settle([engine EXCEPT !.nextOrder = engine.nextOrder + 1], r)
             c == Reconcile(x)
  <2>1. c.ok /\ Commit(c)
    BY <1>6, Zenon DEF ReplaceLimit
  <2>2. old \in Book!LiveOrders(engine.book) /\ qty \in Nat
    BY SameLive, ConfigFacts
  <2>3. CanPlace(engine, old.owner, {NewOrder(0, old.owner, old.side, price, qty, tif)},
                 OrdersOf(engine.book, old.owner) \ {old})
    BY <1>6, Zenon DEF ReplaceLimit
  <2>4. Follows(engine, x)
    BY <1>1, <2>2, ReplaceFollows
  <2>5. x.ok => Secured(x)
    BY <1>1, <2>2, <2>3, ReplaceSecured
  <2> HIDE DEF x
  <2>6. Sane(x)
    BY <2>4 DEF Follows
  <2>7. QED
    BY <1>2, <2>1, <2>5, <2>6
<1>7. QED
  BY <1>3, <1>4, <1>5, <1>6 DEF VenueStep

\* The engine is secured after every step.
LEMMA AlwaysSafe == Spec => []Safe
<1>1. Safe /\ [Next]_vars => Safe'
  <2>1. CASE UNCHANGED vars
    BY <2>1 DEF vars, Safe, Ready
  <2>2. CASE Next
    BY <2>2, RealTimeStepSafe, TurnStepSafe, VenueStepSafe DEF Next
  <2>3. QED
    BY <2>1, <2>2
<1>2. Init => Safe
  BY InitReady, InitSecured DEF Safe
<1>3. QED
  BY <1>1, <1>2, PTL DEF Spec

-----------------------------------------------------------------------------
(* The limits *)

\* What a secured account has reserved is within its limits.
LEMMA SafeReserves ==
    ASSUME Safe, NEW id \in Venue(engine)
    PROVE  LET a == engine.accounts[id]
           IN  /\ a \in Account /\ a.openBuy \in Nat /\ a.openSell \in Nat /\ a.reservedCash \in Nat
               /\ a.position + a.openBuy <= MaxPosition /\ a.openSell - a.position <= MaxPosition
               /\ BotCash \in Nat => a.reservedCash <= a.cash + Credit(engine, id)
<1> DEFINE a == engine.accounts[id]
           L == OrdersOf(engine.book, id)
           k == Credit(engine, id)
           n == engine.nextOrder
<1>1. engine \in Engines /\ Orderly(engine) /\ Reserved(engine) /\ CoversAll(engine, NoMore)
  BY Zenon DEF Safe, Ready, Fine, Sane, Secured
<1>2. id \in Ids /\ a \in Account
  BY <1>1, AccountsOf DEF Venue
<1>3. NoMore[id] = 0
  BY <1>2 DEF NoMore
<1>4. Fits(a, L, NoMore[id], k)
  BY <1>1, Zenon DEF CoversAll, Covers
<1>5. /\ a.reservedCash = ReservedFor(engine, id).cash
      /\ a.openBuy = ReservedFor(engine, id).buy
      /\ a.openSell = ReservedFor(engine, id).sell
  BY <1>1, Zenon DEF Reserved
<1>6. n \in Nat /\ Book!Sound(engine.book, n)
  BY <1>1, Zenon DEF Orderly, InOrder, Engines
<1> HIDE DEF n
<1>7. /\ ReservedFor(engine, id).cash = Notional(L, "buy")
      /\ ReservedFor(engine, id).buy = OpenQty(L, "buy")
      /\ ReservedFor(engine, id).sell = OpenQty(L, "sell")
  BY <1>6, NeedsAreAmounts
<1>8. Some(L)
  BY <1>1, OrdersAreSome
<1>9. OpenQty(L, "buy") \in Nat /\ OpenQty(L, "sell") \in Nat /\ Notional(L, "buy") \in Nat
  BY <1>8, SideSums DEF Some
<1>10. MaxPosition \in Nat
  BY ConfigFacts
<1> HIDE DEF a, L, k
<1>11. Fits(a, L, 0, k)
  BY <1>3, <1>4, Zenon
<1>12. /\ a.position + OpenQty(L, "buy") <= MaxPosition
       /\ OpenQty(L, "sell") + 0 - a.position <= MaxPosition
       /\ BotCash \in Nat => Notional(L, "buy") <= a.cash + k
  BY <1>11, Zenon DEF Fits
<1>13. a.position \in Int
  BY <1>2 DEF Account
<1>14. a.reservedCash = Notional(L, "buy") /\ a.openBuy = OpenQty(L, "buy") /\ a.openSell = OpenQty(L, "sell")
  BY <1>5, <1>7 DEF a
<1>15. /\ a \in Account /\ a.openBuy \in Nat /\ a.openSell \in Nat /\ a.reservedCash \in Nat
       /\ a.position + a.openBuy <= MaxPosition /\ a.openSell - a.position <= MaxPosition
       /\ BotCash \in Nat => a.reservedCash <= a.cash + k
  BY <1>2, <1>9, <1>10, <1>12, <1>13, <1>14
<1>16. QED
  BY <1>15, Zenon DEF a, k

\* Position limits hold in the worst case, for any accounts, orders and fills:
\* filling all of its open buys or all of its open sells takes no account past
\* the limit that canPlaceOrders() checked when each of them was placed.
THEOREM WorstCaseHolds == Spec => []WorstCaseWithinLimit
<1>1. Safe => WorstCaseWithinLimit
  <2> SUFFICES ASSUME Safe, NEW id \in Venue(engine)
               PROVE  LET a == engine.accounts[id]
                      IN  AbsQty(a.position + a.openBuy) <= MaxPosition
                            /\ AbsQty(a.position - a.openSell) <= MaxPosition
    BY Zenon DEF WorstCaseWithinLimit
  <2> DEFINE a == engine.accounts[id]
  <2>1. /\ a \in Account /\ a.openBuy \in Nat /\ a.openSell \in Nat
        /\ a.position + a.openBuy <= MaxPosition /\ a.openSell - a.position <= MaxPosition
    BY SafeReserves
  <2>2. MaxPosition \in Nat
    BY ConfigFacts
  <2> HIDE DEF a
  <2>3. a.position \in Int
    BY <2>1 DEF Account
  <2>4. AbsQty(a.position + a.openBuy) <= MaxPosition /\ AbsQty(a.position - a.openSell) <= MaxPosition
    BY <2>1, <2>2, <2>3 DEF AbsQty
  <2>5. QED
    BY <2>4 DEF a
<1>2. QED
  BY <1>1, AlwaysSafe, PTL

\* A resting buy is backed by settled cash, but for the carry charged since,
\* in every game whose other accounts do not begin with a debt: canPlaceOrders()
\* asks for the cash of all live buys, and a fill pays its limit or less.
THEOREM ReservationsAreBacked == BotCash \in Nat => (Spec => []ReservationsBacked)
<1> SUFFICES ASSUME BotCash \in Nat PROVE Spec => []ReservationsBacked
  OBVIOUS
<1>1. Safe => ReservationsBacked
  <2> SUFFICES ASSUME Safe, NEW id \in Venue(engine)
               PROVE  engine.accounts[id].cash + (IF id = Player THEN engine.ledger[StorageAccount] ELSE 0)
                        >= engine.accounts[id].reservedCash
    BY Zenon DEF ReservationsBacked
  <2> DEFINE a == engine.accounts[id]
             k == Credit(engine, id)
  <2>1. a \in Account /\ a.reservedCash \in Nat /\ a.reservedCash <= a.cash + k
    BY SafeReserves
  <2>2. engine \in Engines
    BY Zenon DEF Safe, Ready, Fine, Sane
  <2>3. k \in Int
    BY <2>2, CarryIsNumber
  <2>4. k = IF id = Player THEN engine.ledger[StorageAccount] ELSE 0
    BY Zenon DEF Credit
  <2> HIDE DEF a, k
  <2>5. a.cash \in Int
    BY <2>1 DEF Account
  <2>6. a.cash + k >= a.reservedCash
    BY <2>1, <2>3, <2>5
  <2>7. QED
    BY <2>4, <2>6 DEF a
<1>2. QED
  BY <1>1, AlwaysSafe, PTL
=============================================================================
