--------------------------- MODULE ExchangeProofs --------------------------
(***************************************************************************)
(* Proofs about the venue: for all accounts, prices, quantities, margins,  *)
(* positions, draws of the streams and numbers of commands.                *)
(*                                                                         *)
(* A command is a chain of the operations below.  Each is shown to keep    *)
(* what makes an engine sane (its book and owners in order, its accounts   *)
(* the journal's projections) and to move the player's equity by the edge; *)
(* the chains end in reconcileReservations(), after which the reservations *)
(* are those of the live orders.  The lemmas about the book are taken from *)
(* its own proofs, those about folds from FoldProofs.                      *)
(***************************************************************************)
EXTENDS Exchange, FiniteSetTheorems, SequenceTheorems, FunctionTheorems, TLAPS

\* What is known of the book, with the accounts that may be opened for owners.
Book == INSTANCE BookProofs WITH
            Owners <- Ids, Quantities <- 1..MaxOrderQty, MaxOrders <- MaxVersion,
            book <- engine.book, nextOrder <- engine.nextOrder, fills <- <<>>

Posting  == INSTANCE FoldProofs WITH Op <- Post
Tallying == INSTANCE FoldProofs WITH Op <- Tally
Joined(s, t) == s \o t
Joining  == INSTANCE FoldProofs WITH Op <- Joined
Trades   == INSTANCE FoldProofs WITH Op <- ApplyTrade
Removals == INSTANCE FoldProofs WITH Op <- RemoveOrder
Visits   == INSTANCE FoldProofs WITH Op <- Arrive

-----------------------------------------------------------------------------
(* The book's operations, here and in the lemmas about it *)

\* Finite sets are the same here and there.
LEMMA SameFinite == \A s : Book!IsFiniteSet(s) <=> IsFiniteSet(s)
BY Zenon DEF Book!IsFiniteSet, IsFiniteSet

\* Live orders.
LEMMA SameLive == \A b : Book!LiveOrders(b) = LiveOrders(b)
BY Zenon DEF Book!LiveOrders, LiveOrders, Book!Sides, Sides, Book!ToSet, ToSet

\* Removing an order.
LEMMA SameRemove == \A b, o : Book!RemoveOrder(b, o) = RemoveOrder(b, o)
BY Zenon DEF Book!RemoveOrder, RemoveOrder, Book!RemoveAt, RemoveAt

\* Resting an order.
LEMMA SameRest == \A b, o : Book!Rest(b, o) = Rest(b, o)
BY Zenon DEF Book!Rest, Rest

\* The book without orders.
LEMMA SameEmpty == Book!EmptyBook = EmptyBook
BY Zenon DEF Book!EmptyBook, EmptyBook, Book!EmptyLevel, EmptyLevel, Book!Sides, Sides

\* The number of elements.
LEMMA SameCardinality == \A s : Book!Cardinality(s) = Cardinality(s)
BY Zenon DEF Book!Cardinality, Cardinality

\* Orders in the order of their sequence numbers.
LEMMA SameSequence == \A s : Book!InSequence(s) = InSequence(s)
BY Zenon DEF Book!InSequence, InSequence, Book!BySequence, BySequence, Book!Cardinality, Cardinality

\* The live orders, oldest first.
LEMMA SameOrders == \A b : Book!Orders(b) = Orders(b)
BY SameLive, SameSequence, Zenon DEF Book!Orders, Orders

\* Resting one order after another.
LEMMA SameRests == \A s, base : Book!FoldLeft(Book!Rest, base, s) = FoldLeft(Rest, base, s)
BY Zenon DEF Book!FoldLeft, FoldLeft, Book!MapThenFoldSet, MapThenFoldSet, Book!Max, Max, Book!Rest, Rest

\* The clone that a submission works on.
LEMMA SameClone == \A b : Book!Clone(b) = Clone(b)
BY SameOrders, SameRests, SameEmpty, Zenon DEF Book!Clone, Clone

\* The best price of a side.
LEMMA SameBest == \A b, side : Book!Best(b, side) = Best(b, side)
BY Zenon DEF Book!Best, Best, Book!Max, Max, Book!Min, Min

\* Which prices cross.
LEMMA SameCrosses == \A side, limit, price : Book!Crosses(side, limit, price) <=> Crosses(side, limit, price)
BY Zenon DEF Book!Crosses, Crosses

\* Whether a taker finds a maker.
LEMMA SameHasCrossing == \A b, t : Book!HasCrossing(b, t) <=> HasCrossing(b, t)
BY SameBest, SameCrosses, Zenon DEF Book!HasCrossing, HasCrossing, Book!Opposite, Opposite

\* The maker that a taker finds.
LEMMA SameBestCrossing == \A b, t : Book!BestCrossing(b, t) = BestCrossing(b, t)
BY SameBest, Zenon DEF Book!BestCrossing, BestCrossing, Book!Opposite, Opposite

\* The least of a set.
LEMMA SameMin == \A s : Book!Min(s) = Min(s)
BY Zenon DEF Book!Min, Min

\* One fill of a match.
LEMMA SameFillOnce == \A m : Book!FillOnce(m) = FillOnce(m)
BY SameHasCrossing, SameBestCrossing, SameMin, SameRemove, ZenonT(60) DEF Book!FillOnce, FillOnce

\* The match of a taker with the book.
LEMMA SameMatch == \A b, o : Book!Match(b, o) = Match(b, o)
BY SameFillOnce, SameLive, SameCardinality, Zenon DEF Book!Match, Match

\* The orders of an account.
LEMMA SameOwn == \A b, id : Book!OrdersOf(b, id) = OrdersOf(b, id)
BY SameLive, Zenon DEF Book!OrdersOf, OrdersOf

\* Whether an order would trade with its own account.
LEMMA SameSelfTrade == \A b, o : Book!WouldSelfTrade(b, o) <=> WouldSelfTrade(b, o)
BY SameOwn, SameCrosses, Zenon DEF Book!WouldSelfTrade, WouldSelfTrade

\* The last sequence number in the book.
LEMMA SameMaxSequence == \A b : Book!MaxSequence(b) = MaxSequence(b)
BY SameLive, Zenon DEF Book!MaxSequence, MaxSequence, Book!Max, Max

\* The submission to a clone.
LEMMA SameSubmitTo == \A b, o : Book!SubmitTo(b, o) = SubmitTo(b, o)
<1> SUFFICES ASSUME NEW b, NEW o PROVE Book!SubmitTo(b, o) = SubmitTo(b, o)
  BY Zenon
<1>1. Book!MaxSequence(b) = MaxSequence(b) /\ Book!Match(b, o) = Match(b, o)
  BY SameMaxSequence, SameMatch, Zenon
<1>2. Book!WouldSelfTrade(b, o) <=> WouldSelfTrade(b, o)
  BY SameSelfTrade, Zenon
<1>3. Book!Rest(Match(b, o).book, Match(b, o).taker) = Rest(Match(b, o).book, Match(b, o).taker)
  BY SameRest, Zenon
<1>4. Book!Refused = Refused
  BY SameEmpty, Zenon DEF Book!Refused, Refused
<1>5. QED
  BY <1>1, <1>2, <1>3, <1>4, ZenonT(60) DEF Book!SubmitTo, SubmitTo

\* The submission of an order.
LEMMA SameSubmit == \A b, o : Book!SubmitOrder(b, o) = SubmitOrder(b, o)
BY SameSubmitTo, SameClone, Zenon DEF Book!SubmitOrder, SubmitOrder

-----------------------------------------------------------------------------
(* Sums *)

\* The element that a sum over a set takes next.
Picked(s) == CHOOSE x \in s : TRUE

\* The library's sum over the subsets of a set.
IsSum(g, f, S) ==
    g = [s \in SUBSET S |-> IF s = {} THEN 0 ELSE f[Picked(s)] + g[s \ {Picked(s)}]]

\* The same over the small ones among them.
Small(S, n) == {s \in SUBSET S : Cardinality(s) <= n}

IsPartialSum(g, f, S, n) ==
    g = [s \in Small(S, n) |-> IF s = {} THEN 0 ELSE f[Picked(s)] + g[s \ {Picked(s)}]]

\* A set that is not empty is one greater than without the picked element.
LEMMA PickedLeaves ==
    ASSUME NEW S, IsFiniteSet(S), NEW s \in SUBSET S, s # {}
    PROVE  /\ Picked(s) \in s /\ s \ {Picked(s)} \in SUBSET S
           /\ Cardinality(s) \in Nat /\ Cardinality(s) > 0
           /\ Cardinality(s \ {Picked(s)}) = Cardinality(s) - 1
<1>1. Picked(s) \in s
  BY Zenon DEF Picked
<1>2. IsFiniteSet(s)
  BY FS_Subset
<1> HIDE DEF Picked
<1>3. Cardinality(s) \in Nat /\ Cardinality(s \ {Picked(s)}) = Cardinality(s) - 1
  BY <1>1, <1>2, FS_RemoveElement, FS_CardinalityType
<1>4. Cardinality(s) # 0
  BY <1>2, FS_EmptySet
<1>5. QED
  BY <1>1, <1>3, <1>4

\* Only the empty set has no elements.
LEMMA NoneIsEmpty ==
    ASSUME NEW S, IsFiniteSet(S), NEW s \in SUBSET S, Cardinality(s) <= 0
    PROVE  s = {}
<1>1. SUFFICES ASSUME s # {} PROVE FALSE
  OBVIOUS
<1>2. Cardinality(s) \in Nat /\ Cardinality(s) > 0
  BY <1>1, PickedLeaves
<1>3. QED
  BY <1>2

\* A set of finite size has a sum.
LEMMA PartialSumExists ==
    ASSUME NEW S, IsFiniteSet(S), NEW f
    PROVE  \A n \in Nat : \E g : IsPartialSum(g, f, S, n)
<1> DEFINE N == {n \in Nat : \E g : IsPartialSum(g, f, S, n)}
<1>1. 0 \in N
  <2> DEFINE g == [s \in Small(S, 0) |-> 0]
  <2>1. ASSUME NEW s \in Small(S, 0) PROVE s = {}
    <3>1. s \in SUBSET S /\ Cardinality(s) <= 0
      BY DEF Small
    <3>2. QED
      BY <3>1, NoneIsEmpty
  <2>2. g = [s \in Small(S, 0) |-> IF s = {} THEN 0 ELSE f[Picked(s)] + g[s \ {Picked(s)}]]
    BY <2>1, Zenon
  <2>3. QED
    BY <2>2 DEF IsPartialSum
<1>2. ASSUME NEW n \in Nat, n \in N PROVE n + 1 \in N
  <2>1. PICK g : IsPartialSum(g, f, S, n)
    BY <1>2
  <2> DEFINE h == [s \in Small(S, n + 1) |->
                     IF s \in Small(S, n) THEN g[s] ELSE f[Picked(s)] + g[s \ {Picked(s)}]]
  <2>2. ASSUME NEW s \in Small(S, n + 1)
        PROVE  h[s] = IF s = {} THEN 0 ELSE f[Picked(s)] + h[s \ {Picked(s)}]
    <3>1. s \in SUBSET S /\ Cardinality(s) <= n + 1
      BY DEF Small
    <3>2. CASE s = {}
      <4>1. s \in Small(S, n)
        BY <3>1, <3>2, FS_EmptySet DEF Small
      <4>2. g[s] = IF s = {} THEN 0 ELSE f[Picked(s)] + g[s \ {Picked(s)}]
        BY <2>1, <4>1, Zenon DEF IsPartialSum
      <4>3. h[s] = g[s]
        BY <4>1, Zenon
      <4>4. QED
        BY <3>2, <4>2, <4>3, Zenon
    <3>3. CASE s # {}
      <4> DEFINE t == s \ {Picked(s)}
      <4>1. t \in SUBSET S /\ Cardinality(t) = Cardinality(s) - 1 /\ Cardinality(s) \in Nat
        BY <3>1, <3>3, PickedLeaves
      <4> HIDE DEF t
      <4>2. t \in Small(S, n) /\ t \in Small(S, n + 1)
        BY <3>1, <4>1 DEF Small
      <4>3. h[t] = g[t]
        BY <4>2, Zenon
      <4>4. h[s] = f[Picked(s)] + g[t]
        <5>1. CASE s \in Small(S, n)
          <6>1. g[s] = IF s = {} THEN 0 ELSE f[Picked(s)] + g[s \ {Picked(s)}]
            BY <2>1, <5>1, Zenon DEF IsPartialSum
          <6>2. h[s] = g[s]
            BY <5>1, Zenon
          <6>3. QED
            BY <3>3, <6>1, <6>2, Zenon DEF t
        <5>2. CASE s \notin Small(S, n)
          BY <5>2, Zenon DEF t
        <5>3. QED
          BY <5>1, <5>2
      <4> HIDE DEF h
      <4>5. QED
        BY <3>3, <4>3, <4>4, Zenon DEF t
    <3>4. QED
      BY <3>2, <3>3
  <2>3. h = [s \in Small(S, n + 1) |-> h[s]]
    BY Zenon
  <2> HIDE DEF h
  <2>4. h = [s \in Small(S, n + 1) |-> IF s = {} THEN 0 ELSE f[Picked(s)] + h[s \ {Picked(s)}]]
    BY <2>2, <2>3, Zenon
  <2>5. IsPartialSum(h, f, S, n + 1)
    BY <2>4, Zenon DEF IsPartialSum
  <2>6. n + 1 \in Nat
    OBVIOUS
  <2>7. QED
    BY <2>5, <2>6
<1> HIDE DEF N
<1>3. Nat \subseteq N
  BY <1>1, <1>2, Posting!SetInduction
<1>4. QED
  BY <1>3 DEF N

\* The library's sum is one.
LEMMA SumIsSum ==
    ASSUME NEW f, IsFiniteSet(DOMAIN f)
    PROVE  \E g : IsSum(g, f, DOMAIN f) /\ SumFunction(f) = g[DOMAIN f]
<1> DEFINE S == DOMAIN f
           g == CHOOSE h : IsSum(h, f, S)
<1>1. SumFunction(f) = g[S]
  BY Zenon DEF SumFunction, SumFunctionOnSet, FoldFunctionOnSet, MapThenFoldSet, IsSum, Picked
<1>2. \E h : IsSum(h, f, S)
  <2>1. Cardinality(S) \in Nat
    BY FS_CardinalityType
  <2>2. PICK h : IsPartialSum(h, f, S, Cardinality(S))
    BY <2>1, PartialSumExists, Zenon
  <2>3. Small(S, Cardinality(S)) = SUBSET S
    <3>1. ASSUME NEW s \in SUBSET S PROVE Cardinality(s) <= Cardinality(S)
      BY FS_Subset
    <3>2. QED
      BY <3>1 DEF Small
  <2>4. IsSum(h, f, S)
    BY <2>2, <2>3, Zenon DEF IsPartialSum, IsSum
  <2>5. QED
    BY <2>4
<1>3. IsSum(g, f, S)
  BY <1>2, Zenon
<1>4. QED
  BY <1>1, <1>3, Zenon

\* Sums of functions with the same values on a set are the same there.
LEMMA SumsAgree ==
    ASSUME NEW S, NEW T, NEW U, IsFiniteSet(U), U \subseteq S, U \subseteq T,
           NEW f, NEW k, \A x \in U : f[x] = k[x],
           NEW g, IsSum(g, f, S), NEW h, IsSum(h, k, T)
    PROVE  g[U] = h[U]
<1> DEFINE N == {n \in Nat : \A s \in SUBSET U : Cardinality(s) <= n => g[s] = h[s]}
<1>1. ASSUME NEW s \in SUBSET U
      PROVE  /\ g[s] = IF s = {} THEN 0 ELSE f[Picked(s)] + g[s \ {Picked(s)}]
             /\ h[s] = IF s = {} THEN 0 ELSE k[Picked(s)] + h[s \ {Picked(s)}]
  <2>1. s \in SUBSET S /\ s \in SUBSET T
    OBVIOUS
  <2>2. QED
    BY <2>1, Zenon DEF IsSum
<1>2. 0 \in N
  <2>1. ASSUME NEW s \in SUBSET U, Cardinality(s) <= 0 PROVE g[s] = h[s]
    <3>1. s = {}
      BY <2>1, NoneIsEmpty
    <3>2. QED
      BY <1>1, <3>1
  <2>2. QED
    BY <2>1
<1>3. ASSUME NEW n \in Nat, n \in N PROVE n + 1 \in N
  <2>1. ASSUME NEW s \in SUBSET U, Cardinality(s) <= n + 1 PROVE g[s] = h[s]
    <3>1. CASE s = {}
      BY <1>1, <3>1
    <3>2. CASE s # {}
      <4> DEFINE t == s \ {Picked(s)}
      <4>1. t \in SUBSET U /\ Cardinality(t) = Cardinality(s) - 1 /\ Cardinality(s) \in Nat
            /\ Picked(s) \in s
        BY <3>2, PickedLeaves
      <4>2. g[s] = f[Picked(s)] + g[t] /\ h[s] = k[Picked(s)] + h[t]
        BY <1>1, <3>2
      <4> HIDE DEF t
      <4>3. g[t] = h[t]
        BY <1>3, <2>1, <4>1
      <4>4. f[Picked(s)] = k[Picked(s)]
        BY <4>1
      <4>5. QED
        BY <4>2, <4>3, <4>4, Zenon
    <3>3. QED
      BY <3>1, <3>2
  <2>2. QED
    BY <2>1
<1> HIDE DEF N
<1>4. Nat \subseteq N
  BY <1>2, <1>3, Posting!SetInduction
<1>5. Cardinality(U) \in Nat /\ U \in SUBSET U
  BY FS_CardinalityType
<1>6. QED
  BY <1>4, <1>5 DEF N

\* Any element can be taken out of a sum first.
LEMMA SumTakes ==
    ASSUME NEW S, IsFiniteSet(S), NEW f \in [S -> Int], NEW g, IsSum(g, f, S)
    PROVE  \A s \in SUBSET S :
             /\ g[s] \in Int
             /\ (\A x \in S : f[x] >= 0) => g[s] >= 0
             /\ \A x \in s : g[s] = f[x] + g[s \ {x}]
<1> DEFINE Taken(s) == /\ g[s] \in Int
                       /\ (\A x \in S : f[x] >= 0) => g[s] >= 0
                       /\ \A x \in s : g[s] = f[x] + g[s \ {x}]
           N == {n \in Nat : \A s \in SUBSET S : Cardinality(s) <= n => Taken(s)}
<1>1. \A s \in SUBSET S : g[s] = IF s = {} THEN 0 ELSE f[Picked(s)] + g[s \ {Picked(s)}]
  BY Zenon DEF IsSum
<1>2. Taken({})
  <2>1. g[{}] = 0
    BY <1>1
  <2>2. QED
    BY <2>1
<1>3. 0 \in N
  <2>1. ASSUME NEW s \in SUBSET S, Cardinality(s) <= 0 PROVE Taken(s)
    <3>1. s = {}
      BY <2>1, NoneIsEmpty
    <3> HIDE DEF Taken
    <3>2. QED
      BY <1>2, <3>1
  <2>2. QED
    BY <2>1
<1>4. ASSUME NEW n \in Nat, n \in N PROVE n + 1 \in N
  <2>1. ASSUME NEW s \in SUBSET S, Cardinality(s) <= n + 1 PROVE Taken(s)
    <3>1. CASE s = {}
      BY <1>2, <3>1
    <3>2. CASE s # {}
      <4> DEFINE c == Picked(s)
                 t == s \ {c}
      <4>1. /\ c \in s /\ t \in SUBSET S
            /\ Cardinality(s) \in Nat /\ Cardinality(t) = Cardinality(s) - 1
        BY <3>2, PickedLeaves
      <4>2. g[s] = f[c] + g[t]
        BY <1>1, <3>2
      <4> HIDE DEF c
      <4>3. Taken(t)
        <5> HIDE DEF t, Taken
        <5>1. QED
          BY <1>4, <2>1, <4>1
      <4>4. f[c] \in Int /\ g[s] \in Int
        BY <4>1, <4>2, <4>3
      <4>5. (\A x \in S : f[x] >= 0) => g[s] >= 0
        BY <4>1, <4>2, <4>3, <4>4
      <4>6. ASSUME NEW x \in s, x # c PROVE g[s] = f[x] + g[s \ {x}]
        <5> DEFINE u == s \ {x}
        <5>1. IsFiniteSet(s)
          BY FS_Subset
        <5>2. u \in SUBSET S /\ Cardinality(u) = Cardinality(s) - 1 /\ c \in u
          BY <4>1, <4>6, <5>1, FS_RemoveElement
        <5>3. Taken(u)
          <6> HIDE DEF u, Taken
          <6>1. QED
            BY <1>4, <2>1, <4>1, <5>2
        <5>4. g[u] = f[c] + g[u \ {c}]
          BY <5>2, <5>3
        <5>5. g[t] = f[x] + g[t \ {x}]
          BY <4>3, <4>6
        <5>6. u \ {c} = t \ {x}
          OBVIOUS
        <5>7. t \ {x} \in SUBSET S /\ Cardinality(t \ {x}) <= n /\ f[x] \in Int
          <6>1. IsFiniteSet(t) /\ x \in t
            BY <4>6, <5>1, FS_Subset
          <6>2. Cardinality(t \ {x}) = Cardinality(t) - 1
            BY <6>1, FS_RemoveElement
          <6>3. QED
            BY <2>1, <4>1, <6>2
        <5>8. g[t \ {x}] \in Int
          <6> DEFINE w == t \ {x}
          <6> HIDE DEF w
          <6>1. w \in SUBSET S /\ Cardinality(w) <= n
            BY <5>7 DEF w
          <6>2. Taken(w)
            <7> HIDE DEF Taken
            <7>1. QED
              BY <1>4, <6>1
          <6>3. QED
            BY <6>2 DEF w
        <5> DEFINE rest == g[t \ {x}]
        <5>9. g[u] = f[c] + rest /\ g[t] = f[x] + rest
          BY <5>4, <5>5, <5>6
        <5>10. g[s \ {x}] = g[u]
          OBVIOUS
        <5> HIDE DEF rest, u, t, Taken
        <5>11. rest \in Int /\ f[x] \in Int
          BY <5>7, <5>8 DEF rest
        <5>12. QED
          BY <4>2, <4>4, <5>9, <5>10, <5>11
      <4>7. \A x \in s : g[s] = f[x] + g[s \ {x}]
        BY <4>2, <4>6
      <4>8. QED
        BY <4>4, <4>5, <4>7
    <3>3. QED
      BY <3>1, <3>2
  <2> HIDE DEF Taken
  <2>2. QED
    BY <2>1
<1>5. Nat \subseteq N
  <2> HIDE DEF N
  <2>1. QED
    BY <1>3, <1>4, Posting!SetInduction
<1>6. ASSUME NEW s \in SUBSET S PROVE Taken(s)
  <2>1. IsFiniteSet(s)
    BY FS_Subset
  <2>2. Cardinality(s) \in Nat
    BY <2>1, FS_CardinalityType
  <2> HIDE DEF Taken
  <2>3. QED
    BY <1>5, <2>2
<1>7. QED
  BY <1>6

\* What a sum is: nothing for nothing, and for more any element and the rest.
LEMMA SumFacts ==
    ASSUME NEW S, IsFiniteSet(S), NEW f \in [S -> Int]
    PROVE  /\ SumFunction(f) \in Int
           /\ (\A x \in S : f[x] >= 0) => SumFunction(f) >= 0
           /\ S = {} => SumFunction(f) = 0
           /\ \A x \in S : SumFunction(f) = f[x] + SumFunction([y \in S \ {x} |-> f[y]])
<1>1. DOMAIN f = S
  OBVIOUS
<1>2. PICK g : IsSum(g, f, S) /\ SumFunction(f) = g[S]
  BY <1>1, SumIsSum
<1>3. S \in SUBSET S
  OBVIOUS
<1>4. /\ g[S] \in Int
      /\ (\A x \in S : f[x] >= 0) => g[S] >= 0
      /\ \A x \in S : g[S] = f[x] + g[S \ {x}]
  BY <1>2, <1>3, SumTakes
<1>5. S = {} => g[S] = 0
  BY <1>2, <1>3, Zenon DEF IsSum
<1>6. ASSUME NEW x \in S PROVE SumFunction([y \in S \ {x} |-> f[y]]) = g[S \ {x}]
  <2> DEFINE T == S \ {x}
             k == [y \in T |-> f[y]]
  <2>1. DOMAIN k = T /\ \A y \in T : f[y] = k[y]
    OBVIOUS
  <2>2. IsFiniteSet(T) /\ T \subseteq S /\ T \subseteq T
    BY FS_Subset
  <2> HIDE DEF T, k
  <2>3. PICK h : IsSum(h, k, T) /\ SumFunction(k) = h[T]
    BY <2>1, <2>2, SumIsSum
  <2>4. g[T] = h[T]
    BY <1>2, <2>1, <2>2, <2>3, SumsAgree
  <2>5. QED
    BY <2>3, <2>4, Zenon DEF T, k
<1>7. QED
  BY <1>2, <1>4, <1>5, <1>6

-----------------------------------------------------------------------------
(* Entries of the journal *)

Postings == LedgerAccounts \X Int
Balances == [LedgerAccounts -> Int]
Totals   == [Units -> Int]
Nothing  == [unit \in Units |-> 0]

\* What an entry makes of the balances, and whether it may be posted.
Posted(balances, postings) == FoldLeft(Post, balances, postings)
Balanced(postings)         == FoldLeft(Tally, Nothing, postings) = Nothing

\* What a posting adds to an account or to a unit.
Adds(posting, a)        == IF posting[1] = a THEN posting[2] ELSE 0
AddsUnit(posting, unit) == IF posting[1][1] = unit THEN posting[2] ELSE 0

\* Posting an entry is the fold that the lemmas are about.
LEMMA SamePosted == \A s, base : Posting!Fold(s, base) = FoldLeft(Post, base, s)
BY Zenon DEF Posting!Fold, FoldLeft, Posting!MapThenFoldSet, MapThenFoldSet,
             Posting!Greatest, Max

\* The totals of an entry.
LEMMA SameTallied == \A s, base : Tallying!Fold(s, base) = FoldLeft(Tally, base, s)
BY Zenon DEF Tallying!Fold, FoldLeft, Tallying!MapThenFoldSet, MapThenFoldSet,
             Tallying!Greatest, Max

\* The moves of all reservations, joined.
LEMMA SameJoined == \A s, base : Joining!Fold(s, base) = FoldLeft(\o, base, s)
BY Zenon DEF Joining!Fold, FoldLeft, Joining!MapThenFoldSet, MapThenFoldSet,
             Joining!Greatest, Max, Joined

\* The trades of a report.
LEMMA SameTrades == \A s, base : Trades!Fold(s, base) = FoldLeft(ApplyTrade, base, s)
BY Zenon DEF Trades!Fold, FoldLeft, Trades!MapThenFoldSet, MapThenFoldSet,
             Trades!Greatest, Max

\* The cancellation of all orders of an account.
LEMMA SameRemovals == \A s, base : Removals!Fold(s, base) = FoldLeft(RemoveOrder, base, s)
BY Zenon DEF Removals!Fold, FoldLeft, Removals!MapThenFoldSet, MapThenFoldSet,
             Removals!Greatest, Max

\* The customers of a turn.
LEMMA SameVisits == \A s, base : Visits!Fold(s, base) = FoldLeft(Arrive, base, s)
BY Zenon DEF Visits!Fold, FoldLeft, Visits!MapThenFoldSet, MapThenFoldSet,
             Visits!Greatest, Max

\* The accounts of the journal, all different.
LEMMA JournalAccounts ==
    ASSUME NEW id \in Ids
    PROVE  /\ CashAvailable(id) \in LedgerAccounts /\ CashReserved(id) \in LedgerAccounts
           /\ InstrumentAvailable(id) \in LedgerAccounts /\ InstrumentReserved(id) \in LedgerAccounts
           /\ OpeningCash(id) \in LedgerAccounts /\ OpeningInstrument(id) \in LedgerAccounts
           /\ StorageAccount \in LedgerAccounts
<1>1. \A unit \in {"cash", "instrument"}, kind \in {"available", "reserved", "opening"} :
        <<unit, kind, id>> \in LedgerAccounts
  BY DEF LedgerAccounts
<1>2. StorageAccount \in LedgerAccounts
  BY DEF LedgerAccounts
<1>3. QED
  BY <1>1, <1>2 DEF CashAvailable, CashReserved, InstrumentAvailable, InstrumentReserved, OpeningCash,
                    OpeningInstrument

\* The unit of an account is the first part of its name.
LEMMA UnitsOfAccounts ==
    ASSUME NEW id
    PROVE  /\ CashAvailable(id)[1] = "cash" /\ CashReserved(id)[1] = "cash" /\ OpeningCash(id)[1] = "cash"
           /\ StorageAccount[1] = "cash"
           /\ InstrumentAvailable(id)[1] = "instrument" /\ InstrumentReserved(id)[1] = "instrument"
           /\ OpeningInstrument(id)[1] = "instrument"
BY DEF CashAvailable, CashReserved, InstrumentAvailable, InstrumentReserved, OpeningCash,
       OpeningInstrument, StorageAccount

\* Accounts of a participant, those that the properties are about.
OwnAccounts(id) == {CashAvailable(id), CashReserved(id), InstrumentAvailable(id), InstrumentReserved(id)}

\* An account tells its owner and its kind.
LEMMA AccountsDiffer ==
    ASSUME NEW id, NEW j
    PROVE  /\ CashAvailable(id) = CashAvailable(j) <=> id = j
           /\ CashReserved(id) = CashReserved(j) <=> id = j
           /\ InstrumentAvailable(id) = InstrumentAvailable(j) <=> id = j
           /\ InstrumentReserved(id) = InstrumentReserved(j) <=> id = j
           /\ CashAvailable(id) # CashReserved(j) /\ CashAvailable(id) # InstrumentAvailable(j)
           /\ CashAvailable(id) # InstrumentReserved(j) /\ CashReserved(id) # InstrumentAvailable(j)
           /\ CashReserved(id) # InstrumentReserved(j) /\ InstrumentAvailable(id) # InstrumentReserved(j)
           /\ StorageAccount \notin OwnAccounts(id)
           /\ OpeningCash(j) \notin OwnAccounts(id) /\ OpeningInstrument(j) \notin OwnAccounts(id)
BY DEF CashAvailable, CashReserved, InstrumentAvailable, InstrumentReserved, OpeningCash,
       OpeningInstrument, StorageAccount, OwnAccounts

\* Every account is of one of the two units.
LEMMA AccountUnit == \A a \in LedgerAccounts : a[1] \in Units
BY DEF LedgerAccounts, StorageAccount, Units

\* A posting changes its account.
LEMMA PostAt ==
    ASSUME NEW b \in Balances, NEW p \in Postings
    PROVE  /\ Post(b, p) \in Balances
           /\ \A a \in LedgerAccounts : Post(b, p)[a] = b[a] + Adds(p, a)
<1>1. p[1] \in LedgerAccounts /\ p[2] \in Int
  BY DEF Postings
<1>2. Post(b, p) = [b EXCEPT ![p[1]] = b[p[1]] + p[2]]
  BY Zenon DEF Post
<1>3. b \in [LedgerAccounts -> Int]
  BY DEF Balances
<1>4. QED
  BY <1>1, <1>2, <1>3 DEF Balances, Adds

\* A posting changes its unit.
LEMMA TallyAt ==
    ASSUME NEW t \in Totals, NEW p \in Postings
    PROVE  /\ Tally(t, p) \in Totals
           /\ \A unit \in Units : Tally(t, p)[unit] = t[unit] + AddsUnit(p, unit)
<1>1. p[1] \in LedgerAccounts /\ p[2] \in Int
  BY DEF Postings
<1>2. p[1][1] \in Units
  BY <1>1, AccountUnit
<1>3. Tally(t, p) = [t EXCEPT ![p[1][1]] = t[p[1][1]] + p[2]]
  BY Zenon DEF Tally
<1>4. t \in [Units -> Int]
  BY DEF Totals
<1>5. QED
  BY <1>1, <1>2, <1>3, <1>4 DEF Totals, AddsUnit

\* Entries keep the balances numbers.
LEMMA PostedIsBalances ==
    ASSUME NEW b \in Balances, NEW s \in Seq(Postings)
    PROVE  Posted(b, s) \in Balances
<1>1. \A v \in Balances : \A i \in 1..Len(s) : Post(v, s[i]) \in Balances
  <2>1. \A i \in 1..Len(s) : s[i] \in Postings
    OBVIOUS
  <2>2. QED
    BY <2>1, PostAt
<1>2. Posting!Fold(s, b) \in Balances
  BY <1>1, Posting!FoldKeeps
<1>3. QED
  BY <1>2, SamePosted DEF Posted

\* Posting one or two postings, and one entry after another.
LEMMA PostedParts ==
    /\ \A b : Posted(b, <<>>) = b
    /\ \A b, p : Posted(b, <<p>>) = Post(b, p)
    /\ \A b, p, q : Posted(b, <<p, q>>) = Post(Post(b, p), q)
    /\ \A b : \A s \in Seq(Postings), t \in Seq(Postings) : Posted(b, s \o t) = Posted(Posted(b, s), t)
<1>1. \A s, b : Posted(b, s) = Posting!Fold(s, b)
  BY SamePosted DEF Posted
<1>2. \A b : Posting!Fold(<<>>, b) = b
  BY Posting!FoldEmpty
<1>3. \A b, p : Posting!Fold(<<p>>, b) = Post(b, p)
  BY Posting!FoldOne
<1>4. \A b, p, q : Posting!Fold(<<p, q>>, b) = Post(Post(b, p), q)
  BY Posting!FoldPair
<1>6. \A b : Posted(b, <<>>) = b
  BY <1>1, <1>2, Zenon
<1>7. \A b, p : Posted(b, <<p>>) = Post(b, p)
  BY <1>1, <1>3, Zenon
<1>8. ASSUME NEW b, NEW p, NEW q PROVE Posted(b, <<p, q>>) = Post(Post(b, p), q)
  <2> DEFINE u == <<p, q>>
  <2>1. Posting!Fold(u, b) = Post(Post(b, p), q)
    BY <1>4
  <2> HIDE DEF u
  <2>2. Posted(b, u) = Post(Post(b, p), q)
    BY <1>1, <2>1, Zenon
  <2>3. QED
    BY <2>2 DEF u
<1>9. ASSUME NEW b, NEW s \in Seq(Postings), NEW t \in Seq(Postings)
      PROVE  Posted(b, s \o t) = Posted(Posted(b, s), t)
  <2>1. Posting!Fold(s \o t, b) = Posting!Fold(t, Posting!Fold(s, b))
    BY Posting!FoldConcat
  <2> DEFINE u == s \o t
  <2> HIDE DEF u
  <2>2. Posting!Fold(u, b) = Posting!Fold(t, Posting!Fold(s, b))
    BY <2>1 DEF u
  <2>3. Posted(b, u) = Posted(Posted(b, s), t)
    BY <1>1, <2>2, Zenon
  <2>4. QED
    BY <2>3 DEF u
<1>10. QED
  BY <1>6, <1>7, <1>8, <1>9

\* The same for the totals of an entry.
Tallied(t, s) == FoldLeft(Tally, t, s)

\* The totals of none, one and two postings, and of an entry after another.
LEMMA TalliedParts ==
    /\ \A b : Tallied(b, <<>>) = b
    /\ \A b, p : Tallied(b, <<p>>) = Tally(b, p)
    /\ \A b, p, q : Tallied(b, <<p, q>>) = Tally(Tally(b, p), q)
    /\ \A b : \A s \in Seq(Postings), t \in Seq(Postings) : Tallied(b, s \o t) = Tallied(Tallied(b, s), t)
<1>1. \A s, b : Tallied(b, s) = Tallying!Fold(s, b)
  BY SameTallied DEF Tallied
<1>2. \A b : Tallying!Fold(<<>>, b) = b
  BY Tallying!FoldEmpty
<1>3. \A b, p : Tallying!Fold(<<p>>, b) = Tally(b, p)
  BY Tallying!FoldOne
<1>4. \A b, p, q : Tallying!Fold(<<p, q>>, b) = Tally(Tally(b, p), q)
  BY Tallying!FoldPair
<1>6. \A b : Tallied(b, <<>>) = b
  BY <1>1, <1>2, Zenon
<1>7. \A b, p : Tallied(b, <<p>>) = Tally(b, p)
  BY <1>1, <1>3, Zenon
<1>8. ASSUME NEW b, NEW p, NEW q PROVE Tallied(b, <<p, q>>) = Tally(Tally(b, p), q)
  <2> DEFINE u == <<p, q>>
  <2>1. Tallying!Fold(u, b) = Tally(Tally(b, p), q)
    BY <1>4
  <2> HIDE DEF u
  <2>2. Tallied(b, u) = Tally(Tally(b, p), q)
    BY <1>1, <2>1, Zenon
  <2>3. QED
    BY <2>2 DEF u
<1>9. ASSUME NEW b, NEW s \in Seq(Postings), NEW t \in Seq(Postings)
      PROVE  Tallied(b, s \o t) = Tallied(Tallied(b, s), t)
  <2>1. Tallying!Fold(s \o t, b) = Tallying!Fold(t, Tallying!Fold(s, b))
    BY Tallying!FoldConcat
  <2> DEFINE u == s \o t
  <2> HIDE DEF u
  <2>2. Tallying!Fold(u, b) = Tallying!Fold(t, Tallying!Fold(s, b))
    BY <2>1 DEF u
  <2>3. Tallied(b, u) = Tallied(Tallied(b, s), t)
    BY <1>1, <2>2, Zenon
  <2>4. QED
    BY <2>3 DEF u
<1>10. QED
  BY <1>6, <1>7, <1>8, <1>9

-----------------------------------------------------------------------------
(* Engines *)

Account  == [cash : Int, position : Int, reservedCash : Int, openBuy : Int, openSell : Int]
Members  == {d \in SUBSET Ids : IsFiniteSet(d) /\ Player \in d /\ Flow \in d}
Accounts == UNION {[d -> Account] : d \in Members}

\* Why a day ended, empty while it is open.
Reasons == {"", "insolvent", "margin_breach", "time_expired", "player_quit", "turns_complete"}

Engines ==
    [ok : BOOLEAN, edge : Int, version : Nat, turn : Nat, nextOrder : Nat, mark : Nat \ {0},
     isOver : BOOLEAN, reason : Reasons, book : Book!Books, accounts : Accounts, ledger : Balances]

\* What orders, trades and reservations leave alone.
SameDay(c, d) ==
    /\ d.version = c.version /\ d.turn = c.turn /\ d.mark = c.mark
    /\ d.isOver = c.isOver /\ d.reason = c.reason

\* An account of the engine is what the journal has of it.
Agrees(c, id) ==
    /\ c.ledger[CashAvailable(id)] + c.ledger[CashReserved(id)] = c.accounts[id].cash
    /\ c.ledger[InstrumentAvailable(id)] + c.ledger[InstrumentReserved(id)] = c.accounts[id].position
    /\ c.ledger[CashReserved(id)] = c.accounts[id].reservedCash
    /\ c.ledger[InstrumentReserved(id)] = c.accounts[id].openSell

\* The journal has nothing of an account that is not open.
Blank(c, id) ==
    /\ c.ledger[CashAvailable(id)] = 0 /\ c.ledger[CashReserved(id)] = 0
    /\ c.ledger[InstrumentAvailable(id)] = 0 /\ c.ledger[InstrumentReserved(id)] = 0

Journalled(c) ==
    /\ \A id \in DOMAIN c.accounts : Agrees(c, id)
    /\ \A id \in Ids \ DOMAIN c.accounts : Blank(c, id)

\* The accounts of an engine.
LEMMA AccountsOf ==
    ASSUME NEW c \in Engines
    PROVE  /\ DOMAIN c.accounts \in Members /\ DOMAIN c.accounts \subseteq Ids
           /\ Player \in DOMAIN c.accounts /\ Flow \in DOMAIN c.accounts
           /\ IsFiniteSet(DOMAIN c.accounts)
           /\ c.accounts \in [DOMAIN c.accounts -> Account]
<1>1. c.accounts \in Accounts
  BY DEF Engines
<1>2. PICK d \in Members : c.accounts \in [d -> Account]
  BY <1>1 DEF Accounts
<1>3. DOMAIN c.accounts = d
  BY <1>2
<1>4. QED
  BY <1>2, <1>3 DEF Members

\* Another set of accounts with the same members.
LEMMA AccountsLike ==
    ASSUME NEW c \in Engines, NEW a \in [DOMAIN c.accounts -> Account]
    PROVE  a \in Accounts
BY AccountsOf DEF Accounts

\* An entry that balances moves the balances, another is an error.
LEMMA PostEntryIs ==
    ASSUME NEW c \in Engines, NEW s \in Seq(Postings)
    PROVE  /\ PostEntry(c, s) \in Engines
           /\ Balanced(s) => PostEntry(c, s) = [c EXCEPT !.ledger = Posted(c.ledger, s)]
           /\ ~Balanced(s) => PostEntry(c, s) = [c EXCEPT !.ok = FALSE]
<1> DEFINE l == Posted(c.ledger, s)
<1>1. l \in Balances
  BY PostedIsBalances DEF Engines
<1>2. PostEntry(c, s) = IF Balanced(s) THEN [c EXCEPT !.ledger = l] ELSE [c EXCEPT !.ok = FALSE]
  BY Zenon DEF PostEntry, Balanced, Posted, Nothing
<1> HIDE DEF l
<1>3. [c EXCEPT !.ledger = l] \in Engines /\ [c EXCEPT !.ok = FALSE] \in Engines
  BY <1>1 DEF Engines
<1>4. QED
  BY <1>2, <1>3 DEF l

\* What a trade is settled on.
Settles(c, f) ==
    /\ f.quantity \in Nat /\ f.price \in Nat /\ f.maker.price \in Nat
    /\ f.maker.owner \in DOMAIN c.accounts /\ f.taker.owner \in DOMAIN c.accounts
    /\ f.maker.owner # f.taker.owner

\* The two sides of a trade.
LEMMA TradeSides ==
    ASSUME NEW c \in Engines, NEW f, Settles(c, f)
    PROVE  /\ Buyer(f) \in DOMAIN c.accounts /\ Seller(f) \in DOMAIN c.accounts
           /\ Buyer(f) \in Ids /\ Seller(f) \in Ids /\ Buyer(f) # Seller(f)
           /\ {Buyer(f), Seller(f)} = {f.maker.owner, f.taker.owner}
           /\ Paid(f) \in Nat /\ Limited(f) \in Nat /\ f.quantity \in Nat
           /\ BuyerReserved(f) \in BOOLEAN /\ SellerReserved(f) \in BOOLEAN
           /\ (f.price = f.maker.price => Paid(f) = Limited(f))
<1>1. DOMAIN c.accounts \subseteq Ids
  BY AccountsOf
<1>2. /\ Buyer(f) \in DOMAIN c.accounts /\ Seller(f) \in DOMAIN c.accounts /\ Buyer(f) # Seller(f)
      /\ {Buyer(f), Seller(f)} = {f.maker.owner, f.taker.owner}
  BY DEF Buyer, Seller, Settles
<1>3. Paid(f) \in Nat /\ Limited(f) \in Nat
  <2>1. \A x \in Nat, y \in Nat : x * y \in Nat
    OBVIOUS
  <2>2. QED
    BY <2>1 DEF Paid, Limited, Settles
<1>4. BuyerReserved(f) \in BOOLEAN /\ SellerReserved(f) \in BOOLEAN
  BY DEF BuyerReserved, SellerReserved
<1>5. f.price = f.maker.price => Paid(f) = Limited(f)
  BY DEF Paid, Limited
<1>6. QED
  BY <1>1, <1>2, <1>3, <1>4, <1>5 DEF Settles

\* The postings of a trade are postings, balance, and add to the accounts of
\* the two sides what they pay and get.
LEMMA TradeEntry ==
    ASSUME NEW c \in Engines, NEW f, Settles(c, f)
    PROVE  /\ TradePostings(f) \in Seq(Postings)
           /\ Balanced(TradePostings(f))
           /\ \A b \in Balances : \A id \in Ids :
                /\ Posted(b, TradePostings(f))[CashAvailable(id)] =
                     b[CashAvailable(id)] + (IF id = Seller(f) THEN Paid(f) ELSE 0)
                       + (IF id = Buyer(f) THEN IF BuyerReserved(f) THEN Limited(f) - Paid(f) ELSE -Paid(f)
                                           ELSE 0)
                /\ Posted(b, TradePostings(f))[CashReserved(id)] =
                     b[CashReserved(id)] - (IF id = Buyer(f) /\ BuyerReserved(f) THEN Limited(f) ELSE 0)
                /\ Posted(b, TradePostings(f))[InstrumentAvailable(id)] =
                     b[InstrumentAvailable(id)] + (IF id = Buyer(f) THEN f.quantity ELSE 0)
                       - (IF id = Seller(f) /\ ~SellerReserved(f) THEN f.quantity ELSE 0)
                /\ Posted(b, TradePostings(f))[InstrumentReserved(id)] =
                     b[InstrumentReserved(id)] - (IF id = Seller(f) /\ SellerReserved(f) THEN f.quantity ELSE 0)
           /\ \A b \in Balances : Posted(b, TradePostings(f))[StorageAccount] = b[StorageAccount]
<1> DEFINE B == Buyer(f)
           S == Seller(f)
           R == BuyerReserved(f)
           Q == SellerReserved(f)
           paid == Paid(f)
           limited == Limited(f)
           q == f.quantity
           a5 == IF Q THEN InstrumentReserved(S) ELSE InstrumentAvailable(S)
           p1 == <<CashAvailable(S), paid>>
           p2 == <<InstrumentAvailable(B), q>>
           p3 == <<CashReserved(B), -limited>>
           p4 == <<CashAvailable(B), limited - paid>>
           p0 == <<CashAvailable(B), -paid>>
           p5 == <<a5, -q>>
           middle == IF R THEN <<p3, p4>> ELSE <<p0>>
<1>1. /\ B \in Ids /\ S \in Ids /\ B # S /\ paid \in Nat /\ limited \in Nat /\ q \in Nat
      /\ R \in BOOLEAN /\ Q \in BOOLEAN
  BY TradeSides
<1>2. TradePostings(f) = (<<p1, p2>> \o middle) \o <<p5>>
  BY Zenon DEF TradePostings
<1> HIDE DEF B, S, R, Q, paid, limited, q
<1>3. a5 \in LedgerAccounts /\ a5[1] = "instrument"
  BY <1>1, JournalAccounts, UnitsOfAccounts
<1>4. p1 \in Postings /\ p2 \in Postings /\ p3 \in Postings /\ p4 \in Postings /\ p0 \in Postings /\ p5 \in Postings
  <2>1. -limited \in Int /\ limited - paid \in Int /\ -paid \in Int /\ -q \in Int /\ paid \in Int /\ q \in Int
    BY <1>1
  <2>2. /\ CashAvailable(S) \in LedgerAccounts /\ InstrumentAvailable(B) \in LedgerAccounts
        /\ CashReserved(B) \in LedgerAccounts /\ CashAvailable(B) \in LedgerAccounts
    BY <1>1, JournalAccounts
  <2> HIDE DEF a5
  <2>3. QED
    BY <1>3, <2>1, <2>2 DEF Postings
<1>5. /\ p1[1] = CashAvailable(S) /\ p2[1] = InstrumentAvailable(B) /\ p3[1] = CashReserved(B)
      /\ p4[1] = CashAvailable(B) /\ p0[1] = CashAvailable(B) /\ p5[1] = a5
      /\ p1[2] = paid /\ p2[2] = q /\ p3[2] = -limited /\ p4[2] = limited - paid /\ p0[2] = -paid /\ p5[2] = -q
  BY Zenon
<1> HIDE DEF p1, p2, p3, p4, p0, p5
<1>6. middle \in Seq(Postings) /\ <<p1, p2>> \in Seq(Postings) /\ <<p5>> \in Seq(Postings)
  BY <1>4
<1> DEFINE first == <<p1, p2>> \o middle
<1>7. first \in Seq(Postings) /\ first \o <<p5>> \in Seq(Postings)
  BY <1>6
<1>2a. TradePostings(f) = first \o <<p5>>
  BY <1>2
<1>8. ASSUME NEW b PROVE Posted(b, TradePostings(f)) = Post(Posted(Post(Post(b, p1), p2), middle), p5)
  <2>1. Posted(b, TradePostings(f)) = Posted(Posted(b, first), <<p5>>)
    <3> DEFINE last == <<p5>>
    <3>1. first \in Seq(Postings) /\ last \in Seq(Postings)
      BY <1>6, <1>7
    <3>2. TradePostings(f) = first \o last
      BY <1>2a
    <3> HIDE DEF first, last
    <3>3. Posted(b, first \o last) = Posted(Posted(b, first), last)
      BY <3>1, PostedParts, Zenon
    <3>4. QED
      BY <3>2, <3>3, Zenon DEF last
  <2>2. Posted(b, first) = Posted(Posted(b, <<p1, p2>>), middle)
    BY <1>6, PostedParts
  <2>3. Posted(b, <<p1, p2>>) = Post(Post(b, p1), p2)
    BY PostedParts
  <2>4. QED
    BY <2>1, <2>2, <2>3, PostedParts
<1>9. ASSUME NEW b PROVE Tallied(b, TradePostings(f)) = Tally(Tallied(Tally(Tally(b, p1), p2), middle), p5)
  <2>1. Tallied(b, TradePostings(f)) = Tallied(Tallied(b, first), <<p5>>)
    <3> DEFINE last == <<p5>>
    <3>1. first \in Seq(Postings) /\ last \in Seq(Postings)
      BY <1>6, <1>7
    <3>2. TradePostings(f) = first \o last
      BY <1>2a
    <3> HIDE DEF first, last
    <3>3. Tallied(b, first \o last) = Tallied(Tallied(b, first), last)
      BY <3>1, TalliedParts, Zenon
    <3>4. QED
      BY <3>2, <3>3, Zenon DEF last
  <2>2. Tallied(b, first) = Tallied(Tallied(b, <<p1, p2>>), middle)
    BY <1>6, TalliedParts
  <2>3. Tallied(b, <<p1, p2>>) = Tally(Tally(b, p1), p2)
    BY TalliedParts
  <2>4. QED
    BY <2>1, <2>2, <2>3, TalliedParts
<1>10. ASSUME NEW b PROVE Posted(b, middle) = IF R THEN Post(Post(b, p3), p4) ELSE Post(b, p0)
  <2>1. CASE R
    <3>1. middle = <<p3, p4>>
      BY <2>1
    <3>2. QED
      BY <2>1, <3>1, PostedParts
  <2>2. CASE ~R
    <3>1. middle = <<p0>>
      BY <2>2
    <3>2. QED
      BY <2>2, <3>1, PostedParts
  <2>3. QED
    BY <2>1, <2>2
<1>11. ASSUME NEW b PROVE Tallied(b, middle) = IF R THEN Tally(Tally(b, p3), p4) ELSE Tally(b, p0)
  <2>1. CASE R
    <3>1. middle = <<p3, p4>>
      BY <2>1
    <3>2. QED
      BY <2>1, <3>1, TalliedParts
  <2>2. CASE ~R
    <3>1. middle = <<p0>>
      BY <2>2
    <3>2. QED
      BY <2>2, <3>1, TalliedParts
  <2>3. QED
    BY <2>1, <2>2
<1> HIDE DEF middle
<1>12. ASSUME NEW b \in Balances, NEW a \in LedgerAccounts
       PROVE  Posted(b, TradePostings(f))[a] =
                b[a] + Adds(p1, a) + Adds(p2, a)
                  + (IF R THEN Adds(p3, a) + Adds(p4, a) ELSE Adds(p0, a)) + Adds(p5, a)
  <2> DEFINE b1 == Post(b, p1)
             b2 == Post(b1, p2)
             b3 == Post(b2, p3)
             b4 == Post(b3, p4)
             b0 == Post(b2, p0)
             bm == Posted(b2, middle)
  <2>1. b1 \in Balances /\ b1[a] = b[a] + Adds(p1, a)
    BY <1>4, PostAt
  <2>2. b2 \in Balances /\ b2[a] = b1[a] + Adds(p2, a)
    BY <1>4, <2>1, PostAt
  <2>3. b3 \in Balances /\ b3[a] = b2[a] + Adds(p3, a)
    BY <1>4, <2>2, PostAt
  <2>4. b4 \in Balances /\ b4[a] = b3[a] + Adds(p4, a)
    BY <1>4, <2>3, PostAt
  <2>5. b0 \in Balances /\ b0[a] = b2[a] + Adds(p0, a)
    BY <1>4, <2>2, PostAt
  <2>6. bm = IF R THEN b4 ELSE b0
    BY <1>10
  <2>7. bm \in Balances
    BY <2>4, <2>5, <2>6
  <2>8. Post(bm, p5)[a] = bm[a] + Adds(p5, a)
    BY <1>4, <2>7, PostAt
  <2>9. Posted(b, TradePostings(f)) = Post(bm, p5)
    BY <1>8
  <2>10. /\ b[a] \in Int /\ Adds(p1, a) \in Int /\ Adds(p2, a) \in Int /\ Adds(p3, a) \in Int
         /\ Adds(p4, a) \in Int /\ Adds(p0, a) \in Int /\ Adds(p5, a) \in Int
    BY <1>4 DEF Adds, Postings, Balances
  <2> HIDE DEF b1, b2, b3, b4, b0, bm
  <2>11. QED
    BY <2>1, <2>2, <2>3, <2>4, <2>5, <2>6, <2>8, <2>9, <2>10
<1>13. Balanced(TradePostings(f))
  <2> DEFINE t1 == Tally(Nothing, p1)
             t2 == Tally(t1, p2)
             t3 == Tally(t2, p3)
             t4 == Tally(t3, p4)
             t0 == Tally(t2, p0)
             tm == Tallied(t2, middle)
             t5 == Tally(tm, p5)
  <2>1. Nothing \in Totals /\ Nothing["cash"] = 0 /\ Nothing["instrument"] = 0
    BY DEF Nothing, Totals, Units
  <2>2. /\ p1[1][1] = "cash" /\ p2[1][1] = "instrument" /\ p3[1][1] = "cash" /\ p4[1][1] = "cash"
        /\ p0[1][1] = "cash" /\ p5[1][1] = "instrument"
    BY <1>3, <1>5, UnitsOfAccounts
  <2>u. "cash" \in Units /\ "instrument" \in Units
    BY DEF Units
  <2>3. t1 \in Totals /\ t1["cash"] = paid /\ t1["instrument"] = 0
    <3>1. t1 \in Totals /\ t1["cash"] = Nothing["cash"] + AddsUnit(p1, "cash")
          /\ t1["instrument"] = Nothing["instrument"] + AddsUnit(p1, "instrument")
      BY <1>4, <2>1, <2>u, TallyAt
    <3>2. AddsUnit(p1, "cash") = paid /\ AddsUnit(p1, "instrument") = 0
      BY <1>5, <2>2 DEF AddsUnit
    <3>3. QED
      BY <1>1, <2>1, <3>1, <3>2
  <2>4. t2 \in Totals /\ t2["cash"] = paid /\ t2["instrument"] = q
    <3>1. t2 \in Totals /\ t2["cash"] = t1["cash"] + AddsUnit(p2, "cash")
          /\ t2["instrument"] = t1["instrument"] + AddsUnit(p2, "instrument")
      BY <1>4, <2>3, <2>u, TallyAt
    <3>2. AddsUnit(p2, "cash") = 0 /\ AddsUnit(p2, "instrument") = q
      BY <1>5, <2>2 DEF AddsUnit
    <3>3. QED
      BY <1>1, <2>3, <3>1, <3>2
  <2>5. t3 \in Totals /\ t3["cash"] = paid - limited /\ t3["instrument"] = q
    <3>1. t3 \in Totals /\ t3["cash"] = t2["cash"] + AddsUnit(p3, "cash")
          /\ t3["instrument"] = t2["instrument"] + AddsUnit(p3, "instrument")
      BY <1>4, <2>4, <2>u, TallyAt
    <3>2. AddsUnit(p3, "cash") = -limited /\ AddsUnit(p3, "instrument") = 0
      BY <1>5, <2>2 DEF AddsUnit
    <3>3. QED
      BY <1>1, <2>4, <3>1, <3>2
  <2>6. t4 \in Totals /\ t4["cash"] = 0 /\ t4["instrument"] = q
    <3>1. t4 \in Totals /\ t4["cash"] = t3["cash"] + AddsUnit(p4, "cash")
          /\ t4["instrument"] = t3["instrument"] + AddsUnit(p4, "instrument")
      BY <1>4, <2>5, <2>u, TallyAt
    <3>2. AddsUnit(p4, "cash") = limited - paid /\ AddsUnit(p4, "instrument") = 0
      BY <1>5, <2>2 DEF AddsUnit
    <3>3. QED
      BY <1>1, <2>5, <3>1, <3>2
  <2>7. t0 \in Totals /\ t0["cash"] = 0 /\ t0["instrument"] = q
    <3>1. t0 \in Totals /\ t0["cash"] = t2["cash"] + AddsUnit(p0, "cash")
          /\ t0["instrument"] = t2["instrument"] + AddsUnit(p0, "instrument")
      BY <1>4, <2>4, <2>u, TallyAt
    <3>2. AddsUnit(p0, "cash") = -paid /\ AddsUnit(p0, "instrument") = 0
      BY <1>5, <2>2 DEF AddsUnit
    <3>3. QED
      BY <1>1, <2>4, <3>1, <3>2
  <2>8. tm = IF R THEN t4 ELSE t0
    BY <1>11
  <2>9. tm \in Totals /\ tm["cash"] = 0 /\ tm["instrument"] = q
    BY <2>6, <2>7, <2>8
  <2> HIDE DEF tm
  <2>10. t5 \in Totals /\ t5["cash"] = 0 /\ t5["instrument"] = 0
    <3>1. t5 \in Totals /\ t5["cash"] = tm["cash"] + AddsUnit(p5, "cash")
          /\ t5["instrument"] = tm["instrument"] + AddsUnit(p5, "instrument")
      BY <1>4, <2>9, <2>u, TallyAt
    <3>2. AddsUnit(p5, "cash") = 0 /\ AddsUnit(p5, "instrument") = -q
      BY <1>5, <2>2 DEF AddsUnit
    <3>3. QED
      BY <1>1, <2>9, <3>1, <3>2
  <2>11. Tallied(Nothing, TradePostings(f)) = t5
    BY <1>9 DEF tm
  <2> HIDE DEF t5
  <2>12. t5 = Nothing
    BY <2>1, <2>10 DEF Totals, Units, Nothing
  <2>13. QED
    BY <2>11, <2>12, Zenon DEF Balanced, Tallied
<1>14. ASSUME NEW b \in Balances, NEW id \in Ids
       PROVE  /\ Posted(b, TradePostings(f))[CashAvailable(id)] =
                   b[CashAvailable(id)] + (IF id = S THEN paid ELSE 0)
                     + (IF id = B THEN IF R THEN limited - paid ELSE -paid ELSE 0)
              /\ Posted(b, TradePostings(f))[CashReserved(id)] =
                   b[CashReserved(id)] - (IF id = B /\ R THEN limited ELSE 0)
              /\ Posted(b, TradePostings(f))[InstrumentAvailable(id)] =
                   b[InstrumentAvailable(id)] + (IF id = B THEN q ELSE 0) - (IF id = S /\ ~Q THEN q ELSE 0)
              /\ Posted(b, TradePostings(f))[InstrumentReserved(id)] =
                   b[InstrumentReserved(id)] - (IF id = S /\ Q THEN q ELSE 0)
  <2> DEFINE ca == CashAvailable(id)
             cr == CashReserved(id)
             ia == InstrumentAvailable(id)
             ir == InstrumentReserved(id)
  <2>1. ca \in LedgerAccounts /\ cr \in LedgerAccounts /\ ia \in LedgerAccounts /\ ir \in LedgerAccounts
    BY JournalAccounts
  <2>2. b[ca] \in Int /\ b[cr] \in Int /\ b[ia] \in Int /\ b[ir] \in Int
    BY <2>1 DEF Balances
  <2>3. /\ Adds(p1, ca) = (IF id = S THEN paid ELSE 0) /\ Adds(p2, ca) = 0 /\ Adds(p3, ca) = 0
        /\ Adds(p4, ca) = (IF id = B THEN limited - paid ELSE 0)
        /\ Adds(p0, ca) = (IF id = B THEN -paid ELSE 0) /\ Adds(p5, ca) = 0
    BY <1>5, AccountsDiffer DEF Adds
  <2>4. /\ Adds(p1, cr) = 0 /\ Adds(p2, cr) = 0 /\ Adds(p3, cr) = (IF id = B THEN -limited ELSE 0)
        /\ Adds(p4, cr) = 0 /\ Adds(p0, cr) = 0 /\ Adds(p5, cr) = 0
    BY <1>5, AccountsDiffer DEF Adds
  <2>5. /\ Adds(p1, ia) = 0 /\ Adds(p2, ia) = (IF id = B THEN q ELSE 0) /\ Adds(p3, ia) = 0
        /\ Adds(p4, ia) = 0 /\ Adds(p0, ia) = 0 /\ Adds(p5, ia) = (IF id = S /\ ~Q THEN -q ELSE 0)
    BY <1>5, AccountsDiffer DEF Adds
  <2>6. /\ Adds(p1, ir) = 0 /\ Adds(p2, ir) = 0 /\ Adds(p3, ir) = 0
        /\ Adds(p4, ir) = 0 /\ Adds(p0, ir) = 0 /\ Adds(p5, ir) = (IF id = S /\ Q THEN -q ELSE 0)
    BY <1>5, AccountsDiffer DEF Adds
  <2> HIDE DEF ca, cr, ia, ir, a5
  <2>7. Posted(b, TradePostings(f))[ca] = b[ca] + (IF id = S THEN paid ELSE 0)
          + (IF id = B THEN IF R THEN limited - paid ELSE -paid ELSE 0)
    BY <1>1, <1>12, <2>1, <2>2, <2>3
  <2>8. Posted(b, TradePostings(f))[cr] = b[cr] - (IF id = B /\ R THEN limited ELSE 0)
    BY <1>1, <1>12, <2>1, <2>2, <2>4
  <2>9. Posted(b, TradePostings(f))[ia] = b[ia] + (IF id = B THEN q ELSE 0) - (IF id = S /\ ~Q THEN q ELSE 0)
    BY <1>1, <1>12, <2>1, <2>2, <2>5
  <2>10. Posted(b, TradePostings(f))[ir] = b[ir] - (IF id = S /\ Q THEN q ELSE 0)
    BY <1>1, <1>12, <2>1, <2>2, <2>6
  <2>11. QED
    BY <2>7, <2>8, <2>9, <2>10, Zenon DEF ca, cr, ia, ir
<1>15. ASSUME NEW b \in Balances PROVE Posted(b, TradePostings(f))[StorageAccount] = b[StorageAccount]
  <2>1. StorageAccount \in LedgerAccounts /\ b[StorageAccount] \in Int
    BY <1>1, JournalAccounts DEF Balances
  <2>2. /\ StorageAccount \notin OwnAccounts(S) /\ StorageAccount \notin OwnAccounts(B)
    BY AccountsDiffer
  <2>3. /\ Adds(p1, StorageAccount) = 0 /\ Adds(p2, StorageAccount) = 0 /\ Adds(p3, StorageAccount) = 0
        /\ Adds(p4, StorageAccount) = 0 /\ Adds(p0, StorageAccount) = 0 /\ Adds(p5, StorageAccount) = 0
    BY <1>5, <2>2 DEF Adds, OwnAccounts
  <2>4. QED
    BY <1>1, <1>12, <2>1, <2>3
<1>16. TradePostings(f) \in Seq(Postings)
  BY <1>2, <1>7
<1>17. QED
  BY <1>13, <1>14, <1>15, <1>16, Zenon DEF B, S, R, Q, paid, limited, q

-----------------------------------------------------------------------------
(* Trades *)

\* The accounts of the two sides after a trade.
LEMMA SidesAfter ==
    ASSUME NEW c \in Engines, NEW f, Settles(c, f), NEW a \in Account
    PROVE  /\ Bought(a, f) \in Account /\ Sold(a, f) \in Account
           /\ Bought(a, f).cash = a.cash - Paid(f)
           /\ Bought(a, f).position = a.position + f.quantity
           /\ Bought(a, f).reservedCash = a.reservedCash - (IF BuyerReserved(f) THEN Limited(f) ELSE 0)
           /\ Bought(a, f).openBuy = a.openBuy - (IF BuyerReserved(f) THEN f.quantity ELSE 0)
           /\ Bought(a, f).openSell = a.openSell
           /\ Sold(a, f).cash = a.cash + Paid(f)
           /\ Sold(a, f).position = a.position - f.quantity
           /\ Sold(a, f).reservedCash = a.reservedCash
           /\ Sold(a, f).openBuy = a.openBuy
           /\ Sold(a, f).openSell = a.openSell - (IF SellerReserved(f) THEN f.quantity ELSE 0)
<1> DEFINE paid == Paid(f)
           limited == Limited(f)
           q == f.quantity
           R == BuyerReserved(f)
           Q == SellerReserved(f)
<1>1. paid \in Nat /\ limited \in Nat /\ q \in Nat /\ R \in BOOLEAN /\ Q \in BOOLEAN
  BY TradeSides
<1>2. Bought(a, f) = [a EXCEPT !.cash = a.cash - paid, !.position = a.position + q,
                               !.reservedCash = IF R THEN a.reservedCash - limited ELSE a.reservedCash,
                               !.openBuy = IF R THEN a.openBuy - q ELSE a.openBuy]
  BY DEF Bought, Account
<1>3. Sold(a, f) = [a EXCEPT !.cash = a.cash + paid, !.position = a.position - q,
                             !.openSell = IF Q THEN a.openSell - q ELSE a.openSell]
  BY DEF Sold, Account
<1> HIDE DEF paid, limited, q, R, Q
<1>4. /\ a.cash \in Int /\ a.position \in Int /\ a.reservedCash \in Int /\ a.openBuy \in Int
      /\ a.openSell \in Int
  BY DEF Account
<1> DEFINE cb == a.cash - paid
           pb == a.position + q
           rb == IF R THEN a.reservedCash - limited ELSE a.reservedCash
           ob == IF R THEN a.openBuy - q ELSE a.openBuy
           cs == a.cash + paid
           ps == a.position - q
           os == IF Q THEN a.openSell - q ELSE a.openSell
<1>5. /\ cb \in Int /\ pb \in Int /\ rb \in Int /\ ob \in Int
      /\ cs \in Int /\ ps \in Int /\ os \in Int
      /\ rb = a.reservedCash - (IF R THEN limited ELSE 0)
      /\ ob = a.openBuy - (IF R THEN q ELSE 0)
      /\ os = a.openSell - (IF Q THEN q ELSE 0)
  BY <1>1, <1>4
<1> HIDE DEF cb, pb, rb, ob, cs, ps, os
<1>6. /\ Bought(a, f) = [a EXCEPT !.cash = cb, !.position = pb, !.reservedCash = rb, !.openBuy = ob]
      /\ Sold(a, f) = [a EXCEPT !.cash = cs, !.position = ps, !.openSell = os]
  BY <1>2, <1>3, Zenon DEF cb, pb, rb, ob, cs, ps, os
<1>6a. /\ Bought(a, f) \in Account /\ Bought(a, f).cash = cb /\ Bought(a, f).position = pb
       /\ Bought(a, f).reservedCash = rb /\ Bought(a, f).openBuy = ob /\ Bought(a, f).openSell = a.openSell
  BY <1>5, <1>6 DEF Account
<1>6b. /\ Sold(a, f) \in Account /\ Sold(a, f).cash = cs /\ Sold(a, f).position = ps
       /\ Sold(a, f).reservedCash = a.reservedCash /\ Sold(a, f).openBuy = a.openBuy /\ Sold(a, f).openSell = os
  BY <1>5, <1>6 DEF Account
<1>7. QED
  BY <1>5, <1>6a, <1>6b, Zenon DEF paid, limited, q, R, Q, cb, pb, cs, ps

\* What a trade does to an engine.
Traded(c, d, f) ==
    /\ d \in Engines /\ SameDay(c, d)
    /\ d.ok = c.ok /\ d.book = c.book /\ d.nextOrder = c.nextOrder
    /\ DOMAIN d.accounts = DOMAIN c.accounts
    /\ d.accounts[Buyer(f)] = Bought(c.accounts[Buyer(f)], f)
    /\ d.accounts[Seller(f)] = Sold(c.accounts[Seller(f)], f)
    /\ \A id \in DOMAIN c.accounts : id # Buyer(f) /\ id # Seller(f) => d.accounts[id] = c.accounts[id]
    /\ d.edge = c.edge + FillEdge(c, f)
    /\ d.ledger = Posted(c.ledger, TradePostings(f))

\* The edge is an amount.
LEMMA EdgeIsAmount ==
    ASSUME NEW c \in Engines, NEW f, Settles(c, f)
    PROVE  FillEdge(c, f) \in Int
<1>1. c.mark \in Int /\ f.price \in Int /\ f.quantity \in Int
  BY DEF Engines, Settles
<1>2. \A x \in Int, y \in Int, z \in Int : (x - y) * z \in Int
  OBVIOUS
<1>3. (c.mark - f.price) * f.quantity \in Int /\ (f.price - c.mark) * f.quantity \in Int
  BY <1>1, <1>2
<1> DEFINE e == (c.mark - f.price) * f.quantity
           g == (f.price - c.mark) * f.quantity
<1>4. CASE Buyer(f) = Player
  <2>1. FillEdge(c, f) = e
    BY <1>4, TradeSides DEF FillEdge
  <2>2. QED
    BY <1>3, <2>1
<1>5. CASE Buyer(f) # Player /\ Seller(f) = Player
  <2>1. FillEdge(c, f) = g
    BY <1>5, TradeSides DEF FillEdge
  <2>2. QED
    BY <1>3, <2>1
<1>6. CASE Buyer(f) # Player /\ Seller(f) # Player
  <2>1. FillEdge(c, f) = 0
    BY <1>6 DEF FillEdge
  <2>2. QED
    BY <2>1
<1>7. QED
  BY <1>4, <1>5, <1>6

\* applyTrade() posts the trade and moves the two accounts.
LEMMA TradeApplied ==
    ASSUME NEW c \in Engines, NEW f, Settles(c, f)
    PROVE  Traded(c, ApplyTrade(c, f), f)
<1> DEFINE B == Buyer(f)
           S == Seller(f)
           l == Posted(c.ledger, TradePostings(f))
           x == PostEntry(c, TradePostings(f))
           e == FillEdge(c, f)
           bought == Bought(c.accounts[B], f)
           sold == Sold(c.accounts[S], f)
           D == DOMAIN c.accounts
           d == ApplyTrade(c, f)
<1>1. TradePostings(f) \in Seq(Postings) /\ Balanced(TradePostings(f))
  BY TradeEntry
<1>2. x = [c EXCEPT !.ledger = l]
  BY <1>1, PostEntryIs
<1>3. l \in Balances
  BY <1>1, PostedIsBalances DEF Engines
<1>4. B \in D /\ S \in D /\ B # S /\ c.accounts \in [D -> Account]
  BY TradeSides, AccountsOf
<1>5. bought \in Account /\ sold \in Account
  BY <1>4, SidesAfter
<1>6. e \in Int
  BY EdgeIsAmount
<1>7. d = [x EXCEPT !.accounts[B] = Bought(@, f), !.accounts[S] = Sold(@, f), !.edge = @ + e]
  BY Zenon DEF ApplyTrade
<1> HIDE DEF x, l, e, d
<1>8. x.accounts = c.accounts /\ x.edge = c.edge /\ x.ledger = l /\ x \in Engines
  BY <1>2, <1>3 DEF Engines
<1>9. d = [x EXCEPT !.accounts = [[c.accounts EXCEPT ![B] = bought] EXCEPT ![S] = sold],
                    !.edge = c.edge + e]
  <2>2. d = [x EXCEPT !.accounts[B] = Bought(x.accounts[B], f), !.accounts[S] = Sold(x.accounts[S], f),
                      !.edge = x.edge + e]
    BY <1>7, Zenon
  <2>3. d = [x EXCEPT !.accounts[B] = bought, !.accounts[S] = sold, !.edge = c.edge + e]
    BY <1>8, <2>2, Zenon
  <2> HIDE DEF bought, sold, B, S
  <2>4. d = [x EXCEPT !.accounts = [[x.accounts EXCEPT ![B] = bought] EXCEPT ![S] = sold],
                      !.edge = c.edge + e]
    BY <1>8, <2>3 DEF Engines
  <2>5. QED
    BY <1>8, <2>4, Zenon
<1> DEFINE as == [[c.accounts EXCEPT ![B] = bought] EXCEPT ![S] = sold]
<1>10. as \in [D -> Account] /\ as[B] = bought /\ as[S] = sold
       /\ \A id \in D : id # B /\ id # S => as[id] = c.accounts[id]
  <2> HIDE DEF B, S, D, bought, sold
  <2>1. QED
    BY <1>4, <1>5
<1>11. as \in Accounts /\ DOMAIN as = D
  BY <1>10, AccountsLike
<1> HIDE DEF as, B, S, D, bought, sold
<1>12. c.edge + e \in Int
  BY <1>6 DEF Engines
<1>13. /\ d \in Engines /\ SameDay(x, d) /\ d.ok = x.ok /\ d.book = x.book /\ d.nextOrder = x.nextOrder
       /\ d.accounts = as /\ d.edge = c.edge + e /\ d.ledger = x.ledger
  <2>1. d = [x EXCEPT !.accounts = as, !.edge = c.edge + e]
    BY <1>9 DEF as
  <2>2. QED
    BY <1>8, <1>11, <1>12, <2>1 DEF Engines, SameDay
<1>14. SameDay(c, x) /\ x.ok = c.ok /\ x.book = c.book /\ x.nextOrder = c.nextOrder
  BY <1>2, <1>3 DEF Engines, SameDay
<1>15. SameDay(c, d) /\ d.ok = c.ok /\ d.book = c.book /\ d.nextOrder = c.nextOrder /\ d.ledger = l
  BY <1>8, <1>13, <1>14, Zenon DEF SameDay
<1>16. DOMAIN d.accounts = DOMAIN c.accounts
  BY <1>11, <1>13 DEF D
<1>17. /\ d.accounts[Buyer(f)] = Bought(c.accounts[Buyer(f)], f)
       /\ d.accounts[Seller(f)] = Sold(c.accounts[Seller(f)], f)
       /\ \A id \in DOMAIN c.accounts : id # Buyer(f) /\ id # Seller(f) => d.accounts[id] = c.accounts[id]
  BY <1>10, <1>13, Zenon DEF B, S, D, bought, sold
<1>18. QED
  BY <1>13, <1>15, <1>16, <1>17, Zenon DEF Traded, d, l, e

\* A trade keeps the journal and the accounts in agreement.
LEMMA TradeJournalled ==
    ASSUME NEW c \in Engines, NEW f, Settles(c, f), NEW d, Traded(c, d, f), Journalled(c)
    PROVE  Journalled(d)
<1>0. ASSUME NEW id \in Ids \ DOMAIN d.accounts PROVE Blank(d, id)
  <2>1. id # Buyer(f) /\ id # Seller(f) /\ id \in Ids \ DOMAIN c.accounts
    BY <1>0, TradeSides DEF Traded
  <2>2. Blank(c, id)
    BY <2>1, Zenon DEF Journalled
  <2>3. c.ledger \in Balances /\ d.ledger = Posted(c.ledger, TradePostings(f))
    BY DEF Engines, Traded
  <2> DEFINE m == d.ledger
             l == c.ledger
  <2>4. /\ m[CashAvailable(id)] = l[CashAvailable(id)] + 0 + 0
        /\ m[CashReserved(id)] = l[CashReserved(id)] - 0
        /\ m[InstrumentAvailable(id)] = l[InstrumentAvailable(id)] + 0 - 0
        /\ m[InstrumentReserved(id)] = l[InstrumentReserved(id)] - 0
    <3> HIDE DEF m, l
    <3>1. l \in Balances /\ m = Posted(l, TradePostings(f))
      BY <2>3 DEF m, l
    <3>2. QED
      BY <2>1, <3>1, TradeEntry
  <2>5. QED
    BY <2>2, <2>4 DEF Blank
<1> SUFFICES ASSUME NEW id \in DOMAIN c.accounts PROVE Agrees(d, id)
  BY <1>0, Zenon DEF Journalled, Traded
<1> DEFINE B == Buyer(f)
           S == Seller(f)
           a == c.accounts[id]
           b == d.accounts[id]
           ca == CashAvailable(id)
           cr == CashReserved(id)
           ia == InstrumentAvailable(id)
           ir == InstrumentReserved(id)
           paid == Paid(f)
           limited == Limited(f)
           q == f.quantity
           R == BuyerReserved(f)
           Q == SellerReserved(f)
           l == c.ledger
           m == d.ledger
<1>1. paid \in Nat /\ limited \in Nat /\ q \in Nat /\ R \in BOOLEAN /\ Q \in BOOLEAN /\ B # S
  BY TradeSides
<1>2. id \in Ids /\ a \in Account
  BY AccountsOf
<1>3. l \in Balances /\ m = Posted(l, TradePostings(f))
  BY DEF Engines, Traded
<1>4. l[ca] + l[cr] = a.cash /\ l[ia] + l[ir] = a.position /\ l[cr] = a.reservedCash /\ l[ir] = a.openSell
  BY Zenon DEF Journalled, Agrees
<1>5. /\ m[ca] = l[ca] + (IF id = S THEN paid ELSE 0) + (IF id = B THEN IF R THEN limited - paid ELSE -paid ELSE 0)
      /\ m[cr] = l[cr] - (IF id = B /\ R THEN limited ELSE 0)
      /\ m[ia] = l[ia] + (IF id = B THEN q ELSE 0) - (IF id = S /\ ~Q THEN q ELSE 0)
      /\ m[ir] = l[ir] - (IF id = S /\ Q THEN q ELSE 0)
  BY <1>2, <1>3, TradeEntry
<1>6. /\ id = B => /\ b.cash = a.cash - paid /\ b.position = a.position + q
                   /\ b.reservedCash = a.reservedCash - (IF R THEN limited ELSE 0)
                   /\ b.openSell = a.openSell
      /\ id = S => /\ b.cash = a.cash + paid /\ b.position = a.position - q
                   /\ b.reservedCash = a.reservedCash
                   /\ b.openSell = a.openSell - (IF Q THEN q ELSE 0)
      /\ id # B /\ id # S => b = a
  <2>1. /\ id = B => b = Bought(a, f)
        /\ id = S => b = Sold(a, f)
        /\ id # B /\ id # S => b = a
    BY Zenon DEF Traded
  <2>2. QED
    BY <1>2, <2>1, SidesAfter
<1>7. l[ca] \in Int /\ l[cr] \in Int /\ l[ia] \in Int /\ l[ir] \in Int
  BY <1>2, <1>3, JournalAccounts DEF Balances
<1> HIDE DEF B, S, a, b, ca, cr, ia, ir, paid, limited, q, R, Q, l, m
<1>8. m[ca] + m[cr] = b.cash /\ m[ia] + m[ir] = b.position /\ m[cr] = b.reservedCash /\ m[ir] = b.openSell
  BY <1>1, <1>4, <1>5, <1>6, <1>7
<1>9. QED
  BY <1>8, Zenon DEF Agrees, b, m, ca, cr, ia, ir

\* What the trades of an order leave, from the engine they began with.
Carried(c, d) ==
    /\ d \in Engines /\ SameDay(c, d)
    /\ d.ok = c.ok /\ d.book = c.book /\ d.nextOrder = c.nextOrder
    /\ DOMAIN d.accounts = DOMAIN c.accounts
    /\ Journalled(c) => Journalled(d)
    /\ d.ledger[StorageAccount] = c.ledger[StorageAccount]
    /\ Equity(d, Player) - d.edge = Equity(c, Player) - c.edge

\* The edge of a trade is what it adds to the player's equity.
LEMMA TradeEquity ==
    ASSUME NEW c \in Engines, NEW f, Settles(c, f), NEW d, Traded(c, d, f)
    PROVE  Equity(d, Player) - d.edge = Equity(c, Player) - c.edge
<1> DEFINE B == Buyer(f)
           S == Seller(f)
           a == c.accounts[Player]
           b == d.accounts[Player]
           p == f.price
           q == f.quantity
           k == c.mark
<1>1. /\ p \in Int /\ q \in Int /\ k \in Int /\ c.edge \in Int /\ a \in Account
      /\ a.cash \in Int /\ a.position \in Int /\ B # S
  BY TradeSides, AccountsOf DEF Engines, Settles, Account
<1>2. d.mark = k /\ d.edge = c.edge + FillEdge(c, f)
  BY DEF Traded, SameDay
<1>3. /\ B = Player => b = Bought(a, f)
      /\ S = Player => b = Sold(a, f)
      /\ B # Player /\ S # Player => b = a
  BY AccountsOf, Zenon DEF Traded
<1>4. Equity(d, Player) = b.cash + k * b.position /\ Equity(c, Player) = a.cash + k * a.position
  BY <1>2, Zenon DEF Equity
<1>5. Paid(f) = p * q
  BY DEF Paid
<1>6. CASE B = Player
  <2>1. b.cash = a.cash - p * q /\ b.position = a.position + q
    BY <1>1, <1>3, <1>5, <1>6, SidesAfter
  <2>2. FillEdge(c, f) = (k - p) * q
    BY <1>1, <1>6 DEF FillEdge
  <2> HIDE DEF a, b, p, q, k, B, S
  <2>3. \A x, y \in Int : (a.cash - p * q) + k * (a.position + q) = (a.cash + k * a.position) + (k - p) * q
    BY <1>1
  <2>4. a.cash + k * a.position \in Int /\ (k - p) * q \in Int
    BY <1>1
  <2> DEFINE before == a.cash + k * a.position
             gain == (k - p) * q
  <2>5. Equity(d, Player) = before + gain /\ Equity(c, Player) = before /\ d.edge = c.edge + gain
    BY <1>2, <1>4, <2>1, <2>2, <2>3
  <2>6. before \in Int /\ gain \in Int
    BY <2>4
  <2> HIDE DEF before, gain
  <2>7. QED
    BY <1>1, <2>5, <2>6
<1>7. CASE S = Player
  <2>1. b.cash = a.cash + p * q /\ b.position = a.position - q
    BY <1>1, <1>3, <1>5, <1>7, SidesAfter
  <2>2. FillEdge(c, f) = (p - k) * q
    BY <1>1, <1>7 DEF FillEdge
  <2> HIDE DEF a, b, p, q, k, B, S
  <2>3. \A x, y \in Int : (a.cash + p * q) + k * (a.position - q) = (a.cash + k * a.position) + (p - k) * q
    BY <1>1
  <2>4. a.cash + k * a.position \in Int /\ (p - k) * q \in Int
    BY <1>1
  <2> DEFINE before == a.cash + k * a.position
             gain == (p - k) * q
  <2>5. Equity(d, Player) = before + gain /\ Equity(c, Player) = before /\ d.edge = c.edge + gain
    BY <1>2, <1>4, <2>1, <2>2, <2>3
  <2>6. before \in Int /\ gain \in Int
    BY <2>4
  <2> HIDE DEF before, gain
  <2>7. QED
    BY <1>1, <2>5, <2>6
<1>8. CASE B # Player /\ S # Player
  <2>1. FillEdge(c, f) = 0
    BY <1>8 DEF FillEdge
  <2>2. Equity(d, Player) = Equity(c, Player)
    BY <1>3, <1>4, <1>8, Zenon
  <2>3. QED
    BY <1>1, <1>2, <2>1, <2>2
<1>9. QED
  BY <1>6, <1>7, <1>8

\* One more trade.
LEMMA CarriedOn ==
    ASSUME NEW c \in Engines, NEW v, Carried(c, v), NEW f, Settles(c, f)
    PROVE  Carried(c, ApplyTrade(v, f)) /\ Settles(v, f) /\ Traded(v, ApplyTrade(v, f), f)
<1> DEFINE d == ApplyTrade(v, f)
<1>1. v \in Engines /\ DOMAIN v.accounts = DOMAIN c.accounts /\ SameDay(c, v)
  BY DEF Carried
<1>2. Settles(v, f)
  BY <1>1, Zenon DEF Settles
<1>3. Traded(v, d, f)
  BY <1>1, <1>2, TradeApplied
<1> HIDE DEF d
<1>4. Journalled(v) => Journalled(d)
  BY <1>1, <1>2, <1>3, TradeJournalled
<1>5. Equity(d, Player) - d.edge = Equity(v, Player) - v.edge
  BY <1>1, <1>2, <1>3, TradeEquity
<1>6. d.ledger[StorageAccount] = v.ledger[StorageAccount]
  <2>1. v.ledger \in Balances /\ d.ledger = Posted(v.ledger, TradePostings(f))
    BY <1>1, <1>3 DEF Engines, Traded
  <2>2. Posted(v.ledger, TradePostings(f))[StorageAccount] = v.ledger[StorageAccount]
    BY <1>1, <1>2, <2>1, TradeEntry
  <2>3. QED
    BY <2>1, <2>2
<1>7. /\ d \in Engines /\ SameDay(v, d)
      /\ d.ok = v.ok /\ d.book = v.book /\ d.nextOrder = v.nextOrder
      /\ DOMAIN d.accounts = DOMAIN v.accounts
  BY <1>3, Zenon DEF Traded
<1>8. SameDay(c, d)
  BY <1>1, <1>7, Zenon DEF SameDay
<1>9. Carried(c, d)
  BY <1>4, <1>5, <1>6, <1>7, <1>8, Zenon DEF Carried
<1>10. QED
  BY <1>2, <1>3, <1>9 DEF d

\* The trades of an order.
LEMMA TradesCarry ==
    ASSUME NEW c \in Engines, NEW T, NEW s \in Seq(T), \A i \in 1..Len(s) : Settles(c, s[i])
    PROVE  Carried(c, FoldLeft(ApplyTrade, c, s))
<1> DEFINE K == {v \in Engines : Carried(c, v)}
<1>1. c \in K
  BY Zenon DEF Carried, SameDay
<1>2. ASSUME NEW v \in K, NEW i \in 1..Len(s) PROVE ApplyTrade(v, s[i]) \in K
  <2>1. Carried(c, v) /\ Settles(c, s[i])
    OBVIOUS
  <2>2. Carried(c, ApplyTrade(v, s[i]))
    BY <2>1, CarriedOn
  <2>3. ApplyTrade(v, s[i]) \in Engines
    BY <2>2 DEF Carried
  <2>4. QED
    BY <2>2, <2>3
<1> HIDE DEF K
<1>3. Trades!Fold(s, c) \in K
  BY <1>1, <1>2, Trades!FoldKeeps
<1>4. QED
  BY <1>3, SameTrades DEF K

-----------------------------------------------------------------------------
(* Reservations *)

\* What orders of one side have left, and what that costs, are amounts.
LEMMA SideSums ==
    ASSUME NEW L, IsFiniteSet(L), L \subseteq Book!Order, NEW side
    PROVE  /\ OpenQty(L, side) \in Nat /\ Notional(L, side) \in Nat
           /\ OfSide(L, side) = {} => OpenQty(L, side) = 0 /\ Notional(L, side) = 0
<1> DEFINE S == OfSide(L, side)
           f == [o \in S |-> o.remaining]
           g == [o \in S |-> o.price * o.remaining]
<1>1. IsFiniteSet(S) /\ S \subseteq Book!Order
  BY FS_Subset DEF OfSide
<1>2. \A o \in S : o.remaining \in Nat /\ o.price \in Nat
  BY <1>1 DEF Book!Order
<1>3. \A o \in S : o.price * o.remaining \in Nat
  <2>1. \A x \in Nat, y \in Nat : x * y \in Nat
    OBVIOUS
  <2>2. QED
    BY <1>2, <2>1
<1>4. f \in [S -> Int] /\ g \in [S -> Int] /\ \A o \in S : f[o] >= 0 /\ g[o] >= 0
  BY <1>2, <1>3
<1>5. OpenQty(L, side) = SumFunction(f) /\ Notional(L, side) = SumFunction(g)
  BY Zenon DEF OpenQty, Notional
<1> HIDE DEF S, f, g
<1>6. SumFunction(f) \in Int /\ SumFunction(f) >= 0 /\ (S = {} => SumFunction(f) = 0)
  BY <1>1, <1>4, SumFacts
<1>7. SumFunction(g) \in Int /\ SumFunction(g) >= 0 /\ (S = {} => SumFunction(g) = 0)
  BY <1>1, <1>4, SumFacts
<1>8. QED
  BY <1>5, <1>6, <1>7 DEF S

\* What the book assumes holds here.
LEMMA BookAssumed == Book!BookAssumption
<1>1. Validate
  BY ConfigAssumption
<1>2. Prices \subseteq Nat \ {0} /\ MaxVersion \in Nat /\ MaxOrderQty \in Nat \ {0}
  BY <1>1 DEF Validate
<1>3. 1..MaxOrderQty \subseteq Nat \ {0}
  BY <1>2
<1>4. QED
  BY <1>2, <1>3 DEF Book!BookAssumption

\* What an account may be wanted to reserve.
Wants == [cash : Int, buy : Int, sell : Int]

\* The orders of an account are finitely many, and what they need is amounts.
LEMMA NeedsAreAmounts ==
    ASSUME NEW c, NEW n \in Nat, Book!Sound(c.book, n), NEW id
    PROVE  /\ IsFiniteSet(OrdersOf(c.book, id)) /\ OrdersOf(c.book, id) \subseteq Book!Order
           /\ ReservedFor(c, id) \in [cash : Nat, buy : Nat, sell : Nat]
           /\ ReservedFor(c, id) \in Wants
           /\ ReservedFor(c, id).cash = Notional(OrdersOf(c.book, id), "buy")
           /\ ReservedFor(c, id).buy = OpenQty(OrdersOf(c.book, id), "buy")
           /\ ReservedFor(c, id).sell = OpenQty(OrdersOf(c.book, id), "sell")
<1> DEFINE L == OrdersOf(c.book, id)
<1> DEFINE b == c.book
<1>1a. Book!Sound(b, n)
  OBVIOUS
<1> HIDE DEF b
<1>1. Book!IsFiniteSet(Book!LiveOrders(b))
  BY <1>1a, BookAssumed, Book!FiniteLive
<1>2. \A o \in Book!LiveOrders(b) : o \in Book!Order
  BY <1>1a, BookAssumed, Book!LiveInPlace
<1> USE DEF b
<1>3. IsFiniteSet(LiveOrders(c.book)) /\ LiveOrders(c.book) \subseteq Book!Order
  BY <1>1, <1>2, SameFinite, SameLive
<1>4. IsFiniteSet(L) /\ L \subseteq Book!Order
  BY <1>3, FS_Subset DEF OrdersOf
<1> DEFINE x == Notional(L, "buy")
           y == OpenQty(L, "buy")
           z == OpenQty(L, "sell")
<1> HIDE DEF L
<1>5. x \in Nat /\ y \in Nat /\ z \in Nat
  BY <1>4, SideSums
<1>6. ReservedFor(c, id) = [cash |-> x, buy |-> y, sell |-> z]
  BY Zenon DEF ReservedFor, L
<1> HIDE DEF x, y, z
<1>7. QED
  BY <1>4, <1>5, <1>6 DEF Wants, L, x, y, z

\* A finite set in sequence is each of its elements once.
LEMMA SetInSequence ==
    ASSUME NEW S, IsFiniteSet(S)
    PROVE  /\ SetToSeq(S) \in Seq(S) /\ DOMAIN SetToSeq(S) = 1..Len(SetToSeq(S))
           /\ \A x \in S : \E i \in 1..Len(SetToSeq(S)) : SetToSeq(S)[i] = x
           /\ \A i, j \in 1..Len(SetToSeq(S)) : SetToSeq(S)[i] = SetToSeq(S)[j] => i = j
<1> DEFINE n == Cardinality(S)
           I == 1..n
           f == SetToSeq(S)
<1>1. n \in Nat /\ ExistsBijection(I, S)
  BY FS_CardinalityType
<1>2. IsFiniteSet(I) /\ Cardinality(I) = n
  BY <1>1, FS_Interval
<1> HIDE DEF n, I
<1>3. \E g \in [I -> S] : IsInjective(g)
  BY <1>1 DEF ExistsBijection, Bijection, Injection
<1>4. f \in [I -> S] /\ IsInjective(f)
  <2>1. f = CHOOSE g \in [I -> S] : IsInjective(g)
    BY Zenon DEF SetToSeq, I, n
  <2>2. QED
    BY <1>3, <2>1, Zenon
<1> HIDE DEF f
<1>5. f \in Injection(I, S)
  BY <1>4 DEF Injection
<1>6. f \in Surjection(I, S)
  BY <1>2, <1>5, FS_Injection DEF n
<1>7. f \in Seq(S) /\ Len(f) = n /\ DOMAIN f = 1..n
  BY <1>1, <1>4 DEF I
<1>8. \A x \in S : \E i \in I : f[i] = x
  BY <1>6 DEF Surjection
<1>9. \A i, j \in I : f[i] = f[j] => i = j
  BY <1>4 DEF IsInjective
<1>10. QED
  BY <1>7, <1>8, <1>9 DEF f, I

\* Between two balances, an account's cash and instruments went from what is
\* available to what is reserved.
Shifted(b, d, id, cash, sell) ==
    /\ d[CashAvailable(id)] = b[CashAvailable(id)] - cash
    /\ d[CashReserved(id)] = b[CashReserved(id)] + cash
    /\ d[InstrumentAvailable(id)] = b[InstrumentAvailable(id)] - sell
    /\ d[InstrumentReserved(id)] = b[InstrumentReserved(id)] + sell

\* Nothing else went anywhere.
Apart(b, d, id) == \A a \in LedgerAccounts \ OwnAccounts(id) : d[a] = b[a]

\* An entry that adds nothing to either unit.
Neutral(s) == s \in Seq(Postings) /\ \A t \in Totals : Tallied(t, s) = t

\* Four postings, two of cash and two of instruments, each pair with opposite
\* amounts.
LEMMA FourPostings ==
    ASSUME NEW p1 \in Postings, NEW p2 \in Postings, NEW p3 \in Postings, NEW p4 \in Postings,
           NEW s, s = <<p1, p2, p3, p4>>,
           p1[1][1] = "cash", p2[1][1] = "cash", p3[1][1] = "instrument", p4[1][1] = "instrument",
           p1[2] = -p2[2], p3[2] = -p4[2]
    PROVE  /\ Neutral(s)
           /\ \A b \in Balances :
                /\ Posted(b, s) \in Balances
                /\ \A a \in LedgerAccounts : Posted(b, s)[a] =
                     b[a] + Adds(p1, a) + Adds(p2, a) + Adds(p3, a) + Adds(p4, a)
<1> DEFINE u == <<p1, p2>>
           v == <<p3, p4>>
<1>5. u \in Seq(Postings) /\ v \in Seq(Postings) /\ s \in Seq(Postings) /\ s = u \o v
  OBVIOUS
<1>6. \A t : Posted(t, u) = Post(Post(t, p1), p2) /\ Posted(t, v) = Post(Post(t, p3), p4)
  BY PostedParts
<1>7. \A t : Tallied(t, u) = Tally(Tally(t, p1), p2) /\ Tallied(t, v) = Tally(Tally(t, p3), p4)
  BY TalliedParts
<1> HIDE DEF u, v
<1>8. ASSUME NEW t PROVE Posted(t, s) = Post(Post(Post(Post(t, p1), p2), p3), p4)
  <2>1. Posted(t, u \o v) = Posted(Posted(t, u), v)
    BY <1>5, PostedParts
  <2>2. QED
    BY <1>5, <1>6, <2>1, Zenon
<1>9. ASSUME NEW t PROVE Tallied(t, s) = Tally(Tally(Tally(Tally(t, p1), p2), p3), p4)
  <2>1. Tallied(t, u \o v) = Tallied(Tallied(t, u), v)
    BY <1>5, TalliedParts
  <2>2. QED
    BY <1>5, <1>7, <2>1, Zenon
<1>10. ASSUME NEW b \in Balances
       PROVE  /\ Posted(b, s) \in Balances
              /\ \A a \in LedgerAccounts : Posted(b, s)[a] =
                   b[a] + Adds(p1, a) + Adds(p2, a) + Adds(p3, a) + Adds(p4, a)
  <2> DEFINE b1 == Post(b, p1)
             b2 == Post(b1, p2)
             b3 == Post(b2, p3)
             b4 == Post(b3, p4)
  <2>1. b1 \in Balances /\ \A a \in LedgerAccounts : b1[a] = b[a] + Adds(p1, a)
    BY PostAt
  <2>2. b2 \in Balances /\ \A a \in LedgerAccounts : b2[a] = b1[a] + Adds(p2, a)
    BY <2>1, PostAt
  <2>3. b3 \in Balances /\ \A a \in LedgerAccounts : b3[a] = b2[a] + Adds(p3, a)
    BY <2>2, PostAt
  <2>4. b4 \in Balances /\ \A a \in LedgerAccounts : b4[a] = b3[a] + Adds(p4, a)
    BY <2>3, PostAt
  <2>5. Posted(b, s) = b4
    BY <1>8
  <2> HIDE DEF b1, b2, b3, b4
  <2>6. QED
    BY <2>1, <2>2, <2>3, <2>4, <2>5
<1>11. ASSUME NEW t \in Totals PROVE Tallied(t, s) = t
  <2> DEFINE t1 == Tally(t, p1)
             t2 == Tally(t1, p2)
             t3 == Tally(t2, p3)
             t4 == Tally(t3, p4)
  <2>1. t1 \in Totals /\ \A unit \in Units : t1[unit] = t[unit] + AddsUnit(p1, unit)
    BY TallyAt
  <2>2. t2 \in Totals /\ \A unit \in Units : t2[unit] = t1[unit] + AddsUnit(p2, unit)
    BY <2>1, TallyAt
  <2>3. t3 \in Totals /\ \A unit \in Units : t3[unit] = t2[unit] + AddsUnit(p3, unit)
    BY <2>2, TallyAt
  <2>4. t4 \in Totals /\ \A unit \in Units : t4[unit] = t3[unit] + AddsUnit(p4, unit)
    BY <2>3, TallyAt
  <2>5. Tallied(t, s) = t4
    BY <1>9
  <2> HIDE DEF t1, t2, t3, t4
  <2>6. p1[2] \in Int /\ p2[2] \in Int /\ p3[2] \in Int /\ p4[2] \in Int
    BY DEF Postings
  <2>7. ASSUME NEW unit \in Units PROVE t4[unit] = t[unit]
    <3>1. /\ AddsUnit(p1, unit) = (IF unit = "cash" THEN p1[2] ELSE 0)
          /\ AddsUnit(p2, unit) = (IF unit = "cash" THEN p2[2] ELSE 0)
          /\ AddsUnit(p3, unit) = (IF unit = "instrument" THEN p3[2] ELSE 0)
          /\ AddsUnit(p4, unit) = (IF unit = "instrument" THEN p4[2] ELSE 0)
      BY DEF AddsUnit
    <3>2. t[unit] \in Int
      BY DEF Totals
    <3>3. unit = "cash" \/ unit = "instrument"
      BY DEF Units
    <3>4. QED
      BY <2>1, <2>2, <2>3, <2>4, <2>6, <3>1, <3>2, <3>3
  <2>8. QED
    BY <2>4, <2>5, <2>7 DEF Totals
<1>12. QED
  BY <1>5, <1>10, <1>11, Zenon DEF Neutral

\* The postings that move one account's reservations.
LEMMA MovesOfOne ==
    ASSUME NEW x \in Account, NEW id \in Ids, NEW w \in Wants
    PROVE  /\ Neutral(ReservationMoves(x, id, w))
           /\ \A b \in Balances :
                LET d == Posted(b, ReservationMoves(x, id, w))
                IN  /\ d \in Balances
                    /\ Shifted(b, d, id, w.cash - x.reservedCash, w.sell - x.openSell)
                    /\ Apart(b, d, id)
<1> DEFINE m == w.cash - x.reservedCash
           k == w.sell - x.openSell
           p1 == <<CashAvailable(id), -m>>
           p2 == <<CashReserved(id), m>>
           p3 == <<InstrumentAvailable(id), -k>>
           p4 == <<InstrumentReserved(id), k>>
           s == ReservationMoves(x, id, w)
<1>1. m \in Int /\ k \in Int
  BY DEF Account, Wants
<1>2. s = <<p1, p2, p3, p4>>
  BY DEF ReservationMoves
<1> HIDE DEF m, k, s
<1>3. p1 \in Postings /\ p2 \in Postings /\ p3 \in Postings /\ p4 \in Postings
  <2>1. -m \in Int /\ -k \in Int
    BY <1>1
  <2>2. /\ CashAvailable(id) \in LedgerAccounts /\ CashReserved(id) \in LedgerAccounts
        /\ InstrumentAvailable(id) \in LedgerAccounts /\ InstrumentReserved(id) \in LedgerAccounts
    BY JournalAccounts
  <2>3. QED
    BY <1>1, <2>1, <2>2 DEF Postings
<1>4. /\ p1[1] = CashAvailable(id) /\ p2[1] = CashReserved(id) /\ p3[1] = InstrumentAvailable(id)
      /\ p4[1] = InstrumentReserved(id)
      /\ p1[2] = -m /\ p2[2] = m /\ p3[2] = -k /\ p4[2] = k
  BY Zenon
<1> HIDE DEF p1, p2, p3, p4
<1>5. /\ p1[1][1] = "cash" /\ p2[1][1] = "cash" /\ p3[1][1] = "instrument" /\ p4[1][1] = "instrument"
  BY <1>4, UnitsOfAccounts
<1>6. p1[2] = -p2[2] /\ p3[2] = -p4[2]
  BY <1>4
<1>10. /\ Neutral(s)
       /\ \A b \in Balances :
            /\ Posted(b, s) \in Balances
            /\ \A a \in LedgerAccounts : Posted(b, s)[a] =
                 b[a] + Adds(p1, a) + Adds(p2, a) + Adds(p3, a) + Adds(p4, a)
  BY <1>2, <1>3, <1>5, <1>6, FourPostings
<1>12. ASSUME NEW b \in Balances
       PROVE  Shifted(b, Posted(b, s), id, m, k) /\ Apart(b, Posted(b, s), id)
  <2> DEFINE ca == CashAvailable(id)
             cr == CashReserved(id)
             ia == InstrumentAvailable(id)
             ir == InstrumentReserved(id)
             d == Posted(b, s)
  <2>1. ca \in LedgerAccounts /\ cr \in LedgerAccounts /\ ia \in LedgerAccounts /\ ir \in LedgerAccounts
    BY JournalAccounts
  <2>2. ca # cr /\ ca # ia /\ ca # ir /\ cr # ia /\ cr # ir /\ ia # ir
    BY AccountsDiffer
  <2>3. p1[1] = ca /\ p2[1] = cr /\ p3[1] = ia /\ p4[1] = ir
    BY <1>4
  <2>4. \A a \in LedgerAccounts : a \notin OwnAccounts(id) => a # ca /\ a # cr /\ a # ia /\ a # ir
    BY DEF OwnAccounts
  <2>5. \A a \in LedgerAccounts : d[a] = b[a] + Adds(p1, a) + Adds(p2, a) + Adds(p3, a) + Adds(p4, a)
    BY <1>10
  <2> HIDE DEF ca, cr, ia, ir, d
  <2>6. \A a \in LedgerAccounts : b[a] \in Int
    BY DEF Balances
  <2>7. /\ d[ca] = b[ca] - m /\ d[cr] = b[cr] + m /\ d[ia] = b[ia] - k /\ d[ir] = b[ir] + k
    BY <1>1, <1>4, <2>1, <2>2, <2>3, <2>5, <2>6 DEF Adds
  <2>8. \A a \in LedgerAccounts \ OwnAccounts(id) : d[a] = b[a]
    BY <2>3, <2>4, <2>5, <2>6 DEF Adds
  <2>9. QED
    BY <2>7, <2>8, Zenon DEF Shifted, Apart, ca, cr, ia, ir, d
<1>13. QED
  BY <1>10, <1>12, Zenon DEF s, m, k

\* How far the entry is after k accounts.
Progress(b, d, ids, k, dcash, dsell) ==
    /\ \A j \in 1..Len(ids) : j <= k => Shifted(b, d, ids[j], dcash[ids[j]], dsell[ids[j]])
    /\ \A j \in 1..Len(ids) : k < j => Shifted(b, d, ids[j], 0, 0)
    /\ \A a \in LedgerAccounts :
         (\A j \in 1..Len(ids) : a \notin OwnAccounts(ids[j])) => d[a] = b[a]

\* One more account.
LEMMA ProgressNext ==
    ASSUME NEW V, V \subseteq Ids, NEW ids \in Seq(V), \A i, j \in 1..Len(ids) : ids[i] = ids[j] => i = j,
           NEW dcash \in [V -> Int], NEW dsell \in [V -> Int], NEW k \in 1..Len(ids),
           NEW b \in Balances, NEW d \in Balances, NEW e \in Balances,
           Progress(b, d, ids, k - 1, dcash, dsell),
           Shifted(d, e, ids[k], dcash[ids[k]], dsell[ids[k]]), Apart(d, e, ids[k])
    PROVE  Progress(b, e, ids, k, dcash, dsell)
<1> DEFINE n == Len(ids)
           id == ids[k]
<1>1. n \in Nat /\ \A j \in 1..n : ids[j] \in V /\ ids[j] \in Ids
  OBVIOUS
<1>2. ASSUME NEW j \in 1..n, j # k, NEW m, NEW q, Shifted(b, d, ids[j], m, q)
      PROVE  Shifted(b, e, ids[j], m, q)
  <2> DEFINE x == ids[j]
  <2>1. x # id /\ x \in Ids
    BY <1>1, <1>2
  <2> HIDE DEF x, id
  <2>2. /\ CashAvailable(x) \in LedgerAccounts \ OwnAccounts(id)
        /\ CashReserved(x) \in LedgerAccounts \ OwnAccounts(id)
        /\ InstrumentAvailable(x) \in LedgerAccounts \ OwnAccounts(id)
        /\ InstrumentReserved(x) \in LedgerAccounts \ OwnAccounts(id)
    <3>1. /\ CashAvailable(x) \in LedgerAccounts /\ CashReserved(x) \in LedgerAccounts
          /\ InstrumentAvailable(x) \in LedgerAccounts /\ InstrumentReserved(x) \in LedgerAccounts
      BY <2>1, JournalAccounts
    <3>2. QED
      BY <2>1, <3>1, AccountsDiffer DEF OwnAccounts
  <2>3. /\ e[CashAvailable(x)] = d[CashAvailable(x)] /\ e[CashReserved(x)] = d[CashReserved(x)]
        /\ e[InstrumentAvailable(x)] = d[InstrumentAvailable(x)]
        /\ e[InstrumentReserved(x)] = d[InstrumentReserved(x)]
    BY <2>2, Zenon DEF Apart, id
  <2>4. QED
    BY <1>2, <2>3, Zenon DEF Shifted, x
<1>3. ASSUME NEW j \in 1..n, j <= k
      PROVE  Shifted(b, e, ids[j], dcash[ids[j]], dsell[ids[j]])
  <2>1. CASE j = k
    <3> DEFINE ca == CashAvailable(id)
               cr == CashReserved(id)
               ia == InstrumentAvailable(id)
               ir == InstrumentReserved(id)
               m == dcash[id]
               q == dsell[id]
    <3>1. Shifted(b, d, id, 0, 0)
      BY DEF Progress
    <3>2. b[ca] \in Int /\ b[cr] \in Int /\ b[ia] \in Int /\ b[ir] \in Int
      BY <1>1, JournalAccounts DEF Balances
    <3>3. m \in Int /\ q \in Int
      BY <1>1
    <3>4. d[ca] = b[ca] - 0 /\ d[cr] = b[cr] + 0 /\ d[ia] = b[ia] - 0 /\ d[ir] = b[ir] + 0
      BY <3>1, Zenon DEF Shifted
    <3>5. e[ca] = d[ca] - m /\ e[cr] = d[cr] + m /\ e[ia] = d[ia] - q /\ e[ir] = d[ir] + q
      BY Zenon DEF Shifted
    <3> HIDE DEF ca, cr, ia, ir, m, q, id
    <3>6. \A x \in Int : \A y, z : y = x - 0 /\ z = y - m => z = x - m
      BY <3>3
    <3>6a. \A x \in Int : \A y, z : y = x + 0 /\ z = y + m => z = x + m
      BY <3>3
    <3>6b. \A x \in Int : \A y, z : y = x - 0 /\ z = y - q => z = x - q
      BY <3>3
    <3>6c. \A x \in Int : \A y, z : y = x + 0 /\ z = y + q => z = x + q
      BY <3>3
    <3>7. /\ e[ca] = b[ca] - m /\ e[cr] = b[cr] + m
          /\ e[ia] = b[ia] - q /\ e[ir] = b[ir] + q
      <4>1. e[ca] = b[ca] - m
        BY <3>2, <3>4, <3>5, <3>6, Zenon
      <4>2. e[cr] = b[cr] + m
        BY <3>2, <3>4, <3>5, <3>6a, Zenon
      <4>3. e[ia] = b[ia] - q
        BY <3>2, <3>4, <3>5, <3>6b, Zenon
      <4>4. e[ir] = b[ir] + q
        BY <3>2, <3>4, <3>5, <3>6c, Zenon
      <4>5. QED
        BY <4>1, <4>2, <4>3, <4>4, Zenon
    <3>8. QED
      BY <2>1, <3>7, Zenon DEF Shifted, ca, cr, ia, ir, m, q, id
  <2>2. CASE j # k
    <3>1. j <= k - 1
      BY <1>1, <1>3, <2>2
    <3>2. Shifted(b, d, ids[j], dcash[ids[j]], dsell[ids[j]])
      BY <3>1, Zenon DEF Progress
    <3>3. QED
      BY <1>2, <2>2, <3>2
  <2>3. QED
    BY <2>1, <2>2
<1>4. ASSUME NEW j \in 1..n, k < j
      PROVE  Shifted(b, e, ids[j], 0, 0)
  <2>1. k - 1 < j /\ j # k
    BY <1>1, <1>4
  <2>2. Shifted(b, d, ids[j], 0, 0)
    BY <2>1, Zenon DEF Progress
  <2>3. QED
    BY <1>2, <2>1, <2>2
<1>5. ASSUME NEW a \in LedgerAccounts, \A j \in 1..n : a \notin OwnAccounts(ids[j])
      PROVE  e[a] = b[a]
  <2>1. d[a] = b[a]
    BY <1>5, Zenon DEF Progress
  <2>2. a \notin OwnAccounts(id)
    BY <1>5
  <2>3. e[a] = d[a]
    BY <2>2, Zenon DEF Apart
  <2>4. QED
    BY <2>1, <2>3
<1>6. QED
  BY <1>3, <1>4, <1>5, Zenon DEF Progress

\* The entry that moves every account's reservations balances, and moves each
\* to what is wanted.
LEMMA ReservationEntry ==
    ASSUME NEW c \in Engines, NEW wanted \in [Venue(c) -> Wants]
    PROVE  LET s == ReservationPostings(c, wanted)
           IN  /\ s \in Seq(Postings) /\ Balanced(s)
               /\ \A b \in Balances :
                    /\ \A id \in Venue(c) :
                         Shifted(b, Posted(b, s), id, wanted[id].cash - c.accounts[id].reservedCash,
                                 wanted[id].sell - c.accounts[id].openSell)
                    /\ \A a \in LedgerAccounts :
                         (\A id \in Venue(c) : a \notin OwnAccounts(id)) => Posted(b, s)[a] = b[a]
<1> DEFINE V == Venue(c)
           ids == SetToSeq(V)
           n == Len(ids)
           move(i) == ReservationMoves(c.accounts[ids[i]], ids[i], wanted[ids[i]])
           moves == [i \in DOMAIN ids |-> move(i)]
           dcash == [id \in V |-> wanted[id].cash - c.accounts[id].reservedCash]
           dsell == [id \in V |-> wanted[id].sell - c.accounts[id].openSell]
           s == ReservationPostings(c, wanted)
           upto(k) == Joining!Fold(SubSeq(moves, 1, k), <<>>)
<1>1. V \subseteq DOMAIN c.accounts /\ V \subseteq Ids /\ IsFiniteSet(V)
      /\ \A id \in V : c.accounts[id] \in Account
  <2>1. V \subseteq DOMAIN c.accounts
    BY DEF Venue
  <2>2. DOMAIN c.accounts \subseteq Ids /\ IsFiniteSet(DOMAIN c.accounts)
        /\ c.accounts \in [DOMAIN c.accounts -> Account]
    BY AccountsOf
  <2>3. IsFiniteSet(V)
    BY <2>1, <2>2, FS_Subset
  <2> HIDE DEF V
  <2>4. QED
    BY <2>1, <2>2, <2>3
<1>2. /\ ids \in Seq(V) /\ DOMAIN ids = 1..n
      /\ \A x \in V : \E i \in 1..n : ids[i] = x
      /\ \A i, j \in 1..n : ids[i] = ids[j] => i = j
  BY <1>1, SetInSequence
<1>3. DOMAIN wanted = V /\ \A id \in V : wanted[id] \in Wants
  OBVIOUS
<1>4. s = Joining!Fold(moves, <<>>)
  <2>1. s = FoldLeft(\o, <<>>, moves)
    BY <1>3, Zenon DEF ReservationPostings
  <2>2. QED
    BY <2>1, SameJoined
<1>5. dcash \in [V -> Int] /\ dsell \in [V -> Int]
  <2>1. ASSUME NEW id \in V
        PROVE  wanted[id].cash - c.accounts[id].reservedCash \in Int
               /\ wanted[id].sell - c.accounts[id].openSell \in Int
    <3>1. wanted[id] \in Wants /\ c.accounts[id] \in Account
      BY <1>1, <1>3
    <3>2. QED
      BY <3>1 DEF Wants, Account
  <2>2. QED
    BY <2>1
<1> HIDE DEF V, ids, s
<1>6. n \in Nat /\ \A i \in 1..n : ids[i] \in V
  BY <1>2
<1>7. ASSUME NEW i \in 1..n
      PROVE  /\ Neutral(move(i))
             /\ \A b \in Balances :
                  LET d == Posted(b, move(i))
                  IN  /\ d \in Balances
                      /\ Shifted(b, d, ids[i], dcash[ids[i]], dsell[ids[i]])
                      /\ Apart(b, d, ids[i])
  <2> DEFINE id == ids[i]
             x == c.accounts[id]
             w == wanted[id]
  <2>1. id \in V /\ id \in Ids /\ x \in Account /\ w \in Wants
    BY <1>1, <1>3, <1>6
  <2>2. dcash[id] = w.cash - x.reservedCash /\ dsell[id] = w.sell - x.openSell
    BY <2>1
  <2> HIDE DEF id, x, w, dcash, dsell
  <2>3. /\ Neutral(ReservationMoves(x, id, w))
        /\ \A b \in Balances :
             LET d == Posted(b, ReservationMoves(x, id, w))
             IN  /\ d \in Balances
                 /\ Shifted(b, d, id, w.cash - x.reservedCash, w.sell - x.openSell)
                 /\ Apart(b, d, id)
    BY <2>1, MovesOfOne
  <2>4. QED
    BY <2>2, <2>3, Zenon DEF id, x, w
<1>8. moves \in Seq(Seq(Postings)) /\ Len(moves) = n /\ \A i \in 1..n : moves[i] = move(i)
  <2>1. \A i \in 1..n : move(i) \in Seq(Postings)
    BY <1>7 DEF Neutral
  <2> HIDE DEF move
  <2>2. moves \in [1..n -> Seq(Postings)]
    BY <1>2, <2>1
  <2>3. QED
    BY <1>2, <1>6, <2>2
<1> HIDE DEF n, moves, move, dcash, dsell
<1>9. upto(0) = <<>> /\ \A k \in 1..n : upto(k) = upto(k - 1) \o move(k)
  <2>1. Joining!Fold(SubSeq(moves, 1, 0), <<>>) = <<>>
    BY <1>8, Joining!FoldStep
  <2>2. \A k \in 1..Len(moves) : Joining!Fold(SubSeq(moves, 1, k), <<>>)
                                   = Joined(Joining!Fold(SubSeq(moves, 1, k - 1), <<>>), moves[k])
    BY <1>8, Joining!FoldStep
  <2>3. QED
    BY <1>8, <2>1, <2>2, Zenon DEF Joined
<1> HIDE DEF upto
<1> DEFINE Good(k) ==
             /\ Neutral(upto(k))
             /\ \A b \in Balances : /\ Posted(b, upto(k)) \in Balances
                                    /\ Progress(b, Posted(b, upto(k)), ids, k, dcash, dsell)
           K == {k \in 0..n : Good(k)}
<1>10. Good(0)
  <2>1. Neutral(<<>>)
    <3>1. <<>> \in Seq(Postings)
      OBVIOUS
    <3>2. \A t : Tallied(t, <<>>) = t
      BY TalliedParts
    <3>3. QED
      BY <3>1, <3>2 DEF Neutral
  <2>2. ASSUME NEW b \in Balances PROVE Progress(b, b, ids, 0, dcash, dsell)
    <3>1. ASSUME NEW j \in 1..Len(ids) PROVE Shifted(b, b, ids[j], 0, 0)
      <4>1. ids[j] \in Ids
        <5>1. j \in 1..n
          BY DEF n
        <5>2. QED
          BY <1>1, <1>6, <5>1
      <4>2. b \in [LedgerAccounts -> Int]
        BY DEF Balances
      <4>3. /\ b[CashAvailable(ids[j])] \in Int /\ b[CashReserved(ids[j])] \in Int
            /\ b[InstrumentAvailable(ids[j])] \in Int /\ b[InstrumentReserved(ids[j])] \in Int
        BY <4>1, <4>2, JournalAccounts
      <4>4. QED
        BY <4>3 DEF Shifted
    <3>2. \A j \in 1..Len(ids) : ~(j <= 0)
      BY <1>6 DEF n
    <3>3. QED
      BY <3>1, <3>2, Zenon DEF Progress
  <2>3. \A b : Posted(b, <<>>) = b
    BY PostedParts
  <2>4. QED
    BY <1>9, <2>1, <2>2, <2>3, Zenon
<1>11. ASSUME NEW k \in 1..n, Good(k - 1) PROVE Good(k)
  <2> DEFINE before == upto(k - 1)
             m == move(k)
  <2>1. upto(k) = before \o m
    BY <1>9
  <2>2. Neutral(before) /\ Neutral(m)
    BY <1>7, <1>11
  <2>3. /\ \A b \in Balances : /\ Posted(b, before) \in Balances
                               /\ Progress(b, Posted(b, before), ids, k - 1, dcash, dsell)
    BY <1>11
  <2>4. \A b \in Balances :
          LET d == Posted(b, m)
          IN  /\ d \in Balances
              /\ Shifted(b, d, ids[k], dcash[ids[k]], dsell[ids[k]])
              /\ Apart(b, d, ids[k])
    BY <1>7
  <2> HIDE DEF before, m
  <2>5. /\ before \in Seq(Postings) /\ m \in Seq(Postings)
        /\ \A t \in Totals : Tallied(t, before) = t /\ Tallied(t, m) = t
    BY <2>2, Zenon DEF Neutral
  <2>6. /\ before \o m \in Seq(Postings)
        /\ \A t : Posted(t, before \o m) = Posted(Posted(t, before), m)
        /\ \A t : Tallied(t, before \o m) = Tallied(Tallied(t, before), m)
    <3>1. before \o m \in Seq(Postings)
      BY <2>5
    <3>2. ASSUME NEW t PROVE Posted(t, before \o m) = Posted(Posted(t, before), m)
      BY <2>5, PostedParts, Zenon
    <3>3. ASSUME NEW t PROVE Tallied(t, before \o m) = Tallied(Tallied(t, before), m)
      BY <2>5, TalliedParts, ZenonT(60)
    <3>4. QED
      BY <3>1, <3>2, <3>3, Zenon
  <2> DEFINE whole == before \o m
  <2> HIDE DEF whole
  <2>7. Neutral(whole)
    BY <2>5, <2>6, Zenon DEF Neutral, whole
  <2>8. ASSUME NEW b \in Balances
        PROVE  /\ Posted(b, whole) \in Balances
               /\ Progress(b, Posted(b, whole), ids, k, dcash, dsell)
    <3> DEFINE d == Posted(b, before)
               e == Posted(d, m)
    <3>1. d \in Balances /\ Progress(b, d, ids, k - 1, dcash, dsell)
      BY <2>3
    <3> HIDE DEF d
    <3>2. e \in Balances /\ Shifted(d, e, ids[k], dcash[ids[k]], dsell[ids[k]]) /\ Apart(d, e, ids[k])
      BY <2>4, <3>1, Zenon
    <3> HIDE DEF e
    <3>3. k \in 1..Len(ids) /\ \A i, j \in 1..Len(ids) : ids[i] = ids[j] => i = j
      BY <1>2 DEF n
    <3>4. Progress(b, e, ids, k, dcash, dsell)
      BY <1>1, <1>2, <1>5, <3>1, <3>2, <3>3, ProgressNext
    <3>5. Posted(b, whole) = e
      BY <2>6, Zenon DEF e, d, whole
    <3>6. QED
      BY <3>2, <3>4, <3>5
  <2>9. QED
    BY <2>1, <2>7, <2>8, Zenon DEF whole
<1> HIDE DEF Good
<1>12. 0..n \subseteq K
  <2>1. 0 \in K
    BY <1>6, <1>10
  <2>2. ASSUME NEW k \in 1..n, k - 1 \in K PROVE k \in K
    <3>1. Good(k)
      BY <1>11, <2>2
    <3>2. QED
      BY <1>6, <3>1
  <2> HIDE DEF K
  <2>3. QED
    BY <1>6, <2>1, <2>2, Joining!IndexInduction
<1>13. Good(n)
  BY <1>6, <1>12
<1>14. upto(n) = s
  <2>1. Joining!Fold(moves, <<>>) = Joining!Fold(SubSeq(moves, 1, Len(moves)), <<>>)
    BY <1>8, Joining!FoldWhole
  <2>2. QED
    BY <1>4, <1>8, <2>1, Zenon DEF upto
<1>15. Neutral(s) /\ \A b \in Balances : Progress(b, Posted(b, s), ids, n, dcash, dsell)
  BY <1>13, <1>14, Zenon DEF Good
<1>16. s \in Seq(Postings) /\ Balanced(s)
  <2>1. Nothing \in Totals
    BY DEF Nothing, Totals, Units
  <2>2. Tallied(Nothing, s) = Nothing
    BY <1>15, <2>1, Zenon DEF Neutral
  <2>3. QED
    BY <1>15, <2>2, Zenon DEF Neutral, Balanced, Tallied
<1>17. ASSUME NEW b \in Balances, NEW id \in V
       PROVE  Shifted(b, Posted(b, s), id, wanted[id].cash - c.accounts[id].reservedCash,
                      wanted[id].sell - c.accounts[id].openSell)
  <2>1. PICK j \in 1..n : ids[j] = id
    BY <1>2
  <2>2. j <= n /\ j \in 1..Len(ids)
    BY <1>6, <2>1 DEF n
  <2>3. Shifted(b, Posted(b, s), ids[j], dcash[ids[j]], dsell[ids[j]])
    BY <1>15, <2>2, Zenon DEF Progress
  <2>4. /\ dcash[id] = wanted[id].cash - c.accounts[id].reservedCash
        /\ dsell[id] = wanted[id].sell - c.accounts[id].openSell
    BY DEF dcash, dsell
  <2>5. QED
    BY <2>1, <2>3, <2>4, Zenon
<1>18. ASSUME NEW b \in Balances, NEW a \in LedgerAccounts, \A id \in V : a \notin OwnAccounts(id)
       PROVE  Posted(b, s)[a] = b[a]
  <2>1. \A j \in 1..Len(ids) : a \notin OwnAccounts(ids[j])
    BY <1>6, <1>18 DEF n
  <2>2. QED
    BY <1>15, <2>1, Zenon DEF Progress
<1>19. QED
  BY <1>16, <1>17, <1>18, Zenon DEF V, s

\* What reconcileReservations() makes of an engine.
Reconciled(c, d) ==
    /\ d \in Engines /\ SameDay(c, d)
    /\ d.ok = c.ok /\ d.edge = c.edge /\ d.book = c.book /\ d.nextOrder = c.nextOrder
    /\ DOMAIN d.accounts = DOMAIN c.accounts
    /\ \A id \in DOMAIN c.accounts : /\ d.accounts[id].cash = c.accounts[id].cash
                                     /\ d.accounts[id].position = c.accounts[id].position
    /\ \A id \in Venue(c) : /\ d.accounts[id].reservedCash = ReservedFor(c, id).cash
                            /\ d.accounts[id].openBuy = ReservedFor(c, id).buy
                            /\ d.accounts[id].openSell = ReservedFor(c, id).sell
    /\ Journalled(c) => Journalled(d)
    /\ d.ledger[StorageAccount] = c.ledger[StorageAccount]

\* One account after its reservations moved.
LEMMA ReservesWanted ==
    ASSUME NEW x \in Account, NEW w \in Wants
    PROVE  LET y == [x EXCEPT !.reservedCash = w.cash, !.openBuy = w.buy, !.openSell = w.sell]
           IN  /\ y \in Account /\ y.cash = x.cash /\ y.position = x.position
               /\ y.reservedCash = w.cash /\ y.openBuy = w.buy /\ y.openSell = w.sell
BY DEF Account, Wants

\* reconcileReservations() gives every account what its live orders need.
LEMMA ReconcileKeeps ==
    ASSUME NEW c \in Engines, NEW n \in Nat, Book!Sound(c.book, n)
    PROVE  Reconciled(c, Reconcile(c))
<1> DEFINE V == Venue(c)
           D == DOMAIN c.accounts
           wanted == [id \in V |-> ReservedFor(c, id)]
           s == ReservationPostings(c, wanted)
           l == Posted(c.ledger, s)
           p == PostEntry(c, s)
           y(id) == [c.accounts[id] EXCEPT !.reservedCash = wanted[id].cash, !.openBuy = wanted[id].buy,
                                           !.openSell = wanted[id].sell]
           as == [id \in D |-> IF id \in V THEN y(id) ELSE c.accounts[id]]
           d == Reconcile(c)
<1>1. \A id \in V : ReservedFor(c, id) \in Wants
  BY NeedsAreAmounts
<1>2. wanted \in [V -> Wants] /\ \A id \in V : wanted[id] = ReservedFor(c, id) /\ wanted[id] \in Wants
  BY <1>1
<1>3. V \subseteq D /\ c.accounts \in [D -> Account] /\ D \subseteq Ids
  BY AccountsOf DEF Venue
<1>4. d = Reserve(p, wanted)
  BY Zenon DEF Reconcile, PostReservations
<1>5. DOMAIN wanted = V
  OBVIOUS
<1> HIDE DEF wanted, V, s, d
<1>6. /\ s \in Seq(Postings) /\ Balanced(s)
      /\ \A b \in Balances :
           /\ \A id \in V : Shifted(b, Posted(b, s), id, wanted[id].cash - c.accounts[id].reservedCash,
                                    wanted[id].sell - c.accounts[id].openSell)
           /\ \A a \in LedgerAccounts : (\A id \in V : a \notin OwnAccounts(id)) => Posted(b, s)[a] = b[a]
  BY <1>2, ReservationEntry DEF V, s
<1>7. c.ledger \in Balances /\ l \in Balances
  BY <1>6, PostedIsBalances DEF Engines
<1>8. p = [c EXCEPT !.ledger = l]
  BY <1>6, PostEntryIs
<1> HIDE DEF p, l
<1>9. /\ p \in Engines /\ p.accounts = c.accounts /\ p.ledger = l /\ SameDay(c, p) /\ p.ok = c.ok
      /\ p.edge = c.edge /\ p.book = c.book /\ p.nextOrder = c.nextOrder
  BY <1>7, <1>8 DEF Engines, SameDay
<1>10. d = [p EXCEPT !.accounts = as]
  BY <1>4, <1>5, <1>9, Zenon DEF Reserve
<1>11. \A id \in V : /\ y(id) \in Account
                     /\ y(id).cash = c.accounts[id].cash /\ y(id).position = c.accounts[id].position
                     /\ y(id).reservedCash = wanted[id].cash /\ y(id).openBuy = wanted[id].buy
                     /\ y(id).openSell = wanted[id].sell
  <2>1. TAKE id \in V
  <2> DEFINE x == c.accounts[id]
             w == wanted[id]
  <2>2. x \in Account /\ w \in Wants
    BY <1>2, <1>3
  <2> HIDE DEF x, w
  <2>3. LET z == [x EXCEPT !.reservedCash = w.cash, !.openBuy = w.buy, !.openSell = w.sell]
        IN  /\ z \in Account /\ z.cash = x.cash /\ z.position = x.position
            /\ z.reservedCash = w.cash /\ z.openBuy = w.buy /\ z.openSell = w.sell
    BY <2>2, ReservesWanted
  <2>4. QED
    BY <2>3, Zenon DEF x, w
<1> HIDE DEF y
<1>12. /\ as \in [D -> Account] /\ DOMAIN as = D
       /\ \A id \in V : as[id] = y(id)
       /\ \A id \in D : id \notin V => as[id] = c.accounts[id]
  BY <1>3, <1>11
<1>13. as \in Accounts
  BY <1>12, AccountsLike
<1> HIDE DEF as, D
<1>14. /\ d \in Engines /\ SameDay(p, d) /\ d.ok = p.ok /\ d.edge = p.edge /\ d.book = p.book
       /\ d.nextOrder = p.nextOrder /\ d.accounts = as /\ d.ledger = p.ledger
  BY <1>9, <1>10, <1>13 DEF Engines, SameDay
<1>15. /\ SameDay(c, d) /\ d.ok = c.ok /\ d.edge = c.edge /\ d.book = c.book /\ d.nextOrder = c.nextOrder
       /\ d.ledger = l
  BY <1>9, <1>14, Zenon DEF SameDay
<1>16. /\ DOMAIN d.accounts = D
       /\ \A id \in V : d.accounts[id] = y(id)
       /\ \A id \in D : id \notin V => d.accounts[id] = c.accounts[id]
  BY <1>12, <1>14
<1>17. \A id \in D : /\ d.accounts[id].cash = c.accounts[id].cash
                     /\ d.accounts[id].position = c.accounts[id].position
  BY <1>11, <1>16
<1>18. \A id \in V : /\ d.accounts[id].reservedCash = ReservedFor(c, id).cash
                     /\ d.accounts[id].openBuy = ReservedFor(c, id).buy
                     /\ d.accounts[id].openSell = ReservedFor(c, id).sell
  BY <1>2, <1>11, <1>16
<1>19. ASSUME Journalled(c) PROVE Journalled(d)
  <2>0. ASSUME NEW id \in Ids \ D PROVE Blank(d, id)
    <3>1. \A a \in LedgerAccounts : (\A j \in V : a \notin OwnAccounts(j)) => l[a] = c.ledger[a]
      BY <1>6, <1>7, Zenon DEF l
    <3>2. \A j \in V : j # id
      BY <1>3
    <3>3. \A j \in V : /\ CashAvailable(id) \notin OwnAccounts(j) /\ CashReserved(id) \notin OwnAccounts(j)
                       /\ InstrumentAvailable(id) \notin OwnAccounts(j)
                       /\ InstrumentReserved(id) \notin OwnAccounts(j)
      BY <3>2, AccountsDiffer DEF OwnAccounts
    <3>4. /\ CashAvailable(id) \in LedgerAccounts /\ CashReserved(id) \in LedgerAccounts
          /\ InstrumentAvailable(id) \in LedgerAccounts /\ InstrumentReserved(id) \in LedgerAccounts
      BY JournalAccounts
    <3>5. Blank(c, id)
      BY <1>19, Zenon DEF Journalled, D
    <3>6. QED
      BY <1>15, <3>1, <3>3, <3>4, <3>5, Zenon DEF Blank
  <2> SUFFICES ASSUME NEW id \in D PROVE Agrees(d, id)
    BY <1>16, <2>0, Zenon DEF Journalled
  <2> DEFINE ca == CashAvailable(id)
             cr == CashReserved(id)
             ia == InstrumentAvailable(id)
             ir == InstrumentReserved(id)
             x == c.accounts[id]
             z == d.accounts[id]
             w == wanted[id]
             b == c.ledger
  <2>1. Agrees(c, id)
    BY <1>19, Zenon DEF Journalled, D
  <2>2. id \in Ids /\ x \in Account
    BY <1>3
  <2>3. ca \in LedgerAccounts /\ cr \in LedgerAccounts /\ ia \in LedgerAccounts /\ ir \in LedgerAccounts
    BY <2>2, JournalAccounts
  <2>4. b[ca] \in Int /\ b[cr] \in Int /\ b[ia] \in Int /\ b[ir] \in Int
    BY <1>7, <2>3 DEF Balances
  <2>5. b[ca] + b[cr] = x.cash /\ b[ia] + b[ir] = x.position /\ b[cr] = x.reservedCash /\ b[ir] = x.openSell
    BY <2>1, Zenon DEF Agrees
  <2>6. CASE id \in V
    <3>1. Shifted(b, l, id, w.cash - x.reservedCash, w.sell - x.openSell)
      BY <1>6, <1>7, <2>6, Zenon DEF l
    <3>2. /\ l[ca] = b[ca] - (w.cash - x.reservedCash) /\ l[cr] = b[cr] + (w.cash - x.reservedCash)
          /\ l[ia] = b[ia] - (w.sell - x.openSell) /\ l[ir] = b[ir] + (w.sell - x.openSell)
      BY <3>1, Zenon DEF Shifted
    <3>3. z.cash = x.cash /\ z.position = x.position /\ z.reservedCash = w.cash /\ z.openSell = w.sell
      BY <1>11, <1>16, <2>6
    <3>4. w.cash \in Int /\ w.sell \in Int
      BY <1>2, <2>6 DEF Wants
    <3>5. x.reservedCash \in Int /\ x.openSell \in Int
      BY <2>2 DEF Account
    <3> HIDE DEF ca, cr, ia, ir, x, z, w, b
    <3>6. l[ca] + l[cr] = z.cash /\ l[ia] + l[ir] = z.position /\ l[cr] = z.reservedCash /\ l[ir] = z.openSell
      BY <2>4, <2>5, <3>2, <3>3, <3>4, <3>5
    <3>7. QED
      BY <1>15, <3>6, Zenon DEF Agrees, ca, cr, ia, ir, z
  <2>7. CASE id \notin V
    <3>1. \A a \in LedgerAccounts : (\A j \in V : a \notin OwnAccounts(j)) => l[a] = b[a]
      BY <1>6, <1>7, Zenon DEF l
    <3>2. \A j \in V : ca \notin OwnAccounts(j) /\ cr \notin OwnAccounts(j) /\ ia \notin OwnAccounts(j)
                       /\ ir \notin OwnAccounts(j)
      BY <2>7, AccountsDiffer DEF OwnAccounts
    <3>3. l[ca] = b[ca] /\ l[cr] = b[cr] /\ l[ia] = b[ia] /\ l[ir] = b[ir]
      BY <2>3, <3>1, <3>2, Zenon
    <3>4. z = x
      BY <1>16, <2>7
    <3>5. QED
      BY <1>15, <2>5, <3>3, <3>4, Zenon DEF Agrees
  <2>8. QED
    BY <2>6, <2>7
<1>20. l[StorageAccount] = c.ledger[StorageAccount]
  <2>1. StorageAccount \in LedgerAccounts /\ \A id \in V : StorageAccount \notin OwnAccounts(id)
    BY AccountsDiffer DEF LedgerAccounts
  <2>2. QED
    BY <1>6, <1>7, <2>1, Zenon DEF l
<1>21. QED
  BY <1>14, <1>15, <1>16, <1>17, <1>18, <1>19, <1>20, Zenon DEF Reconciled, D, V, d

-----------------------------------------------------------------------------
(* Orders *)

\* The book is in order, and every live order is of an account of the engine.
Owned(c, b)  == \A x \in Book!LiveOrders(b) : x.owner \in DOMAIN c.accounts
InOrder(c, b) == Book!Sound(b, c.nextOrder) /\ Book!Uncrossed(b) /\ Owned(c, b)
Orderly(c)   == InOrder(c, c.book)

\* A new order that is submitted to a book.
Submission(c, b, o) ==
    /\ InOrder(c, b)
    /\ o \in Book!Order /\ o.id = c.nextOrder + 1 /\ o.owner \in DOMAIN c.accounts
    /\ o.tif = "gtc" => o.price \in Prices

\* What settling the report of a new order makes of an engine.
Submitted(c, b, o, r, d) ==
    /\ d \in Engines /\ SameDay(c, d) /\ DOMAIN d.accounts = DOMAIN c.accounts
    /\ d.nextOrder = c.nextOrder + 1
    /\ d.ok <=> c.ok /\ r.ok
    /\ Orderly(d)
    /\ r.ok => \A x \in Book!LiveOrders(d.book) : Book!Comes(x, b, o)
    /\ Journalled(c) => Journalled(d)
    /\ d.ledger[StorageAccount] = c.ledger[StorageAccount]
    /\ Equity(d, Player) - d.edge = Equity(c, Player) - c.edge

\* Engines of the same accounts have the same venue.
LEMMA SameVenue ==
    ASSUME NEW c, NEW d, DOMAIN d.accounts = DOMAIN c.accounts
    PROVE  Venue(d) = Venue(c)
BY Zenon DEF Venue

\* Engines of the same accounts and the same journal agree alike.
LEMMA SameJournal ==
    ASSUME NEW c, NEW d, d.accounts = c.accounts, d.ledger = c.ledger, Journalled(c)
    PROVE  Journalled(d)
<1>1. \A id \in DOMAIN c.accounts : Agrees(c, id) => Agrees(d, id)
  BY Zenon DEF Agrees
<1>2. \A id : Blank(c, id) => Blank(d, id)
  BY Zenon DEF Blank
<1>3. QED
  BY <1>1, <1>2, Zenon DEF Journalled

\* A refused order only takes a number.
LEMMA RefusedKeeps ==
    ASSUME NEW c \in Engines, Orderly(c), NEW b, NEW o, NEW r, ~r.ok
    PROVE  Submitted(c, b, o, r, Settle([c EXCEPT !.nextOrder = c.nextOrder + 1], r))
<1> DEFINE k == c.nextOrder + 1
           d == Settle([c EXCEPT !.nextOrder = c.nextOrder + 1], r)
<1>1. k \in Nat /\ c.nextOrder \in Nat /\ c.nextOrder <= k
  BY DEF Engines
<1>2. d = [[c EXCEPT !.nextOrder = k] EXCEPT !.ok = FALSE]
  BY Zenon DEF Settle
<1> HIDE DEF k, d
<1>3. /\ d \in Engines /\ d.nextOrder = k /\ d.ok = FALSE /\ d.accounts = c.accounts /\ d.book = c.book
      /\ d.ledger = c.ledger /\ d.edge = c.edge /\ SameDay(c, d)
  BY <1>1, <1>2 DEF Engines, SameDay
<1>5. Book!Sound(c.book, k)
  <2> DEFINE n == c.nextOrder
             b0 == c.book
  <2>1. Book!Sound(b0, n)
    BY Zenon DEF Orderly, InOrder
  <2>2. n \in Nat /\ n <= k
    BY <1>1
  <2> HIDE DEF n, b0
  <2>3. Book!Sound(b0, k)
    BY <1>1, <2>1, <2>2, BookAssumed, Book!SoundWider
  <2>4. QED
    BY <2>3 DEF b0
<1>6. Orderly(d)
  BY <1>3, <1>5, Zenon DEF Orderly, InOrder, Owned
<1>7. Journalled(c) => Journalled(d)
  BY <1>3, SameJournal
<1>8. Equity(d, Player) = Equity(c, Player)
  BY <1>3, Zenon DEF Equity, SameDay
<1>9. QED
  BY <1>3, <1>6, <1>7, <1>8, Zenon DEF Submitted, k, d

\* A taken order is settled trade by trade.
LEMMA TakenKeeps ==
    ASSUME NEW c \in Engines, Orderly(c), NEW b, NEW o, Submission(c, b, o),
           NEW r, r.ok, r = SubmitOrder(b, o)
    PROVE  Submitted(c, b, o, r, Settle([c EXCEPT !.nextOrder = c.nextOrder + 1], r))
<1> DEFINE n == c.nextOrder
           k == c.nextOrder + 1
           e == [[c EXCEPT !.nextOrder = k] EXCEPT !.book = r.book]
           fs == r.fills
           d == Settle([c EXCEPT !.nextOrder = c.nextOrder + 1], r)
<1>1. n \in Nat /\ k \in Nat /\ k = n + 1
  BY DEF Engines
<1>2. d = FoldLeft(ApplyTrade, e, fs)
  BY Zenon DEF Settle
<1>3. r = Book!SubmitOrder(b, o)
  BY SameSubmit
<1>4. /\ Book!Sound(b, n) /\ Book!Uncrossed(b) /\ Owned(c, b)
      /\ o \in Book!Order /\ o.id = n + 1 /\ o.owner \in DOMAIN c.accounts
      /\ o.tif = "gtc" => o.price \in Prices
  BY Zenon DEF Submission, InOrder
<1> HIDE DEF d, n, k, fs
<1>5. /\ Book!Sound(r.book, n + 1) /\ Book!Uncrossed(r.book)
      /\ Book!FairTrades(r.fills, b, o)
      /\ \A i \in 1..Len(r.fills) : r.fills[i].maker.owner # o.owner
      /\ \A x \in Book!LiveOrders(r.book) : Book!Comes(x, b, o)
  <2>1. Book!SubmitOrder(b, o).ok
    BY <1>3
  <2>2. /\ Book!Sound(Book!SubmitOrder(b, o).book, n + 1) /\ Book!Uncrossed(Book!SubmitOrder(b, o).book)
        /\ Book!FairTrades(Book!SubmitOrder(b, o).fills, b, o)
        /\ \A i \in 1..Len(Book!SubmitOrder(b, o).fills) :
             Book!SubmitOrder(b, o).fills[i].maker.owner # o.owner
        /\ \A x \in Book!LiveOrders(Book!SubmitOrder(b, o).book) : Book!Comes(x, b, o)
    BY <1>1, <1>4, <2>1, BookAssumed, Book!SubmitOutcome
  <2>3. QED
    BY <1>3, <2>2, Zenon
<1>6. r.book \in Book!Books
  BY <1>5, Zenon DEF Book!Sound
<1>7. /\ e \in Engines /\ SameDay(c, e) /\ e.accounts = c.accounts /\ e.ledger = c.ledger
      /\ e.book = r.book /\ e.nextOrder = k /\ e.ok = c.ok /\ e.edge = c.edge
  BY <1>1, <1>6 DEF Engines, SameDay
<1> HIDE DEF e
<1>8. fs \in Seq(Book!Trade) /\ \A i \in 1..Len(fs) : Book!FairTrade(fs[i], b, o) /\ fs[i].maker.owner # o.owner
  BY <1>5, Zenon DEF Book!FairTrades, fs
<1>9. ASSUME NEW i \in 1..Len(fs) PROVE Settles(e, fs[i])
  <2> DEFINE f == fs[i]
  <2>1. f \in Book!Trade
    BY <1>8
  <2>2. Book!FairTrade(f, b, o) /\ f.maker.owner # o.owner
    BY <1>8
  <2> HIDE DEF f
  <2>3. f.taker.owner = o.owner
    BY <2>2, Zenon DEF Book!FairTrade, Book!SameOrder
  <2>4. PICK y \in Book!LiveOrders(b) : y.owner = f.maker.owner
    BY <2>2, Zenon DEF Book!FairTrade
  <2>6. f.maker.owner \in DOMAIN c.accounts
    BY <1>4, <2>4, Zenon DEF Owned
  <2>7. f.quantity \in Nat /\ f.price \in Nat /\ f.maker.price \in Nat
    BY <2>1 DEF Book!Trade, Book!Order
  <2>8. Settles(e, f)
    BY <1>4, <1>7, <2>2, <2>3, <2>6, <2>7, Zenon DEF Settles
  <2>9. QED
    BY <2>8 DEF f
<1>10. Carried(e, d)
  BY <1>2, <1>7, <1>8, <1>9, TradesCarry
<1>11. /\ d \in Engines /\ SameDay(e, d) /\ d.ok = e.ok /\ d.book = e.book /\ d.nextOrder = e.nextOrder
       /\ DOMAIN d.accounts = DOMAIN e.accounts
       /\ Journalled(e) => Journalled(d)
       /\ d.ledger[StorageAccount] = e.ledger[StorageAccount]
       /\ Equity(d, Player) - d.edge = Equity(e, Player) - e.edge
  BY <1>10, Zenon DEF Carried
<1>12. SameDay(c, d)
  BY <1>7, <1>11, Zenon DEF SameDay
<1>13. DOMAIN d.accounts = DOMAIN c.accounts
  BY <1>7, <1>11, Zenon
<1>14. Orderly(d)
  <2>1. ASSUME NEW x \in Book!LiveOrders(d.book) PROVE x.owner \in DOMAIN d.accounts
    <3>1. Book!Comes(x, b, o)
      BY <1>5, <1>7, <1>11, Zenon
    <3>2. CASE \E y \in Book!LiveOrders(b) : x.owner = y.owner
      BY <1>4, <1>13, <3>2, Zenon DEF Owned
    <3>3. CASE Book!SameOrder(x, o) /\ o.tif = "gtc"
      BY <1>4, <1>13, <3>3, Zenon DEF Book!SameOrder
    <3>4. QED
      BY <3>1, <3>2, <3>3, Zenon DEF Book!Comes
  <2>2. Book!Sound(d.book, d.nextOrder) /\ Book!Uncrossed(d.book)
    BY <1>1, <1>5, <1>7, <1>11, Zenon
  <2>3. QED
    BY <2>1, <2>2, Zenon DEF Orderly, InOrder, Owned
<1>15. Journalled(c) => Journalled(d)
  <2>1. Journalled(c) => Journalled(e)
    BY <1>7, SameJournal
  <2>2. QED
    BY <1>11, <2>1, Zenon
<1>16. Equity(d, Player) - d.edge = Equity(c, Player) - c.edge
  BY <1>7, <1>11, Zenon DEF Equity, SameDay
<1>17. \A x \in Book!LiveOrders(d.book) : Book!Comes(x, b, o)
  BY <1>5, <1>7, <1>11, Zenon
<1>18. d.nextOrder = c.nextOrder + 1 /\ (d.ok <=> c.ok /\ r.ok)
  <2>1. d.ok = c.ok /\ d.nextOrder = c.nextOrder + 1
    BY <1>7, <1>11, Zenon DEF k
  <2>2. d.ok \in BOOLEAN /\ c.ok \in BOOLEAN
    BY <1>11 DEF Engines
  <2>3. QED
    BY <2>1, <2>2
<1>19. QED
  BY <1>7, <1>11, <1>12, <1>14, <1>15, <1>16, <1>17, <1>18, Zenon DEF Submitted, d

\* A new order is an order.
LEMMA NewIsOrder ==
    ASSUME NEW id \in Nat, NEW owner \in Ids, NEW side \in Sides, NEW price \in Nat, NEW qty \in Nat,
           NEW tif \in TIFs
    PROVE  LET o == NewOrder(id, owner, side, price, qty, tif)
           IN  /\ o \in Book!Order /\ o.id = id /\ o.owner = owner /\ o.side = side /\ o.price = price
               /\ o.qty = qty /\ o.remaining = qty /\ o.tif = tif
BY DEF NewOrder, Book!Order, Sides, Book!Sides, TIFs, Book!TIFs

\* An order that is placed: newOrder() and submitBookOrder().
Placing(c, id, side, price, qty, tif) ==
    /\ id \in DOMAIN c.accounts /\ side \in Sides /\ price \in Nat /\ qty \in Nat /\ tif \in TIFs
    /\ tif = "gtc" => price \in Prices

Placed(c, id, side, price, qty, tif) == NewOrder(c.nextOrder + 1, id, side, price, qty, tif)

\* Placing an order keeps the engine in order.
LEMMA PlaceKeeps ==
    ASSUME NEW c \in Engines, Orderly(c), NEW id, NEW side, NEW price, NEW qty, NEW tif,
           Placing(c, id, side, price, qty, tif)
    PROVE  LET o == Placed(c, id, side, price, qty, tif)
           IN  /\ Submission(c, c.book, o)
               /\ Submitted(c, c.book, o, SubmitOrder(c.book, o), Place(c, id, side, price, qty, tif))
<1> DEFINE o == Placed(c, id, side, price, qty, tif)
           r == SubmitOrder(c.book, o)
           k == c.nextOrder + 1
           d == Settle([c EXCEPT !.nextOrder = c.nextOrder + 1], r)
<1>1. /\ id \in DOMAIN c.accounts /\ side \in Sides /\ price \in Nat /\ qty \in Nat /\ tif \in TIFs
      /\ tif = "gtc" => price \in Prices
  BY DEF Placing
<1>2. k \in Nat /\ id \in Ids
  BY <1>1, AccountsOf DEF Engines
<1>3. /\ o \in Book!Order /\ o.id = k /\ o.owner = id /\ o.side = side /\ o.price = price /\ o.tif = tif
  <2> HIDE DEF k
  <2> DEFINE x == NewOrder(k, id, side, price, qty, tif)
  <2>1. /\ x \in Book!Order /\ x.id = k /\ x.owner = id /\ x.side = side /\ x.price = price
        /\ x.qty = qty /\ x.remaining = qty /\ x.tif = tif
    <3>1. k \in Nat /\ id \in Ids /\ side \in Sides /\ price \in Nat /\ qty \in Nat /\ tif \in TIFs
      BY <1>1, <1>2, Zenon
    <3>2. QED
      BY <3>1 DEF NewOrder, Book!Order, Sides, Book!Sides, TIFs, Book!TIFs
  <2>2. o = x
    BY Zenon DEF Placed, k
  <2> HIDE DEF x, o
  <2>3. QED
    BY <2>1, <2>2, Zenon
<1> HIDE DEF o
<1>4. Submission(c, c.book, o)
  BY <1>1, <1>3, Zenon DEF Submission, Orderly, k
<1>5. Place(c, id, side, price, qty, tif) = d
  BY Zenon DEF Place, Placed, o
<1> HIDE DEF r
<1>6. Submitted(c, c.book, o, r, d)
  <2>1. CASE r.ok
    <3>1. r = SubmitOrder(c.book, o)
      BY DEF r
    <3> DEFINE b == c.book
    <3>2. Submission(c, b, o) /\ r = SubmitOrder(b, o)
      BY <1>4, <3>1
    <3> HIDE DEF b
    <3>3. Submitted(c, b, o, r, d)
      BY <2>1, <3>2, TakenKeeps
    <3>4. QED
      BY <3>3 DEF b
  <2>2. CASE ~r.ok
    <3> DEFINE b == c.book
    <3> HIDE DEF b
    <3>1. Submitted(c, b, o, r, d)
      BY <2>2, RefusedKeeps
    <3>2. QED
      BY <3>1 DEF b
  <2>3. QED
    BY <2>1, <2>2
<1>7. QED
  BY <1>4, <1>5, <1>6, Zenon DEF o, r

\* What cancelAccountOrders() makes of an engine.
Cancelled(c, id, d) ==
    /\ d \in Engines /\ SameDay(c, d) /\ d.ok = c.ok /\ d.edge = c.edge /\ d.nextOrder = c.nextOrder
    /\ d.accounts = c.accounts /\ d.ledger = c.ledger
    /\ Orderly(d)
    /\ Book!LiveOrders(d.book) = Book!LiveOrders(c.book) \ OrdersOf(c.book, id)

\* Putting another book that is in order in its place keeps an engine in order.
LEMMA OtherBook ==
    ASSUME NEW c \in Engines, NEW b, InOrder(c, b)
    PROVE  LET d == [c EXCEPT !.book = b]
           IN  /\ d \in Engines /\ SameDay(c, d) /\ d.ok = c.ok /\ d.edge = c.edge
               /\ d.nextOrder = c.nextOrder
               /\ d.accounts = c.accounts /\ d.ledger = c.ledger /\ d.book = b
               /\ Orderly(d)
<1> DEFINE d == [c EXCEPT !.book = b]
<1>1. b \in Book!Books
  BY Zenon DEF InOrder, Book!Sound
<1>2. /\ d \in Engines /\ SameDay(c, d) /\ d.ok = c.ok /\ d.edge = c.edge /\ d.nextOrder = c.nextOrder
      /\ d.accounts = c.accounts /\ d.ledger = c.ledger /\ d.book = b
  BY <1>1 DEF Engines, SameDay
<1> HIDE DEF d
<1>3. Orderly(d)
  BY <1>2, Zenon DEF Orderly, InOrder, Owned
<1>4. QED
  BY <1>2, <1>3, Zenon DEF d

\* Taking a live order away keeps a book in order.
LEMMA RemoveKeeps ==
    ASSUME NEW c \in Engines, NEW b, InOrder(c, b), NEW o \in Book!LiveOrders(b)
    PROVE  /\ InOrder(c, RemoveOrder(b, o))
           /\ Book!LiveOrders(RemoveOrder(b, o)) = Book!LiveOrders(b) \ {o}
<1> DEFINE n == c.nextOrder
           e == RemoveOrder(b, o)
<1>1. Book!Sound(b, n) /\ Book!Uncrossed(b) /\ Owned(c, b)
  BY Zenon DEF InOrder
<1> HIDE DEF n
<1>2. /\ Book!Sound(Book!RemoveOrder(b, o), n)
      /\ Book!LiveOrders(Book!RemoveOrder(b, o)) = Book!LiveOrders(b) \ {o}
  BY <1>1, BookAssumed, Book!RemoveSound
<1>3. Book!RemoveOrder(b, o) = e
  BY SameRemove
<1> HIDE DEF e
<1>4. Book!Sound(e, n) /\ Book!LiveOrders(e) = Book!LiveOrders(b) \ {o}
  BY <1>2, <1>3, Zenon
<1>5. Book!Uncrossed(e)
  BY <1>1, <1>4 DEF Book!Uncrossed
<1>6. Owned(c, e)
  BY <1>1, <1>4 DEF Owned
<1>7. QED
  BY <1>4, <1>5, <1>6, Zenon DEF InOrder, n, e

\* Every order of the account goes, and no other.
LEMMA CancelAllKeeps ==
    ASSUME NEW c \in Engines, Orderly(c), NEW id
    PROVE  Cancelled(c, id, CancelAll(c, id))
<1> DEFINE L == OrdersOf(c.book, id)
           A == Book!LiveOrders(c.book)
           s == InSequence(L)
           n == c.nextOrder
           k == Cardinality(L)
           after(j) == Removals!Fold(SubSeq(s, 1, j), c.book)
<1>1. Book!Sound(c.book, n) /\ n \in Nat
  BY Zenon DEF Orderly, InOrder, Engines
<1>2. IsFiniteSet(L) /\ L \subseteq Book!Order
  BY <1>1, NeedsAreAmounts
<1>3. L \subseteq A
  BY SameLive DEF OrdersOf
<1>4. \A x, y \in L : x.id = y.id => x = y
  <2>1. \A x, y \in A : x.id = y.id => x = y
    <3> DEFINE b == c.book
    <3>1. Book!Sound(b, n)
      BY <1>1
    <3> HIDE DEF b, n
    <3>2. \A x, y \in Book!LiveOrders(b) : x.id = y.id => x = y
      BY <3>1, BookAssumed, Book!IDsTellApart
    <3>3. QED
      BY <3>2 DEF b
  <2> HIDE DEF A, L
  <2>2. QED
    BY <1>3, <2>1
<1>5. /\ s \in Seq(L) /\ Len(s) = k
      /\ \A o \in L : \E i \in 1..k : s[i] = o
      /\ \A i, j \in 1..k : s[i] = s[j] => i = j
  <2> HIDE DEF L
  <2>1. Book!IsFiniteSet(L)
    BY <1>2, SameFinite
  <2>2. /\ Book!InSequence(L) \in Seq(L) /\ Len(Book!InSequence(L)) = Book!Cardinality(L)
        /\ \A o \in L : \E i \in 1..Book!Cardinality(L) : Book!InSequence(L)[i] = o
        /\ \A i, j \in 1..Book!Cardinality(L) : Book!InSequence(L)[i] = Book!InSequence(L)[j] => i = j
    BY <1>2, <1>4, <2>1, BookAssumed, Book!SequenceOfOrders
  <2>3. Book!InSequence(L) = s /\ Book!Cardinality(L) = k
    BY SameSequence, SameCardinality
  <2>4. QED
    BY <2>2, <2>3, Zenon
<1>6. k \in Nat
  BY <1>2, FS_CardinalityType
<1> HIDE DEF L, A, s, n, k
<1>7. after(0) = c.book /\ \A j \in 1..k : after(j) = RemoveOrder(after(j - 1), s[j])
  <2>1. Removals!Fold(SubSeq(s, 1, 0), c.book) = c.book
    BY <1>5, Removals!FoldStep
  <2>2. \A j \in 1..Len(s) : Removals!Fold(SubSeq(s, 1, j), c.book)
                               = RemoveOrder(Removals!Fold(SubSeq(s, 1, j - 1), c.book), s[j])
    BY <1>5, Removals!FoldStep
  <2>3. QED
    BY <1>5, <2>1, <2>2, Zenon
<1> HIDE DEF after
<1> DEFINE Good(j) == /\ InOrder(c, after(j))
                      /\ Book!LiveOrders(after(j)) = A \ {s[i] : i \in 1..j}
           K == {j \in 0..k : Good(j)}
<1>8. Good(0)
  <2>1. InOrder(c, c.book)
    BY DEF Orderly
  <2>2. {s[i] : i \in 1..0} = {}
    OBVIOUS
  <2>3. QED
    BY <1>7, <2>1, <2>2 DEF A
<1>9. ASSUME NEW j \in 1..k, Good(j - 1) PROVE Good(j)
  <2> DEFINE b == after(j - 1)
             o == s[j]
             gone(i) == {s[h] : h \in 1..i}
  <2>1. InOrder(c, b) /\ Book!LiveOrders(b) = A \ gone(j - 1)
    BY <1>9
  <2>2. o \in L /\ j \in Nat
    BY <1>5, <1>6
  <2>3. o \notin gone(j - 1)
    <3>1. ASSUME NEW h \in 1..(j - 1), o = s[h] PROVE FALSE
      <4>1. h \in 1..k /\ h # j
        BY <1>6, <3>1
      <4>2. QED
        BY <1>5, <3>1, <4>1
    <3>2. QED
      BY <3>1
  <2>4. o \in Book!LiveOrders(b)
    BY <1>3, <2>1, <2>2, <2>3
  <2>5. after(j) = RemoveOrder(b, o)
    BY <1>7
  <2>6. gone(j) = gone(j - 1) \cup {o}
    <3>1. 1..j = (1..(j - 1)) \cup {j}
      BY <2>2
    <3>2. QED
      BY <3>1
  <2> HIDE DEF b, o, gone
  <2>7. InOrder(c, RemoveOrder(b, o)) /\ Book!LiveOrders(RemoveOrder(b, o)) = Book!LiveOrders(b) \ {o}
    BY <2>1, <2>4, RemoveKeeps
  <2>8. Book!LiveOrders(after(j)) = A \ gone(j)
    BY <2>1, <2>5, <2>6, <2>7
  <2>9. QED
    BY <2>5, <2>7, <2>8 DEF gone
<1> HIDE DEF Good
<1>10. 0..k \subseteq K
  <2>1. 0 \in K
    BY <1>6, <1>8
  <2>2. ASSUME NEW j \in 1..k, j - 1 \in K PROVE j \in K
    <3>1. Good(j)
      BY <1>9, <2>2
    <3>2. QED
      BY <1>6, <3>1
  <2> HIDE DEF K
  <2>3. QED
    BY <1>6, <2>1, <2>2, Removals!IndexInduction
<1>11. Good(k)
  BY <1>6, <1>10
<1> DEFINE e == FoldLeft(RemoveOrder, c.book, s)
<1>12. after(k) = e
  <2>1. Removals!Fold(s, c.book) = Removals!Fold(SubSeq(s, 1, Len(s)), c.book)
    BY <1>5, Removals!FoldWhole
  <2>2. Removals!Fold(s, c.book) = e
    BY SameRemovals
  <2>3. QED
    BY <1>5, <2>1, <2>2, Zenon DEF after
<1>13. {s[i] : i \in 1..k} = L
  <2>1. \A i \in 1..k : s[i] \in L
    BY <1>5, <1>6
  <2>2. QED
    BY <1>5, <2>1
<1>14. CancelAll(c, id) = [c EXCEPT !.book = e]
  BY Zenon DEF CancelAll, s, L
<1> HIDE DEF e
<1>15. InOrder(c, e) /\ Book!LiveOrders(e) = A \ L
  BY <1>11, <1>12, <1>13 DEF Good
<1> DEFINE d == [c EXCEPT !.book = e]
<1>16. /\ d \in Engines /\ SameDay(c, d) /\ d.ok = c.ok /\ d.edge = c.edge
       /\ d.nextOrder = c.nextOrder
       /\ d.accounts = c.accounts /\ d.ledger = c.ledger /\ d.book = e
       /\ Orderly(d)
  BY <1>15, OtherBook
<1> HIDE DEF d
<1>17. Cancelled(c, id, d)
  BY <1>15, <1>16, Zenon DEF Cancelled, A, L
<1>18. QED
  BY <1>14, <1>17, Zenon DEF d

-----------------------------------------------------------------------------
(* What commands are made of *)

\* An engine whose book is in order and whose journal agrees with its accounts.
Sane(c) == c \in Engines /\ Orderly(c) /\ Journalled(c)

\* And whose accounts have reserved what their live orders need.
Reserved(c) ==
    \A id \in Venue(c) : /\ c.accounts[id].reservedCash = ReservedFor(c, id).cash
                         /\ c.accounts[id].openBuy = ReservedFor(c, id).buy
                         /\ c.accounts[id].openSell = ReservedFor(c, id).sell

Fine(c) == Sane(c) /\ Reserved(c)

\* What happens between two engines of a command, but for charges, marks and
\* the end of the day.
Follows(c, d) ==
    /\ Sane(d) /\ SameDay(c, d) /\ DOMAIN d.accounts = DOMAIN c.accounts
    /\ d.ok => c.ok
    /\ d.ledger[StorageAccount] = c.ledger[StorageAccount]
    /\ Equity(d, Player) - d.edge = Equity(c, Player) - c.edge

\* One after another.
LEMMA FollowsOn ==
    ASSUME NEW c, NEW d, NEW e, Follows(c, d), Follows(d, e)
    PROVE  Follows(c, e)
BY Zenon DEF Follows, SameDay

\* Placing, cancelling and reserving.
LEMMA PlaceFollows ==
    ASSUME NEW c, Sane(c), NEW id, NEW side, NEW price, NEW qty, NEW tif,
           Placing(c, id, side, price, qty, tif)
    PROVE  Follows(c, Place(c, id, side, price, qty, tif))
<1> DEFINE o == Placed(c, id, side, price, qty, tif)
           r == SubmitOrder(c.book, o)
           d == Place(c, id, side, price, qty, tif)
<1>1. c \in Engines /\ Orderly(c) /\ Journalled(c)
  BY DEF Sane
<1>2. Submitted(c, c.book, o, r, d)
  BY <1>1, PlaceKeeps
<1> HIDE DEF o, r, d
<1>3. Sane(d)
  BY <1>1, <1>2, Zenon DEF Submitted, Sane
<1>4. Follows(c, d)
  BY <1>2, <1>3, Zenon DEF Submitted, Follows
<1>5. QED
  BY <1>4 DEF d

\* cancelAccountOrders() leaves accounts and journal alone.
LEMMA CancelFollows ==
    ASSUME NEW c, Sane(c), NEW id
    PROVE  Follows(c, CancelAll(c, id)) /\ Cancelled(c, id, CancelAll(c, id))
<1> DEFINE d == CancelAll(c, id)
<1>1. c \in Engines /\ Orderly(c) /\ Journalled(c)
  BY DEF Sane
<1>2. Cancelled(c, id, d)
  BY <1>1, CancelAllKeeps
<1> HIDE DEF d
<1>3. d.accounts = c.accounts /\ d.ledger = c.ledger /\ d.mark = c.mark
  BY <1>2, Zenon DEF Cancelled, SameDay
<1>4. Journalled(d)
  BY <1>1, <1>3, SameJournal
<1>5. Equity(d, Player) = Equity(c, Player)
  BY <1>3, Zenon DEF Equity
<1>6. Sane(d)
  BY <1>2, <1>4, Zenon DEF Sane, Cancelled
<1>7. Follows(c, d)
  BY <1>2, <1>3, <1>5, <1>6, Zenon DEF Follows, Cancelled
<1>8. QED
  BY <1>2, <1>7 DEF d

\* reconcileReservations(), after which accounts have reserved what they need.
LEMMA ReconcileFollows ==
    ASSUME NEW c, Sane(c)
    PROVE  Follows(c, Reconcile(c)) /\ Fine(Reconcile(c)) /\ Reconciled(c, Reconcile(c))
<1> DEFINE d == Reconcile(c)
<1>1. c \in Engines /\ Orderly(c) /\ Journalled(c)
  BY DEF Sane
<1>2. Book!Sound(c.book, c.nextOrder) /\ c.nextOrder \in Nat
  BY <1>1, Zenon DEF Orderly, InOrder, Engines
<1>3. Reconciled(c, d)
  <2> DEFINE n == c.nextOrder
  <2>1. n \in Nat /\ Book!Sound(c.book, n)
    BY <1>2
  <2> HIDE DEF n
  <2>2. QED
    BY <1>1, <2>1, ReconcileKeeps
<1> HIDE DEF d
<1>4. DOMAIN d.accounts = DOMAIN c.accounts /\ d.book = c.book /\ d.nextOrder = c.nextOrder
  BY <1>3, Zenon DEF Reconciled
<1>5. Venue(d) = Venue(c)
  BY <1>4, SameVenue
<1>6. Orderly(d)
  BY <1>1, <1>4, <1>5, Zenon DEF Orderly, InOrder, Owned
<1>7. Sane(d)
  BY <1>1, <1>3, <1>6, Zenon DEF Sane, Reconciled
<1>8. \A id : ReservedFor(d, id) = ReservedFor(c, id)
  BY <1>4, Zenon DEF ReservedFor
<1>9. Reserved(d)
  BY <1>3, <1>5, <1>8, Zenon DEF Reserved, Reconciled
<1>10. Equity(d, Player) = Equity(c, Player)
  <2>1. Player \in DOMAIN c.accounts
    BY <1>1, AccountsOf
  <2>2. d.accounts[Player].cash = c.accounts[Player].cash /\ d.mark = c.mark
        /\ d.accounts[Player].position = c.accounts[Player].position
    BY <1>3, <2>1, Zenon DEF Reconciled, SameDay
  <2>3. QED
    BY <2>2, Zenon DEF Equity
<1>11. Follows(c, d)
  BY <1>3, <1>7, <1>10, Zenon DEF Follows, Reconciled
<1>12. QED
  BY <1>3, <1>7, <1>9, <1>11, Zenon DEF Fine, d

\* An engine follows itself.
LEMMA FollowsSelf ==
    ASSUME NEW c, Sane(c)
    PROVE  Follows(c, c)
BY Zenon DEF Follows, SameDay

\* The constants are what Validate() says.
LEMMA ConfigFacts ==
    /\ Prices \subseteq Nat /\ Marks \subseteq Nat \ {0} /\ StartingMark \in Marks /\ MaxMark \in Nat
    /\ QuoteQty \in Nat /\ MaxOrderQty \in Nat /\ MaxPosition \in Nat
    /\ StartingCash \in Int /\ StartingPosition \in Int /\ BotCash \in Int /\ BotPosition \in Int
    /\ StoragePerUnit \in Nat /\ MaintenanceMarginBps \in Nat /\ InitialMarginBps \in Nat
    /\ MaintenanceMarginBps <= InitialMarginBps /\ RealTime \in BOOLEAN
<1>1. Validate
  BY ConfigAssumption
<1>2. InitialMarginBps \in 0..Whole /\ MaintenanceMarginBps \in 0..InitialMarginBps
      /\ QuoteQty \in 1..MaxOrderQty /\ MaxOrderQty \in Nat \ {0} /\ RealTime \in BOOLEAN
  BY <1>1 DEF Validate
<1>3. /\ Prices \subseteq Nat \ {0} /\ MaxMark \in Nat /\ StartingMark \in Marks
      /\ StartingCash \in Nat /\ StartingPosition \in Int /\ BotCash \in Int /\ BotPosition \in Int
      /\ StoragePerUnit \in Nat /\ MaxPosition \in Nat \ {0}
  BY <1>1 DEF Validate
<1>4. Marks \subseteq Nat \ {0}
  BY <1>3 DEF Marks
<1>5. QED
  BY <1>2, <1>3, <1>4 DEF Whole

\* The player is of the venue, the flow is not.
LEMMA PlayerAndFlow ==
    ASSUME NEW c \in Engines
    PROVE  /\ Player \in DOMAIN c.accounts /\ Flow \in DOMAIN c.accounts
           /\ Player \in Venue(c) /\ Flow \notin Venue(c) /\ Player # Flow
BY AccountsOf DEF Venue, External, Player, Flow

\* replacePlayerQuote().
LEMMA ReplaceQuoteFollows ==
    ASSUME NEW c, Sane(c), NEW bid \in Prices, NEW ask \in Prices, NEW qty \in Nat
    PROVE  /\ Follows(c, ReplaceQuote(c, bid, ask, qty))
           /\ Fine(ReplaceQuote(c, bid, ask, qty))
<1> DEFINE x == CancelAll(c, Player)
           y == Place(x, Player, "buy", bid, qty, "gtc")
           z == Place(y, Player, "sell", ask, qty, "gtc")
           d == ReplaceQuote(c, bid, ask, qty)
<1>1. d = Reconcile(z)
  BY Zenon DEF ReplaceQuote
<1>2. Follows(c, x)
  BY CancelFollows
<1> HIDE DEF x, d
<1>3. /\ \A v : Sane(v) => Placing(v, Player, "buy", bid, qty, "gtc")
      /\ \A v : Sane(v) => Placing(v, Player, "sell", ask, qty, "gtc")
  <2>1. bid \in Nat /\ ask \in Nat
    BY ConfigFacts
  <2>2. \A v : Sane(v) => Player \in DOMAIN v.accounts
    BY PlayerAndFlow DEF Sane
  <2>3. QED
    BY <2>1, <2>2 DEF Placing, Sides, TIFs
<1>4. Sane(x)
  BY <1>2 DEF Follows
<1>5. Follows(x, y)
  BY <1>3, <1>4, PlaceFollows
<1> HIDE DEF y
<1>6. Sane(y)
  BY <1>5 DEF Follows
<1>7. Follows(y, z)
  BY <1>3, <1>6, PlaceFollows
<1> HIDE DEF z
<1>8. Sane(z)
  BY <1>7 DEF Follows
<1>9. Follows(z, d) /\ Fine(d)
  BY <1>1, <1>8, ReconcileFollows
<1>10. Follows(c, y)
  BY <1>2, <1>5, FollowsOn
<1>11. Follows(c, z)
  BY <1>7, <1>10, FollowsOn
<1>12. Follows(c, d)
  BY <1>9, <1>11, FollowsOn
<1>13. QED
  BY <1>9, <1>12 DEF d

\* The limit of a customer's order is a price.
LEMMA LimitIsPrice ==
    ASSUME NEW c \in Engines, NEW a \in Arrivals
    PROVE  FlowLimit(c, a) \in Nat
<1> DEFINE factor == IF a.side = "buy" THEN Whole + a.slip ELSE Whole - a.slip
           limit == Bps(c.mark, factor)
<1>1. a.slip \in Slippages
  BY DEF Arrivals
<1>2. Slippages \subseteq 0..Whole
  BY ConfigAssumption DEF Validate
<1>3. a.slip \in 0..Whole /\ Whole \in Nat \ {0}
  <2>1. Whole \in Nat \ {0}
    BY DEF Whole
  <2>2. QED
    BY <1>1, <1>2, <2>1
<1> HIDE DEF factor
<1>4. factor \in Nat
  BY <1>3 DEF factor
<1>5. c.mark \in Nat
  BY DEF Engines
<1>6. c.mark * factor \in Nat
  <2>1. \A m \in Nat, k \in Nat : m * k \in Nat
    OBVIOUS
  <2>2. QED
    BY <1>4, <1>5, <2>1
<1>7. limit \in Nat
  <2>1. \A m \in Nat : m \div Whole \in Nat
    BY DEF Whole
  <2>2. QED
    BY <1>6, <2>1 DEF Bps
<1> HIDE DEF limit
<1>8. Max({1, limit}) \in Nat
  <2>1. \E x \in {1, limit} : \A y \in {1, limit} : x >= y
    BY <1>7
  <2>2. Max({1, limit}) \in {1, limit}
    BY <2>1, Zenon DEF Max
  <2>3. QED
    BY <1>7, <2>2
<1>9. QED
  BY <1>8, Zenon DEF FlowLimit, limit, factor

\* executeCustomerArrival().
LEMMA ArriveFollows ==
    ASSUME NEW c, Sane(c), NEW a \in Arrivals
    PROVE  Follows(c, Arrive(c, a)) /\ Fine(Arrive(c, a))
<1> DEFINE x == Place(c, Flow, a.side, FlowLimit(c, a), a.qty, "ioc")
           d == Arrive(c, a)
<1>1. d = Reconcile(x)
  BY Zenon DEF Arrive
<1>2. Placing(c, Flow, a.side, FlowLimit(c, a), a.qty, "ioc")
  <2>1. c \in Engines
    BY DEF Sane
  <2>2. FlowLimit(c, a) \in Nat /\ Flow \in DOMAIN c.accounts
    BY <2>1, LimitIsPrice, PlayerAndFlow
  <2>3. a.side \in Sides /\ a.qty \in Nat
    BY DEF Arrivals
  <2>4. "ioc" \in TIFs /\ "ioc" # "gtc"
    BY DEF TIFs
  <2>5. QED
    BY <2>2, <2>3, <2>4, Zenon DEF Placing
<1>3. Follows(c, x)
  BY <1>2, PlaceFollows
<1> HIDE DEF x, d
<1>4. Sane(x)
  BY <1>3 DEF Follows
<1>5. Follows(x, d) /\ Fine(d)
  BY <1>1, <1>4, ReconcileFollows
<1>6. Follows(c, d)
  BY <1>3, <1>5, FollowsOn
<1>7. QED
  BY <1>5, <1>6 DEF d

\* The customers of a turn are a sequence.
LEMMA TurnIsSequence ==
    ASSUME NEW arrivals \in TurnArrivals
    PROVE  arrivals \in Seq(Arrivals)
<1>1. CASE MaxOrdersPerTurn = 0
  <2>1. arrivals = <<>>
    BY <1>1 DEF TurnArrivals
  <2>2. QED
    BY <2>1
<1>2. CASE MaxOrdersPerTurn # 0
  <2>1. PICK k \in 1..MaxOrdersPerTurn : arrivals \in [1..k -> Arrivals]
    BY <1>2, Zenon DEF TurnArrivals
  <2>2. MaxOrdersPerTurn \in Nat
    BY ConfigAssumption DEF Validate
  <2>3. k \in Nat
    BY <2>2
  <2>4. QED
    BY <2>1, <2>3
<1>3. QED
  BY <1>1, <1>2

\* The customers of a turn.
LEMMA TradingFollows ==
    ASSUME NEW c, Sane(c), NEW bid \in Prices, NEW ask \in Prices, NEW arrivals \in TurnArrivals
    PROVE  /\ Follows(c, Trading(c, bid, ask, arrivals)) /\ Fine(Trading(c, bid, ask, arrivals))
<1> DEFINE x == ReplaceQuote(c, bid, ask, MaxOrderQty)
           K == {v \in Engines : Follows(c, v) /\ Fine(v)}
           d == Trading(c, bid, ask, arrivals)
<1>1. Follows(c, x) /\ Fine(x)
  BY ConfigFacts, ReplaceQuoteFollows
<1>2. arrivals \in Seq(Arrivals)
  BY TurnIsSequence
<1>3. d = FoldLeft(Arrive, x, arrivals)
  BY Zenon DEF Trading
<1> HIDE DEF x, d
<1>4. x \in K
  BY <1>1 DEF Fine, Sane
<1>5. ASSUME NEW v \in K, NEW i \in 1..Len(arrivals) PROVE Arrive(v, arrivals[i]) \in K
  <2>1. arrivals[i] \in Arrivals /\ Sane(v) /\ Follows(c, v)
    BY <1>2 DEF Fine
  <2>2. Follows(v, Arrive(v, arrivals[i])) /\ Fine(Arrive(v, arrivals[i]))
    BY <2>1, ArriveFollows
  <2>3. Follows(c, Arrive(v, arrivals[i]))
    BY <2>1, <2>2, FollowsOn
  <2>4. Arrive(v, arrivals[i]) \in Engines
    BY <2>2 DEF Fine, Sane
  <2>5. QED
    BY <2>2, <2>3, <2>4
<1> HIDE DEF K
<1>6. Visits!Fold(arrivals, x) \in K
  BY <1>2, <1>4, <1>5, Visits!FoldKeeps
<1>7. d \in K
  BY <1>3, <1>6, SameVisits
<1>8. QED
  BY <1>7 DEF K, d

-----------------------------------------------------------------------------
(* The end of a day, charges and the steps' effects *)

\* What an engine is in order for does not depend on the day.
LEMMA FineOf ==
    ASSUME NEW c, Fine(c), NEW d \in Engines, d.accounts = c.accounts, d.ledger = c.ledger,
           d.book = c.book, d.nextOrder = c.nextOrder
    PROVE  Fine(d)
<1>1. Sane(c) /\ Reserved(c)
  BY DEF Fine
<1>2. Venue(d) = Venue(c)
  BY Zenon DEF Venue
<1>3. Orderly(d)
  BY <1>1, <1>2, Zenon DEF Sane, Orderly, InOrder, Owned
<1>4. Journalled(d)
  BY <1>1, SameJournal DEF Sane
<1>5. \A id : ReservedFor(d, id) = ReservedFor(c, id)
  BY Zenon DEF ReservedFor
<1>6. Reserved(d)
  BY <1>1, <1>2, <1>5, Zenon DEF Reserved
<1>7. QED
  BY <1>3, <1>4, <1>6 DEF Fine, Sane

\* What a command that ends the day keeps.
Kept(c, d) ==
    /\ d.version = c.version /\ d.turn = c.turn /\ d.mark = c.mark /\ d.ok = c.ok /\ d.edge = c.edge
    /\ DOMAIN d.accounts = DOMAIN c.accounts
    /\ \A id \in DOMAIN c.accounts : /\ d.accounts[id].cash = c.accounts[id].cash
                                     /\ d.accounts[id].position = c.accounts[id].position
    /\ d.ledger[StorageAccount] = c.ledger[StorageAccount]

\* What the end of a real-time day makes of an engine.
Ended(c, reason, d) ==
    /\ Fine(d) /\ Kept(c, d)
    /\ d.isOver = TRUE /\ d.reason = reason
    /\ OrdersOf(d.book, Player) = {} /\ Book!LiveOrders(d.book) \subseteq Book!LiveOrders(c.book)
    /\ d.accounts[Player].reservedCash = 0 /\ d.accounts[Player].openSell = 0
    /\ d.accounts[Player].openBuy = 0

\* endSession() only says that the day is over, and why.
LEMMA EndSessionKeeps ==
    ASSUME NEW c \in Engines, NEW reason \in Reasons
    PROVE  LET d == EndSession(c, reason)
           IN  /\ d \in Engines /\ d.isOver = TRUE /\ d.reason = reason
               /\ d.version = c.version /\ d.turn = c.turn /\ d.mark = c.mark /\ d.ok = c.ok
               /\ d.edge = c.edge /\ d.accounts = c.accounts /\ d.ledger = c.ledger
               /\ d.book = c.book /\ d.nextOrder = c.nextOrder
BY DEF EndSession, Engines

\* Without orders there is nothing to reserve.
LEMMA NothingReserved ==
    ASSUME NEW c \in Engines, Orderly(c), NEW id, OrdersOf(c.book, id) = {}
    PROVE  ReservedFor(c, id).cash = 0 /\ ReservedFor(c, id).buy = 0 /\ ReservedFor(c, id).sell = 0
<1> DEFINE n == c.nextOrder
           L == OrdersOf(c.book, id)
<1>1. Book!Sound(c.book, n) /\ n \in Nat
  BY Zenon DEF Orderly, InOrder, Engines
<1> HIDE DEF n
<1>2. /\ ReservedFor(c, id).cash = Notional(L, "buy") /\ ReservedFor(c, id).buy = OpenQty(L, "buy")
      /\ ReservedFor(c, id).sell = OpenQty(L, "sell")
  BY <1>1, NeedsAreAmounts
<1>3. L = {}
  OBVIOUS
<1> HIDE DEF L
<1>4. IsFiniteSet(L) /\ L \subseteq Book!Order
  BY <1>3, FS_EmptySet
<1>5. OfSide(L, "buy") = {} /\ OfSide(L, "sell") = {}
  BY <1>3 DEF OfSide
<1>6. Notional(L, "buy") = 0 /\ OpenQty(L, "buy") = 0 /\ OpenQty(L, "sell") = 0
  BY <1>4, <1>5, SideSums
<1>7. QED
  BY <1>2, <1>6, Zenon

\* The end of a real-time day.
LEMMA EndRealTimeEnds ==
    ASSUME NEW c, Sane(c), NEW reason \in Reasons
    PROVE  Ended(c, reason, EndRealTime(c, reason))
<1> DEFINE x == CancelAll(c, Player)
           y == Reconcile(x)
           d == EndSession(y, reason)
<1>1. EndRealTime(c, reason) = d
  BY Zenon DEF EndRealTime
<1>2. Sane(x) /\ Cancelled(c, Player, x)
  <2>1. Follows(c, x) /\ Cancelled(c, Player, x)
    BY CancelFollows
  <2>2. QED
    BY <2>1, Zenon DEF Follows
<1> HIDE DEF x
<1>3. Fine(y) /\ Reconciled(x, y)
  BY <1>2, ReconcileFollows
<1> HIDE DEF y
<1>4. y \in Engines /\ x \in Engines /\ Orderly(x) /\ c \in Engines
  BY <1>2, <1>3, Zenon DEF Fine, Sane
<1>5. /\ d \in Engines /\ d.isOver = TRUE /\ d.reason = reason
      /\ d.version = y.version /\ d.turn = y.turn /\ d.mark = y.mark /\ d.ok = y.ok
      /\ d.edge = y.edge /\ d.accounts = y.accounts /\ d.ledger = y.ledger
      /\ d.book = y.book /\ d.nextOrder = y.nextOrder
  BY <1>4, EndSessionKeeps
<1> HIDE DEF d
<1>6. Fine(d)
  BY <1>3, <1>5, FineOf
<1>7. /\ x.version = c.version /\ x.turn = c.turn /\ x.mark = c.mark /\ x.ok = c.ok /\ x.edge = c.edge
      /\ x.accounts = c.accounts /\ x.ledger = c.ledger
      /\ Book!LiveOrders(x.book) = Book!LiveOrders(c.book) \ OrdersOf(c.book, Player)
  BY <1>2, Zenon DEF Cancelled, SameDay
<1>8. /\ y.version = x.version /\ y.turn = x.turn /\ y.mark = x.mark /\ y.ok = x.ok /\ y.edge = x.edge
      /\ y.book = x.book /\ DOMAIN y.accounts = DOMAIN x.accounts
      /\ \A id \in DOMAIN x.accounts : /\ y.accounts[id].cash = x.accounts[id].cash
                                       /\ y.accounts[id].position = x.accounts[id].position
      /\ y.ledger[StorageAccount] = x.ledger[StorageAccount]
  BY <1>3, Zenon DEF Reconciled, SameDay
<1>9. Kept(c, d)
  <2>1. d.version = c.version /\ d.turn = c.turn /\ d.mark = c.mark /\ d.ok = c.ok /\ d.edge = c.edge
    BY <1>5, <1>7, <1>8, Zenon
  <2>2. /\ DOMAIN d.accounts = DOMAIN c.accounts
        /\ \A id \in DOMAIN c.accounts : /\ d.accounts[id].cash = c.accounts[id].cash
                                         /\ d.accounts[id].position = c.accounts[id].position
    BY <1>5, <1>7, <1>8
  <2>3. d.ledger[StorageAccount] = c.ledger[StorageAccount]
    BY <1>5, <1>7, <1>8
  <2>4. QED
    BY <2>1, <2>2, <2>3, Zenon DEF Kept
<1>10. OrdersOf(x.book, Player) = {}
  <2>1. LiveOrders(x.book) = LiveOrders(c.book) \ OrdersOf(c.book, Player)
    BY <1>7, SameLive, Zenon
  <2>2. QED
    BY <2>1 DEF OrdersOf
<1>11. Player \in Venue(x)
  BY <1>4, PlayerAndFlow
<1>12. /\ ReservedFor(x, Player).cash = 0 /\ ReservedFor(x, Player).buy = 0 /\ ReservedFor(x, Player).sell = 0
  BY <1>4, <1>10, NothingReserved
<1>13. /\ y.accounts[Player].reservedCash = 0 /\ y.accounts[Player].openSell = 0
       /\ y.accounts[Player].openBuy = 0
  BY <1>3, <1>11, <1>12, Zenon DEF Reconciled
<1>14. Book!LiveOrders(d.book) \subseteq Book!LiveOrders(c.book)
  BY <1>5, <1>7, <1>8
<1>15. Ended(c, reason, d)
  BY <1>5, <1>6, <1>8, <1>9, <1>10, <1>13, <1>14, Zenon DEF Ended
<1>16. QED
  BY <1>1, <1>15, Zenon

\* playerMaintenanceReason() is one of two reasons.
LEMMA ReasonOfBreach ==
    ASSUME NEW c
    PROVE  BreachReason(c) \in {"insolvent", "margin_breach"} /\ BreachReason(c) \in Reasons
BY DEF BreachReason, Reasons

\* A day that is in breach ends, another goes on.
LEMMA EndOnBreachKeeps ==
    ASSUME NEW c, Fine(c)
    PROVE  /\ Fine(EndOnBreach(c)) /\ Kept(c, EndOnBreach(c))
           /\ Breached(c) => Ended(c, BreachReason(c), EndOnBreach(c))
           /\ ~Breached(c) => EndOnBreach(c) = c
<1>1. CASE Breached(c)
  <2>1. EndOnBreach(c) = EndRealTime(c, BreachReason(c))
    BY <1>1, Zenon DEF EndOnBreach
  <2>2. Ended(c, BreachReason(c), EndRealTime(c, BreachReason(c)))
    BY ReasonOfBreach, EndRealTimeEnds DEF Fine
  <2>3. QED
    BY <1>1, <2>1, <2>2, Zenon DEF Ended
<1>2. CASE ~Breached(c)
  <2>1. EndOnBreach(c) = c
    BY <1>2, Zenon DEF EndOnBreach
  <2>2. Kept(c, c)
    BY Zenon DEF Kept
  <2> DEFINE d == EndOnBreach(c)
  <2>3. d = c
    BY <2>1
  <2> HIDE DEF d
  <2>4. Fine(d) /\ Kept(c, d)
    BY <2>2, <2>3
  <2>5. QED
    BY <1>2, <2>3, <2>4 DEF d
<1>3. QED
  BY <1>1, <1>2

\* What is committed keeps what the candidate was in order for.
LEMMA CommitKeeps ==
    ASSUME NEW c, Fine(c), Commit(c)
    PROVE  /\ Fine(engine') /\ engine'.edge = 0 /\ engine'.ok = c.ok
           /\ engine'.version = c.version + 1 /\ engine'.turn = c.turn /\ engine'.mark = c.mark
           /\ engine'.isOver = c.isOver /\ engine'.reason = c.reason
           /\ engine'.book = c.book /\ engine'.accounts = c.accounts /\ engine'.ledger = c.ledger
           /\ engine'.nextOrder = c.nextOrder
<1> DEFINE v == c.version + 1
           d == [c EXCEPT !.version = v, !.edge = 0]
<1>1. engine' = d
  BY Zenon DEF Commit
<1>2. c \in Engines /\ v \in Nat
  BY DEF Fine, Sane, Engines
<1> HIDE DEF v
<1>3. /\ d \in Engines /\ d.edge = 0 /\ d.ok = c.ok
      /\ d.version = v /\ d.turn = c.turn /\ d.mark = c.mark
      /\ d.isOver = c.isOver /\ d.reason = c.reason
      /\ d.book = c.book /\ d.accounts = c.accounts /\ d.ledger = c.ledger
      /\ d.nextOrder = c.nextOrder
  <2> DEFINE e == [c EXCEPT !.version = v]
  <2>1. /\ e \in Engines /\ e.ok = c.ok /\ e.version = v /\ e.turn = c.turn /\ e.mark = c.mark
        /\ e.isOver = c.isOver /\ e.reason = c.reason
        /\ e.book = c.book /\ e.accounts = c.accounts /\ e.ledger = c.ledger
        /\ e.nextOrder = c.nextOrder
    BY <1>2 DEF Engines
  <2>2. d = [e EXCEPT !.edge = 0]
    BY <1>2 DEF Engines
  <2> HIDE DEF e, d
  <2>3. /\ d \in Engines /\ d.edge = 0 /\ d.ok = e.ok
        /\ d.version = e.version /\ d.turn = e.turn /\ d.mark = e.mark
        /\ d.isOver = e.isOver /\ d.reason = e.reason
        /\ d.book = e.book /\ d.accounts = e.accounts /\ d.ledger = e.ledger
        /\ d.nextOrder = e.nextOrder
    BY <2>1, <2>2 DEF Engines
  <2>4. QED
    BY <2>1, <2>3, Zenon
<1> HIDE DEF d
<1>4. Fine(d)
  BY <1>3, FineOf
<1>5. QED
  BY <1>1, <1>3, <1>4, Zenon DEF v

\* What an entry of balances that opens an account makes of others.
Opened(b, d, id, cash, position) ==
    /\ d[CashAvailable(id)] = b[CashAvailable(id)] + cash
    /\ d[CashReserved(id)] = b[CashReserved(id)]
    /\ d[InstrumentAvailable(id)] = b[InstrumentAvailable(id)] + position
    /\ d[InstrumentReserved(id)] = b[InstrumentReserved(id)]
    /\ \A j \in Ids \ {id} : \A a \in OwnAccounts(j) : d[a] = b[a]
    /\ d[StorageAccount] = b[StorageAccount]

\* The entry that opens an account balances, and is what the account begins with.
LEMMA OpeningEntry ==
    ASSUME NEW id \in Ids, NEW cash \in Int, NEW position \in Int
    PROVE  LET s == Opening(id, cash, position)
           IN  /\ s \in Seq(Postings) /\ Balanced(s)
               /\ \A b \in Balances : Opened(b, Posted(b, s), id, cash, position)
<1> DEFINE p1 == <<CashAvailable(id), cash>>
           p2 == <<OpeningCash(id), -cash>>
           p3 == <<InstrumentAvailable(id), position>>
           p4 == <<OpeningInstrument(id), -position>>
           s == Opening(id, cash, position)
<1>1. s = <<p1, p2, p3, p4>>
  BY DEF Opening
<1> HIDE DEF s
<1>2. p1 \in Postings /\ p2 \in Postings /\ p3 \in Postings /\ p4 \in Postings
  <2>1. -cash \in Int /\ -position \in Int
    OBVIOUS
  <2>2. /\ CashAvailable(id) \in LedgerAccounts /\ OpeningCash(id) \in LedgerAccounts
        /\ InstrumentAvailable(id) \in LedgerAccounts /\ OpeningInstrument(id) \in LedgerAccounts
    BY JournalAccounts
  <2>3. QED
    BY <2>1, <2>2 DEF Postings
<1>3. /\ p1[1] = CashAvailable(id) /\ p2[1] = OpeningCash(id) /\ p3[1] = InstrumentAvailable(id)
      /\ p4[1] = OpeningInstrument(id)
      /\ p1[2] = cash /\ p2[2] = -cash /\ p3[2] = position /\ p4[2] = -position
  BY Zenon
<1> HIDE DEF p1, p2, p3, p4
<1>4. /\ p1[1][1] = "cash" /\ p2[1][1] = "cash" /\ p3[1][1] = "instrument" /\ p4[1][1] = "instrument"
  BY <1>3, UnitsOfAccounts
<1>5. p1[2] = -p2[2] /\ p3[2] = -p4[2]
  BY <1>3
<1>6. /\ Neutral(s)
      /\ \A b \in Balances :
           /\ Posted(b, s) \in Balances
           /\ \A a \in LedgerAccounts : Posted(b, s)[a] =
                b[a] + Adds(p1, a) + Adds(p2, a) + Adds(p3, a) + Adds(p4, a)
  BY <1>1, <1>2, <1>4, <1>5, FourPostings
<1>7. s \in Seq(Postings) /\ Balanced(s)
  <2>1. Nothing \in Totals
    BY DEF Nothing, Totals
  <2>2. QED
    BY <1>6, <2>1, Zenon DEF Neutral, Balanced, Tallied
<1>8. ASSUME NEW b \in Balances PROVE Opened(b, Posted(b, s), id, cash, position)
  <2> DEFINE ca == CashAvailable(id)
             cr == CashReserved(id)
             ia == InstrumentAvailable(id)
             ir == InstrumentReserved(id)
             oc == OpeningCash(id)
             oi == OpeningInstrument(id)
             d == Posted(b, s)
  <2>1. /\ ca \in LedgerAccounts /\ cr \in LedgerAccounts /\ ia \in LedgerAccounts /\ ir \in LedgerAccounts
        /\ StorageAccount \in LedgerAccounts
    BY JournalAccounts
  <2>2. /\ ca # cr /\ ca # ia /\ ca # ir /\ cr # ia /\ cr # ir /\ ia # ir
        /\ oc \notin OwnAccounts(id) /\ oi \notin OwnAccounts(id)
        /\ \A j : oc \notin OwnAccounts(j) /\ oi \notin OwnAccounts(j)
        /\ StorageAccount \notin OwnAccounts(id)
    BY AccountsDiffer
  <2>3. StorageAccount # oc /\ StorageAccount # oi
    BY DEF StorageAccount, OpeningCash, OpeningInstrument
  <2>4. /\ \A j \in Ids \ {id} : ca \notin OwnAccounts(j) /\ ia \notin OwnAccounts(j)
        /\ \A j \in Ids : OwnAccounts(j) \subseteq LedgerAccounts
    BY AccountsDiffer, JournalAccounts DEF OwnAccounts
  <2>5. p1[1] = ca /\ p2[1] = oc /\ p3[1] = ia /\ p4[1] = oi
    BY <1>3
  <2>6. \A a \in LedgerAccounts : d[a] = b[a] + Adds(p1, a) + Adds(p2, a) + Adds(p3, a) + Adds(p4, a)
    BY <1>6
  <2>7. ca \in OwnAccounts(id) /\ cr \in OwnAccounts(id) /\ ia \in OwnAccounts(id) /\ ir \in OwnAccounts(id)
    BY DEF OwnAccounts
  <2> HIDE DEF ca, cr, ia, ir, oc, oi, d
  <2>8. \A a \in LedgerAccounts : b[a] \in Int
    BY DEF Balances
  <2>9. ca # oc /\ ca # oi /\ cr # oc /\ cr # oi /\ ia # oc /\ ia # oi /\ ir # oc /\ ir # oi
        /\ StorageAccount # ca /\ StorageAccount # ia
    BY <2>2, <2>7
  <2>10. \A a \in LedgerAccounts : a # ca /\ a # oc /\ a # ia /\ a # oi => d[a] = b[a]
    BY <2>5, <2>6, <2>8 DEF Adds
  <2>11. d[ca] = b[ca] + cash /\ d[ia] = b[ia] + position
    BY <1>3, <2>1, <2>2, <2>5, <2>6, <2>8, <2>9 DEF Adds
  <2>12. d[cr] = b[cr] /\ d[ir] = b[ir] /\ d[StorageAccount] = b[StorageAccount]
    BY <2>1, <2>2, <2>3, <2>9, <2>10
  <2>13. \A j \in Ids \ {id} : \A a \in OwnAccounts(j) : d[a] = b[a]
    BY <2>2, <2>4, <2>10
  <2>14. QED
    BY <2>11, <2>12, <2>13, Zenon DEF Opened, ca, cr, ia, ir, d
<1>9. QED
  BY <1>7, <1>8, Zenon DEF s

\* Two postings of cash that cancel out.
LEMMA PairEntry ==
    ASSUME NEW p \in Postings, NEW q \in Postings, p[1][1] = "cash", q[1][1] = "cash", p[2] = -q[2]
    PROVE  /\ <<p, q>> \in Seq(Postings) /\ Balanced(<<p, q>>)
           /\ \A b \in Balances :
                /\ Posted(b, <<p, q>>) \in Balances
                /\ \A a \in LedgerAccounts : Posted(b, <<p, q>>)[a] = b[a] + Adds(p, a) + Adds(q, a)
<1>1. p[2] \in Int /\ q[2] \in Int
  BY DEF Postings
<1>2. Balanced(<<p, q>>)
  <2> DEFINE t1 == Tally(Nothing, p)
             t2 == Tally(t1, q)
  <2>1. Nothing \in Totals /\ \A unit \in Units : Nothing[unit] = 0
    BY DEF Nothing, Totals
  <2>2. t1 \in Totals /\ \A unit \in Units : t1[unit] = Nothing[unit] + AddsUnit(p, unit)
    BY <2>1, TallyAt
  <2>3. t2 \in Totals /\ \A unit \in Units : t2[unit] = t1[unit] + AddsUnit(q, unit)
    BY <2>2, TallyAt
  <2>4. Tallied(Nothing, <<p, q>>) = t2
    BY TalliedParts
  <2> HIDE DEF t1, t2
  <2>5. \A unit \in Units : t2[unit] = 0
    BY <1>1, <2>1, <2>2, <2>3 DEF AddsUnit
  <2>6. t2 = Nothing
    BY <2>1, <2>3, <2>5 DEF Totals
  <2>7. QED
    BY <2>4, <2>6, Zenon DEF Balanced, Tallied
<1>3. ASSUME NEW b \in Balances
      PROVE  /\ Posted(b, <<p, q>>) \in Balances
             /\ \A a \in LedgerAccounts : Posted(b, <<p, q>>)[a] = b[a] + Adds(p, a) + Adds(q, a)
  <2> DEFINE b1 == Post(b, p)
             b2 == Post(b1, q)
  <2>1. b1 \in Balances /\ \A a \in LedgerAccounts : b1[a] = b[a] + Adds(p, a)
    BY PostAt
  <2>2. b2 \in Balances /\ \A a \in LedgerAccounts : b2[a] = b1[a] + Adds(q, a)
    BY <2>1, PostAt
  <2>3. Posted(b, <<p, q>>) = b2
    BY PostedParts
  <2> HIDE DEF b1, b2
  <2>4. QED
    BY <2>1, <2>2, <2>3
<1>4. QED
  BY <1>2, <1>3

\* What chargeStorage() makes of an engine.
Charged(c, d) ==
    /\ d \in Engines /\ SameDay(c, d) /\ d.ok = c.ok /\ d.edge = c.edge /\ d.book = c.book
    /\ d.nextOrder = c.nextOrder /\ DOMAIN d.accounts = DOMAIN c.accounts
    /\ \A id \in DOMAIN c.accounts : id # Player => d.accounts[id] = c.accounts[id]
    /\ d.accounts[Player] = [c.accounts[Player] EXCEPT !.cash = @ - Storage(c)]
    /\ d.ledger \in Balances
    /\ \A a \in LedgerAccounts : a # CashAvailable(Player) /\ a # StorageAccount => d.ledger[a] = c.ledger[a]
    /\ d.ledger[CashAvailable(Player)] = c.ledger[CashAvailable(Player)] - Storage(c)
    /\ d.ledger[StorageAccount] = c.ledger[StorageAccount] + Storage(c)

\* The carry of an account is an amount.
LEMMA StorageIsAmount ==
    ASSUME NEW c \in Engines
    PROVE  Storage(c) \in Nat
<1>1. StoragePerUnit \in Nat
  BY ConfigFacts
<1>2. c.accounts[Player].position \in Int
  BY AccountsOf DEF Account
<1>3. AbsQty(c.accounts[Player].position) \in Nat
  BY <1>2 DEF AbsQty
<1>4. \A x, y \in Nat : x * y \in Nat
  OBVIOUS
<1>5. QED
  BY <1>1, <1>3, <1>4 DEF Storage

\* The carry is charged in the account and in the journal.
LEMMA ChargeStorageCharges ==
    ASSUME NEW c \in Engines
    PROVE  Charged(c, ChargeStorage(c))
<1> DEFINE m == Storage(c)
           p == <<CashAvailable(Player), -m>>
           q == <<StorageAccount, m>>
           s == <<p, q>>
           l == Posted(c.ledger, s)
           e == PostEntry(c, s)
           D == DOMAIN c.accounts
           x == c.accounts[Player]
           y == [x EXCEPT !.cash = @ - m]
           as == [c.accounts EXCEPT ![Player] = y]
           d == ChargeStorage(c)
<1>1. m \in Nat /\ -m \in Int /\ Player \in Ids
  BY StorageIsAmount DEF Ids
<1>2. d = [e EXCEPT !.accounts[Player].cash = @ - m]
  BY Zenon DEF ChargeStorage
<1>3. p[1] = CashAvailable(Player) /\ p[2] = -m /\ q[1] = StorageAccount /\ q[2] = m
  BY Zenon
<1> HIDE DEF m, d
<1>4. p \in Postings /\ q \in Postings
  BY <1>1, JournalAccounts DEF Postings
<1> HIDE DEF p, q
<1>5. p[1][1] = "cash" /\ q[1][1] = "cash" /\ p[2] = -q[2]
  BY <1>1, <1>3, UnitsOfAccounts
<1>6. /\ s \in Seq(Postings) /\ Balanced(s)
      /\ \A b \in Balances :
           /\ Posted(b, s) \in Balances
           /\ \A a \in LedgerAccounts : Posted(b, s)[a] = b[a] + Adds(p, a) + Adds(q, a)
  BY <1>4, <1>5, PairEntry
<1> HIDE DEF s
<1>7. c.ledger \in Balances /\ l \in Balances
      /\ \A a \in LedgerAccounts : l[a] = c.ledger[a] + Adds(p, a) + Adds(q, a)
  BY <1>6 DEF Engines
<1>8. e = [c EXCEPT !.ledger = l]
  BY <1>6, PostEntryIs
<1> HIDE DEF l, e
<1>9. /\ e \in Engines /\ SameDay(c, e) /\ e.ok = c.ok /\ e.edge = c.edge /\ e.book = c.book
      /\ e.nextOrder = c.nextOrder /\ e.accounts = c.accounts /\ e.ledger = l
  BY <1>7, <1>8 DEF Engines, SameDay
<1>10. c.accounts \in [D -> Account] /\ Player \in D
  BY AccountsOf
<1>11. x \in Account /\ y \in Account
  <2>1. x \in Account
    BY <1>10
  <2> HIDE DEF x
  <2>2. y \in Account
    BY <1>1, <2>1 DEF Account
  <2>3. QED
    BY <2>1, <2>2
<1>12. d = [e EXCEPT !.accounts = as]
  <2>1. d = [e EXCEPT !.accounts = [e.accounts EXCEPT ![Player] = [e.accounts[Player] EXCEPT !.cash = e.accounts[Player].cash - m]]]
    BY <1>2, Zenon
  <2>2. QED
    BY <1>9, <2>1, Zenon
<1> HIDE DEF y
<1>13. as \in [D -> Account] /\ DOMAIN as = D /\ as[Player] = y /\ \A id \in D : id # Player => as[id] = c.accounts[id]
  BY <1>10, <1>11
<1>14. as \in Accounts
  BY <1>13, AccountsLike
<1> HIDE DEF as
<1>15. /\ d \in Engines /\ SameDay(e, d) /\ d.ok = e.ok /\ d.edge = e.edge /\ d.book = e.book
       /\ d.nextOrder = e.nextOrder /\ d.accounts = as /\ d.ledger = e.ledger
  BY <1>9, <1>12, <1>14 DEF Engines, SameDay
<1>16. /\ \A a \in LedgerAccounts : a # CashAvailable(Player) /\ a # StorageAccount => l[a] = c.ledger[a]
       /\ l[CashAvailable(Player)] = c.ledger[CashAvailable(Player)] - m
       /\ l[StorageAccount] = c.ledger[StorageAccount] + m
  <2> DEFINE ca == CashAvailable(Player)
  <2>1. ca \in LedgerAccounts /\ StorageAccount \in LedgerAccounts /\ ca # StorageAccount
    BY <1>1, JournalAccounts, AccountsDiffer DEF OwnAccounts
  <2>2. p[1] = ca /\ q[1] = StorageAccount
    BY <1>3
  <2>3. \A a \in LedgerAccounts : c.ledger[a] \in Int
    BY <1>7 DEF Balances
  <2> HIDE DEF ca
  <2>4. QED
    BY <1>1, <1>3, <1>7, <2>1, <2>2, <2>3 DEF Adds, ca
<1>17. SameDay(c, d)
  BY <1>9, <1>15, Zenon DEF SameDay
<1>18. d.ledger = l /\ d.ledger \in Balances
  BY <1>7, <1>9, <1>15
<1>19. /\ DOMAIN d.accounts = DOMAIN c.accounts
       /\ \A id \in DOMAIN c.accounts : id # Player => d.accounts[id] = c.accounts[id]
       /\ d.accounts[Player] = y
  BY <1>13, <1>15
<1>20. /\ d \in Engines /\ d.ok = c.ok /\ d.edge = c.edge /\ d.book = c.book /\ d.nextOrder = c.nextOrder
  BY <1>9, <1>15, Zenon
<1>21. QED
  BY <1>16, <1>17, <1>18, <1>19, <1>20, Zenon DEF Charged, d, m, y, x

\* What is charged leaves everything else in order.
LEMMA ChargeKeeps ==
    ASSUME NEW c, Fine(c)
    PROVE  LET d == ChargeStorage(c)
           IN  /\ Fine(d) /\ SameDay(c, d) /\ d.ok = c.ok /\ d.edge = c.edge /\ d.book = c.book
               /\ d.nextOrder = c.nextOrder /\ DOMAIN d.accounts = DOMAIN c.accounts
               /\ Equity(d, Player) = Equity(c, Player) - Storage(c)
               /\ d.accounts[Player].position = c.accounts[Player].position
<1> DEFINE d == ChargeStorage(c)
           m == Storage(c)
           x == c.accounts[Player]
           y == d.accounts[Player]
<1>1. c \in Engines /\ Orderly(c) /\ Journalled(c) /\ Reserved(c)
  BY DEF Fine, Sane
<1>2. Charged(c, d) /\ m \in Nat
  BY <1>1, ChargeStorageCharges, StorageIsAmount
<1> HIDE DEF d
<1>3. /\ d \in Engines /\ SameDay(c, d) /\ d.ok = c.ok /\ d.edge = c.edge /\ d.book = c.book
      /\ d.nextOrder = c.nextOrder /\ DOMAIN d.accounts = DOMAIN c.accounts
      /\ \A id \in DOMAIN c.accounts : id # Player => d.accounts[id] = c.accounts[id]
      /\ d.accounts[Player] = [c.accounts[Player] EXCEPT !.cash = @ - Storage(c)]
      /\ \A a \in LedgerAccounts : a # CashAvailable(Player) /\ a # StorageAccount => d.ledger[a] = c.ledger[a]
      /\ d.ledger[CashAvailable(Player)] = c.ledger[CashAvailable(Player)] - Storage(c)
  BY <1>2, Zenon DEF Charged
<1>4. x \in Account /\ Player \in DOMAIN c.accounts /\ Player \in Ids /\ DOMAIN c.accounts \subseteq Ids
  BY <1>1, AccountsOf
<1>5. /\ y.cash = x.cash - m /\ y.position = x.position /\ y.reservedCash = x.reservedCash
      /\ y.openBuy = x.openBuy /\ y.openSell = x.openSell
  <2>1. y = [x EXCEPT !.cash = x.cash - m]
    BY <1>3, Zenon
  <2> HIDE DEF x, y, m
  <2>2. QED
    BY <1>2, <1>4, <2>1 DEF Account
<1>6. Venue(d) = Venue(c)
  BY <1>3, SameVenue
<1>7. Orderly(d)
  BY <1>1, <1>3, <1>6, Zenon DEF Orderly, InOrder, Owned
<1>8. \A id : ReservedFor(d, id) = ReservedFor(c, id)
  BY <1>3, Zenon DEF ReservedFor
<1>9. Reserved(d)
  <2> SUFFICES ASSUME NEW id \in Venue(c)
               PROVE  /\ d.accounts[id].reservedCash = c.accounts[id].reservedCash
                      /\ d.accounts[id].openBuy = c.accounts[id].openBuy
                      /\ d.accounts[id].openSell = c.accounts[id].openSell
    BY <1>1, <1>6, <1>8, Zenon DEF Reserved
  <2>1. id \in DOMAIN c.accounts
    BY DEF Venue
  <2>2. CASE id = Player
    BY <1>5, <2>2, Zenon
  <2>3. CASE id # Player
    BY <1>3, <2>1, <2>3, Zenon
  <2>4. QED
    BY <2>2, <2>3
<1>10. \A id \in Ids : id # Player => \A a \in OwnAccounts(id) : d.ledger[a] = c.ledger[a]
  <2>1. TAKE id \in Ids
  <2>2. OwnAccounts(id) \subseteq LedgerAccounts
    BY JournalAccounts DEF OwnAccounts
  <2>3. id # Player => CashAvailable(Player) \notin OwnAccounts(id)
    BY AccountsDiffer DEF OwnAccounts
  <2>4. StorageAccount \notin OwnAccounts(id)
    BY AccountsDiffer
  <2>5. QED
    BY <1>3, <2>2, <2>3, <2>4, Zenon
<1>11. Journalled(d)
  <2>1. ASSUME NEW id \in DOMAIN c.accounts PROVE Agrees(d, id)
    <3>1. Agrees(c, id) /\ id \in Ids
      BY <1>1, <1>4 DEF Journalled
    <3>2. CASE id # Player
      <4>1. \A a \in OwnAccounts(id) : d.ledger[a] = c.ledger[a]
        BY <1>10, <3>1, <3>2
      <4>2. /\ CashAvailable(id) \in OwnAccounts(id) /\ CashReserved(id) \in OwnAccounts(id)
            /\ InstrumentAvailable(id) \in OwnAccounts(id) /\ InstrumentReserved(id) \in OwnAccounts(id)
        BY DEF OwnAccounts
      <4>3. /\ d.ledger[CashAvailable(id)] = c.ledger[CashAvailable(id)]
            /\ d.ledger[CashReserved(id)] = c.ledger[CashReserved(id)]
            /\ d.ledger[InstrumentAvailable(id)] = c.ledger[InstrumentAvailable(id)]
            /\ d.ledger[InstrumentReserved(id)] = c.ledger[InstrumentReserved(id)]
        BY <4>1, <4>2, Zenon
      <4>4. d.accounts[id] = c.accounts[id]
        BY <1>3, <3>2
      <4>5. QED
        BY <3>1, <4>3, <4>4, Zenon DEF Agrees
    <3>3. CASE id = Player
      <4> DEFINE ca == CashAvailable(Player)
                 cr == CashReserved(Player)
                 ia == InstrumentAvailable(Player)
                 ir == InstrumentReserved(Player)
                 b == c.ledger
                 l == d.ledger
      <4>1. /\ ca \in LedgerAccounts /\ cr \in LedgerAccounts /\ ia \in LedgerAccounts /\ ir \in LedgerAccounts
            /\ cr # ca /\ ia # ca /\ ir # ca /\ cr # StorageAccount /\ ia # StorageAccount /\ ir # StorageAccount
        BY <1>4, JournalAccounts, AccountsDiffer DEF OwnAccounts
      <4>2. l[ca] = b[ca] - m /\ l[cr] = b[cr] /\ l[ia] = b[ia] /\ l[ir] = b[ir]
        BY <1>3, <4>1, Zenon
      <4>3. /\ b[ca] + b[cr] = x.cash /\ b[ia] + b[ir] = x.position /\ b[cr] = x.reservedCash /\ b[ir] = x.openSell
        BY <3>1, <3>3, Zenon DEF Agrees
      <4>4. b[ca] \in Int /\ b[cr] \in Int /\ x.cash \in Int
        BY <1>1, <1>4, <4>1 DEF Engines, Balances, Account
      <4> HIDE DEF ca, cr, ia, ir, b, l, m, x, y
      <4>5. l[ca] + l[cr] = y.cash
        BY <1>2, <1>5, <4>2, <4>3, <4>4
      <4>6. l[ia] + l[ir] = y.position /\ l[cr] = y.reservedCash /\ l[ir] = y.openSell
        BY <1>5, <4>2, <4>3, Zenon
      <4>7. QED
        BY <3>3, <4>5, <4>6, Zenon DEF Agrees, ca, cr, ia, ir, l, y
    <3>4. QED
      BY <3>2, <3>3
  <2>2. ASSUME NEW id \in Ids \ DOMAIN c.accounts PROVE Blank(d, id)
    <3>1. Blank(c, id) /\ id # Player
      BY <1>1, <1>4 DEF Journalled
    <3>2. \A a \in OwnAccounts(id) : d.ledger[a] = c.ledger[a]
      BY <1>10, <3>1
    <3>3. /\ CashAvailable(id) \in OwnAccounts(id) /\ CashReserved(id) \in OwnAccounts(id)
          /\ InstrumentAvailable(id) \in OwnAccounts(id) /\ InstrumentReserved(id) \in OwnAccounts(id)
      BY DEF OwnAccounts
    <3>4. QED
      BY <3>1, <3>2, <3>3, Zenon DEF Blank
  <2>3. QED
    BY <1>3, <2>1, <2>2, Zenon DEF Journalled
<1>12. Equity(d, Player) = Equity(c, Player) - m
  <2> DEFINE k == c.mark
             q == k * x.position
  <2>1. k \in Int /\ x.position \in Int /\ x.cash \in Int
    BY <1>1, <1>4 DEF Engines, Account
  <2>2. q \in Int
    <3>1. \A u, v \in Int : u * v \in Int
      OBVIOUS
    <3>2. QED
      BY <2>1, <3>1
  <2>3. Equity(c, Player) = x.cash + q
    BY Zenon DEF Equity
  <2>4. Equity(d, Player) = y.cash + q
    BY <1>3, <1>5, Zenon DEF Equity, SameDay
  <2> HIDE DEF q, m, x, y
  <2>5. QED
    BY <1>2, <1>5, <2>1, <2>2, <2>3, <2>4
<1>13. Fine(d)
  BY <1>3, <1>7, <1>9, <1>11 DEF Fine, Sane
<1>14. QED
  BY <1>3, <1>5, <1>12, <1>13, Zenon DEF d, m, x, y

\* An engine with one more account, and the entry that opens it.
WithAccount(c, id) ==
    [c EXCEPT !.accounts =
        [d \in DOMAIN @ \cup {id} |-> IF d = id THEN NewAccount(BotCash, BotPosition) ELSE @[d]]]

\* An account opens without orders, and the journal has what it begins with.
LEMMA AccountOpens ==
    ASSUME NEW c, Fine(c), NEW id \in Ids, id \notin DOMAIN c.accounts
    PROVE  LET e == PostEntry(WithAccount(c, id), Opening(id, BotCash, BotPosition))
           IN  /\ Fine(e) /\ SameDay(c, e) /\ e.ok = c.ok /\ e.edge = c.edge /\ e.book = c.book
               /\ DOMAIN e.accounts = DOMAIN c.accounts \cup {id}
               /\ \A j \in DOMAIN c.accounts : e.accounts[j] = c.accounts[j]
               /\ e.accounts[id] = NewAccount(BotCash, BotPosition)
               /\ e.ledger[StorageAccount] = c.ledger[StorageAccount]
<1> DEFINE D == DOMAIN c.accounts
           new == NewAccount(BotCash, BotPosition)
           as == [d \in D \cup {id} |-> IF d = id THEN new ELSE c.accounts[d]]
           o == WithAccount(c, id)
           s == Opening(id, BotCash, BotPosition)
           b == c.ledger
           l == Posted(b, s)
           e == PostEntry(o, s)
<1>1. c \in Engines /\ Orderly(c) /\ Journalled(c) /\ Reserved(c)
  BY DEF Fine, Sane
<1>2. /\ D \in Members /\ D \subseteq Ids /\ Player \in D /\ Flow \in D /\ IsFiniteSet(D)
      /\ c.accounts \in [D -> Account]
  BY <1>1, AccountsOf
<1>3. BotCash \in Int /\ BotPosition \in Int
  BY ConfigFacts
<1>4. /\ new \in Account /\ new.cash = BotCash /\ new.position = BotPosition
      /\ new.reservedCash = 0 /\ new.openBuy = 0 /\ new.openSell = 0
  BY <1>3 DEF NewAccount, Account
<1>5. o = [c EXCEPT !.accounts = as]
  BY Zenon DEF WithAccount
<1> HIDE DEF new, o, e, s, D
<1>6. D \cup {id} \in Members
  <2>1. IsFiniteSet(D \cup {id})
    BY <1>2, FS_AddElement
  <2>2. QED
    BY <1>2, <2>1 DEF Members
<1>7. /\ as \in [D \cup {id} -> Account] /\ DOMAIN as = D \cup {id} /\ as[id] = new
      /\ \A j \in D : as[j] = c.accounts[j]
  BY <1>2, <1>4 DEF D
<1>8. as \in Accounts
  BY <1>6, <1>7 DEF Accounts
<1> HIDE DEF as
<1>9. /\ o \in Engines /\ SameDay(c, o) /\ o.ok = c.ok /\ o.edge = c.edge /\ o.book = c.book
      /\ o.nextOrder = c.nextOrder /\ o.accounts = as /\ o.ledger = c.ledger
  BY <1>1, <1>5, <1>8 DEF Engines, SameDay
<1>10. s \in Seq(Postings) /\ Balanced(s) /\ Opened(b, l, id, BotCash, BotPosition)
  <2>1. b \in Balances
    BY <1>1 DEF Engines
  <2>2. QED
    BY <1>3, <2>1, OpeningEntry DEF s
<1>11. e = [o EXCEPT !.ledger = l] /\ l \in Balances
  <2>1. b \in Balances
    BY <1>1 DEF Engines
  <2>2. PostEntry(o, s) = [o EXCEPT !.ledger = Posted(o.ledger, s)]
    BY <1>9, <1>10, PostEntryIs
  <2>3. l \in Balances
    BY <1>10, <2>1, PostedIsBalances
  <2>4. QED
    BY <1>9, <2>2, <2>3, Zenon DEF e
<1> HIDE DEF l
<1>12. /\ e \in Engines /\ SameDay(o, e) /\ e.ok = o.ok /\ e.edge = o.edge /\ e.book = o.book
       /\ e.nextOrder = o.nextOrder /\ e.accounts = o.accounts /\ e.ledger = l
  BY <1>9, <1>11 DEF Engines, SameDay
<1>13. /\ SameDay(c, e) /\ e.ok = c.ok /\ e.edge = c.edge /\ e.book = c.book
       /\ e.nextOrder = c.nextOrder /\ e.accounts = as
  BY <1>9, <1>12, Zenon DEF SameDay
<1>14. /\ DOMAIN e.accounts = D \cup {id} /\ e.accounts[id] = new
       /\ \A j \in D : e.accounts[j] = c.accounts[j]
  BY <1>7, <1>13
<1>15. Venue(c) \subseteq Venue(e) /\ Venue(e) \subseteq Venue(c) \cup {id}
  BY <1>14 DEF Venue, D
<1>16. Orderly(e)
  BY <1>1, <1>13, <1>14 DEF Orderly, InOrder, Owned, D
<1>17. \A j : ReservedFor(e, j) = ReservedFor(c, j)
  BY <1>13, Zenon DEF ReservedFor
<1>18. Reserved(e)
  <2>1. ASSUME NEW j \in Venue(c)
        PROVE  /\ e.accounts[j].reservedCash = ReservedFor(c, j).cash
               /\ e.accounts[j].openBuy = ReservedFor(c, j).buy
               /\ e.accounts[j].openSell = ReservedFor(c, j).sell
    <3>1. e.accounts[j] = c.accounts[j]
      BY <1>14 DEF Venue, D
    <3>2. QED
      BY <1>1, <3>1, Zenon DEF Reserved
  <2>2. /\ e.accounts[id].reservedCash = ReservedFor(c, id).cash
        /\ e.accounts[id].openBuy = ReservedFor(c, id).buy
        /\ e.accounts[id].openSell = ReservedFor(c, id).sell
    <3>1. OrdersOf(c.book, id) = {}
      <4>1. \A x \in LiveOrders(c.book) : x.owner \in D
        BY <1>1, SameLive, Zenon DEF Orderly, InOrder, Owned, D
      <4>2. QED
        BY <4>1, Zenon DEF OrdersOf, D
    <3>2. ReservedFor(c, id).cash = 0 /\ ReservedFor(c, id).buy = 0 /\ ReservedFor(c, id).sell = 0
      BY <1>1, <3>1, NothingReserved
    <3>3. QED
      BY <1>4, <1>14, <3>2, Zenon
  <2>3. QED
    BY <1>15, <1>17, <2>1, <2>2, Zenon DEF Reserved
<1>19. Journalled(e)
  <2>0. /\ \A j \in Ids \ {id} : \A a \in OwnAccounts(j) : l[a] = b[a]
        /\ l[CashAvailable(id)] = b[CashAvailable(id)] + BotCash
        /\ l[CashReserved(id)] = b[CashReserved(id)]
        /\ l[InstrumentAvailable(id)] = b[InstrumentAvailable(id)] + BotPosition
        /\ l[InstrumentReserved(id)] = b[InstrumentReserved(id)]
    BY <1>10, Zenon DEF Opened
  <2>1. ASSUME NEW j \in Ids \ {id}
        PROVE  /\ l[CashAvailable(j)] = b[CashAvailable(j)] /\ l[CashReserved(j)] = b[CashReserved(j)]
               /\ l[InstrumentAvailable(j)] = b[InstrumentAvailable(j)]
               /\ l[InstrumentReserved(j)] = b[InstrumentReserved(j)]
    <3>1. /\ CashAvailable(j) \in OwnAccounts(j) /\ CashReserved(j) \in OwnAccounts(j)
          /\ InstrumentAvailable(j) \in OwnAccounts(j) /\ InstrumentReserved(j) \in OwnAccounts(j)
      BY DEF OwnAccounts
    <3>2. QED
      BY <2>0, <3>1, Zenon
  <2>2. ASSUME NEW j \in D PROVE Agrees(e, j)
    <3>1. Agrees(c, j) /\ j \in Ids \ {id}
      BY <1>1, <1>2 DEF Journalled, D
    <3>2. e.accounts[j] = c.accounts[j] /\ e.ledger = l
      BY <1>12, <1>14
    <3>3. QED
      BY <2>1, <3>1, <3>2, Zenon DEF Agrees
  <2>3. Agrees(e, id)
    <3>1. Blank(c, id)
      BY <1>1, Zenon DEF Journalled
    <3>2. /\ b[CashAvailable(id)] = 0 /\ b[CashReserved(id)] = 0 /\ b[InstrumentAvailable(id)] = 0
          /\ b[InstrumentReserved(id)] = 0
      BY <3>1, Zenon DEF Blank
    <3>3. /\ l[CashAvailable(id)] = BotCash /\ l[CashReserved(id)] = 0
          /\ l[InstrumentAvailable(id)] = BotPosition /\ l[InstrumentReserved(id)] = 0
      BY <1>3, <2>0, <3>2
    <3>4. /\ l[CashAvailable(id)] + l[CashReserved(id)] = BotCash
          /\ l[InstrumentAvailable(id)] + l[InstrumentReserved(id)] = BotPosition
      BY <1>3, <3>3
    <3>5. e.accounts[id] = new /\ e.ledger = l
      BY <1>12, <1>14
    <3>6. QED
      BY <1>4, <3>3, <3>4, <3>5, Zenon DEF Agrees
  <2>4. ASSUME NEW j \in Ids \ (D \cup {id}) PROVE Blank(e, j)
    <3>1. Blank(c, j) /\ j \in Ids \ {id}
      BY <1>1 DEF Journalled, D
    <3>2. e.ledger = l
      BY <1>12
    <3>3. QED
      BY <2>1, <3>1, <3>2, Zenon DEF Blank
  <2>5. QED
    BY <1>14, <2>2, <2>3, <2>4 DEF Journalled
<1>20. Fine(e)
  BY <1>12, <1>16, <1>18, <1>19 DEF Fine, Sane
<1>21. e.ledger[StorageAccount] = c.ledger[StorageAccount]
  BY <1>10, <1>12, Zenon DEF Opened
<1>22. QED
  BY <1>13, <1>14, <1>20, <1>21, Zenon DEF e, o, s, D, new

\* Taking a live order out of the book.
LEMMA RemoveFollows ==
    ASSUME NEW c, Sane(c), NEW o \in Book!LiveOrders(c.book)
    PROVE  LET d == [c EXCEPT !.book = RemoveOrder(c.book, o)]
           IN  Follows(c, d) /\ d.accounts = c.accounts /\ d.ok = c.ok
<1> DEFINE b0 == c.book
           b == RemoveOrder(b0, o)
           d == [c EXCEPT !.book = b]
<1>1. c \in Engines /\ InOrder(c, b0) /\ Journalled(c) /\ o \in Book!LiveOrders(b0)
  BY DEF Sane, Orderly
<1> HIDE DEF b0
<1>2. InOrder(c, b)
  BY <1>1, RemoveKeeps
<1> HIDE DEF b
<1>3. /\ d \in Engines /\ SameDay(c, d) /\ d.ok = c.ok /\ d.edge = c.edge
      /\ d.nextOrder = c.nextOrder
      /\ d.accounts = c.accounts /\ d.ledger = c.ledger /\ d.book = b
      /\ Orderly(d)
  BY <1>1, <1>2, OtherBook
<1> HIDE DEF d
<1>4. Journalled(d)
  BY <1>1, <1>3, SameJournal
<1>5. Equity(d, Player) = Equity(c, Player)
  BY <1>3, Zenon DEF Equity, SameDay
<1>6. Sane(d)
  BY <1>3, <1>4, Zenon DEF Sane
<1>7. Follows(c, d) /\ d.accounts = c.accounts /\ d.ok = c.ok
  BY <1>3, <1>5, <1>6, Zenon DEF Follows
<1>8. QED
  BY <1>7, Zenon DEF d, b, b0

\* A live order is an order of an account of the engine.
LEMMA LiveIs ==
    ASSUME NEW c, Sane(c), NEW o \in Book!LiveOrders(c.book)
    PROVE  o \in Book!Order /\ o.owner \in DOMAIN c.accounts
<1> DEFINE n == c.nextOrder
<1>1. Book!Sound(c.book, n) /\ n \in Nat /\ Owned(c, c.book)
  BY Zenon DEF Sane, Orderly, InOrder, Engines
<1> HIDE DEF n
<1>2. OrdersOf(c.book, o.owner) \subseteq Book!Order
  BY <1>1, NeedsAreAmounts
<1>3. o \in OrdersOf(c.book, o.owner)
  BY SameLive, Zenon DEF OrdersOf
<1>4. o.owner \in DOMAIN c.accounts
  BY <1>1, Zenon DEF Owned
<1>5. QED
  BY <1>2, <1>3, <1>4

\* replaceLimit(): the replacement is submitted to the book without the order.
LEMMA ReplaceFollows ==
    ASSUME NEW c, Sane(c), NEW old \in Book!LiveOrders(c.book), NEW price \in Prices,
           NEW qty \in Nat, NEW tif \in TIFs
    PROVE  LET o == NewOrder(c.nextOrder + 1, old.owner, old.side, price, qty, tif)
               r == ReplaceOrder(c.book, old, o)
           IN  Follows(c, Settle([c EXCEPT !.nextOrder = c.nextOrder + 1], r))
<1> DEFINE k == c.nextOrder + 1
           o == NewOrder(k, old.owner, old.side, price, qty, tif)
           r == ReplaceOrder(c.book, old, o)
           b0 == c.book
           b == RemoveOrder(b0, old)
           d == Settle([c EXCEPT !.nextOrder = c.nextOrder + 1], r)
<1>1. c \in Engines /\ Orderly(c) /\ InOrder(c, b0) /\ Journalled(c) /\ old \in Book!LiveOrders(b0)
  BY DEF Sane, Orderly
<1>2. r = Refused \/ r = SubmitOrder(b, o)
  BY Zenon DEF ReplaceOrder
<1>3. old \in Book!Order /\ old.owner \in DOMAIN c.accounts
  BY LiveIs
<1>4. old.side \in Sides /\ old.owner \in Ids /\ price \in Nat /\ k \in Nat
  BY <1>1, <1>3, AccountsOf, ConfigFacts DEF Book!Order, Book!Sides, Sides, Engines
<1> HIDE DEF k, r, b0
<1>5. /\ o \in Book!Order /\ o.id = k /\ o.owner = old.owner /\ o.side = old.side /\ o.price = price
      /\ o.qty = qty /\ o.remaining = qty /\ o.tif = tif
  BY <1>4, NewIsOrder
<1> HIDE DEF o
<1>6. InOrder(c, b)
  BY <1>1, RemoveKeeps
<1> HIDE DEF b
<1>7. Submission(c, b, o)
  BY <1>3, <1>5, <1>6, Zenon DEF Submission, k
<1>8. Submitted(c, b, o, r, d)
  <2>1. CASE r.ok
    <3>1. r = SubmitOrder(b, o)
      <4>1. ~Refused.ok
        BY DEF Refused
      <4>2. QED
        BY <1>2, <2>1, <4>1
    <3>2. QED
      BY <1>1, <1>7, <2>1, <3>1, TakenKeeps
  <2>2. CASE ~r.ok
    BY <1>1, <2>2, RefusedKeeps
  <2>3. QED
    BY <2>1, <2>2
<1> HIDE DEF d
<1>9. Sane(d)
  BY <1>1, <1>8, Zenon DEF Submitted, Sane
<1>10. Follows(c, d)
  BY <1>8, <1>9, Zenon DEF Submitted, Follows
<1>11. QED
  BY <1>10, Zenon DEF d, r, o, k

-----------------------------------------------------------------------------
(* The engine is in order after every step *)

\* The engine between commands.
Ready == Fine(engine) /\ engine.edge = 0 /\ engine.ok

\* A command that commits an engine in order leaves the engine in order, and
\* one that faults leaves it alone.
LEMMA CommitReady ==
    ASSUME NEW c, Fine(c), c.ok, Commit(c)
    PROVE  Ready'
<1>1. Fine(engine') /\ engine'.edge = 0 /\ engine'.ok = c.ok
  BY CommitKeeps
<1>2. Fine(engine)'
  BY <1>1
<1>3. QED
  BY <1>1, <1>2 DEF Ready

\* A step of the simulation leaves the engine in order either way.
LEMMA CommitOrFaultReady ==
    ASSUME Ready, NEW c, Fine(c), NEW good, good => c.ok, CommitOrFault(c, good)
    PROVE  Ready'
<1>1. CASE good /\ Commit(c)
  BY <1>1, CommitReady
<1>2. CASE UNCHANGED engine
  BY <1>2 DEF Ready
<1>3. QED
  BY <1>1, <1>2, Zenon DEF CommitOrFault, Fail

\* What a quote, a customer and a turn make of an engine is in order.
LEMMA SteppedFine ==
    ASSUME Ready
    PROVE  /\ \A bid \in Prices, ask \in Prices : Fine(EndOnBreach(ReplaceQuote(engine, bid, ask, QuoteQty)))
           /\ \A a \in Arrivals : Fine(EndOnBreach(Arrive(engine, a)))
           /\ Fine(ChargeStorage(engine)) /\ Fine(EndOnBreach(ChargeStorage(engine)))
           /\ EndOnBreach(ChargeStorage(engine)).ok = ChargeStorage(engine).ok
           /\ \A reason \in Reasons : Fine(EndRealTime(engine, reason))
<1>1. Fine(engine) /\ Sane(engine)
  BY DEF Ready, Fine
<1>2. ASSUME NEW bid \in Prices, NEW ask \in Prices
      PROVE  Fine(EndOnBreach(ReplaceQuote(engine, bid, ask, QuoteQty)))
  BY <1>1, ConfigFacts, ReplaceQuoteFollows, EndOnBreachKeeps
<1>3. ASSUME NEW a \in Arrivals PROVE Fine(EndOnBreach(Arrive(engine, a)))
  BY <1>1, ArriveFollows, EndOnBreachKeeps
<1>4. Fine(ChargeStorage(engine))
  BY <1>1, ChargeKeeps
<1>5. /\ Fine(EndOnBreach(ChargeStorage(engine)))
      /\ EndOnBreach(ChargeStorage(engine)).ok = ChargeStorage(engine).ok
  <2> DEFINE c == ChargeStorage(engine)
  <2>1. Fine(c)
    BY <1>4
  <2> HIDE DEF c
  <2>2. Fine(EndOnBreach(c)) /\ Kept(c, EndOnBreach(c))
    BY <2>1, EndOnBreachKeeps
  <2>3. QED
    BY <2>2, Zenon DEF Kept, c
<1>6. ASSUME NEW reason \in Reasons PROVE Fine(EndRealTime(engine, reason))
  <2>1. Ended(engine, reason, EndRealTime(engine, reason))
    BY <1>1, EndRealTimeEnds
  <2>2. QED
    BY <2>1, Zenon DEF Ended
<1>7. QED
  BY <1>2, <1>3, <1>4, <1>5, <1>6

\* A mark that moves.
LEMMA MarkFine ==
    ASSUME NEW c, Fine(c), NEW mark \in Marks
    PROVE  LET d == [c EXCEPT !.mark = mark]
           IN  /\ Fine(d) /\ d.ok = c.ok /\ d.mark = mark /\ d.accounts = c.accounts /\ d.edge = c.edge
               /\ d.isOver = c.isOver /\ d.reason = c.reason /\ d.version = c.version
               /\ d.book = c.book /\ d.ledger = c.ledger
<1> DEFINE d == [c EXCEPT !.mark = mark]
<1>1. c \in Engines /\ mark \in Nat \ {0}
  BY ConfigFacts DEF Fine, Sane
<1>2. /\ d \in Engines /\ d.ok = c.ok /\ d.mark = mark /\ d.accounts = c.accounts /\ d.ledger = c.ledger
      /\ d.book = c.book /\ d.nextOrder = c.nextOrder /\ d.edge = c.edge
      /\ d.isOver = c.isOver /\ d.reason = c.reason /\ d.version = c.version
  BY <1>1 DEF Engines
<1> HIDE DEF d
<1>3. Fine(d)
  BY <1>2, FineOf
<1>4. QED
  BY <1>2, <1>3, Zenon DEF d

\* The close of a turn: the carry, the mark, the turn count and the end.
LEMMA MarkedFine ==
    ASSUME NEW c, Fine(c), NEW mark \in Marks
    PROVE  LET d == Marked(c, mark)
               x == ChargeStorage(c)
           IN  /\ Fine(d) /\ d.ok = x.ok /\ d.mark = mark /\ d.accounts = x.accounts /\ d.edge = x.edge
<1> DEFINE x == ChargeStorage(c)
           k == x.turn + 1
           d == Marked(c, mark)
<1>1. Fine(x)
  BY ChargeKeeps
<1>2. d = [x EXCEPT !.turn = k, !.mark = mark]
  BY Zenon DEF Marked
<1> HIDE DEF x, d
<1>3. x \in Engines /\ k \in Nat /\ mark \in Nat \ {0}
  BY <1>1, ConfigFacts DEF Fine, Sane, Engines
<1> HIDE DEF k
<1> DEFINE y == [x EXCEPT !.turn = k]
<1>4. /\ y \in Engines /\ y.ok = x.ok /\ y.edge = x.edge /\ y.accounts = x.accounts
      /\ y.ledger = x.ledger /\ y.book = x.book /\ y.nextOrder = x.nextOrder
  BY <1>3 DEF Engines
<1>5. d = [y EXCEPT !.mark = mark]
  BY <1>2, <1>3 DEF Engines
<1> HIDE DEF y
<1>6. Fine(y)
  BY <1>1, <1>4, FineOf
<1>7. Fine(d) /\ d.ok = y.ok /\ d.mark = mark /\ d.accounts = y.accounts /\ d.edge = y.edge
  BY <1>5, <1>6, MarkFine
<1>8. QED
  BY <1>4, <1>7, Zenon DEF d, x

\* The end of the turn-based game keeps the engine in order.
LEMMA EndTurnFine ==
    ASSUME NEW c, Fine(c)
    PROVE  LET d == EndTurn(c)
           IN  /\ Fine(d) /\ d.ok = c.ok /\ d.mark = c.mark /\ d.accounts = c.accounts
<1> DEFINE d == EndTurn(c)
<1>1. c \in Engines
  BY DEF Fine, Sane
<1>2. ASSUME NEW reason \in Reasons
      PROVE  /\ Fine(EndSession(c, reason)) /\ EndSession(c, reason).ok = c.ok
             /\ EndSession(c, reason).mark = c.mark /\ EndSession(c, reason).accounts = c.accounts
  <2> DEFINE e == EndSession(c, reason)
  <2>1. /\ e \in Engines /\ e.isOver = TRUE /\ e.reason = reason
        /\ e.version = c.version /\ e.turn = c.turn /\ e.mark = c.mark /\ e.ok = c.ok
        /\ e.edge = c.edge /\ e.accounts = c.accounts /\ e.ledger = c.ledger
        /\ e.book = c.book /\ e.nextOrder = c.nextOrder
    BY <1>1, EndSessionKeeps
  <2> HIDE DEF e
  <2>2. Fine(e)
    BY <2>1, FineOf
  <2>3. QED
    BY <2>1, <2>2, Zenon DEF e
<1>3. BreachReason(c) \in Reasons /\ "turns_complete" \in Reasons
  BY ReasonOfBreach DEF Reasons
<1>4. d = EndSession(c, BreachReason(c)) \/ d = EndSession(c, "turns_complete") \/ d = c
  BY Zenon DEF EndTurn
<1> HIDE DEF d
<1>5. CASE d = c
  BY <1>5, Zenon DEF d
<1>6. CASE d # c
  <2>1. PICK reason \in Reasons : d = EndSession(c, reason)
    BY <1>3, <1>4, <1>6
  <2>2. Fine(d) /\ d.ok = c.ok /\ d.mark = c.mark /\ d.accounts = c.accounts
    BY <1>2, <2>1, Zenon
  <2>3. QED
    BY <2>2, Zenon DEF d
<1>7. QED
  BY <1>5, <1>6

\* The player's account, the flow's, and nothing charged.
Opens(c) ==
    /\ DOMAIN c.accounts = {Player, Flow} /\ c.accounts[Player] = NewAccount(StartingCash, StartingPosition)
    /\ c.ledger[StorageAccount] = 0

\* New() makes an engine in order, open and with an empty book.
LEMMA InitReady ==
    Init => /\ Ready /\ engine.isOver = FALSE /\ engine.reason = "" /\ Book!LiveOrders(engine.book) = {}
            /\ Opens(engine)
<1> SUFFICES ASSUME Init
             PROVE  /\ Ready /\ engine.isOver = FALSE /\ engine.reason = "" /\ Book!LiveOrders(engine.book) = {}
                    /\ Opens(engine)
  OBVIOUS
<1> DEFINE zeros == [a \in LedgerAccounts |-> 0]
           new == NewAccount(StartingCash, StartingPosition)
           none == NewAccount(0, 0)
           as == [id \in {Player, Flow} |-> IF id = Player THEN new ELSE none]
           c == [ok |-> TRUE, edge |-> 0, version |-> 0, turn |-> 0, nextOrder |-> 0,
                 mark |-> StartingMark, isOver |-> FALSE, reason |-> "", book |-> EmptyBook,
                 accounts |-> as, ledger |-> zeros]
           s == Opening(Player, StartingCash, StartingPosition)
           l == Posted(zeros, s)
<1>1. engine = PostEntry(c, s)
  BY Zenon DEF Init
<1>2. StartingCash \in Int /\ StartingPosition \in Int /\ StartingMark \in Nat \ {0}
  BY ConfigFacts
<1>3. Player # Flow /\ Player \in Ids /\ Flow \in Ids
  BY DEF Player, Flow, Ids
<1>4. /\ new \in Account /\ new.cash = StartingCash /\ new.position = StartingPosition
      /\ new.reservedCash = 0 /\ new.openBuy = 0 /\ new.openSell = 0
      /\ none \in Account /\ none.cash = 0 /\ none.position = 0
      /\ none.reservedCash = 0 /\ none.openBuy = 0 /\ none.openSell = 0
  BY <1>2 DEF NewAccount, Account
<1> HIDE DEF new, none, s
<1>5. {Player, Flow} \in Members
  <2>1. IsFiniteSet({Player, Flow})
    <3>1. IsFiniteSet({Player})
      BY FS_Singleton
    <3>2. {Player, Flow} = {Player} \cup {Flow}
      OBVIOUS
    <3>3. IsFiniteSet({Player} \cup {Flow})
      BY <3>1, FS_AddElement
    <3>4. QED
      BY <3>2, <3>3
  <2>2. QED
    BY <1>3, <2>1 DEF Members
<1>6. /\ as \in [{Player, Flow} -> Account] /\ DOMAIN as = {Player, Flow} /\ as[Player] = new /\ as[Flow] = none
  BY <1>3, <1>4
<1>7. as \in Accounts
  BY <1>5, <1>6 DEF Accounts
<1> HIDE DEF as
<1>8. zeros \in Balances /\ \A a \in LedgerAccounts : zeros[a] = 0
  BY DEF Balances
<1> HIDE DEF zeros
<1>9. EmptyBook \in Book!Books /\ Book!Sound(EmptyBook, 0) /\ Book!LiveOrders(EmptyBook) = {}
  <2>1. Book!Sound(Book!EmptyBook, 0) /\ Book!LiveOrders(Book!EmptyBook) = {}
    BY BookAssumed, Book!EmptySound
  <2>2. Book!Sound(EmptyBook, 0) /\ Book!LiveOrders(EmptyBook) = {}
    BY <2>1, SameEmpty, Zenon
  <2>3. QED
    BY <2>2, Zenon DEF Book!Sound
<1>10. /\ c \in Engines /\ c.ok = TRUE /\ c.edge = 0 /\ c.nextOrder = 0 /\ c.book = EmptyBook
       /\ c.accounts = as /\ c.ledger = zeros /\ c.isOver = FALSE /\ c.reason = ""
  <2> DEFINE empty == EmptyBook
  <2>1. empty \in Book!Books
    BY <1>9
  <2> HIDE DEF empty
  <2> DEFINE yes == TRUE
             no == FALSE
             zero == 0
             open == ""
  <2>2. yes \in BOOLEAN /\ no \in BOOLEAN /\ zero \in Nat /\ zero \in Int /\ open \in Reasons
    BY DEF Reasons
  <2> HIDE DEF yes, no, zero, open
  <2> DEFINE e == [ok |-> yes, edge |-> zero, version |-> zero, turn |-> zero, nextOrder |-> zero,
                   mark |-> StartingMark, isOver |-> no, reason |-> open, book |-> empty,
                   accounts |-> as, ledger |-> zeros]
  <2>3. /\ e \in Engines /\ e.ok = yes /\ e.edge = zero /\ e.nextOrder = zero /\ e.book = empty
        /\ e.accounts = as /\ e.ledger = zeros /\ e.isOver = no /\ e.reason = open
    BY <1>2, <1>7, <1>8, <2>1, <2>2 DEF Engines
  <2>4. c = e
    BY Zenon DEF empty, yes, no, zero, open
  <2> HIDE DEF c, e
  <2>5. QED
    BY <2>3, <2>4, Zenon DEF empty, yes, no, zero, open
<1> HIDE DEF c
<1>11. s \in Seq(Postings) /\ Balanced(s) /\ Opened(zeros, l, Player, StartingCash, StartingPosition)
  BY <1>2, <1>3, <1>8, OpeningEntry DEF s
<1>12. engine = [c EXCEPT !.ledger = l] /\ l \in Balances
  <2>1. PostEntry(c, s) = [c EXCEPT !.ledger = Posted(c.ledger, s)]
    BY <1>10, <1>11, PostEntryIs
  <2>2. l \in Balances
    BY <1>8, <1>11, PostedIsBalances
  <2>3. QED
    BY <1>1, <1>10, <2>1, <2>2, Zenon
<1> HIDE DEF l
<1>13. /\ engine \in Engines /\ engine.ok = TRUE /\ engine.edge = 0 /\ engine.nextOrder = 0
       /\ engine.book = EmptyBook /\ engine.accounts = as /\ engine.ledger = l
       /\ engine.isOver = FALSE /\ engine.reason = ""
  BY <1>10, <1>12 DEF Engines
<1>14. Orderly(engine)
  <2>1. Book!Uncrossed(EmptyBook)
    BY <1>9 DEF Book!Uncrossed
  <2>2. Owned(engine, EmptyBook)
    BY <1>9 DEF Owned
  <2>3. QED
    BY <1>9, <1>13, <2>1, <2>2, Zenon DEF Orderly, InOrder
<1>15. Journalled(engine)
  <2>0. /\ \A j \in Ids \ {Player} : \A a \in OwnAccounts(j) : l[a] = zeros[a]
        /\ l[CashAvailable(Player)] = zeros[CashAvailable(Player)] + StartingCash
        /\ l[CashReserved(Player)] = zeros[CashReserved(Player)]
        /\ l[InstrumentAvailable(Player)] = zeros[InstrumentAvailable(Player)] + StartingPosition
        /\ l[InstrumentReserved(Player)] = zeros[InstrumentReserved(Player)]
    BY <1>11, Zenon DEF Opened
  <2>1. ASSUME NEW j \in Ids \ {Player}
        PROVE  /\ l[CashAvailable(j)] = 0 /\ l[CashReserved(j)] = 0
               /\ l[InstrumentAvailable(j)] = 0 /\ l[InstrumentReserved(j)] = 0
    <3>1. /\ CashAvailable(j) \in OwnAccounts(j) /\ CashReserved(j) \in OwnAccounts(j)
          /\ InstrumentAvailable(j) \in OwnAccounts(j) /\ InstrumentReserved(j) \in OwnAccounts(j)
      BY DEF OwnAccounts
    <3>2. OwnAccounts(j) \subseteq LedgerAccounts
      BY JournalAccounts DEF OwnAccounts
    <3>3. \A a \in OwnAccounts(j) : l[a] = 0
      BY <1>8, <2>0, <3>2
    <3>4. QED
      BY <3>1, <3>3, Zenon
  <2>2. Agrees(engine, Flow)
    <3>1. /\ l[CashAvailable(Flow)] = 0 /\ l[CashReserved(Flow)] = 0
          /\ l[InstrumentAvailable(Flow)] = 0 /\ l[InstrumentReserved(Flow)] = 0
      BY <1>3, <2>1
    <3>2. /\ l[CashAvailable(Flow)] + l[CashReserved(Flow)] = 0
          /\ l[InstrumentAvailable(Flow)] + l[InstrumentReserved(Flow)] = 0
      BY <3>1
    <3>3. engine.accounts[Flow] = none /\ engine.ledger = l
      BY <1>6, <1>13, Zenon
    <3>4. QED
      BY <1>4, <3>1, <3>2, <3>3, Zenon DEF Agrees
  <2>3. Agrees(engine, Player)
    <3>0. /\ zeros[CashAvailable(Player)] = 0 /\ zeros[CashReserved(Player)] = 0
          /\ zeros[InstrumentAvailable(Player)] = 0 /\ zeros[InstrumentReserved(Player)] = 0
      BY <1>3, <1>8, JournalAccounts
    <3>1. /\ l[CashAvailable(Player)] = StartingCash /\ l[CashReserved(Player)] = 0
          /\ l[InstrumentAvailable(Player)] = StartingPosition /\ l[InstrumentReserved(Player)] = 0
      BY <1>2, <2>0, <3>0
    <3>2. /\ l[CashAvailable(Player)] + l[CashReserved(Player)] = StartingCash
          /\ l[InstrumentAvailable(Player)] + l[InstrumentReserved(Player)] = StartingPosition
      BY <1>2, <3>1
    <3>3. engine.accounts[Player] = new /\ engine.ledger = l
      BY <1>6, <1>13, Zenon
    <3>4. QED
      BY <1>4, <3>1, <3>2, <3>3, Zenon DEF Agrees
  <2>4. \A j \in Ids \ {Player, Flow} : Blank(engine, j)
    BY <1>13, <2>1, Zenon DEF Blank
  <2>5. DOMAIN engine.accounts = {Player, Flow}
    BY <1>6, <1>13
  <2>6. QED
    BY <2>2, <2>3, <2>4, <2>5 DEF Journalled
<1>16. Reserved(engine)
  <2> SUFFICES ASSUME NEW id \in Venue(engine)
               PROVE  /\ engine.accounts[id].reservedCash = ReservedFor(engine, id).cash
                      /\ engine.accounts[id].openBuy = ReservedFor(engine, id).buy
                      /\ engine.accounts[id].openSell = ReservedFor(engine, id).sell
    BY Zenon DEF Reserved
  <2>1. id = Player
    BY <1>6, <1>13 DEF Venue, External
  <2>2. OrdersOf(engine.book, id) = {}
    BY <1>9, <1>13, SameLive DEF OrdersOf
  <2>3. ReservedFor(engine, id).cash = 0 /\ ReservedFor(engine, id).buy = 0 /\ ReservedFor(engine, id).sell = 0
    BY <1>13, <1>14, <2>2, NothingReserved
  <2>4. engine.accounts[id] = new
    BY <1>6, <1>13, <2>1, Zenon
  <2>5. QED
    BY <1>4, <2>3, <2>4, Zenon
<1>17. Opens(engine)
  <2>1. StorageAccount \in LedgerAccounts
    BY DEF LedgerAccounts
  <2>2. l[StorageAccount] = 0
    BY <1>8, <1>11, <2>1, Zenon DEF Opened
  <2>3. DOMAIN engine.accounts = {Player, Flow} /\ engine.accounts[Player] = new
    BY <1>6, <1>13, Zenon
  <2>4. QED
    BY <1>13, <2>2, <2>3, Zenon DEF Opens, new
<1>18. QED
  BY <1>9, <1>13, <1>14, <1>15, <1>16, <1>17 DEF Ready, Fine, Sane

\* The next mark is an amount.
LEMMA NextMarkIsAmount ==
    ASSUME NEW c \in Engines, NEW move \in Moves
    PROVE  NextMark(c, move) \in Int
<1> DEFINE factor == Whole + move
<1>1. Moves \subseteq (1 - Whole)..Whole
  BY ConfigAssumption DEF Validate
<1>2. factor \in Int
  BY <1>1 DEF Whole
<1>3. c.mark \in Int
  BY DEF Engines
<1> HIDE DEF factor
<1>4. c.mark * factor \in Int
  <2>1. \A x, y \in Int : x * y \in Int
    OBVIOUS
  <2>2. QED
    BY <1>2, <1>3, <2>1
<1>5. NextMark(c, move) = (c.mark * factor) \div Whole
  BY Zenon DEF NextMark, Bps, factor
<1>6. QED
  BY <1>4, <1>5 DEF Whole

\* A move of the mark, and the turn of an admitted quote, find no next mark or
\* one that the model explores.
LEMMA MarkMoveWays ==
    ASSUME NEW move \in Moves, engine \in Engines, MarkMove(move)
    PROVE  LET m == NextMark(engine, move)
           IN  /\ RealTime /\ ~engine.isOver
               /\ \/ m < 1 /\ Fail("mark")
                  \/ /\ m \in Marks
                     /\ CommitReconciled(EndOnBreach([engine EXCEPT !.mark = m]), MarkPnL(engine, m))
<1> DEFINE m == NextMark(engine, move)
           good == CommitReconciled(EndOnBreach([engine EXCEPT !.mark = m]), MarkPnL(engine, m))
<1>1. RealTime /\ ~engine.isOver /\ m <= MaxMark /\ ((m = 0 /\ Fail("mark")) \/ (m > 0 /\ good))
  BY Zenon DEF MarkMove
<1>2. m \in Int /\ MaxMark \in Nat
  BY NextMarkIsAmount, ConfigFacts
<1> HIDE DEF m, good
<1>3. (m = 0 => m < 1) /\ (m > 0 => m \in Marks)
  BY <1>1, <1>2 DEF Marks
<1>4. /\ RealTime /\ ~engine.isOver
      /\ (m < 1 /\ Fail("mark")) \/ (m \in Marks /\ good)
  BY <1>1, <1>3, Zenon
<1>5. QED
  BY <1>4, Zenon DEF m, good

LEMMA SubmitQuoteWays ==
    ASSUME NEW bid, NEW ask, NEW arrivals, NEW move \in Moves, engine \in Engines,
           SubmitQuote(bid, ask, arrivals, move)
    PROVE  LET m == NextMark(engine, move)
           IN  /\ ~RealTime /\ bid < ask
               /\ \/ /\ m < 1
                     /\ Fail(IF ReplaceQuote(engine, bid, ask, MaxOrderQty).ok THEN "mark" ELSE "trading")
                  \/ m \in Marks /\ CloseTurn(Trading(engine, bid, ask, arrivals), m)
<1> DEFINE m == NextMark(engine, move)
           bad == Fail(IF ReplaceQuote(engine, bid, ask, MaxOrderQty).ok THEN "mark" ELSE "trading")
           good == CloseTurn(Trading(engine, bid, ask, arrivals), m)
<1>1. ~RealTime /\ bid < ask /\ m <= MaxMark /\ ((m = 0 /\ bad) \/ (m > 0 /\ good))
  BY Zenon DEF SubmitQuote, QuoteAdmitted
<1>2. m \in Int /\ MaxMark \in Nat
  BY NextMarkIsAmount, ConfigFacts
<1> HIDE DEF m, good, bad
<1>3. (m = 0 => m < 1) /\ (m > 0 => m \in Marks)
  BY <1>1, <1>2 DEF Marks
<1>4. ~RealTime /\ bid < ask /\ ((m < 1 /\ bad) \/ (m \in Marks /\ good))
  BY <1>1, <1>3, Zenon
<1>5. QED
  BY <1>4, Zenon DEF m, good, bad

\* The steps of a real-time day.
LEMMA RealTimeStepReady ==
    ASSUME Ready, RealTimeStep
    PROVE  Ready'
<1>1. Fine(engine)
  BY DEF Ready
<1>2. ASSUME NEW bid \in Prices, NEW ask \in Prices, UpdateQuote(bid, ask) PROVE Ready'
  <2> DEFINE c == EndOnBreach(ReplaceQuote(engine, bid, ask, QuoteQty))
  <2>1. Fine(c)
    BY SteppedFine
  <2>2. CommitOrFault(c, Reconciles(c, c.edge))
    BY <1>2, Zenon DEF UpdateQuote, CommitTrades, CommitReconciled
  <2> HIDE DEF c
  <2>3. Reconciles(c, c.edge) => c.ok
    BY Zenon DEF Reconciles
  <2>4. QED
    BY <2>1, <2>2, <2>3, CommitOrFaultReady
<1>3. ASSUME NEW a \in Arrivals, CustomerArrival(a) PROVE Ready'
  <2> DEFINE c == EndOnBreach(Arrive(engine, a))
  <2>1. Fine(c)
    BY SteppedFine
  <2>2. CommitOrFault(c, Reconciles(c, c.edge))
    BY <1>3, Zenon DEF CustomerArrival, CommitTrades, CommitReconciled
  <2> HIDE DEF c
  <2>3. Reconciles(c, c.edge) => c.ok
    BY Zenon DEF Reconciles
  <2>4. QED
    BY <2>1, <2>2, <2>3, CommitOrFaultReady
<1>4. ASSUME NEW move \in Moves, MarkMove(move) PROVE Ready'
  <2> DEFINE m == NextMark(engine, move)
             x == [engine EXCEPT !.mark = m]
             c == EndOnBreach(x)
             pnl == MarkPnL(engine, m)
  <2>1. Fail("mark") \/ (m \in Marks /\ CommitOrFault(c, Reconciles(c, pnl)))
    BY <1>1, <1>4, MarkMoveWays, Zenon DEF Fine, Sane, CommitReconciled
  <2>2. CASE Fail("mark")
    BY <2>2 DEF Fail, Ready
  <2>3. CASE m \in Marks /\ CommitOrFault(c, Reconciles(c, pnl))
    <3> HIDE DEF m, pnl
    <3>1. Fine(x)
      BY <1>1, <2>3, MarkFine
    <3> HIDE DEF x
    <3>2. Fine(c)
      BY <3>1, EndOnBreachKeeps
    <3> HIDE DEF c
    <3>3. Reconciles(c, pnl) => c.ok
      BY Zenon DEF Reconciles
    <3>4. QED
      BY <2>3, <3>2, <3>3, CommitOrFaultReady
  <2>4. QED
    BY <2>1, <2>2, <2>3
<1>5. ASSUME CarryCharge PROVE Ready'
  <2> DEFINE x == ChargeStorage(engine)
             c == EndOnBreach(x)
             good == Reconciles(x, -Storage(engine))
  <2>1. Fine(c) /\ c.ok = x.ok
    BY SteppedFine
  <2>2. CommitOrFault(c, good)
    BY <1>5, Zenon DEF CarryCharge
  <2>3. good => x.ok
    BY Zenon DEF Reconciles
  <2> HIDE DEF x, c, good
  <2>4. good => c.ok
    BY <2>1, <2>3
  <2>5. QED
    BY <2>1, <2>2, <2>4, CommitOrFaultReady
<1>6. ASSUME NEW reason \in Reasons,
             CommitOrFault(EndRealTime(engine, reason), EndRealTime(engine, reason).ok)
      PROVE  Ready'
  <2> DEFINE c == EndRealTime(engine, reason)
  <2>1. Fine(c) /\ CommitOrFault(c, c.ok)
    BY <1>6, SteppedFine
  <2> HIDE DEF c
  <2>2. QED
    BY <2>1, CommitOrFaultReady
<1>7. "time_expired" \in Reasons /\ "player_quit" \in Reasons
  BY DEF Reasons
<1>8. ASSUME ExpireTradingDay PROVE Ready'
  <2>1. CommitOrFault(EndRealTime(engine, "time_expired"), EndRealTime(engine, "time_expired").ok)
    BY <1>8, Zenon DEF ExpireTradingDay
  <2>2. QED
    BY <1>6, <1>7, <2>1
<1>9. ASSUME QuitRealTime PROVE Ready'
  <2>1. CommitOrFault(EndRealTime(engine, "player_quit"), EndRealTime(engine, "player_quit").ok)
    BY <1>9, Zenon DEF QuitRealTime
  <2>2. QED
    BY <1>6, <1>7, <2>1
<1>10. QED
  BY <1>2, <1>3, <1>4, <1>5, <1>8, <1>9 DEF RealTimeStep

\* The steps of the turn-based game.
LEMMA TurnStepReady ==
    ASSUME Ready, TurnStep
    PROVE  Ready'
<1>1. Fine(engine) /\ Sane(engine) /\ engine \in Engines /\ engine.ok
  BY DEF Ready, Fine, Sane
<1>2. ASSUME NEW bid \in Prices, NEW ask \in Prices, NEW arrivals \in TurnArrivals, NEW move \in Moves,
             SubmitQuote(bid, ask, arrivals, move)
      PROVE  Ready'
  <2> DEFINE m == NextMark(engine, move)
             t == Trading(engine, bid, ask, arrivals)
             x == Marked(t, m)
             c == EndTurn(x)
             pnl == t.edge + MarkPnL(t, m) - Storage(t)
  <2>1. UNCHANGED engine \/ (m \in Marks /\ CommitOrFault(c, Reconciles(c, pnl)))
    BY <1>1, <1>2, SubmitQuoteWays, Zenon DEF CloseTurn, CommitReconciled, Fail
  <2>2. CASE UNCHANGED engine
    BY <2>2 DEF Ready
  <2>3. CASE m \in Marks /\ CommitOrFault(c, Reconciles(c, pnl))
    <3> HIDE DEF pnl, m
    <3>1. Fine(t)
      BY <1>1, TradingFollows
    <3> HIDE DEF t
    <3>2. Fine(x)
      BY <2>3, <3>1, MarkedFine
    <3> HIDE DEF x
    <3>3. Fine(c)
      BY <3>2, EndTurnFine
    <3> HIDE DEF c
    <3>4. Reconciles(c, pnl) => c.ok
      BY Zenon DEF Reconciles
    <3>5. QED
      BY <2>3, <3>3, <3>4, CommitOrFaultReady
  <2>4. QED
    BY <2>1, <2>2, <2>3
<1>3. ASSUME Quit PROVE Ready'
  <2> DEFINE c == EndSession(engine, "player_quit")
  <2>1. Commit(c) /\ "player_quit" \in Reasons
    BY <1>3, Zenon DEF Quit, Reasons
  <2>2. /\ c \in Engines /\ c.ok = engine.ok /\ c.accounts = engine.accounts /\ c.ledger = engine.ledger
        /\ c.book = engine.book /\ c.nextOrder = engine.nextOrder
    BY <1>1, <2>1, EndSessionKeeps
  <2> HIDE DEF c
  <2>3. Fine(c)
    BY <1>1, <2>2, FineOf
  <2>4. QED
    BY <1>1, <2>1, <2>2, <2>3, CommitReady
<1>4. QED
  BY <1>2, <1>3 DEF TurnStep

\* The commands of other accounts.
LEMMA VenueStepReady ==
    ASSUME Ready, VenueStep
    PROVE  Ready'
<1>1. Fine(engine) /\ Sane(engine) /\ engine \in Engines /\ engine.ok
  BY DEF Ready, Fine, Sane
<1>2. ASSUME NEW c, Sane(c), Reconcile(c).ok, Commit(Reconcile(c)) PROVE Ready'
  <2> DEFINE d == Reconcile(c)
  <2>1. Fine(d)
    BY <1>2, ReconcileFollows
  <2>2. d.ok /\ Commit(d)
    BY <1>2
  <2> HIDE DEF d
  <2>3. QED
    BY <2>1, <2>2, CommitReady
<1>3. ASSUME NEW id \in Bots, OpenAccount(id) PROVE Ready'
  <2> DEFINE c == PostEntry(WithAccount(engine, id), Opening(id, BotCash, BotPosition))
  <2>1. id \notin DOMAIN engine.accounts /\ c.ok /\ Commit(c)
    BY <1>3, Zenon DEF OpenAccount, WithAccount
  <2>2. id \in Ids
    BY DEF Ids
  <2>3. Fine(c)
    BY <1>1, <2>1, <2>2, AccountOpens
  <2> HIDE DEF c
  <2>4. QED
    BY <2>1, <2>3, CommitReady
<1>4. ASSUME NEW id \in DOMAIN engine.accounts, NEW side \in Sides, NEW price \in Prices,
             NEW qty \in 1..MaxOrderQty, NEW tif \in TIFs, PlaceLimit(id, side, price, qty, tif)
      PROVE  Ready'
  <2> DEFINE x == Place(engine, id, side, price, qty, tif)
             c == Reconcile(x)
  <2>1. c.ok /\ Commit(c)
    BY <1>4, Zenon DEF PlaceLimit
  <2>2. price \in Nat /\ qty \in Nat
    BY ConfigFacts
  <2>3. Placing(engine, id, side, price, qty, tif)
    BY <2>2 DEF Placing
  <2>4. Follows(engine, x)
    BY <1>1, <2>3, PlaceFollows
  <2> HIDE DEF x
  <2>5. Sane(x)
    BY <2>4 DEF Follows
  <2>6. QED
    BY <1>2, <2>1, <2>5
<1>5. ASSUME NEW order \in LiveOrders(engine.book), Cancel(order) PROVE Ready'
  <2> DEFINE x == [engine EXCEPT !.book = RemoveOrder(engine.book, order)]
             c == Reconcile(x)
  <2>1. c.ok /\ Commit(c)
    BY <1>5, Zenon DEF Cancel
  <2>2. order \in Book!LiveOrders(engine.book)
    BY SameLive
  <2>3. Follows(engine, x)
    BY <1>1, <2>2, RemoveFollows
  <2> HIDE DEF x
  <2>4. Sane(x)
    BY <2>3 DEF Follows
  <2>5. QED
    BY <1>2, <2>1, <2>4
<1>6. ASSUME NEW old \in LiveOrders(engine.book), NEW price \in Prices, NEW qty \in 1..MaxOrderQty,
             NEW tif \in TIFs, ReplaceLimit(old, price, qty, tif)
      PROVE  Ready'
  <2> DEFINE o == NewOrder(engine.nextOrder + 1, old.owner, old.side, price, qty, tif)
             r == ReplaceOrder(engine.book, old, o)
             x == Settle([engine EXCEPT !.nextOrder = engine.nextOrder + 1], r)
             c == Reconcile(x)
  <2>1. c.ok /\ Commit(c)
    BY <1>6, Zenon DEF ReplaceLimit
  <2>2. old \in Book!LiveOrders(engine.book) /\ qty \in Nat
    BY SameLive, ConfigFacts
  <2>3. Follows(engine, x)
    BY <1>1, <2>2, ReplaceFollows
  <2> HIDE DEF x
  <2>4. Sane(x)
    BY <2>3 DEF Follows
  <2>5. QED
    BY <1>2, <2>1, <2>4
<1>7. QED
  BY <1>3, <1>4, <1>5, <1>6 DEF VenueStep

\* The engine is in order after every step.
LEMMA AlwaysReady == Spec => []Ready
<1>1. Ready /\ [Next]_vars => Ready'
  <2>1. CASE UNCHANGED vars
    BY <2>1 DEF vars, Ready
  <2>2. CASE Next
    BY <2>2, RealTimeStepReady, TurnStepReady, VenueStepReady DEF Next
  <2>3. QED
    BY <2>1, <2>2
<1>2. QED
  BY <1>1, InitReady, PTL DEF Spec

\* The journal and the accounts agree after every command, for any accounts,
\* prices, quantities and bounds: the postings of trades, reservations,
\* charges and openings move the journal as the assignments move the fields.
THEOREM JournalAgrees == Spec => []JournalMatchesAccounts
<1>1. Ready => JournalMatchesAccounts
  BY Zenon DEF Ready, Fine, Sane, Journalled, Agrees, JournalMatchesAccounts
<1>2. QED
  BY <1>1, AlwaysReady, PTL

\* An account has reserved what its live orders need after every command:
\* each one ends in reconcileReservations(), and what does not leaves the book
\* and the reservations alone.
THEOREM ReservationsFollowOrders == Spec => []ReservationsMatchOrders
<1>1. Ready => ReservationsMatchOrders
  <2> SUFFICES ASSUME Ready, NEW id \in Venue(engine)
               PROVE  [cash |-> engine.accounts[id].reservedCash, buy |-> engine.accounts[id].openBuy,
                       sell |-> engine.accounts[id].openSell] = ReservedFor(engine, id)
    BY Zenon DEF ReservationsMatchOrders
  <2> DEFINE r == ReservedFor(engine, id)
             x == engine.accounts[id]
             L == OrdersOf(engine.book, id)
  <2>1. x.reservedCash = r.cash /\ x.openBuy = r.buy /\ x.openSell = r.sell
    BY Zenon DEF Ready, Fine, Reserved
  <2>2. r = [cash |-> Notional(L, "buy"), buy |-> OpenQty(L, "buy"), sell |-> OpenQty(L, "sell")]
    BY Zenon DEF ReservedFor
  <2> HIDE DEF L
  <2>3. r = [cash |-> r.cash, buy |-> r.buy, sell |-> r.sell]
    BY <2>2
  <2> HIDE DEF r
  <2>4. QED
    BY <2>1, <2>3, Zenon DEF r
<1>2. QED
  BY <1>1, AlwaysReady, PTL

-----------------------------------------------------------------------------
(* What an admitted quote and a customer meet in the book *)

\* An order that would not trade with its own account is taken.
LEMMA PlaceTaken ==
    ASSUME NEW c, Sane(c), NEW id, NEW side, NEW price, NEW qty, NEW tif,
           Placing(c, id, side, price, qty, tif),
           \A y \in Book!LiveOrders(c.book) :
             y.owner = id /\ y.side # side => ~Crosses(side, price, y.price)
    PROVE  LET o == Placed(c, id, side, price, qty, tif)
               d == Place(c, id, side, price, qty, tif)
           IN  /\ (d.ok <=> c.ok)
               /\ \A x \in Book!LiveOrders(d.book) : Book!Comes(x, c.book, o)
               /\ o.owner = id /\ o.side = side /\ o.price = price /\ o.tif = tif
<1> DEFINE k == c.nextOrder + 1
           n == c.nextOrder
           b == c.book
           o == Placed(c, id, side, price, qty, tif)
           r == SubmitOrder(b, o)
           d == Place(c, id, side, price, qty, tif)
<1>1. c \in Engines /\ Orderly(c) /\ n \in Nat /\ k = n + 1 /\ k \in Nat
  BY DEF Sane, Engines
<1>2. Submission(c, b, o) /\ Submitted(c, b, o, r, d)
  BY <1>1, PlaceKeeps
<1>3. o.owner = id /\ o.side = side /\ o.price = price /\ o.tif = tif
  <2>1. id \in Ids /\ side \in Sides /\ price \in Nat /\ qty \in Nat /\ tif \in TIFs
    BY <1>1, AccountsOf DEF Placing
  <2> HIDE DEF k
  <2> DEFINE x == NewOrder(k, id, side, price, qty, tif)
  <2>2. x.owner = id /\ x.side = side /\ x.price = price /\ x.tif = tif
    BY <1>1, <2>1, NewIsOrder
  <2>3. o = x
    BY Zenon DEF Placed, k
  <2> HIDE DEF o, x
  <2>4. QED
    BY <2>2, <2>3
<1> HIDE DEF o
<1>4. o \in Book!Order /\ o.id = n + 1 /\ Book!Sound(b, n)
  BY <1>2, Zenon DEF Submission, InOrder
<1>5. \A y \in Book!LiveOrders(b) :
        y.owner = o.owner /\ y.side # o.side => ~Book!Crosses(o.side, o.price, y.price)
  BY <1>3, SameCrosses, Zenon
<1> HIDE DEF b, n, k, d
<1>6. Book!SubmitOrder(b, o).ok
  BY <1>1, <1>4, <1>5, BookAssumed, Book!SubmitTakes
<1>7. r.ok
  BY <1>6, SameSubmit, Zenon
<1> HIDE DEF r
<1>8. d.ok <=> c.ok
  BY <1>2, <1>7, Zenon DEF Submitted
<1>9. \A x \in Book!LiveOrders(d.book) : Book!Comes(x, b, o)
  BY <1>2, <1>7, Zenon DEF Submitted
<1>10. QED
  BY <1>3, <1>8, <1>9, Zenon DEF d, o, b

\* The player has at most one order on each side.
OneSide(c) ==
    \A x, y \in Book!LiveOrders(c.book) :
        x.owner = Player /\ y.owner = Player /\ x.side = y.side => x.id = y.id

\* The orders in the flow's name are from before.
FlowStays(c, d) ==
    \A v \in Book!LiveOrders(d.book) : v.owner = Flow =>
        \E y \in Book!LiveOrders(c.book) : y.owner = Flow /\ y.side = v.side /\ y.price = v.price

\* A customer may come who would trade with an order in the flow's name.
MeetsFlow(c) ==
    \E o \in Book!LiveOrders(c.book), a \in Arrivals :
        o.owner = Flow /\ o.side # a.side /\ Crosses(a.side, FlowLimit(c, a), o.price)

\* The limit of a customer depends on the mark.
LEMMA SameFlowLimit ==
    ASSUME NEW c, NEW d, d.mark = c.mark, NEW a
    PROVE  FlowLimit(d, a) = FlowLimit(c, a)
BY Zenon DEF FlowLimit

\* Who stays does not begin to be met.
LEMMA MeetsNoMore ==
    ASSUME NEW c, NEW d, FlowStays(c, d), d.mark = c.mark, ~MeetsFlow(c)
    PROVE  ~MeetsFlow(d)
<1> SUFFICES ASSUME NEW v \in Book!LiveOrders(d.book), NEW a \in Arrivals, v.owner = Flow,
                    v.side # a.side, Crosses(a.side, FlowLimit(d, a), v.price)
             PROVE  FALSE
  BY Zenon DEF MeetsFlow
<1>1. PICK y \in Book!LiveOrders(c.book) : y.owner = Flow /\ y.side = v.side /\ y.price = v.price
  BY Zenon DEF FlowStays
<1>2. FlowLimit(d, a) = FlowLimit(c, a)
  BY SameFlowLimit
<1>3. Crosses(a.side, FlowLimit(c, a), y.price)
  BY <1>1, <1>2, Zenon
<1>4. QED
  BY <1>1, <1>3, Zenon DEF MeetsFlow

\* A renewed quote is taken, and is all that the player has in the book.
LEMMA QuoteTaken ==
    ASSUME NEW c, Sane(c), NEW bid \in Prices, NEW ask \in Prices, bid < ask, NEW qty \in Nat
    PROVE  LET d == ReplaceQuote(c, bid, ask, qty)
           IN  (d.ok <=> c.ok) /\ OneSide(d) /\ FlowStays(c, d)
<1> DEFINE x == CancelAll(c, Player)
           y == Place(x, Player, "buy", bid, qty, "gtc")
           z == Place(y, Player, "sell", ask, qty, "gtc")
           d == ReplaceQuote(c, bid, ask, qty)
           o == Placed(x, Player, "buy", bid, qty, "gtc")
           p == Placed(y, Player, "sell", ask, qty, "gtc")
<1>1. d = Reconcile(z)
  BY Zenon DEF ReplaceQuote
<1>2. Follows(c, x) /\ Cancelled(c, Player, x)
  BY CancelFollows
<1> HIDE DEF x, d
<1>3. /\ \A v : Sane(v) => Placing(v, Player, "buy", bid, qty, "gtc")
      /\ \A v : Sane(v) => Placing(v, Player, "sell", ask, qty, "gtc")
  <2>1. bid \in Nat /\ ask \in Nat
    BY ConfigFacts
  <2>2. \A v : Sane(v) => Player \in DOMAIN v.accounts
    BY PlayerAndFlow DEF Sane
  <2>3. QED
    BY <2>1, <2>2 DEF Placing, Sides, TIFs
<1>4. Sane(x) /\ x.ok = c.ok
  BY <1>2, Zenon DEF Follows, Cancelled
<1>5. \A v \in Book!LiveOrders(x.book) : v.owner # Player
  <2>1. \A v \in Book!LiveOrders(x.book) : v \in LiveOrders(c.book) /\ v \notin OrdersOf(c.book, Player)
    BY <1>2, SameLive DEF Cancelled
  <2>2. QED
    BY <2>1, Zenon DEF OrdersOf
<1>6. /\ (y.ok <=> x.ok)
      /\ \A v \in Book!LiveOrders(y.book) : Book!Comes(v, x.book, o)
      /\ o.owner = Player /\ o.side = "buy" /\ o.price = bid
  <2>1. Placing(x, Player, "buy", bid, qty, "gtc")
    BY <1>3, <1>4
  <2>2. \A v \in Book!LiveOrders(x.book) :
          v.owner = Player /\ v.side # "buy" => ~Crosses("buy", bid, v.price)
    BY <1>5
  <2>3. QED
    BY <1>4, <2>1, <2>2, PlaceTaken
<1>7. Sane(y)
  <2>1. Placing(x, Player, "buy", bid, qty, "gtc")
    BY <1>3, <1>4
  <2>2. Follows(x, y)
    BY <1>4, <2>1, PlaceFollows
  <2>3. QED
    BY <2>2, Zenon DEF Follows
<1> HIDE DEF y, o
<1>8. \A v \in Book!LiveOrders(y.book) :
        v.owner = Player => v.id = o.id /\ v.side = "buy" /\ v.price = bid
  <2> SUFFICES ASSUME NEW v \in Book!LiveOrders(y.book), v.owner = Player
               PROVE  v.id = o.id /\ v.side = "buy" /\ v.price = bid
    OBVIOUS
  <2>1. Book!Comes(v, x.book, o)
    BY <1>6
  <2>2. ~\E w \in Book!LiveOrders(x.book) : v.owner = w.owner
    BY <1>5
  <2>3. Book!SameOrder(v, o)
    BY <2>1, <2>2, Zenon DEF Book!Comes
  <2>4. v.id = o.id /\ v.side = o.side /\ v.price = o.price
    BY <2>3, Zenon DEF Book!SameOrder
  <2>5. QED
    BY <1>6, <2>4
<1>9. /\ (z.ok <=> y.ok)
      /\ \A v \in Book!LiveOrders(z.book) : Book!Comes(v, y.book, p)
      /\ p.owner = Player /\ p.side = "sell"
  <2>1. Placing(y, Player, "sell", ask, qty, "gtc")
    BY <1>3, <1>7
  <2>2. ~Crosses("sell", ask, bid)
    BY ConfigFacts DEF Crosses
  <2>3. \A v \in Book!LiveOrders(y.book) :
          v.owner = Player /\ v.side # "sell" => ~Crosses("sell", ask, v.price)
    BY <1>8, <2>2, Zenon
  <2>4. QED
    BY <1>7, <2>1, <2>3, PlaceTaken
<1>10. Sane(z)
  <2>1. Placing(y, Player, "sell", ask, qty, "gtc")
    BY <1>3, <1>7
  <2>2. Follows(y, z)
    BY <1>7, <2>1, PlaceFollows
  <2>3. QED
    BY <2>2, Zenon DEF Follows
<1> HIDE DEF z, p
<1>11. \A v \in Book!LiveOrders(z.book) :
         v.owner = Player => (v.id = o.id /\ v.side = "buy") \/ (v.id = p.id /\ v.side = "sell")
  <2> SUFFICES ASSUME NEW v \in Book!LiveOrders(z.book), v.owner = Player
               PROVE  (v.id = o.id /\ v.side = "buy") \/ (v.id = p.id /\ v.side = "sell")
    OBVIOUS
  <2>1. Book!Comes(v, y.book, p)
    BY <1>9
  <2>2. CASE \E w \in Book!LiveOrders(y.book) : v.id = w.id /\ v.owner = w.owner /\ v.side = w.side
    <3>1. PICK w \in Book!LiveOrders(y.book) : v.id = w.id /\ v.owner = w.owner /\ v.side = w.side
      BY <2>2
    <3>2. w.id = o.id /\ w.side = "buy"
      BY <1>8, <3>1
    <3>3. QED
      BY <3>1, <3>2
  <2>3. CASE Book!SameOrder(v, p)
    <3>1. v.id = p.id /\ v.side = p.side
      BY <2>3, Zenon DEF Book!SameOrder
    <3>2. QED
      BY <1>9, <3>1
  <2>4. QED
    BY <2>1, <2>2, <2>3, Zenon DEF Book!Comes
<1>12. Reconciled(z, d)
  BY <1>1, <1>10, ReconcileFollows
<1>13. d.book = z.book /\ d.ok = z.ok
  BY <1>12, Zenon DEF Reconciled
<1>14. OneSide(d)
  <2>1. "buy" # "sell"
    OBVIOUS
  <2>2. QED
    BY <1>11, <1>13, <2>1, Zenon DEF OneSide
<1>15. d.ok <=> c.ok
  BY <1>4, <1>6, <1>9, <1>13, Zenon
<1>16. FlowStays(c, d)
  <2> SUFFICES ASSUME NEW v \in Book!LiveOrders(z.book), v.owner = Flow
               PROVE  \E u \in Book!LiveOrders(c.book) :
                        u.owner = Flow /\ u.side = v.side /\ u.price = v.price
    BY <1>13, Zenon DEF FlowStays
  <2>1. Player # Flow
    BY DEF Player, Flow
  <2>2. PICK w \in Book!LiveOrders(y.book) : v.owner = w.owner /\ v.side = w.side /\ v.price = w.price
    BY <1>9, <2>1, Zenon DEF Book!Comes, Book!SameOrder
  <2>3. PICK u \in Book!LiveOrders(x.book) : w.owner = u.owner /\ w.side = u.side /\ w.price = u.price
    BY <1>6, <2>1, <2>2, Zenon DEF Book!Comes, Book!SameOrder
  <2>4. u \in Book!LiveOrders(c.book)
    BY <1>2 DEF Cancelled
  <2>5. QED
    BY <2>2, <2>3, <2>4, Zenon
<1>17. QED
  BY <1>14, <1>15, <1>16, Zenon DEF d

\* A customer's order is taken when it meets none in the flow's name, and
\* leaves no new one in the book.
LEMMA ArriveTaken ==
    ASSUME NEW c, Sane(c), ~MeetsFlow(c), NEW a \in Arrivals
    PROVE  LET d == Arrive(c, a)
           IN  (d.ok <=> c.ok) /\ (OneSide(c) => OneSide(d)) /\ FlowStays(c, d)
<1> DEFINE limit == FlowLimit(c, a)
           side == a.side
           qty == a.qty
           x == Place(c, Flow, side, limit, qty, "ioc")
           o == Placed(c, Flow, side, limit, qty, "ioc")
           d == Arrive(c, a)
<1>1. d = Reconcile(x)
  BY Zenon DEF Arrive
<1>2. c \in Engines /\ Flow \in DOMAIN c.accounts
  BY PlayerAndFlow DEF Sane
<1>3. Placing(c, Flow, side, limit, qty, "ioc")
  <2>1. limit \in Nat
    BY <1>2, LimitIsPrice
  <2>2. side \in Sides /\ qty \in Nat
    BY DEF Arrivals
  <2>3. "ioc" \in TIFs /\ "ioc" # "gtc"
    BY DEF TIFs
  <2> HIDE DEF limit, side, qty
  <2>4. QED
    BY <1>2, <2>1, <2>2, <2>3, Zenon DEF Placing
<1>4. \A y \in Book!LiveOrders(c.book) : y.owner = Flow /\ y.side # side => ~Crosses(side, limit, y.price)
  BY Zenon DEF MeetsFlow
<1> HIDE DEF limit, side, qty, d
<1>6. /\ (x.ok <=> c.ok)
      /\ \A v \in Book!LiveOrders(x.book) : Book!Comes(v, c.book, o)
      /\ o.tif = "ioc"
  BY <1>3, <1>4, PlaceTaken
<1>7. Follows(c, x)
  BY <1>3, PlaceFollows
<1> HIDE DEF x, o
<1>8. Sane(x)
  BY <1>7, Zenon DEF Follows
<1>9. Reconciled(x, d)
  BY <1>1, <1>8, ReconcileFollows
<1>10. d.book = x.book /\ d.ok = x.ok
  BY <1>9, Zenon DEF Reconciled
<1>11. \A v \in Book!LiveOrders(d.book) :
         \E y \in Book!LiveOrders(c.book) :
           v.id = y.id /\ v.owner = y.owner /\ v.side = y.side /\ v.price = y.price
  <2>1. o.tif # "gtc"
    BY <1>6
  <2>2. QED
    BY <1>6, <1>10, <2>1, Zenon DEF Book!Comes
<1>12. ASSUME OneSide(c) PROVE OneSide(d)
  <2> SUFFICES ASSUME NEW v \in Book!LiveOrders(d.book), NEW w \in Book!LiveOrders(d.book),
                      v.owner = Player, w.owner = Player, v.side = w.side
               PROVE  v.id = w.id
    BY Zenon DEF OneSide
  <2>1. PICK y \in Book!LiveOrders(c.book) : v.id = y.id /\ v.owner = y.owner /\ v.side = y.side
    BY <1>11
  <2>2. PICK z \in Book!LiveOrders(c.book) : w.id = z.id /\ w.owner = z.owner /\ w.side = z.side
    BY <1>11
  <2>3. y.id = z.id
    BY <1>12, <2>1, <2>2, Zenon DEF OneSide
  <2>4. QED
    BY <2>1, <2>2, <2>3, Zenon
<1>13. FlowStays(c, d)
  BY <1>11, Zenon DEF FlowStays
<1>14. QED
  BY <1>6, <1>10, <1>12, <1>13, Zenon DEF d

\* The customers of a turn are all taken, if none can meet the flow's name.
LEMMA TradingTaken ==
    ASSUME NEW c, Sane(c), c.ok, ~MeetsFlow(c), NEW bid \in Prices, NEW ask \in Prices, bid < ask,
           NEW arrivals \in TurnArrivals
    PROVE  Trading(c, bid, ask, arrivals).ok
<1> DEFINE x == ReplaceQuote(c, bid, ask, MaxOrderQty)
           K == {v \in Engines : Sane(v) /\ v.ok /\ ~MeetsFlow(v)}
           d == Trading(c, bid, ask, arrivals)
<1>1. Follows(c, x) /\ (x.ok <=> c.ok) /\ FlowStays(c, x)
  BY ConfigFacts, ReplaceQuoteFollows, QuoteTaken
<1>2. arrivals \in Seq(Arrivals)
  BY TurnIsSequence
<1>3. d = FoldLeft(Arrive, x, arrivals)
  BY Zenon DEF Trading
<1> HIDE DEF x, d
<1>4. x \in K
  <2>1. Sane(x) /\ x.mark = c.mark /\ x.ok
    BY <1>1, Zenon DEF Follows, SameDay
  <2>2. ~MeetsFlow(x)
    BY <1>1, <2>1, MeetsNoMore
  <2>3. QED
    BY <2>1, <2>2 DEF Sane
<1>5. ASSUME NEW v \in K, NEW i \in 1..Len(arrivals) PROVE Arrive(v, arrivals[i]) \in K
  <2>1. arrivals[i] \in Arrivals /\ Sane(v) /\ v.ok /\ ~MeetsFlow(v)
    BY <1>2
  <2> DEFINE w == Arrive(v, arrivals[i])
  <2>2. Follows(v, w) /\ (w.ok <=> v.ok) /\ FlowStays(v, w)
    BY <2>1, ArriveFollows, ArriveTaken
  <2> HIDE DEF w
  <2>3. Sane(w) /\ w \in Engines /\ w.ok /\ w.mark = v.mark
    BY <2>1, <2>2, Zenon DEF Follows, Sane, SameDay
  <2>4. ~MeetsFlow(w)
    BY <2>1, <2>2, <2>3, MeetsNoMore
  <2>5. QED
    BY <2>3, <2>4 DEF w
<1> HIDE DEF K
<1>6. Visits!Fold(arrivals, x) \in K
  BY <1>2, <1>4, <1>5, Visits!FoldKeeps
<1>7. d \in K
  BY <1>3, <1>6, SameVisits
<1>8. QED
  BY <1>7 DEF K, d

\* What the end of a day keeps is worth the same.
LEMMA KeptEquity ==
    ASSUME NEW c \in Engines, NEW d, Kept(c, d)
    PROVE  /\ Equity(d, Player) = Equity(c, Player)
           /\ d.accounts[Player].position = c.accounts[Player].position
           /\ Breached(d) <=> Breached(c)
<1>1. Player \in DOMAIN c.accounts
  BY AccountsOf
<1>2. /\ d.accounts[Player].position = c.accounts[Player].position
      /\ d.accounts[Player].cash = c.accounts[Player].cash /\ d.mark = c.mark
  BY <1>1, Zenon DEF Kept
<1>3. Equity(d, Player) = Equity(c, Player)
  BY <1>2, Zenon DEF Equity
<1>4. QED
  BY <1>2, <1>3, Zenon DEF Breached, WithinLimits

\* The equity of the player and the edge are amounts.
LEMMA EquityIsAmount ==
    ASSUME NEW c \in Engines
    PROVE  /\ Equity(c, Player) \in Int /\ c.edge \in Int /\ c.mark \in Nat
           /\ c.accounts[Player].position \in Int /\ c.accounts[Player].cash \in Int
<1>1. /\ c.accounts[Player].cash \in Int /\ c.accounts[Player].position \in Int
      /\ c.mark \in Nat /\ c.edge \in Int
  BY AccountsOf DEF Account, Engines
<1>2. \A x, y \in Int : x * y \in Int
  OBVIOUS
<1>3. c.mark * c.accounts[Player].position \in Int
  BY <1>1, <1>2
<1>4. QED
  BY <1>1, <1>3 DEF Equity

\* What follows the engine reconciles: the change in equity is the edge.
LEMMA FollowsReconciles ==
    ASSUME Ready, NEW c, Fine(c), Follows(engine, c), c.ok
    PROVE  LET d == EndOnBreach(c) IN Reconciles(d, d.edge)
<1> DEFINE d == EndOnBreach(c)
           v == Equity(engine, Player)
           w == Equity(c, Player)
<1>1. c \in Engines /\ engine \in Engines /\ engine.edge = 0
  BY DEF Fine, Sane, Ready
<1>2. Kept(c, d)
  BY EndOnBreachKeeps
<1> HIDE DEF d
<1>3. Equity(d, Player) = w /\ d.ok = c.ok /\ d.edge = c.edge
  BY <1>1, <1>2, KeptEquity DEF Kept
<1>4. w - c.edge = v - engine.edge
  BY Zenon DEF Follows
<1>5. w \in Int /\ v \in Int /\ c.edge \in Int
  BY <1>1, EquityIsAmount
<1> HIDE DEF v, w
<1>6. w - v = c.edge
  BY <1>1, <1>4, <1>5
<1>7. QED
  BY <1>3, <1>6, Zenon DEF Reconciles, d, v, w

\* The change of the mark is worth the position times the change.
LEMMA MarkReconciles ==
    ASSUME NEW c \in Engines, NEW d, NEW m \in Int, d.accounts = c.accounts, d.mark = m
    PROVE  Equity(d, Player) - Equity(c, Player) = MarkPnL(c, m)
<1> DEFINE k == c.mark
           p == c.accounts[Player].position
           q == c.accounts[Player].cash
<1>1. k \in Int /\ p \in Int /\ q \in Int
  BY EquityIsAmount
<1>2. Equity(d, Player) = q + m * p /\ Equity(c, Player) = q + k * p /\ MarkPnL(c, m) = p * (m - k)
  BY Zenon DEF Equity, MarkPnL
<1> HIDE DEF k, p, q
<1>3. (q + m * p) - (q + k * p) = p * (m - k)
  BY <1>1
<1>4. QED
  BY <1>2, <1>3, Zenon

\* A real-time day that is over is flat, one that goes on has no reason to have
\* ended, and one that did not end on a breach is not in breach.
Flat(c) ==
    /\ OrdersOf(c.book, Player) = {}
    /\ c.accounts[Player].reservedCash = 0 /\ c.accounts[Player].openSell = 0

Solvent(c) == c.reason \in {"", "time_expired", "player_quit"} => ~Breached(c)

\* The book of a real-time day: one quote, and no order in the flow's name.
DayBook(c) == OneSide(c) /\ \A y \in Book!LiveOrders(c.book) : y.owner # Flow

DayHolds(c) ==
    /\ c.isOver => Flat(c)
    /\ ~c.isOver => c.reason = ""
    /\ Solvent(c)
    /\ DayBook(c)

\* In it no customer meets the flow's name.
LEMMA DayMeetsNone ==
    ASSUME NEW c, DayBook(c)
    PROVE  ~MeetsFlow(c) /\ OneSide(c)
BY Zenon DEF DayBook, MeetsFlow

\* It stays one without new orders of the flow.
LEMMA DayBookStays ==
    ASSUME NEW c, NEW d, DayBook(c), OneSide(d), FlowStays(c, d)
    PROVE  DayBook(d)
BY Zenon DEF DayBook, FlowStays

\* Without orders there are no two on a side.
LEMMA NoneOneSide ==
    ASSUME NEW c, OrdersOf(c.book, Player) = {}
    PROVE  OneSide(c)
BY SameLive DEF OneSide, OrdersOf

\* However a day ends, it holds.
LEMMA EndedHolds ==
    ASSUME NEW c, DayBook(c), NEW reason, NEW d, Ended(c, reason, d), Solvent(d)
    PROVE  DayHolds(d)
<1>1. d.isOver = TRUE /\ Flat(d) /\ Book!LiveOrders(d.book) \subseteq Book!LiveOrders(c.book)
  BY Zenon DEF Ended, Flat
<1>2. DayBook(d)
  <2>1. OneSide(d)
    BY <1>1, NoneOneSide DEF Flat
  <2>2. QED
    BY <1>1, <2>1 DEF DayBook
<1>3. QED
  BY <1>1, <1>2 DEF DayHolds

\* The check of the maintenance margin after a step of an open day.
LEMMA CheckedHolds ==
    ASSUME NEW c, Fine(c), c.isOver = FALSE, c.reason = "", DayBook(c)
    PROVE  DayHolds(EndOnBreach(c))
<1> DEFINE d == EndOnBreach(c)
<1>1. CASE Breached(c)
  <2>1. Ended(c, BreachReason(c), d)
    BY <1>1, EndOnBreachKeeps
  <2> HIDE DEF d
  <2>2. d.reason = BreachReason(c)
    BY <2>1, Zenon DEF Ended
  <2>3. Solvent(d)
    BY <2>2, ReasonOfBreach DEF Solvent
  <2>4. DayHolds(d)
    BY <2>1, <2>3, EndedHolds
  <2>5. QED
    BY <2>4 DEF d
<1>2. CASE ~Breached(c)
  <2>1. d = c
    BY <1>2, EndOnBreachKeeps
  <2>2. DayHolds(c)
    BY <1>2 DEF DayHolds, Solvent
  <2>3. QED
    BY <2>1, <2>2, Zenon
<1>3. QED
  BY <1>1, <1>2

\* A commit keeps what holds of the day.
LEMMA CommitHolds ==
    ASSUME NEW c, Fine(c), DayHolds(c), Commit(c)
    PROVE  DayHolds(engine')
<1> DEFINE d == engine'
<1>1. d.isOver = c.isOver /\ d.reason = c.reason /\ d.book = c.book /\ d.accounts = c.accounts /\ d.mark = c.mark
  BY CommitKeeps
<1> HIDE DEF d
<1>2. Breached(d) <=> Breached(c)
  BY <1>1, Zenon DEF Breached, WithinLimits, Equity
<1>3. Flat(d) <=> Flat(c)
  BY <1>1, Zenon DEF Flat
<1>4. DayBook(c) => DayBook(d)
  BY <1>1, Zenon DEF DayBook, OneSide
<1>5. Solvent(c) => Solvent(d)
  BY <1>1, <1>2, Zenon DEF Solvent
<1>6. DayHolds(d)
  BY <1>1, <1>3, <1>4, <1>5, Zenon DEF DayHolds
<1>7. QED
  BY <1>6 DEF d

-----------------------------------------------------------------------------
(* Faults, and what holds of a real-time day *)

\* A part of an amount grows with the basis points.
LEMMA BpsMonotone ==
    ASSUME NEW x \in Nat, NEW m \in Nat, NEW n \in Nat, m <= n
    PROVE  Bps(x, m) <= Bps(x, n)
<1> DEFINE a == x * m
           b == x * n
<1>1. a \in Nat /\ b \in Nat /\ a <= b
  <2>1. \A u, v \in Nat : u * v \in Nat
    OBVIOUS
  <2>2. n - m \in Nat
    OBVIOUS
  <2>3. x * (n - m) \in Nat
    BY <2>1, <2>2
  <2>4. x * (n - m) = x * n - x * m
    OBVIOUS
  <2>5. QED
    BY <2>1, <2>3, <2>4
<1>2. Bps(x, m) = a \div Whole /\ Bps(x, n) = b \div Whole
  BY DEF Bps
<1> HIDE DEF a, b
<1>3. a \div Whole <= b \div Whole
  BY <1>1 DEF Whole
<1>4. QED
  BY <1>2, <1>3

\* A new game is not in breach.
LEMMA InitSolvent ==
    ASSUME Init, engine \in Engines
    PROVE  ~Breached(engine) /\ engine.isOver = FALSE /\ engine.reason = ""
<1> DEFINE p == engine.accounts[Player].position
           x == engine.mark * AbsQty(p)
<1>1. ~External(Player)
  BY PlayerAndFlow DEF External
<1>2. WithinLimits(engine, Player, InitialMarginBps)
  BY Zenon DEF Init
<1>3. AbsQty(p) <= MaxPosition /\ Equity(engine, Player) > 0 /\ Equity(engine, Player) >= Bps(x, InitialMarginBps)
  BY <1>1, <1>2, Zenon DEF WithinLimits
<1>4. x \in Nat /\ Equity(engine, Player) \in Int
  <2>1. p \in Int /\ engine.mark \in Nat
    BY EquityIsAmount
  <2>2. AbsQty(p) \in Nat
    BY <2>1 DEF AbsQty
  <2>3. \A u, v \in Nat : u * v \in Nat
    OBVIOUS
  <2>4. QED
    BY <2>1, <2>2, <2>3, EquityIsAmount
<1> HIDE DEF x
<1>5. /\ Bps(x, MaintenanceMarginBps) <= Bps(x, InitialMarginBps)
      /\ Bps(x, MaintenanceMarginBps) \in Int /\ Bps(x, InitialMarginBps) \in Int
  <2>1. /\ MaintenanceMarginBps \in Nat /\ InitialMarginBps \in Nat
        /\ MaintenanceMarginBps <= InitialMarginBps
    BY ConfigFacts
  <2>2. \A u \in Nat : Bps(x, u) \in Int
    <3>1. TAKE u \in Nat
    <3>2. x * u \in Int
      BY <1>4
    <3>3. QED
      BY <3>2 DEF Bps, Whole
  <2>3. QED
    BY <1>4, <2>1, <2>2, BpsMonotone
<1>6. Equity(engine, Player) >= Bps(x, MaintenanceMarginBps)
  BY <1>3, <1>4, <1>5
<1>7. WithinLimits(engine, Player, MaintenanceMarginBps)
  BY <1>3, <1>6, Zenon DEF WithinLimits, x
<1>8. engine.isOver = FALSE /\ engine.reason = ""
  BY InitReady
<1>9. QED
  BY <1>7, <1>8 DEF Breached

\* The engine, the fault if there is one, and the day if it is played in real time.
Running == Ready /\ FaultsExplained /\ (RealTime => DayHolds(engine))

\* The flow's name in the words of the model.
LEMMA MeetsIs ==
    ASSUME NEW c
    PROVE  MeetsFlow(c) <=> \E o \in OrdersOf(c.book, Flow), a \in Arrivals :
                               o.side # a.side /\ Crosses(a.side, FlowLimit(c, a), o.price)
<1>1. LiveOrders(c.book) = Book!LiveOrders(c.book)
  BY SameLive
<1>2. QED
  BY <1>1, Zenon DEF MeetsFlow, OrdersOf

\* The faults there are.
LEMMA NoneExplained ==
    ASSUME fault' = "none"
    PROVE  FaultsExplained'
BY DEF FaultsExplained

LEMMA MarkExplained ==
    ASSUME Fail("mark"), NEW move \in Moves, NextMark(engine, move) < 1
    PROVE  FaultsExplained' /\ engine' = engine
<1>1. fault' = "mark" /\ engine' = engine
  BY DEF Fail
<1>2. NextMark(engine', move) < 1
  BY <1>1
<1>3. QED
  BY <1>1, <1>2 DEF FaultsExplained

LEMMA TradingExplained ==
    ASSUME Fail("trading"), ~RealTime, MeetsFlow(engine)
    PROVE  FaultsExplained'
<1>1. fault' = "trading" /\ engine' = engine
  BY DEF Fail
<1>2. PICK o \in OrdersOf(engine.book, Flow), a \in Arrivals :
        o.side # a.side /\ Crosses(a.side, FlowLimit(engine, a), o.price)
  BY MeetsIs
<1>3. o \in OrdersOf(engine'.book, Flow) /\ Crosses(a.side, FlowLimit(engine', a), o.price)
  BY <1>1, <1>2
<1>4. QED
  BY <1>1, <1>2, <1>3 DEF FaultsExplained

\* A candidate that met no error is committed without a fault.
LEMMA GoodRuns ==
    ASSUME Running, NEW c, Fine(c), NEW good, good, CommitOrFault(c, good), RealTime => DayHolds(c)
    PROVE  FaultsExplained' /\ (RealTime => DayHolds(engine))'
<1>1. Commit(c)
  BY Zenon DEF CommitOrFault
<1>2. RealTime => DayHolds(engine')
  BY <1>1, CommitHolds
<1>3. (RealTime => DayHolds(engine))'
  BY <1>2
<1>4. FaultsExplained'
  BY <1>1, NoneExplained DEF Commit
<1>5. QED
  BY <1>3, <1>4

\* What is over in a step of an open day was not before.
LEMMA OpenDay ==
    ASSUME Running, RealTime, ~engine.isOver
    PROVE  /\ Fine(engine) /\ Sane(engine) /\ engine.ok /\ engine.edge = 0
           /\ engine.isOver = FALSE /\ engine.reason = "" /\ DayBook(engine) /\ ~Breached(engine)
<1>1. Ready /\ DayHolds(engine)
  BY DEF Running
<1>2. Fine(engine) /\ Sane(engine) /\ engine.ok /\ engine.edge = 0 /\ engine \in Engines
  BY <1>1 DEF Ready, Fine, Sane
<1>3. engine.reason = "" /\ Solvent(engine) /\ DayBook(engine)
  BY <1>1, Zenon DEF DayHolds
<1>4. ~Breached(engine)
  BY <1>3 DEF Solvent
<1>5. engine.isOver = FALSE
  BY <1>2 DEF Engines
<1>6. QED
  BY <1>2, <1>3, <1>4, <1>5

\* The check of the margin, of a candidate that met no error on an open day.
LEMMA CheckRuns ==
    ASSUME Running, RealTime, ~engine.isOver, NEW x, Fine(x), SameDay(engine, x), DayBook(x)
    PROVE  Fine(EndOnBreach(x)) /\ Kept(x, EndOnBreach(x)) /\ DayHolds(EndOnBreach(x))
<1>1. x.isOver = FALSE /\ x.reason = ""
  BY OpenDay, Zenon DEF SameDay
<1>2. QED
  BY <1>1, EndOnBreachKeeps, CheckedHolds

\* The steps of a real-time day meet no error but a mark that falls to nothing,
\* and keep what holds of the day.
LEMMA RealTimeStepRuns ==
    ASSUME Running, RealTimeStep
    PROVE  FaultsExplained' /\ (RealTime => DayHolds(engine))'
<1>0. Ready
  BY DEF Running
<1>1. ASSUME NEW bid \in Prices, NEW ask \in Prices, UpdateQuote(bid, ask)
      PROVE  FaultsExplained' /\ (RealTime => DayHolds(engine))'
  <2> DEFINE x == ReplaceQuote(engine, bid, ask, QuoteQty)
             c == EndOnBreach(x)
             good == Reconciles(c, c.edge)
  <2>1. RealTime /\ ~engine.isOver /\ bid < ask /\ CommitOrFault(c, good)
    BY <1>1, Zenon DEF UpdateQuote, QuoteAdmitted, CommitTrades, CommitReconciled
  <2>2. Sane(engine) /\ engine.ok /\ DayBook(engine)
    BY <2>1, OpenDay
  <2>3. /\ Follows(engine, x) /\ Fine(x) /\ (x.ok <=> engine.ok)
        /\ OneSide(x) /\ FlowStays(engine, x)
    BY <2>1, <2>2, ConfigFacts, ReplaceQuoteFollows, QuoteTaken
  <2> HIDE DEF x
  <2>4. SameDay(engine, x) /\ x.ok /\ DayBook(x)
    BY <2>2, <2>3, DayBookStays, Zenon DEF Follows
  <2>5. Fine(c) /\ DayHolds(c)
    BY <2>1, <2>3, <2>4, CheckRuns
  <2>6. good
    BY <1>0, <2>3, <2>4, FollowsReconciles
  <2> HIDE DEF c, good
  <2>7. QED
    BY <2>1, <2>5, <2>6, GoodRuns
<1>2. ASSUME NEW a \in Arrivals, CustomerArrival(a)
      PROVE  FaultsExplained' /\ (RealTime => DayHolds(engine))'
  <2> DEFINE x == Arrive(engine, a)
             c == EndOnBreach(x)
             good == Reconciles(c, c.edge)
  <2>1. RealTime /\ ~engine.isOver /\ CommitOrFault(c, good)
    BY <1>2, Zenon DEF CustomerArrival, CommitTrades, CommitReconciled
  <2>2. Sane(engine) /\ engine.ok /\ DayBook(engine) /\ OneSide(engine) /\ ~MeetsFlow(engine)
    BY <2>1, OpenDay, DayMeetsNone
  <2>3. /\ Follows(engine, x) /\ Fine(x) /\ (x.ok <=> engine.ok)
        /\ OneSide(x) /\ FlowStays(engine, x)
    BY <2>2, ArriveFollows, ArriveTaken
  <2> HIDE DEF x
  <2>4. SameDay(engine, x) /\ x.ok /\ DayBook(x)
    BY <2>2, <2>3, DayBookStays, Zenon DEF Follows
  <2>5. Fine(c) /\ DayHolds(c)
    BY <2>1, <2>3, <2>4, CheckRuns
  <2>6. good
    BY <1>0, <2>3, <2>4, FollowsReconciles
  <2> HIDE DEF c, good
  <2>7. QED
    BY <2>1, <2>5, <2>6, GoodRuns
<1>3. ASSUME NEW move \in Moves, MarkMove(move)
      PROVE  FaultsExplained' /\ (RealTime => DayHolds(engine))'
  <2> DEFINE m == NextMark(engine, move)
             x == [engine EXCEPT !.mark = m]
             c == EndOnBreach(x)
             pnl == MarkPnL(engine, m)
             good == Reconciles(c, pnl)
  <2>1. /\ RealTime /\ ~engine.isOver
        /\ (m < 1 /\ Fail("mark")) \/ (m \in Marks /\ CommitOrFault(c, good))
    BY <1>0, <1>3, MarkMoveWays, Zenon DEF Ready, Fine, Sane, CommitReconciled
  <2>2. /\ Fine(engine) /\ engine.ok /\ DayBook(engine) /\ engine \in Engines
        /\ engine.isOver = FALSE /\ engine.reason = ""
    BY <2>1, OpenDay DEF Sane
  <2>3. CASE m < 1 /\ Fail("mark")
    <3>1. FaultsExplained' /\ engine' = engine
      BY <2>3, MarkExplained
    <3>2. RealTime => DayHolds(engine')
      BY <3>1 DEF Running
    <3>3. (RealTime => DayHolds(engine))'
      BY <3>2
    <3>4. QED
      BY <3>1, <3>3
  <2>4. CASE m \in Marks /\ CommitOrFault(c, good)
    <3> HIDE DEF m
    <3>1. /\ Fine(x) /\ x.ok = engine.ok /\ x.mark = m /\ x.accounts = engine.accounts
          /\ x.isOver = engine.isOver /\ x.reason = engine.reason /\ x.book = engine.book
      BY <2>2, <2>4, MarkFine
    <3> HIDE DEF x
    <3>2. DayBook(x) /\ x.isOver = FALSE /\ x.reason = ""
      BY <2>2, <3>1, Zenon DEF DayBook, OneSide
    <3>3. DayHolds(c) /\ Fine(c) /\ Kept(x, c)
      BY <3>1, <3>2, CheckedHolds, EndOnBreachKeeps
    <3>4. good
      <4>1. c.ok = x.ok /\ Equity(c, Player) = Equity(x, Player)
        BY <3>1, <3>3, KeptEquity DEF Kept, Fine, Sane
      <4>2. m \in Int
        BY <2>4, ConfigFacts
      <4>3. Equity(x, Player) - Equity(engine, Player) = MarkPnL(engine, m)
        BY <2>2, <3>1, <4>2, MarkReconciles
      <4> HIDE DEF c
      <4>4. QED
        BY <2>2, <3>1, <4>1, <4>3, Zenon DEF Reconciles, pnl
    <3> HIDE DEF c, good, pnl
    <3>5. QED
      BY <2>4, <3>3, <3>4, GoodRuns
  <2>5. QED
    BY <2>1, <2>3, <2>4
<1>4. ASSUME CarryCharge
      PROVE  FaultsExplained' /\ (RealTime => DayHolds(engine))'
  <2> DEFINE x == ChargeStorage(engine)
             c == EndOnBreach(x)
             k == Storage(engine)
             good == Reconciles(x, -k)
  <2>1. RealTime /\ ~engine.isOver /\ CommitOrFault(c, good)
    BY <1>4, Zenon DEF CarryCharge
  <2>2. Fine(engine) /\ engine.ok /\ DayBook(engine) /\ engine \in Engines
    BY <2>1, OpenDay DEF Sane
  <2>3. /\ Fine(x) /\ SameDay(engine, x) /\ x.ok = engine.ok /\ x.book = engine.book
        /\ Equity(x, Player) = Equity(engine, Player) - k
    BY <2>2, ChargeKeeps
  <2> HIDE DEF x
  <2>4. DayBook(x)
    BY <2>2, <2>3, Zenon DEF DayBook, OneSide
  <2>5. Fine(c) /\ DayHolds(c)
    BY <2>1, <2>3, <2>4, CheckRuns
  <2>6. good
    <3>1. k \in Nat /\ Equity(engine, Player) \in Int
      BY <2>2, StorageIsAmount, EquityIsAmount
    <3> HIDE DEF k
    <3>2. Equity(x, Player) - Equity(engine, Player) = -k
      BY <2>3, <3>1
    <3>3. QED
      BY <2>2, <2>3, <3>2, Zenon DEF Reconciles
  <2> HIDE DEF c, good
  <2>7. QED
    BY <2>1, <2>5, <2>6, GoodRuns
<1>5. ASSUME NEW reason \in {"time_expired", "player_quit"}, RealTime, ~engine.isOver,
             CommitOrFault(EndRealTime(engine, reason), EndRealTime(engine, reason).ok)
      PROVE  FaultsExplained' /\ (RealTime => DayHolds(engine))'
  <2> DEFINE c == EndRealTime(engine, reason)
             good == c.ok
  <2>1. /\ Fine(engine) /\ Sane(engine) /\ engine \in Engines /\ engine.ok /\ ~Breached(engine)
        /\ DayBook(engine)
    BY <1>5, OpenDay DEF Sane
  <2>2. reason \in Reasons
    BY DEF Reasons
  <2>3. Ended(engine, reason, c)
    BY <2>1, <2>2, EndRealTimeEnds
  <2>4. CommitOrFault(c, good)
    BY <1>5
  <2> HIDE DEF c
  <2>5. Fine(c) /\ Kept(engine, c)
    BY <2>3, Zenon DEF Ended
  <2>6. ~Breached(c)
    BY <2>1, <2>5, KeptEquity
  <2>7. DayHolds(c)
    BY <2>1, <2>3, <2>6, EndedHolds DEF Solvent
  <2>8. good
    BY <2>1, <2>5, Zenon DEF Kept
  <2> HIDE DEF good
  <2>9. QED
    BY <2>4, <2>5, <2>7, <2>8, GoodRuns
<1>6. ASSUME ExpireTradingDay
      PROVE  FaultsExplained' /\ (RealTime => DayHolds(engine))'
  <2>1. /\ RealTime /\ ~engine.isOver
        /\ CommitOrFault(EndRealTime(engine, "time_expired"), EndRealTime(engine, "time_expired").ok)
    BY <1>6, Zenon DEF ExpireTradingDay
  <2>2. QED
    BY <1>5, <2>1
<1>7. ASSUME QuitRealTime
      PROVE  FaultsExplained' /\ (RealTime => DayHolds(engine))'
  <2>1. /\ RealTime /\ ~engine.isOver
        /\ CommitOrFault(EndRealTime(engine, "player_quit"), EndRealTime(engine, "player_quit").ok)
    BY <1>7, Zenon DEF QuitRealTime
  <2>2. QED
    BY <1>5, <2>1
<1>8. QED
  BY <1>1, <1>2, <1>3, <1>4, <1>6, <1>7 DEF RealTimeStep

\* The profit and loss that the close of a turn reports is the change of the
\* player's equity: the edge of the fills, the carry and the move of the mark.
LEMMA TurnReconciles ==
    ASSUME Ready, NEW t, Fine(t), Follows(engine, t), t.ok, NEW m \in Marks
    PROVE  LET c == EndTurn(Marked(t, m))
           IN  Reconciles(c, t.edge + MarkPnL(t, m) - Storage(t))
<1> DEFINE x == ChargeStorage(t)
           y == Marked(t, m)
           c == EndTurn(y)
           before == Equity(engine, Player)
           traded == Equity(t, Player)
           charged == Equity(x, Player)
           marked == Equity(y, Player)
           closed == Equity(c, Player)
           k == Storage(t)
           move == MarkPnL(t, m)
           edge == t.edge
           pnl == edge + move - k
<1>1. engine \in Engines /\ engine.edge = 0 /\ t \in Engines /\ m \in Int
  BY ConfigFacts DEF Ready, Fine, Sane
<1>2. Fine(x) /\ SameDay(t, x) /\ x.ok = t.ok /\ charged = traded - k
      /\ x.accounts[Player].position = t.accounts[Player].position
  BY ChargeKeeps
<1>3. Fine(y) /\ y.ok = x.ok /\ y.mark = m /\ y.accounts = x.accounts
  BY MarkedFine
<1>4. Fine(c) /\ c.ok = y.ok /\ c.mark = y.mark /\ c.accounts = y.accounts
  BY <1>3, EndTurnFine
<1> HIDE DEF x, y, c
<1>5. x \in Engines /\ y \in Engines
  BY <1>2, <1>3 DEF Fine, Sane
<1>6. /\ before \in Int /\ traded \in Int /\ charged \in Int /\ marked \in Int
      /\ edge \in Int /\ k \in Nat
  BY <1>1, <1>5, EquityIsAmount, StorageIsAmount
<1>7. marked - charged = MarkPnL(x, m)
  BY <1>1, <1>3, <1>5, MarkReconciles
<1>8. MarkPnL(x, m) = move
  BY <1>2, Zenon DEF MarkPnL, SameDay
<1>9. closed = marked
  BY <1>4, Zenon DEF Equity
<1>10. traded - edge = before - 0
  BY <1>1, Zenon DEF Follows
<1>11. move \in Int
  <2>1. t.accounts[Player].position \in Int /\ t.mark \in Int
    BY <1>1, EquityIsAmount
  <2>2. \A u, v, w \in Int : u * (v - w) \in Int
    OBVIOUS
  <2>3. QED
    BY <1>1, <2>1, <2>2 DEF MarkPnL
<1> HIDE DEF before, traded, charged, marked, closed, k, move, edge
<1>12. closed - before = pnl
  BY <1>2, <1>6, <1>7, <1>8, <1>9, <1>10, <1>11
<1>13. c.ok
  BY <1>2, <1>3, <1>4, Zenon
<1>14. Reconciles(c, pnl)
  BY <1>12, <1>13, Zenon DEF Reconciles, closed, before
<1>15. QED
  BY <1>14, Zenon DEF c, y, edge, move, k

\* The turn of an admitted quote meets the errors that are explained, and what
\* others ask for and is refused is no step.
LEMMA GameStepRuns ==
    ASSUME Running, TurnStep \/ VenueStep
    PROVE  FaultsExplained' /\ ~RealTime
<1>1. Ready /\ engine \in Engines /\ Sane(engine) /\ engine.ok
  BY DEF Running, Ready, Fine, Sane
<1>2. ASSUME NEW bid \in Prices, NEW ask \in Prices, NEW arrivals \in TurnArrivals, NEW move \in Moves,
             SubmitQuote(bid, ask, arrivals, move)
      PROVE  FaultsExplained' /\ ~RealTime
  <2> DEFINE m == NextMark(engine, move)
             q == ReplaceQuote(engine, bid, ask, MaxOrderQty)
             t == Trading(engine, bid, ask, arrivals)
             c == EndTurn(Marked(t, m))
             good == Reconciles(c, t.edge + MarkPnL(t, m) - Storage(t))
             why == IF q.ok THEN "mark" ELSE "trading"
  <2>1. /\ ~RealTime /\ bid < ask
        /\ (m < 1 /\ Fail(why)) \/ (m \in Marks /\ CommitOrFault(c, good))
    BY <1>1, <1>2, SubmitQuoteWays, Zenon DEF CloseTurn, CommitReconciled
  <2>2. CASE m < 1 /\ Fail(why)
    <3>1. q.ok
      BY <1>1, <2>1, ConfigFacts, QuoteTaken
    <3>2. Fail("mark")
      BY <2>2, <3>1
    <3>3. QED
      BY <2>1, <2>2, <3>2, MarkExplained
  <2>3. CASE m \in Marks /\ CommitOrFault(c, good)
    <3>1. Follows(engine, t) /\ Fine(t) /\ (~MeetsFlow(engine) => t.ok)
      BY <1>1, <2>1, TradingFollows, TradingTaken
    <3> HIDE DEF t, m
    <3>2. t.ok => good
      BY <1>1, <2>3, <3>1, TurnReconciles
    <3> HIDE DEF good, c
    <3>3. CASE good /\ Commit(c)
      BY <2>1, <3>3, NoneExplained DEF Commit
    <3>4. CASE ~good /\ Fail("trading")
      BY <2>1, <3>1, <3>2, <3>4, TradingExplained
    <3>5. QED
      BY <2>3, <3>3, <3>4, Zenon DEF CommitOrFault
  <2>4. QED
    BY <2>1, <2>2, <2>3
<1>3. ASSUME Quit PROVE FaultsExplained' /\ ~RealTime
  BY <1>3, NoneExplained, Zenon DEF Quit, Commit
<1>4. ASSUME NEW id \in Bots, OpenAccount(id) PROVE FaultsExplained' /\ ~RealTime
  BY <1>4, NoneExplained, Zenon DEF OpenAccount, Commit
<1>5. ASSUME NEW id \in DOMAIN engine.accounts, NEW side \in Sides, NEW price \in Prices,
             NEW qty \in 1..MaxOrderQty, NEW tif \in TIFs, PlaceLimit(id, side, price, qty, tif)
      PROVE  FaultsExplained' /\ ~RealTime
  BY <1>5, NoneExplained, Zenon DEF PlaceLimit, Commit
<1>6. ASSUME NEW order \in LiveOrders(engine.book), Cancel(order) PROVE FaultsExplained' /\ ~RealTime
  BY <1>6, NoneExplained, Zenon DEF Cancel, Commit
<1>7. ASSUME NEW old \in LiveOrders(engine.book), NEW price \in Prices, NEW qty \in 1..MaxOrderQty,
             NEW tif \in TIFs, ReplaceLimit(old, price, qty, tif)
      PROVE  FaultsExplained' /\ ~RealTime
  BY <1>7, NoneExplained, Zenon DEF ReplaceLimit, Commit
<1>8. QED
  BY <1>2, <1>3, <1>4, <1>5, <1>6, <1>7 DEF TurnStep, VenueStep

\* The faults are explained, and what holds of a real-time day goes on to.
LEMMA AlwaysRunning == Spec => []Running
<1>1. Init => Running
  <2> SUFFICES ASSUME Init PROVE Running
    OBVIOUS
  <2>1. Ready /\ engine.isOver = FALSE /\ engine.reason = "" /\ Book!LiveOrders(engine.book) = {}
    BY InitReady
  <2>2. engine \in Engines
    BY <2>1 DEF Ready, Fine, Sane
  <2>3. ~Breached(engine)
    BY <2>2, InitSolvent
  <2>4. DayBook(engine)
    BY <2>1 DEF DayBook, OneSide
  <2>5. DayHolds(engine)
    BY <2>1, <2>3, <2>4 DEF DayHolds, Solvent
  <2>6. FaultsExplained
    BY DEF Init, FaultsExplained
  <2>7. QED
    BY <2>1, <2>5, <2>6 DEF Running
<1>2. Running /\ [Next]_vars => Running'
  <2> SUFFICES ASSUME Running, [Next]_vars PROVE Running'
    OBVIOUS
  <2>1. CASE UNCHANGED vars
    <3>1. engine' = engine /\ fault' = fault
      BY <2>1 DEF vars
    <3>2. Ready' /\ FaultsExplained'
      BY <3>1 DEF Running, Ready, FaultsExplained
    <3>3. RealTime => DayHolds(engine')
      BY <3>1 DEF Running
    <3>4. (RealTime => DayHolds(engine))'
      BY <3>3
    <3>5. QED
      BY <3>1, <3>2, <3>4 DEF Running
  <2>2. CASE Next
    <3>1. Ready
      BY DEF Running
    <3>2. Ready'
      BY <2>2, <3>1, RealTimeStepReady, TurnStepReady, VenueStepReady DEF Next
    <3>3. FaultsExplained' /\ (RealTime => DayHolds(engine))'
      <4>1. CASE RealTimeStep
        BY <4>1, RealTimeStepRuns
      <4>2. CASE TurnStep \/ VenueStep
        <5>1. FaultsExplained' /\ ~RealTime
          BY <4>2, GameStepRuns
        <5>2. RealTime => DayHolds(engine')
          BY <5>1
        <5>3. (RealTime => DayHolds(engine))'
          BY <5>2
        <5>4. QED
          BY <5>1, <5>3
      <4>3. QED
        BY <2>2, <4>1, <4>2 DEF Next
    <3>4. QED
      BY <3>2, <3>3 DEF Running
  <2>3. QED
    BY <2>1, <2>2
<1>3. QED
  BY <1>1, <1>2, PTL DEF Spec

\* The errors of the simulation and of admitted quotes: the mark falls to
\* nothing, or, in a game only, a customer meets an order that was left in the
\* flow's name.  Short of these every entry balances, the book takes the order,
\* and the profit and loss that the command reports is the change of the
\* player's equity.
THEOREM FaultsAreExplained == Spec => []FaultsExplained
<1>1. Running => FaultsExplained
  BY DEF Running
<1>2. QED
  BY <1>1, AlwaysRunning, PTL

\* An open real-time day meets the maintenance margin, whatever came last, and so
\* did one that expired or was quit.
THEOREM OpenDayIsSolvent == Spec => []OpenDayMeetsMaintenance
<1>1. Running => OpenDayMeetsMaintenance
  BY Zenon DEF Running, DayHolds, Solvent, OpenDayMeetsMaintenance
<1>2. QED
  BY <1>1, AlwaysRunning, PTL

\* However a real-time day ends, the player has nothing left in the book and
\* nothing reserved.
THEOREM EndedDayFlat == Spec => []EndedDayIsFlat
<1>1. Running => EndedDayIsFlat
  BY Zenon DEF Running, DayHolds, Flat, EndedDayIsFlat
<1>2. QED
  BY <1>1, AlwaysRunning, PTL

\* A player has one order on each side in real time: every renewal cancels all
\* that it has, and only what it places adds to it.
THEOREM OneBidOneAsk == Spec => []OneQuote
<1>1. Running => OneQuote
  <2> SUFFICES ASSUME Running, RealTime, NEW side \in Sides
               PROVE  Cardinality(OfSide(OrdersOf(engine.book, Player), side)) <= 1
    BY DEF OneQuote
  <2> DEFINE b == engine.book
             n == engine.nextOrder
             S == OfSide(OrdersOf(b, Player), side)
  <2>1. OneSide(engine) /\ Fine(engine)
    BY Zenon DEF Running, DayHolds, DayBook, Ready
  <2>2. Book!Sound(b, n)
    BY <2>1, Zenon DEF Fine, Sane, Orderly, InOrder
  <2>3. ASSUME NEW o \in S, NEW x \in S PROVE o = x
    <3>1. /\ o \in Book!LiveOrders(b) /\ x \in Book!LiveOrders(b)
          /\ o.owner = Player /\ x.owner = Player /\ o.side = x.side
      BY <2>3, SameLive DEF OfSide, OrdersOf
    <3>2. o.id = x.id
      BY <2>1, <3>1, Zenon DEF OneSide
    <3> HIDE DEF b, n, S
    <3>3. QED
      BY <2>2, <3>1, <3>2, BookAssumed, Book!IDsTellApart
  <2> HIDE DEF S
  <2>4. CASE S = {}
    BY <2>4, FS_EmptySet DEF S
  <2>5. CASE S # {}
    <3>1. PICK o \in S : TRUE
      BY <2>5
    <3>2. S = {o}
      BY <2>3, <3>1
    <3>3. Cardinality({o}) = 1
      BY FS_Singleton
    <3>4. Cardinality(S) <= 1
      BY <3>2, <3>3
    <3>5. QED
      BY <3>4 DEF S
  <2>6. QED
    BY <2>4, <2>5
<1>2. QED
  BY <1>1, AlwaysRunning, PTL
=============================================================================
