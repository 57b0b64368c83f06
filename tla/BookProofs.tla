----------------------------- MODULE BookProofs ----------------------------
(***************************************************************************)
(* Proofs about the order book, for any prices, quantities and owners and  *)
(* any number of orders.  The invariant says that every level is in order: *)
(* what it queues belongs there, has something left, is queued once, and   *)
(* adds up to the cached total.  Resting, removing and trading are each    *)
(* one level put in the place of another; a clone is the live orders put   *)
(* to rest again in sequence; the matching loop, which uses up a maker or  *)
(* the taker with each iteration, ends with nothing left to trade.         *)
(***************************************************************************)
EXTENDS OrderBook, FiniteSetTheorems, SequenceTheorems, TLAPS

\* One more order in the total of a level.
AddRemaining(sum, o) == sum + o.remaining

Totals == INSTANCE FoldProofs WITH Op <- AddRemaining
Resting == INSTANCE FoldProofs WITH Op <- Rest

Order == [id : Nat, owner : Owners, side : Sides, price : Nat,
          qty : Nat, remaining : Nat, tif : TIFs]

\* What rests in a queue.
Total(queue) == Totals!Fold(queue, 0)

-----------------------------------------------------------------------------
(* Numbers *)

\* A set of natural numbers has a least one.
LEMMA LeastNumber ==
    ASSUME NEW N, N \subseteq Nat, N # {}
    PROVE  \E m \in N : \A k \in N : m <= k
<1>1. SUFFICES ASSUME \A m \in N : \E k \in N : k < m PROVE FALSE
  OBVIOUS
<1> DEFINE S == {i \in Nat : \A k \in N : i <= k}
<1>2. 0 \in S
  OBVIOUS
<1>3. ASSUME NEW i \in Nat, i \in S PROVE i + 1 \in S
  <2>1. ASSUME NEW k \in N PROVE i + 1 <= k
    <3>1. PICK j \in N : j < k
      BY <1>1
    <3>2. i <= j
      BY <1>3
    <3>3. QED
      BY <3>1, <3>2
  <2>2. QED
    BY <2>1
<1>4. Nat \subseteq S
  <2> HIDE DEF S
  <2>1. QED
    BY <1>2, <1>3, Totals!SetInduction
<1>5. PICK m \in N : TRUE
  OBVIOUS
<1>6. m + 1 \in S
  BY <1>4
<1>7. QED
  BY <1>6

\* A finite set of natural numbers is bounded.
LEMMA FiniteIsBounded ==
    ASSUME NEW N, N \subseteq Nat, IsFiniteSet(N)
    PROVE  \E n \in Nat : N \subseteq 0..n
<1> DEFINE S == {c \in Nat : \A f \in [1..c -> Nat] : \E n \in Nat : \A i \in 1..c : f[i] <= n}
<1>1. 0 \in S
  BY 1..0 = {}
<1>2. ASSUME NEW c \in Nat, c \in S PROVE c + 1 \in S
  <2>1. ASSUME NEW f \in [1..(c + 1) -> Nat] PROVE \E n \in Nat : \A i \in 1..(c + 1) : f[i] <= n
    <3> DEFINE g == [i \in 1..c |-> f[i]]
    <3>1. g \in [1..c -> Nat]
      OBVIOUS
    <3>2. PICK n \in Nat : \A i \in 1..c : g[i] <= n
      BY <1>2, <3>1
    <3>3. f[c + 1] \in Nat
      OBVIOUS
    <3>4. \A i \in 1..(c + 1) : f[i] <= n + f[c + 1]
      <4>1. TAKE i \in 1..(c + 1)
      <4>2. CASE i = c + 1
        BY <3>3, <4>2
      <4>3. CASE i \in 1..c
        <5>1. g[i] = f[i] /\ f[i] \in Nat
          BY <4>3
        <5>2. g[i] <= n
          BY <3>2, <4>3
        <5>3. QED
          BY <3>3, <5>1, <5>2
      <4>4. QED
        BY <4>2, <4>3
    <3> DEFINE top == n + f[c + 1]
    <3>5. top \in Nat
      BY <3>3
    <3>6. \A i \in 1..(c + 1) : f[i] <= top
      BY <3>4
    <3> HIDE DEF top
    <3>7. QED
      BY <3>5, <3>6, Zenon
  <2>2. c + 1 \in Nat
    OBVIOUS
  <2>3. QED
    BY <2>1, <2>2, Zenon
<1>3. Nat \subseteq S
  <2> HIDE DEF S
  <2>1. QED
    BY <1>1, <1>2, Totals!SetInduction
<1>4. Cardinality(N) \in Nat /\ ExistsBijection(1..Cardinality(N), N)
  BY FS_CardinalityType
<1>5. PICK f : f \in Bijection(1..Cardinality(N), N)
  BY <1>4 DEF ExistsBijection
<1> DEFINE c == Cardinality(N)
<1>6. f \in [1..c -> N] /\ \A y \in N : \E x \in 1..c : f[x] = y
  BY <1>5 DEF Bijection, Surjection
<1>7. c \in S
  BY <1>3, <1>4
<1> HIDE DEF c
<1>8. f \in [1..c -> Nat]
  BY <1>6
<1>9. PICK n \in Nat : \A i \in 1..c : f[i] <= n
  BY <1>7, <1>8
<1>10. ASSUME NEW y \in N PROVE y \in 0..n
  <2>1. PICK x \in 1..c : f[x] = y
    BY <1>6
  <2>2. y <= n /\ y \in Nat
    BY <1>9, <2>1
  <2>3. QED
    BY <2>2
<1>11. QED
  BY <1>10

\* The library's Max and Min of a finite set of numbers are what they say.
LEMMA Extremes ==
    ASSUME NEW N, N \subseteq Nat, N # {}, IsFiniteSet(N)
    PROVE  /\ Max(N) \in N /\ \A k \in N : k <= Max(N)
           /\ Min(N) \in N /\ \A k \in N : Min(N) <= k
<1>1. PICK n \in Nat : N \subseteq 0..n
  BY FiniteIsBounded
<1>2. \E m \in N : \A k \in N : m >= k
  BY <1>1, Totals!BoundedMaximum
<1>3. \E m \in N : \A k \in N : m <= k
  BY LeastNumber
<1>4. Max(N) \in N /\ \A k \in N : Max(N) >= k
  BY <1>2, Zenon DEF Max
<1>5. Min(N) \in N /\ \A k \in N : Min(N) <= k
  BY <1>3, Zenon DEF Min
<1>6. \A k \in N : k <= Max(N)
  BY <1>4
<1>7. QED
  BY <1>4, <1>5, <1>6

-----------------------------------------------------------------------------
(* Queues *)

\* The total of a longer queue.
LEMMA TotalAppend ==
    ASSUME NEW q \in Seq(Order), NEW o \in Order
    PROVE  Total(Append(q, o)) = Total(q) + o.remaining
<1>1. Totals!Fold(Append(q, o), 0) = AddRemaining(Totals!Fold(q, 0), o)
  BY Totals!FoldAppend
<1>2. QED
  BY <1>1 DEF Total, AddRemaining

\* Nothing rests in an empty queue.
LEMMA TotalEmpty == Total(<<>>) = 0
<1>1. <<>> \in Seq(Order) /\ SubSeq(<<>>, 1, 0) = <<>>
  BY SubSeqEmpty
<1>2. Totals!Fold(SubSeq(<<>>, 1, 0), 0) = 0
  BY <1>1, Totals!FoldStep
<1>3. QED
  BY <1>1, <1>2 DEF Total

\* The total of a queue is a number.
LEMMA TotalIsNumber ==
    ASSUME NEW q \in Seq(Order)
    PROVE  Total(q) \in Nat
<1> DEFINE P == {s \in Seq(Order) : Total(s) \in Nat}
<1>1. <<>> \in P
  BY TotalEmpty
<1>2. ASSUME NEW s \in Seq(Order), NEW o \in Order, s \in P PROVE Append(s, o) \in P
  <2>1. Total(Append(s, o)) = Total(s) + o.remaining /\ o.remaining \in Nat
    BY TotalAppend DEF Order
  <2>2. QED
    BY <1>2, <2>1
<1>3. Seq(Order) \subseteq P
  <2> HIDE DEF P
  <2>1. QED
    BY <1>1, <1>2, Totals!SequenceInduction
<1>4. QED
  BY <1>3

\* The total of one queue behind another.
LEMMA TotalConcat ==
    ASSUME NEW q \in Seq(Order), NEW r \in Seq(Order)
    PROVE  Total(q \o r) = Total(q) + Total(r)
<1> DEFINE P == {s \in Seq(Order) : Total(q \o s) = Total(q) + Total(s)}
<1>1. <<>> \in P
  <2>1. q \o <<>> = q /\ <<>> \in Seq(Order)
    OBVIOUS
  <2>2. Total(q) \in Nat /\ Total(<<>>) = 0
    BY TotalEmpty, TotalIsNumber
  <2>3. QED
    BY <2>1, <2>2
<1>2. ASSUME NEW s \in Seq(Order), NEW o \in Order, s \in P PROVE Append(s, o) \in P
  <2>1. q \o Append(s, o) = Append(q \o s, o) /\ q \o s \in Seq(Order) /\ Append(s, o) \in Seq(Order)
    OBVIOUS
  <2>2. Total(Append(q \o s, o)) = Total(q \o s) + o.remaining
    BY <2>1, TotalAppend
  <2>3. Total(Append(s, o)) = Total(s) + o.remaining
    BY TotalAppend
  <2>4. Total(q) \in Nat /\ Total(s) \in Nat /\ o.remaining \in Nat
    BY TotalIsNumber DEF Order
  <2>5. Total(q \o s) = Total(q) + Total(s)
    BY <1>2
  <2>6. Total(Append(q \o s, o)) = Total(q) + Total(Append(s, o))
    BY <2>2, <2>3, <2>4, <2>5
  <2>7. QED
    BY <2>1, <2>6
<1>3. Seq(Order) \subseteq P
  <2> HIDE DEF P
  <2>1. QED
    BY <1>1, <1>2, Totals!SequenceInduction
<1>4. QED
  BY <1>3

\* The total of one order.
LEMMA TotalOne ==
    ASSUME NEW o \in Order
    PROVE  Total(<<o>>) = o.remaining
<1>1. Append(<<>>, o) = <<o>> /\ <<>> \in Seq(Order)
  OBVIOUS
<1>2. Total(Append(<<>>, o)) = Total(<<>>) + o.remaining /\ o.remaining \in Nat
  BY <1>1, TotalAppend DEF Order
<1>3. QED
  BY <1>1, <1>2, TotalEmpty

\* A queue with another order in the first place.
LEMMA TotalHead ==
    ASSUME NEW q \in Seq(Order), q # <<>>, NEW o \in Order
    PROVE  Total(<<o>> \o Tail(q)) = Total(q) - Head(q).remaining + o.remaining
<1>1. q = <<Head(q)>> \o Tail(q) /\ Head(q) \in Order /\ Tail(q) \in Seq(Order)
  OBVIOUS
<1>2. <<o>> \in Seq(Order) /\ <<Head(q)>> \in Seq(Order)
  BY <1>1
<1>3. Total(<<o>> \o Tail(q)) = Total(<<o>>) + Total(Tail(q))
  BY <1>1, <1>2, TotalConcat
<1>4. Total(<<Head(q)>> \o Tail(q)) = Total(<<Head(q)>>) + Total(Tail(q))
  BY <1>1, <1>2, TotalConcat
<1>5. Total(<<o>>) = o.remaining /\ Total(<<Head(q)>>) = Head(q).remaining
  BY <1>1, TotalOne
<1>6. o.remaining \in Nat /\ Head(q).remaining \in Nat /\ Total(Tail(q)) \in Nat
  BY <1>1, TotalIsNumber DEF Order
<1>7. Total(q) = Total(<<Head(q)>>) + Total(Tail(q))
  BY <1>1, <1>4, Zenon
<1>8. QED
  BY <1>3, <1>5, <1>6, <1>7

\* Unlinking an order takes what remains of it from the total.
LEMMA Unlinked ==
    ASSUME NEW q \in Seq(Order), NEW k \in 1..Len(q)
    PROVE  /\ RemoveAt(q, k) \in Seq(Order)
           /\ Len(RemoveAt(q, k)) = Len(q) - 1
           /\ \A i \in 1..(Len(q) - 1) : RemoveAt(q, k)[i] = q[IF i < k THEN i ELSE i + 1]
           /\ Total(RemoveAt(q, k)) = Total(q) - q[k].remaining
<1> DEFINE front == SubSeq(q, 1, k - 1)
           back  == SubSeq(q, k + 1, Len(q))
<1>1. front \in Seq(Order) /\ back \in Seq(Order) /\ q[k] \in Order /\ <<q[k]>> \in Seq(Order)
  OBVIOUS
<1>2. Len(front) = k - 1 /\ Len(back) = Len(q) - k
  OBVIOUS
<1>3. RemoveAt(q, k) = front \o back
  BY DEF RemoveAt
<1>a. \A i \in 1..Len(front) : front[i] = q[i]
  OBVIOUS
<1>b. \A i \in 1..Len(back) : back[i] = q[k + i]
  OBVIOUS
<1>4. q = (front \o <<q[k]>>) \o back
  <2> DEFINE u == front \o <<q[k]>>
  <2> HIDE DEF front, back
  <2>1. u \in Seq(Order) /\ Len(u) = k /\ \A i \in 1..k : u[i] = q[i]
    BY <1>1, <1>2, <1>a
  <2> HIDE DEF u
  <2>2. u \o back \in Seq(Order) /\ Len(u \o back) = Len(q)
    <3>1. u \o back \in Seq(Order)
      BY <1>1, <2>1
    <3>2. Len(u \o back) = Len(u) + Len(back)
      <4>1. \A s, t \in Seq(Order) : Len(s \o t) = Len(s) + Len(t)
        OBVIOUS
      <4>2. QED
        BY <1>1, <2>1, <4>1, Zenon
    <3>3. Len(u) = k /\ Len(back) = Len(q) - k /\ k \in Int /\ Len(q) \in Int
      BY <1>2, <2>1
    <3>4. Len(u \o back) = Len(q)
      <4>1. \A a, c, d \in Int : d = a + (c - a) => d = c
        OBVIOUS
      <4>2. Len(u \o back) = k + (Len(q) - k)
        BY <3>2, <3>3, Zenon
      <4>3. Len(u \o back) \in Int
        BY <3>1
      <4>4. QED
        BY <3>3, <4>1, <4>2, <4>3, Zenon
    <3>5. QED
      BY <3>1, <3>4, Zenon
  <2>3. ASSUME NEW i \in 1..Len(q) PROVE (u \o back)[i] = q[i]
    <3>1. CASE i <= k
      BY <1>1, <2>1, <3>1
    <3>2. CASE ~(i <= k)
      <4>1. i - k \in 1..Len(back) /\ (u \o back)[i] = back[i - k]
        BY <1>1, <1>2, <2>1, <3>2
      <4>2. QED
        BY <1>b, <4>1
    <3>3. QED
      BY <3>1, <3>2
  <2>4. q = u \o back
    BY <2>2, <2>3, SeqEqual
  <2>5. QED
    BY <2>4 DEF u
<1>5. ASSUME NEW i \in 1..(Len(q) - 1) PROVE (front \o back)[i] = q[IF i < k THEN i ELSE i + 1]
  <2> HIDE DEF front, back
  <2>1. CASE i < k
    BY <1>1, <1>2, <1>a, <2>1
  <2>2. CASE ~(i < k)
    <3>1. i - (k - 1) \in 1..Len(back) /\ (front \o back)[i] = back[i - (k - 1)]
      <4>1. i \in 1..Len(front) + Len(back) /\ ~(i <= Len(front)) /\ i - (k - 1) \in 1..Len(back)
        BY <1>2, <2>2
      <4>2. (front \o back)[i] = back[i - Len(front)]
        BY <1>1, <4>1, ConcatProperties
      <4>3. QED
        BY <1>2, <4>1, <4>2
    <3>2. back[i - (k - 1)] = q[i + 1]
      <4>1. back[i - (k - 1)] = q[k + (i - (k - 1))] /\ k + (i - (k - 1)) = i + 1
        BY <1>b, <3>1
      <4>2. QED
        BY <4>1
    <3>3. (IF i < k THEN i ELSE i + 1) = i + 1
      BY <2>2
    <3>4. QED
      BY <3>1, <3>2, <3>3, Zenon
  <2>3. QED
    BY <2>1, <2>2
<1>6. front \o back \in Seq(Order) /\ Len(front \o back) = Len(q) - 1
  <2> HIDE DEF front, back
  <2>1. QED
    BY <1>1, <1>2
<1> HIDE DEF front, back
<1>7. Total(front \o back) = Total(front) + Total(back)
  BY <1>1, TotalConcat
<1>8. front \o <<q[k]>> \in Seq(Order)
  BY <1>1
<1>9. Total((front \o <<q[k]>>) \o back) = Total(front \o <<q[k]>>) + Total(back)
  BY <1>1, <1>8, TotalConcat
<1>10. Total(front \o <<q[k]>>) = Total(front) + Total(<<q[k]>>)
  BY <1>1, TotalConcat
<1>11. Total(<<q[k]>>) = q[k].remaining /\ q[k].remaining \in Nat
  BY <1>1, TotalOne DEF Order
<1>12. Total(front) \in Nat /\ Total(back) \in Nat
  BY <1>1, TotalIsNumber
<1>13. Total(q) = Total(front \o <<q[k]>>) + Total(back)
  BY <1>4, <1>9, Zenon
<1>14. Total(front \o back) = Total(q) - q[k].remaining
  BY <1>7, <1>10, <1>11, <1>12, <1>13
<1>15. QED
  BY <1>3, <1>5, <1>6, <1>14
-----------------------------------------------------------------------------
(* Levels and books *)

Level == [queue : Seq(Order), qty : Int]
Books == [Sides -> [Prices -> Level]]

IDs(queue) == {queue[i].id : i \in 1..Len(queue)}

\* A level keeps orders of its side and price that have something left, no two
\* with one identifier and none above n, and caches what they add up to.
LevelSound(level, side, price, n) ==
    /\ \A i \in 1..Len(level.queue) :
         /\ level.queue[i].side = side /\ level.queue[i].price = price
         /\ level.queue[i].remaining > 0 /\ level.queue[i].id <= n
    /\ \A i, j \in 1..Len(level.queue) : level.queue[i].id = level.queue[j].id => i = j
    /\ level.qty = Total(level.queue)

\* No identifier is in two levels.
Apart(b) ==
    \A s \in Sides, t \in Sides, p \in Prices, q \in Prices :
        s # t \/ p # q => IDs(b[s][p].queue) \cap IDs(b[t][q].queue) = {}

Sound(b, n) ==
    /\ b \in Books
    /\ \A s \in Sides, p \in Prices : LevelSound(b[s][p], s, p, n)
    /\ Apart(b)

\* The book with another level in the place of one.
Put(b, side, price, level) == [b EXCEPT ![side][price] = level]

\* Where an order is looked for.
QueueOf(b, o) == b[o.side][o.price].queue

\* The live orders are what the queues hold.
LEMMA LiveMember ==
    ASSUME NEW b \in Books, NEW o
    PROVE  o \in LiveOrders(b) <=>
             \E s \in Sides, p \in Prices : \E i \in 1..Len(b[s][p].queue) : o = b[s][p].queue[i]
<1>1. \A s \in Sides, p \in Prices : DOMAIN b[s][p].queue = 1..Len(b[s][p].queue)
  <2>1. TAKE s \in Sides, p \in Prices
  <2>2. b[s][p].queue \in Seq(Order)
    BY DEF Books, Level
  <2>3. QED
    BY <2>2
<1>2. o \in LiveOrders(b) <=> \E s \in Sides, p \in Prices : o \in ToSet(b[s][p].queue)
  BY DEF LiveOrders
<1>3. ASSUME NEW s \in Sides, NEW p \in Prices
      PROVE  o \in ToSet(b[s][p].queue) <=> \E i \in 1..Len(b[s][p].queue) : o = b[s][p].queue[i]
  BY <1>1, Zenon DEF ToSet
<1>4. QED
  BY <1>2, <1>3, Zenon

\* A live order is in the queue of its side and price.
LEMMA LiveInPlace ==
    ASSUME NEW n, NEW b, Sound(b, n), NEW o \in LiveOrders(b)
    PROVE  /\ o \in Order /\ o.remaining > 0 /\ o.id <= n
           /\ o.side \in Sides /\ o.price \in Prices
           /\ \E i \in 1..Len(QueueOf(b, o)) : QueueOf(b, o)[i] = o
<1>1a. PICK s \in Sides, p \in Prices : \E i \in 1..Len(b[s][p].queue) : o = b[s][p].queue[i]
  <2>1. b \in Books
    BY DEF Sound
  <2>2. QED
    BY <2>1, LiveMember
<1>1. PICK i \in 1..Len(b[s][p].queue) : o = b[s][p].queue[i]
  BY <1>1a
<1>2. b[s][p].queue \in Seq(Order)
  BY DEF Sound, Books, Level
<1>3. LevelSound(b[s][p], s, p, n)
  BY Zenon DEF Sound
<1>4. o.side = s /\ o.price = p /\ o.remaining > 0 /\ o.id <= n
  BY <1>1, <1>3, Zenon DEF LevelSound
<1>5. o \in Order
  BY <1>1, <1>2
<1>6. QED
  BY <1>1, <1>4, <1>5, Zenon DEF QueueOf

\* What a queue of a sound book holds is live.
LEMMA QueueIsLive ==
    ASSUME NEW n, NEW b, Sound(b, n), NEW s \in Sides, NEW p \in Prices, NEW i \in 1..Len(b[s][p].queue)
    PROVE  /\ b[s][p].queue[i] \in LiveOrders(b)
           /\ b[s][p].queue[i] \in Order
           /\ b[s][p].queue[i].side = s /\ b[s][p].queue[i].price = p
           /\ b[s][p].queue[i].remaining > 0 /\ b[s][p].queue[i].id <= n
<1>1. b \in Books /\ LevelSound(b[s][p], s, p, n)
  BY Zenon DEF Sound
<1>2. b[s][p].queue[i] \in LiveOrders(b)
  BY <1>1, LiveMember
<1>3. b[s][p].queue \in Seq(Order)
  BY <1>1 DEF Books, Level
<1>4. b[s][p].queue[i] \in Order
  BY <1>3
<1>5. QED
  BY <1>1, <1>2, <1>4, Zenon DEF LevelSound

\* An identifier tells the live orders apart.
LEMMA IDsTellApart ==
    ASSUME NEW n, NEW b, Sound(b, n), NEW o \in LiveOrders(b), NEW x \in LiveOrders(b), o.id = x.id
    PROVE  o = x
<1>1. b \in Books /\ Apart(b)
  BY Zenon DEF Sound
<1>2a. PICK s \in Sides, p \in Prices : \E i \in 1..Len(b[s][p].queue) : o = b[s][p].queue[i]
  BY <1>1, LiveMember
<1>2. PICK i \in 1..Len(b[s][p].queue) : o = b[s][p].queue[i]
  BY <1>2a
<1>3a. PICK t \in Sides, q \in Prices : \E j \in 1..Len(b[t][q].queue) : x = b[t][q].queue[j]
  BY <1>1, LiveMember
<1>3. PICK j \in 1..Len(b[t][q].queue) : x = b[t][q].queue[j]
  BY <1>3a
<1>4. o.id \in IDs(b[s][p].queue) /\ x.id \in IDs(b[t][q].queue)
  BY <1>2, <1>3, Zenon DEF IDs
<1>5. s = t /\ p = q
  <2>1. SUFFICES ASSUME s # t \/ p # q PROVE FALSE
    BY Zenon
  <2>2. IDs(b[s][p].queue) \cap IDs(b[t][q].queue) = {}
    BY <1>1, <2>1, Zenon DEF Apart
  <2>3. QED
    BY <1>4, <2>2
<1>6. LevelSound(b[s][p], s, p, n)
  BY Zenon DEF Sound
<1>7. b[s][p].queue[i].id = b[s][p].queue[j].id /\ j \in 1..Len(b[s][p].queue)
  BY <1>2, <1>3, <1>5, Zenon
<1>8. i = j
  BY <1>6, <1>7, Zenon DEF LevelSound
<1>9. QED
  BY <1>2, <1>3, <1>5, <1>8, Zenon

\* Only the level that is put changes.
LEMMA PutAt ==
    ASSUME NEW b \in Books, NEW side \in Sides, NEW price \in Prices, NEW level \in Level
    PROVE  /\ Put(b, side, price, level) \in Books
           /\ Put(b, side, price, level)[side][price] = level
           /\ \A s \in Sides, p \in Prices : s # side \/ p # price =>
                Put(b, side, price, level)[s][p] = b[s][p]
<1>1. b \in [Sides -> [Prices -> Level]]
  BY DEF Books
<1>2. Put(b, side, price, level) \in [Sides -> [Prices -> Level]]
  BY <1>1 DEF Put
<1>3. Put(b, side, price, level)[side][price] = level
  BY <1>1 DEF Put
<1>4. ASSUME NEW s \in Sides, NEW p \in Prices, s # side \/ p # price
      PROVE  Put(b, side, price, level)[s][p] = b[s][p]
  <2>1. CASE s # side
    BY <1>1, <2>1 DEF Put
  <2>2. CASE s = side /\ p # price
    BY <1>1, <2>2 DEF Put
  <2>3. QED
    BY <1>4, <2>1, <2>2
<1>5. QED
  BY <1>2, <1>3, <1>4, Zenon DEF Books

\* A sound level in the place of another, with identifiers no other level has.
LEMMA PutSound ==
    ASSUME NEW n, NEW b, Sound(b, n), NEW side \in Sides, NEW price \in Prices, NEW level \in Level,
           LevelSound(level, side, price, n),
           \A s \in Sides, p \in Prices : s # side \/ p # price =>
               IDs(level.queue) \cap IDs(b[s][p].queue) = {}
    PROVE  /\ Sound(Put(b, side, price, level), n)
           /\ LiveOrders(Put(b, side, price, level)) =
                {o \in LiveOrders(b) : o.side # side \/ o.price # price} \cup ToSet(level.queue)
<1> DEFINE c == Put(b, side, price, level)
<1>1. b \in Books /\ Apart(b)
  BY Zenon DEF Sound
<1>2. /\ c \in Books
      /\ c[side][price] = level
      /\ \A s \in Sides, p \in Prices : s # side \/ p # price => c[s][p] = b[s][p]
  BY <1>1, PutAt
<1> HIDE DEF c
<1>3. ASSUME NEW s \in Sides, NEW p \in Prices PROVE LevelSound(c[s][p], s, p, n)
  <2>1. CASE s = side /\ p = price
    BY <1>2, <2>1, Zenon
  <2>2. CASE s # side \/ p # price
    <3>1. c[s][p] = b[s][p]
      BY <1>2, <2>2
    <3>2. LevelSound(b[s][p], s, p, n)
      BY Zenon DEF Sound
    <3>3. QED
      BY <3>1, <3>2, Zenon
  <2>3. QED
    BY <2>1, <2>2, Zenon
<1>4. ASSUME NEW s \in Sides, NEW t \in Sides, NEW p \in Prices, NEW q \in Prices, s # t \/ p # q
      PROVE  IDs(c[s][p].queue) \cap IDs(c[t][q].queue) = {}
  <2>1. CASE s = side /\ p = price
    <3>1. c[s][p] = level /\ c[t][q] = b[t][q]
      BY <1>2, <1>4, <2>1, Zenon
    <3>2. IDs(level.queue) \cap IDs(b[t][q].queue) = {}
      BY <1>4, <2>1, Zenon
    <3>3. QED
      BY <3>1, <3>2, Zenon
  <2>2. CASE t = side /\ q = price
    <3>1. c[s][p] = b[s][p] /\ c[t][q] = level
      BY <1>2, <1>4, <2>2, Zenon
    <3>2. IDs(level.queue) \cap IDs(b[s][p].queue) = {}
      BY <1>4, <2>2, Zenon
    <3>3. IDs(b[s][p].queue) \cap IDs(level.queue) = {}
      BY <3>2
    <3>4. QED
      BY <3>1, <3>3, Zenon
  <2>3. CASE (s # side \/ p # price) /\ (t # side \/ q # price)
    <3>1. c[s][p] = b[s][p] /\ c[t][q] = b[t][q]
      BY <1>2, <2>3, Zenon
    <3>2. IDs(b[s][p].queue) \cap IDs(b[t][q].queue) = {}
      BY <1>1, <1>4, Zenon DEF Apart
    <3>3. QED
      BY <3>1, <3>2, Zenon
  <2>4. QED
    BY <2>1, <2>2, <2>3, Zenon
<1>5. Sound(c, n)
  BY <1>2, <1>3, <1>4, Zenon DEF Sound, Apart
<1>6. ToSet(level.queue) = {level.queue[i] : i \in 1..Len(level.queue)}
  <2>1. level.queue \in Seq(Order)
    BY DEF Level
  <2>2. DOMAIN level.queue = 1..Len(level.queue)
    BY <2>1
  <2>3. QED
    BY <2>2, Zenon DEF ToSet
<1>7. ASSUME NEW o, o \in LiveOrders(c)
      PROVE  o \in {x \in LiveOrders(b) : x.side # side \/ x.price # price} \cup ToSet(level.queue)
  <2>1a. PICK s \in Sides, p \in Prices : \E i \in 1..Len(c[s][p].queue) : o = c[s][p].queue[i]
    BY <1>2, <1>7, LiveMember
  <2>1. PICK i \in 1..Len(c[s][p].queue) : o = c[s][p].queue[i]
    BY <2>1a
  <2>2. CASE s = side /\ p = price
    <3>1. o \in ToSet(level.queue)
      BY <1>2, <1>6, <2>1, <2>2, Zenon
    <3>2. QED
      BY <3>1
  <2>3. CASE s # side \/ p # price
    <3>1. c[s][p] = b[s][p]
      BY <1>2, <2>3, Zenon
    <3>2. o = b[s][p].queue[i] /\ i \in 1..Len(b[s][p].queue)
      BY <2>1, <3>1, Zenon
    <3>3. b[s][p].queue[i] \in LiveOrders(b) /\ b[s][p].queue[i].side = s /\ b[s][p].queue[i].price = p
      BY <3>2, QueueIsLive
    <3>4. QED
      BY <2>3, <3>2, <3>3
  <2>4. QED
    BY <2>2, <2>3, Zenon
<1>8. ASSUME NEW o, o \in {x \in LiveOrders(b) : x.side # side \/ x.price # price} \cup ToSet(level.queue)
      PROVE  o \in LiveOrders(c)
  <2>1. CASE o \in ToSet(level.queue)
    <3>1. PICK i \in 1..Len(c[side][price].queue) : o = c[side][price].queue[i]
      BY <1>2, <1>6, <2>1
    <3>2. QED
      BY <1>2, <3>1, LiveMember
  <2>2. CASE o \in LiveOrders(b) /\ (o.side # side \/ o.price # price)
    <3>1. /\ o.side \in Sides /\ o.price \in Prices
          /\ \E i \in 1..Len(QueueOf(b, o)) : QueueOf(b, o)[i] = o
      BY <2>2, LiveInPlace
    <3>2. c[o.side][o.price] = b[o.side][o.price]
      BY <1>2, <2>2, <3>1
    <3>3. PICK i \in 1..Len(c[o.side][o.price].queue) : c[o.side][o.price].queue[i] = o
      BY <3>1, <3>2, Zenon DEF QueueOf
    <3>4. QED
      BY <1>2, <3>1, <3>3, LiveMember
  <2>3. QED
    BY <1>8, <2>1, <2>2
<1>9. LiveOrders(c) = {o \in LiveOrders(b) : o.side # side \/ o.price # price} \cup ToSet(level.queue)
  BY <1>7, <1>8
<1>10. QED
  BY <1>5, <1>9, Zenon DEF c
-----------------------------------------------------------------------------
(* Resting and removing *)

\* The live orders of a side at a price.
LiveAt(b, s, p) == {o \in LiveOrders(b) : o.side = s /\ o.price = p}

\* What a level holds is what is live at its side and price.
LEMMA LevelLive ==
    ASSUME NEW n, NEW b, Sound(b, n), NEW s \in Sides, NEW p \in Prices
    PROVE  /\ b[s][p].queue \in Seq(Order)
           /\ \A x : x \in ToSet(b[s][p].queue) <=> \E i \in 1..Len(b[s][p].queue) : x = b[s][p].queue[i]
           /\ ToSet(b[s][p].queue) = LiveAt(b, s, p)
<1>1. b[s][p].queue \in Seq(Order)
  BY DEF Sound, Books, Level
<1>2. DOMAIN b[s][p].queue = 1..Len(b[s][p].queue)
  BY <1>1
<1>3. \A x : x \in ToSet(b[s][p].queue) <=> \E i \in 1..Len(b[s][p].queue) : x = b[s][p].queue[i]
  BY <1>2, Zenon DEF ToSet
<1>4. ASSUME NEW x \in ToSet(b[s][p].queue) PROVE x \in LiveOrders(b) /\ x.side = s /\ x.price = p
  <2>1. PICK i \in 1..Len(b[s][p].queue) : x = b[s][p].queue[i]
    BY <1>3
  <2>2. QED
    BY <2>1, QueueIsLive
<1>5. ASSUME NEW x \in LiveOrders(b), x.side = s, x.price = p PROVE x \in ToSet(b[s][p].queue)
  <2>1. \E i \in 1..Len(QueueOf(b, x)) : QueueOf(b, x)[i] = x
    BY LiveInPlace
  <2>2. QueueOf(b, x) = b[s][p].queue
    BY <1>5, Zenon DEF QueueOf
  <2>3. QED
    BY <1>3, <2>1, <2>2, Zenon
<1>6. QED
  BY <1>1, <1>3, <1>4, <1>5 DEF LiveAt

\* An identifier no live order has is in no level.
LEMMA NewToLevels ==
    ASSUME NEW n, NEW b, Sound(b, n), NEW id, \A x \in LiveOrders(b) : x.id # id,
           NEW s \in Sides, NEW p \in Prices
    PROVE  id \notin IDs(b[s][p].queue)
<1>1. SUFFICES ASSUME id \in IDs(b[s][p].queue) PROVE FALSE
  OBVIOUS
<1>2. PICK i \in 1..Len(b[s][p].queue) : id = b[s][p].queue[i].id
  BY <1>1, Zenon DEF IDs
<1>3. b[s][p].queue[i] \in LiveOrders(b)
  BY QueueIsLive
<1>4. QED
  BY <1>2, <1>3

\* An order that is new to a sound book rests in it.
LEMMA RestSound ==
    ASSUME NEW n, NEW b, Sound(b, n), NEW o \in Order, o.price \in Prices, o.remaining > 0, o.id <= n,
           \A x \in LiveOrders(b) : x.id # o.id
    PROVE  /\ Sound(Rest(b, o), n)
           /\ LiveOrders(Rest(b, o)) = LiveOrders(b) \cup {o}
<1> DEFINE q == b[o.side][o.price].queue
           level == [queue |-> Append(q, o), qty |-> b[o.side][o.price].qty + o.remaining]
<1>1. o.side \in Sides /\ o.price \in Prices /\ o.remaining \in Nat
  BY DEF Order
<1>2. Rest(b, o) = Put(b, o.side, o.price, level)
  BY Zenon DEF Rest, Put
<1>3. /\ q \in Seq(Order)
      /\ \A x : x \in ToSet(q) <=> \E i \in 1..Len(q) : x = q[i]
      /\ ToSet(q) = LiveAt(b, o.side, o.price)
  BY <1>1, LevelLive
<1>4. LevelSound(b[o.side][o.price], o.side, o.price, n) /\ b \in Books
  BY <1>1, Zenon DEF Sound
<1>5. b[o.side][o.price].qty \in Int /\ b[o.side][o.price].qty = Total(q)
  BY <1>1, <1>4 DEF Books, Level, LevelSound
<1>6. level \in Level
  BY <1>1, <1>3, <1>5 DEF Level
<1>7. level.queue = Append(q, o) /\ level.qty = b[o.side][o.price].qty + o.remaining
  BY Zenon
<1>8. /\ Append(q, o) \in Seq(Order) /\ Len(Append(q, o)) = Len(q) + 1 /\ Len(q) \in Nat
      /\ Append(q, o)[Len(q) + 1] = o
      /\ \A i \in 1..Len(q) : Append(q, o)[i] = q[i]
  <2>1. q \in Seq(Order)
    BY <1>3
  <2> HIDE DEF q
  <2>2. QED
    BY <2>1
<1>9. \A i \in 1..Len(q) : /\ q[i].side = o.side /\ q[i].price = o.price
                           /\ q[i].remaining > 0 /\ q[i].id <= n /\ q[i].id # o.id
  <2>1. TAKE i \in 1..Len(q)
  <2>2. q[i].side = o.side /\ q[i].price = o.price /\ q[i].remaining > 0 /\ q[i].id <= n
    BY <1>4, Zenon DEF LevelSound
  <2>3. q[i] \in LiveOrders(b)
    BY <1>3 DEF LiveAt
  <2>4. QED
    BY <2>2, <2>3
<1>10. \A i, j \in 1..Len(q) : q[i].id = q[j].id => i = j
  BY <1>4, Zenon DEF LevelSound
<1> HIDE DEF q
<1>11. LevelSound(level, o.side, o.price, n)
  <2>1. ASSUME NEW i \in 1..Len(level.queue)
        PROVE  /\ level.queue[i].side = o.side /\ level.queue[i].price = o.price
               /\ level.queue[i].remaining > 0 /\ level.queue[i].id <= n
    <3> HIDE DEF level
    <3>1. CASE i = Len(q) + 1
      BY <1>7, <1>8, <3>1
    <3>2. CASE i \in 1..Len(q)
      BY <1>7, <1>8, <1>9, <3>2
    <3>3. QED
      BY <1>7, <1>8, <3>1, <3>2
  <2>2. ASSUME NEW i \in 1..Len(level.queue), NEW j \in 1..Len(level.queue),
               level.queue[i].id = level.queue[j].id
        PROVE  i = j
    <3> HIDE DEF level
    <3>1. CASE i \in 1..Len(q) /\ j \in 1..Len(q)
      BY <1>7, <1>8, <1>10, <2>2, <3>1
    <3>2. CASE i = Len(q) + 1 /\ j \in 1..Len(q)
      BY <1>7, <1>8, <1>9, <2>2, <3>2
    <3>3. CASE i \in 1..Len(q) /\ j = Len(q) + 1
      BY <1>7, <1>8, <1>9, <2>2, <3>3
    <3>4. CASE i = Len(q) + 1 /\ j = Len(q) + 1
      BY <3>4
    <3>5. QED
      BY <1>7, <1>8, <3>1, <3>2, <3>3, <3>4
  <2>3. level.qty = Total(level.queue)
    BY <1>3, <1>5, <1>7, TotalAppend
  <2> HIDE DEF level
  <2>4. QED
    BY <2>1, <2>2, <2>3, Zenon DEF LevelSound
<1>12. IDs(level.queue) \subseteq IDs(q) \cup {o.id}
  <2>1. \A i \in 1..Len(level.queue) : level.queue[i].id = o.id \/ \E j \in 1..Len(q) : level.queue[i].id = q[j].id
    <3> HIDE DEF level
    <3>1. TAKE i \in 1..Len(level.queue)
    <3>2. i = Len(q) + 1 \/ i \in 1..Len(q)
      BY <1>7, <1>8
    <3>3. QED
      BY <1>7, <1>8, <3>2
  <2> HIDE DEF level
  <2>2. QED
    BY <2>1 DEF IDs
<1>13. ToSet(level.queue) = ToSet(q) \cup {o}
  <2>1. DOMAIN level.queue = 1..(Len(q) + 1)
    BY <1>7, <1>8
  <2> HIDE DEF level
  <2>2. \A x : x \in ToSet(level.queue) <=> \E i \in 1..(Len(q) + 1) : x = level.queue[i]
    BY <2>1, Zenon DEF ToSet
  <2>3. ASSUME NEW x PROVE (\E i \in 1..(Len(q) + 1) : x = level.queue[i])
                             <=> (x = o \/ \E i \in 1..Len(q) : x = q[i])
    <3>1. Len(q) + 1 \in 1..(Len(q) + 1)
      BY <1>8
    <3>2. \A i \in 1..(Len(q) + 1) : i = Len(q) + 1 \/ i \in 1..Len(q)
      BY <1>8
    <3>3. \A i \in 1..Len(q) : i \in 1..(Len(q) + 1)
      BY <1>8
    <3>4. QED
      BY <1>7, <1>8, <3>1, <3>2, <3>3, Zenon
  <2>4. QED
    BY <1>3, <2>2, <2>3
<1>14. ASSUME NEW s \in Sides, NEW p \in Prices, s # o.side \/ p # o.price
       PROVE  IDs(level.queue) \cap IDs(b[s][p].queue) = {}
  <2>1. IDs(q) \cap IDs(b[s][p].queue) = {}
    BY <1>1, <1>14, Zenon DEF Sound, Apart, q
  <2>2. o.id \notin IDs(b[s][p].queue)
    BY NewToLevels
  <2> HIDE DEF level
  <2>3. QED
    BY <1>12, <2>1, <2>2
<1> HIDE DEF level
<1>15. /\ Sound(Put(b, o.side, o.price, level), n)
       /\ LiveOrders(Put(b, o.side, o.price, level)) =
            {x \in LiveOrders(b) : x.side # o.side \/ x.price # o.price} \cup ToSet(level.queue)
  BY <1>1, <1>6, <1>11, <1>14, PutSound
<1>16. {x \in LiveOrders(b) : x.side # o.side \/ x.price # o.price} \cup ToSet(level.queue)
         = LiveOrders(b) \cup {o}
  BY <1>3, <1>13 DEF LiveAt
<1>17. QED
  BY <1>2, <1>15, <1>16, Zenon

\* Where an order is in its queue, remove() unlinks it there.
LEMMA RemoveIsPut ==
    ASSUME NEW b \in Books, NEW o, o.side \in Sides, o.price \in Prices,
           NEW k \in 1..Len(b[o.side][o.price].queue),
           \A i \in 1..Len(b[o.side][o.price].queue) :
               b[o.side][o.price].queue[i].id = o.id <=> i = k
    PROVE  RemoveOrder(b, o) =
             Put(b, o.side, o.price,
                 [queue |-> RemoveAt(b[o.side][o.price].queue, k),
                  qty   |-> b[o.side][o.price].qty - o.remaining])
<1> DEFINE q == b[o.side][o.price].queue
<1>1. q \in Seq(Order)
  BY DEF Books, Level
<1>2. DOMAIN q = 1..Len(q)
  BY <1>1
<1>3. (CHOOSE i \in DOMAIN q : q[i].id = o.id) = k
  <2> HIDE DEF q
  <2>0. \A i \in DOMAIN q : q[i].id = o.id <=> i = k
    BY <1>2 DEF q
  <2>1. k \in DOMAIN q
    BY <1>2 DEF q
  <2>2. QED
    BY <2>0, <2>1
<1>4. QED
  BY <1>3, Zenon DEF RemoveOrder, Put

\* A live order that is removed is gone, and nothing else is.
LEMMA RemoveSound ==
    ASSUME NEW n, NEW b, Sound(b, n), NEW o \in LiveOrders(b)
    PROVE  /\ Sound(RemoveOrder(b, o), n)
           /\ LiveOrders(RemoveOrder(b, o)) = LiveOrders(b) \ {o}
<1> DEFINE q == b[o.side][o.price].queue
<1>1. /\ o \in Order /\ o.side \in Sides /\ o.price \in Prices
      /\ \E i \in 1..Len(q) : q[i] = o
  BY LiveInPlace DEF QueueOf
<1>2. PICK k \in 1..Len(q) : q[k] = o
  BY <1>1
<1>3. /\ q \in Seq(Order)
      /\ \A x : x \in ToSet(q) <=> \E i \in 1..Len(q) : x = q[i]
      /\ ToSet(q) = LiveAt(b, o.side, o.price)
  <2> HIDE DEF q
  <2>1. o.side \in Sides /\ o.price \in Prices
    BY <1>1
  <2>2. QED
    BY <2>1, LevelLive, ZenonT(30) DEF q
<1>4. LevelSound(b[o.side][o.price], o.side, o.price, n) /\ b \in Books
  BY <1>1, Zenon DEF Sound
<1>5. \A i, j \in 1..Len(q) : q[i].id = q[j].id => i = j
  BY <1>4, Zenon DEF LevelSound
<1>6. \A i \in 1..Len(q) : q[i].id = o.id <=> i = k
  BY <1>2, <1>5
<1> DEFINE r == RemoveAt(q, k)
           level == [queue |-> r, qty |-> b[o.side][o.price].qty - o.remaining]
<1>7. RemoveOrder(b, o) = Put(b, o.side, o.price, level)
  BY <1>1, <1>4, <1>6, RemoveIsPut
<1>8. /\ r \in Seq(Order) /\ Len(r) = Len(q) - 1
      /\ \A i \in 1..(Len(q) - 1) : r[i] = q[IF i < k THEN i ELSE i + 1]
      /\ Total(r) = Total(q) - o.remaining
  BY <1>2, <1>3, Unlinked
<1>9. b[o.side][o.price].qty \in Int /\ b[o.side][o.price].qty = Total(q) /\ o.remaining \in Nat
  BY <1>1, <1>4 DEF Books, Level, LevelSound, Order
<1>10. \A i \in 1..Len(q) : /\ q[i].side = o.side /\ q[i].price = o.price
                            /\ q[i].remaining > 0 /\ q[i].id <= n
  BY <1>4, Zenon DEF LevelSound
<1>11. level \in Level
  <2> HIDE DEF r, q
  <2>1. QED
    BY <1>8, <1>9 DEF Level
<1>12. level.queue = r /\ level.qty = b[o.side][o.price].qty - o.remaining
  BY Zenon
<1> HIDE DEF level, r, q
<1> DEFINE from(i) == IF i < k THEN i ELSE i + 1
<1>13. Len(q) \in Nat /\ k \in 1..Len(q)
  BY <1>2, <1>3
<1>14. \A i \in 1..Len(r) : from(i) \in 1..Len(q) /\ from(i) # k /\ r[i] = q[from(i)]
  BY <1>8, <1>13
<1>15. \A i, j \in 1..Len(r) : from(i) = from(j) => i = j
  BY <1>8, <1>13
<1>16. \A j \in 1..Len(q) : j # k => \E i \in 1..Len(r) : from(i) = j
  <2>1. TAKE j \in 1..Len(q)
  <2>2. CASE j < k
    <3>1. j \in 1..Len(r) /\ from(j) = j
      BY <1>8, <1>13, <2>2
    <3>2. QED
      BY <3>1
  <2>3. CASE j > k
    <3>1. j - 1 \in 1..Len(r) /\ from(j - 1) = j
      BY <1>8, <1>13, <2>3
    <3>2. QED
      BY <3>1
  <2>4. QED
    BY <1>13, <2>2, <2>3
<1> HIDE DEF from
<1>17. LevelSound(level, o.side, o.price, n)
  <2>1. \A i \in 1..Len(r) : /\ r[i].side = o.side /\ r[i].price = o.price
                             /\ r[i].remaining > 0 /\ r[i].id <= n
    BY <1>10, <1>14, Zenon
  <2>2. \A i, j \in 1..Len(r) : r[i].id = r[j].id => i = j
    <3>1. TAKE i, j \in 1..Len(r)
    <3>2. r[i] = q[from(i)] /\ r[j] = q[from(j)] /\ from(i) \in 1..Len(q) /\ from(j) \in 1..Len(q)
      BY <1>14, Zenon
    <3>3. r[i].id = r[j].id => from(i) = from(j)
      BY <1>5, <3>2, Zenon
    <3>4. QED
      BY <1>15, <3>3, Zenon
  <2>3. level.qty = Total(r)
    BY <1>8, <1>9, <1>12
  <2>4. QED
    BY <1>12, <2>1, <2>2, <2>3, Zenon DEF LevelSound
<1>18. IDs(level.queue) \subseteq IDs(q)
  <2>1. \A i \in 1..Len(level.queue) : \E j \in 1..Len(q) : level.queue[i].id = q[j].id
    BY <1>12, <1>14, Zenon
  <2>2. QED
    BY <2>1 DEF IDs
<1>19. ToSet(level.queue) = ToSet(q) \ {o}
  <2>1. DOMAIN r = 1..Len(r)
    BY <1>8
  <2>2. \A x : x \in ToSet(r) <=> \E i \in 1..Len(r) : x = r[i]
    BY <2>1, Zenon DEF ToSet
  <2>3. ASSUME NEW x \in ToSet(r) PROVE x \in ToSet(q) /\ x # o
    <3>1. PICK i \in 1..Len(r) : x = r[i]
      BY <2>2
    <3>2. x = q[from(i)] /\ from(i) \in 1..Len(q) /\ from(i) # k
      BY <1>14, <3>1
    <3>3. x.id # o.id
      BY <1>6, <3>2
    <3>4. QED
      BY <1>3, <3>2, <3>3
  <2>4. ASSUME NEW x \in ToSet(q), x # o PROVE x \in ToSet(r)
    <3>1. PICK j \in 1..Len(q) : x = q[j]
      BY <1>3
    <3>2. j # k
      BY <1>2, <2>4, <3>1
    <3>3. PICK i \in 1..Len(r) : from(i) = j
      BY <1>16, <3>2
    <3>4. x = r[i]
      BY <1>14, <3>1, <3>3
    <3>5. QED
      BY <2>2, <3>4
  <2>5. QED
    BY <1>12, <2>3, <2>4
<1>20. ASSUME NEW s \in Sides, NEW p \in Prices, s # o.side \/ p # o.price
       PROVE  IDs(level.queue) \cap IDs(b[s][p].queue) = {}
  <2>1. IDs(q) \cap IDs(b[s][p].queue) = {}
    BY <1>1, <1>20, Zenon DEF Sound, Apart, q
  <2>2. QED
    BY <1>18, <2>1
<1>21. /\ Sound(Put(b, o.side, o.price, level), n)
       /\ LiveOrders(Put(b, o.side, o.price, level)) =
            {x \in LiveOrders(b) : x.side # o.side \/ x.price # o.price} \cup ToSet(level.queue)
  BY <1>1, <1>11, <1>17, <1>20, PutSound
<1>22. {x \in LiveOrders(b) : x.side # o.side \/ x.price # o.price} \cup ToSet(level.queue)
         = LiveOrders(b) \ {o}
  BY <1>3, <1>19 DEF LiveAt
<1>23. QED
  BY <1>7, <1>21, <1>22, Zenon
-----------------------------------------------------------------------------
(* The best price *)

\* Price p is at least as good for the other side as price q.
AsGood(side, p, q) == IF side = "buy" THEN q <= p ELSE p <= q

\* The prices of a side at which something rests.
RestingPrices(b, side) == {p \in Prices : b[side][p].queue # <<>>}

\* Where something rests is what the live orders say.
LEMMA RestingIsLive ==
    ASSUME NEW n, NEW b, Sound(b, n), NEW side \in Sides, NEW price \in Prices
    PROVE  /\ b[side][price].queue # <<>> => Head(b[side][price].queue) = b[side][price].queue[1]
                                             /\ 1 \in 1..Len(b[side][price].queue)
           /\ price \in RestingPrices(b, side) <=>
                \E o \in LiveOrders(b) : o.side = side /\ o.price = price
<1> DEFINE q == b[side][price].queue
<1>1. /\ q \in Seq(Order)
      /\ \A x : x \in ToSet(q) <=> \E i \in 1..Len(q) : x = q[i]
      /\ ToSet(q) = LiveAt(b, side, price)
  BY LevelLive
<1> HIDE DEF q
<1>2. q # <<>> => Head(q) = q[1] /\ 1 \in 1..Len(q)
  BY <1>1
<1>3. q # <<>> <=> \E i \in 1..Len(q) : TRUE
  BY <1>1
<1>4. q # <<>> <=> \E x : x \in ToSet(q)
  BY <1>1, <1>3
<1>5. q # <<>> <=> \E o \in LiveOrders(b) : o.side = side /\ o.price = price
  BY <1>1, <1>4 DEF LiveAt
<1>6. price \in RestingPrices(b, side) <=> q # <<>>
  BY DEF RestingPrices, q
<1>7. QED
  BY <1>2, <1>5, <1>6 DEF q

\* Something rests at finitely many prices: each has an identifier of its own.
LEMMA FinitePrices ==
    ASSUME NEW n \in Nat, NEW b, Sound(b, n), NEW side \in Sides
    PROVE  IsFiniteSet(RestingPrices(b, side))
<1> DEFINE P == RestingPrices(b, side)
           f == [p \in P |-> b[side][p].queue[1].id]
<1>1. ASSUME NEW p \in P PROVE f[p] \in 0..n /\ f[p] \in IDs(b[side][p].queue)
  <2>1. p \in Prices /\ b[side][p].queue # <<>>
    BY DEF RestingPrices
  <2>2. 1 \in 1..Len(b[side][p].queue)
    BY <2>1, RestingIsLive
  <2>3. b[side][p].queue[1] \in Order /\ b[side][p].queue[1].id <= n
    BY <2>1, <2>2, QueueIsLive
  <2>4. b[side][p].queue[1].id \in Nat
    BY <2>3 DEF Order
  <2>5. b[side][p].queue[1].id \in IDs(b[side][p].queue)
    BY <2>2 DEF IDs
  <2>6. QED
    BY <2>3, <2>4, <2>5
<1>2. ASSUME NEW p \in P, NEW r \in P, p # r PROVE f[p] # f[r]
  <2>1. p \in Prices /\ r \in Prices
    BY DEF RestingPrices
  <2>2. IDs(b[side][p].queue) \cap IDs(b[side][r].queue) = {}
    BY <1>2, <2>1, Zenon DEF Sound, Apart
  <2> HIDE DEF f
  <2>3. QED
    BY <1>1, <2>2
<1>3. f \in Injection(P, 0..n)
  <2>1. f \in [P -> 0..n]
    BY <1>1
  <2> HIDE DEF f
  <2>2. QED
    BY <1>2, <2>1 DEF Injection, IsInjective
<1>4. IsFiniteSet(0..n)
  BY FS_Interval
<1> HIDE DEF f
<1>5. QED
  BY <1>3, <1>4, FS_Injection

\* best() is zero for an empty side and otherwise the best price at which
\* something rests.
LEMMA BestPrice ==
    ASSUME BookAssumption, NEW n \in Nat, NEW b, Sound(b, n), NEW side \in Sides
    PROVE  /\ RestingPrices(b, side) = {} => Best(b, side) = 0
           /\ RestingPrices(b, side) # {} =>
                /\ Best(b, side) \in RestingPrices(b, side)
                /\ \A p \in RestingPrices(b, side) : AsGood(side, Best(b, side), p)
<1> DEFINE P == RestingPrices(b, side)
<1>1. P \subseteq Nat
  BY DEF RestingPrices, BookAssumption
<1>2. IsFiniteSet(P)
  BY FinitePrices
<1>3. Best(b, side) = IF P = {} THEN 0 ELSE IF side = "buy" THEN Max(P) ELSE Min(P)
  BY Zenon DEF Best, RestingPrices
<1> HIDE DEF P
<1>4. ASSUME P # {} PROVE Best(b, side) \in P /\ \A p \in P : AsGood(side, Best(b, side), p)
  <2>1. /\ Max(P) \in P /\ \A k \in P : k <= Max(P)
        /\ Min(P) \in P /\ \A k \in P : Min(P) <= k
    BY <1>1, <1>2, <1>4, Extremes
  <2>2. CASE side = "buy"
    BY <1>3, <1>4, <2>1, <2>2, Zenon DEF AsGood
  <2>3. CASE side # "buy"
    BY <1>3, <1>4, <2>1, <2>3, Zenon DEF AsGood
  <2>4. QED
    BY <2>2, <2>3
<1>5. QED
  BY <1>3, <1>4, Zenon DEF P

\* bestCrossing(): the taker's maker is the oldest of the best prices it can
\* trade at, and when there is none nothing on the other side crosses it.
LEMMA CrossingIsBest ==
    ASSUME BookAssumption, NEW n \in Nat, NEW b, Sound(b, n), NEW t \in Order
    PROVE  /\ ~HasCrossing(b, t) =>
                \A x \in LiveOrders(b) : x.side # t.side => ~Crosses(t.side, t.price, x.price)
           /\ HasCrossing(b, t) =>
                /\ BestCrossing(b, t) \in LiveOrders(b)
                /\ BestCrossing(b, t).side = Opposite(t.side)
                /\ Crosses(t.side, t.price, BestCrossing(b, t).price)
                /\ BestCrossing(b, t) = Head(QueueOf(b, BestCrossing(b, t)))
                /\ QueueOf(b, BestCrossing(b, t)) # <<>>
                /\ \A x \in LiveOrders(b) : x.side # t.side =>
                     AsGood(Opposite(t.side), BestCrossing(b, t).price, x.price)
<1> DEFINE side == Opposite(t.side)
           best == Best(b, side)
           P == RestingPrices(b, side)
<1>1. t.side \in Sides /\ t.price \in Nat
  BY DEF Order, BookAssumption
<1>2. side \in Sides /\ \A s \in Sides : s # t.side <=> s = side
  BY <1>1 DEF Opposite, Sides
<1>3. /\ P = {} => best = 0
      /\ P # {} => best \in P /\ \A p \in P : AsGood(side, best, p)
  BY <1>2, BestPrice
<1>4. ASSUME NEW x \in LiveOrders(b), x.side # t.side PROVE x.price \in P /\ x.price \in Nat
  <2>1. x.side \in Sides /\ x.price \in Prices
    BY LiveInPlace
  <2>2. x.side = side
    BY <1>2, <1>4, <2>1
  <2>3. QED
    BY <1>2, <2>1, <2>2, RestingIsLive DEF BookAssumption
<1>5. P \subseteq Nat \ {0} /\ P \subseteq Prices
  BY DEF BookAssumption, RestingPrices
<1>6. HasCrossing(b, t) <=> best # 0 /\ Crosses(t.side, t.price, best)
  BY Zenon DEF HasCrossing
<1>7. ASSUME ~HasCrossing(b, t), NEW x \in LiveOrders(b), x.side # t.side
      PROVE  ~Crosses(t.side, t.price, x.price)
  <2>1. x.price \in P /\ x.price \in Nat
    BY <1>4, <1>7
  <2> HIDE DEF P, best, side
  <2>2. best \in P /\ AsGood(side, best, x.price) /\ best \in Nat /\ best # 0
    BY <1>3, <1>5, <2>1
  <2>3. ~Crosses(t.side, t.price, best)
    BY <1>6, <1>7, <2>2
  <2>4. CASE t.side = "buy"
    <3>1. side # "buy"
      BY <1>1, <1>2, <2>4 DEF Sides
    <3>2. QED
      BY <1>1, <2>1, <2>2, <2>3, <2>4, <3>1 DEF AsGood, Crosses
  <2>5. CASE t.side = "sell"
    <3>1. side = "buy"
      BY <1>1, <1>2, <2>5 DEF Sides
    <3>2. QED
      BY <1>1, <2>1, <2>2, <2>3, <2>5, <3>1 DEF AsGood, Crosses
  <2>6. QED
    BY <1>1, <2>4, <2>5 DEF Sides
<1>8. ASSUME HasCrossing(b, t)
      PROVE  /\ BestCrossing(b, t) \in LiveOrders(b)
             /\ BestCrossing(b, t).side = side
             /\ Crosses(t.side, t.price, BestCrossing(b, t).price)
             /\ BestCrossing(b, t) = Head(QueueOf(b, BestCrossing(b, t)))
             /\ QueueOf(b, BestCrossing(b, t)) # <<>>
             /\ \A x \in LiveOrders(b) : x.side # t.side => AsGood(side, BestCrossing(b, t).price, x.price)
  <2>1. best # 0 /\ Crosses(t.side, t.price, best)
    BY <1>6, <1>8
  <2>2. P # {}
    BY <1>3, <2>1
  <2>3. best \in Prices /\ best \in P /\ \A p \in P : AsGood(side, best, p)
    BY <1>3, <1>5, <2>2
  <2>4. b[side][best].queue # <<>>
    BY <2>3 DEF RestingPrices
  <2>5. BestCrossing(b, t) = Head(b[side][best].queue)
    BY Zenon DEF BestCrossing
  <2>6. Head(b[side][best].queue) = b[side][best].queue[1] /\ 1 \in 1..Len(b[side][best].queue)
    BY <1>2, <2>3, <2>4, RestingIsLive
  <2> HIDE DEF best, side, P
  <2>7. /\ b[side][best].queue[1] \in LiveOrders(b)
        /\ b[side][best].queue[1].side = side /\ b[side][best].queue[1].price = best
    BY <1>2, <2>3, <2>6, QueueIsLive
  <2>8. BestCrossing(b, t).side = side /\ BestCrossing(b, t).price = best
    BY <2>5, <2>6, <2>7, Zenon
  <2>9. QueueOf(b, BestCrossing(b, t)) = b[side][best].queue
    BY <2>8, Zenon DEF QueueOf
  <2>10. \A x \in LiveOrders(b) : x.side # t.side => AsGood(side, BestCrossing(b, t).price, x.price)
    BY <1>4, <2>3, <2>8, Zenon
  <2>11. QED
    BY <2>1, <2>4, <2>5, <2>6, <2>7, <2>8, <2>9, <2>10, Zenon
<1>9. QED
  BY <1>7, <1>8, Zenon
-----------------------------------------------------------------------------
(* The matching loop *)

\* An order with less of it remaining.
Less(o, traded) == [o EXCEPT !.remaining = @ - traded]

\* A level whose first order has traded.
HeadTraded(level, after, traded) ==
    [queue |-> <<after>> \o Tail(level.queue), qty |-> level.qty - traded]

\* What a trade leaves of an order is the same order.
LEMMA LessIsOrder ==
    ASSUME NEW o \in Order, NEW traded \in Nat, traded <= o.remaining
    PROVE  /\ Less(o, traded) \in Order
           /\ Less(o, traded).remaining = o.remaining - traded
           /\ Less(o, traded).side = o.side /\ Less(o, traded).price = o.price
           /\ Less(o, traded).id = o.id /\ Less(o, traded).tif = o.tif
           /\ Less(o, traded).owner = o.owner /\ Less(o, traded).qty = o.qty
<1>1. o.remaining - traded \in Nat
  BY DEF Order
<1>2. QED
  BY <1>1 DEF Order, Less

\* The queue once its first order has traded: only that order differs.
LEMMA TradedQueue ==
    ASSUME NEW q \in Seq(Order), q # <<>>, NEW after \in Order
    PROVE  LET r == <<after>> \o Tail(q)
           IN  /\ r \in Seq(Order) /\ Len(r) = Len(q) /\ r[1] = after
               /\ \A i \in 2..Len(q) : r[i] = q[i]
               /\ RemoveAt(r, 1) = RemoveAt(q, 1)
<1> DEFINE r == <<after>> \o Tail(q)
<1>1. Tail(q) \in Seq(Order) /\ Len(Tail(q)) = Len(q) - 1 /\ Len(q) \in Nat \ {0}
      /\ \A i \in 1..(Len(q) - 1) : Tail(q)[i] = q[i + 1]
  OBVIOUS
<1>2. <<after>> \in Seq(Order) /\ Len(<<after>>) = 1 /\ <<after>>[1] = after
  OBVIOUS
<1>3. r \in Seq(Order) /\ Len(r) = Len(q) /\ r[1] = after
  BY <1>1, <1>2
<1>4. ASSUME NEW i \in 2..Len(q) PROVE r[i] = q[i]
  <2>1. i \in 1..Len(<<after>>) + Len(Tail(q)) /\ ~(i <= Len(<<after>>)) /\ i - 1 \in 1..(Len(q) - 1)
    BY <1>1, <1>2
  <2>2. r[i] = Tail(q)[i - Len(<<after>>)]
    BY <1>1, <1>2, <2>1, ConcatProperties
  <2>3. Tail(q)[i - 1] = q[(i - 1) + 1] /\ (i - 1) + 1 = i
    BY <1>1, <2>1
  <2>4. QED
    BY <1>2, <2>2, <2>3
<1> HIDE DEF r
<1>5. RemoveAt(r, 1) = RemoveAt(q, 1)
  <2>1. 1 \in 1..Len(r) /\ 1 \in 1..Len(q)
    BY <1>1, <1>3
  <2>2. /\ RemoveAt(r, 1) \in Seq(Order) /\ Len(RemoveAt(r, 1)) = Len(r) - 1
        /\ \A i \in 1..(Len(r) - 1) : RemoveAt(r, 1)[i] = r[IF i < 1 THEN i ELSE i + 1]
    BY <1>3, <2>1, Unlinked
  <2>3. /\ RemoveAt(q, 1) \in Seq(Order) /\ Len(RemoveAt(q, 1)) = Len(q) - 1
        /\ \A i \in 1..(Len(q) - 1) : RemoveAt(q, 1)[i] = q[IF i < 1 THEN i ELSE i + 1]
    BY <2>1, Unlinked
  <2>4. ASSUME NEW i \in 1..(Len(q) - 1) PROVE RemoveAt(r, 1)[i] = RemoveAt(q, 1)[i]
    <3>1. ~(i < 1) /\ i + 1 \in 2..Len(q)
      BY <1>1
    <3>2. RemoveAt(r, 1)[i] = r[i + 1] /\ RemoveAt(q, 1)[i] = q[i + 1]
      BY <1>3, <2>2, <2>3, <3>1
    <3>3. QED
      BY <1>4, <3>1, <3>2
  <2>5. QED
    BY <1>3, <2>2, <2>3, <2>4, SeqEqual
<1>6. QED
  BY <1>3, <1>4, <1>5 DEF r

\* A trade that leaves something of the first order of a level.
LEMMA PartialSound ==
    ASSUME NEW n, NEW b, Sound(b, n), NEW m \in LiveOrders(b),
           QueueOf(b, m) # <<>>, m = Head(QueueOf(b, m)),
           NEW traded \in Nat, traded < m.remaining
    PROVE  LET c == Put(b, m.side, m.price, HeadTraded(b[m.side][m.price], Less(m, traded), traded))
           IN  /\ Sound(c, n)
               /\ LiveOrders(c) = (LiveOrders(b) \ {m}) \cup {Less(m, traded)}
<1> DEFINE q == b[m.side][m.price].queue
           after == Less(m, traded)
           r == <<after>> \o Tail(q)
           level == HeadTraded(b[m.side][m.price], after, traded)
<1>1. m \in Order /\ m.side \in Sides /\ m.price \in Prices /\ m.remaining \in Nat
  BY LiveInPlace DEF Order
<1>2. /\ q \in Seq(Order)
      /\ \A x : x \in ToSet(q) <=> \E i \in 1..Len(q) : x = q[i]
      /\ ToSet(q) = LiveAt(b, m.side, m.price)
  BY <1>1, LevelLive
<1>3. q # <<>> /\ m = Head(q)
  BY Zenon DEF QueueOf
<1>4. /\ after \in Order /\ after.remaining = m.remaining - traded
      /\ after.side = m.side /\ after.price = m.price /\ after.id = m.id
  BY <1>1, LessIsOrder
<1>5. LevelSound(b[m.side][m.price], m.side, m.price, n) /\ b \in Books
  BY <1>1, Zenon DEF Sound
<1>6. b[m.side][m.price].qty \in Int /\ b[m.side][m.price].qty = Total(q)
  BY <1>1, <1>5 DEF Books, Level, LevelSound
<1>7. \A i \in 1..Len(q) : /\ q[i].side = m.side /\ q[i].price = m.price
                           /\ q[i].remaining > 0 /\ q[i].id <= n
  BY <1>5, Zenon DEF LevelSound
<1>8. \A i, j \in 1..Len(q) : q[i].id = q[j].id => i = j
  BY <1>5, Zenon DEF LevelSound
<1>9. level.queue = r /\ level.qty = b[m.side][m.price].qty - traded
      /\ level = [queue |-> r, qty |-> b[m.side][m.price].qty - traded]
  BY DEF HeadTraded
<1> HIDE DEF q, after, level
<1>10. Total(r) = Total(q) - m.remaining + after.remaining
  BY <1>2, <1>3, <1>4, TotalHead
<1>11. /\ r \in Seq(Order) /\ Len(r) = Len(q) /\ r[1] = after
       /\ \A i \in 2..Len(q) : r[i] = q[i]
  BY <1>2, <1>3, <1>4, TradedQueue
<1>12. Len(q) \in Nat \ {0} /\ q[1] = m /\ \A i \in 1..Len(q) : i = 1 \/ i \in 2..Len(q)
  BY <1>2, <1>3
<1> HIDE DEF r
<1>13. level \in Level
  BY <1>6, <1>9, <1>11 DEF Level
<1>14. \A i \in 1..Len(q) : r[i].id = q[i].id /\ r[i].side = q[i].side /\ r[i].price = q[i].price
  BY <1>4, <1>11, <1>12, Zenon
<1>15. \A i \in 1..Len(q) : r[i].remaining > 0
  <2>1. after.remaining > 0
    BY <1>1, <1>4
  <2>2. QED
    BY <1>7, <1>11, <1>12, <2>1, Zenon
<1>16. LevelSound(level, m.side, m.price, n)
  <2>1. \A i \in 1..Len(r) : /\ r[i].side = m.side /\ r[i].price = m.price
                             /\ r[i].remaining > 0 /\ r[i].id <= n
    BY <1>7, <1>11, <1>14, <1>15, Zenon
  <2>2. \A i, j \in 1..Len(r) : r[i].id = r[j].id => i = j
    BY <1>8, <1>11, <1>14, Zenon
  <2>3. level.qty = Total(r)
    <3>1. Total(q) \in Nat
      BY <1>2, TotalIsNumber
    <3>2. QED
      BY <1>1, <1>4, <1>6, <1>9, <1>10, <3>1
  <2>4. QED
    BY <1>9, <2>1, <2>2, <2>3, Zenon DEF LevelSound
<1>17. IDs(level.queue) = IDs(q)
  BY <1>9, <1>11, <1>14 DEF IDs
<1>18. ASSUME NEW s \in Sides, NEW p \in Prices, s # m.side \/ p # m.price
       PROVE  IDs(level.queue) \cap IDs(b[s][p].queue) = {}
  <2>1. IDs(q) \cap IDs(b[s][p].queue) = {}
    BY <1>1, <1>18, Zenon DEF Sound, Apart, q
  <2>2. QED
    BY <1>17, <2>1, Zenon
<1>19. /\ Sound(Put(b, m.side, m.price, level), n)
       /\ LiveOrders(Put(b, m.side, m.price, level)) =
            {x \in LiveOrders(b) : x.side # m.side \/ x.price # m.price} \cup ToSet(level.queue)
  BY <1>1, <1>13, <1>16, <1>18, PutSound
<1>20. ToSet(level.queue) = (ToSet(q) \ {m}) \cup {after}
  <2>1. DOMAIN r = 1..Len(q)
    BY <1>11
  <2>2. \A x : x \in ToSet(r) <=> \E i \in 1..Len(q) : x = r[i]
    BY <2>1, Zenon DEF ToSet
  <2>3. ASSUME NEW x \in ToSet(r) PROVE x \in (ToSet(q) \ {m}) \cup {after}
    <3>1. PICK i \in 1..Len(q) : x = r[i]
      BY <2>2
    <3>2. CASE i = 1
      BY <1>11, <3>1, <3>2
    <3>3. CASE i \in 2..Len(q)
      <4>1. x = q[i] /\ i # 1 /\ 1 \in 1..Len(q)
        BY <1>11, <1>12, <3>1, <3>3
      <4>2. x # m
        BY <1>8, <1>12, <4>1
      <4>3. QED
        BY <1>2, <4>1, <4>2
    <3>4. QED
      BY <1>12, <3>2, <3>3
  <2>4. ASSUME NEW x \in ToSet(q), x # m PROVE x \in ToSet(r)
    <3>1. PICK i \in 1..Len(q) : x = q[i]
      BY <1>2
    <3>2. i \in 2..Len(q)
      BY <1>12, <2>4, <3>1
    <3>3. QED
      BY <1>11, <2>2, <3>1, <3>2
  <2>5. after \in ToSet(r)
    BY <1>11, <1>12, <2>2
  <2>6. QED
    BY <1>9, <2>3, <2>4, <2>5
<1>21. m \in ToSet(q)
  BY <1>2, <1>12
<1>22. {x \in LiveOrders(b) : x.side # m.side \/ x.price # m.price} \cup ToSet(level.queue)
         = (LiveOrders(b) \ {m}) \cup {after}
  BY <1>2, <1>20, <1>21 DEF LiveAt
<1>23. QED
  BY <1>19, <1>22, Zenon DEF level, after

\* A trade that leaves nothing of the first order of a level removes it.
LEMMA FilledIsRemoved ==
    ASSUME NEW n, NEW b, Sound(b, n), NEW m \in LiveOrders(b),
           QueueOf(b, m) # <<>>, m = Head(QueueOf(b, m))
    PROVE  LET after == Less(m, m.remaining)
           IN  RemoveOrder(Put(b, m.side, m.price,
                               HeadTraded(b[m.side][m.price], after, m.remaining)), after)
                 = RemoveOrder(b, m)
<1> DEFINE q == b[m.side][m.price].queue
           after == Less(m, m.remaining)
           r == <<after>> \o Tail(q)
           level == HeadTraded(b[m.side][m.price], after, m.remaining)
           c == Put(b, m.side, m.price, level)
<1>1. m \in Order /\ m.side \in Sides /\ m.price \in Prices /\ m.remaining \in Nat
  BY LiveInPlace DEF Order
<1>2. q \in Seq(Order)
  BY <1>1, LevelLive
<1>3. q # <<>> /\ m = Head(q)
  BY Zenon DEF QueueOf
<1>4. /\ after \in Order /\ after.remaining = 0
      /\ after.side = m.side /\ after.price = m.price /\ after.id = m.id
  BY <1>1, LessIsOrder
<1>5. LevelSound(b[m.side][m.price], m.side, m.price, n) /\ b \in Books
  BY <1>1, Zenon DEF Sound
<1>6. b[m.side][m.price].qty \in Int
  BY <1>1, <1>5 DEF Books, Level
<1>7. \A i, j \in 1..Len(q) : q[i].id = q[j].id => i = j
  BY <1>5, Zenon DEF LevelSound
<1>8. level.queue = r /\ level.qty = b[m.side][m.price].qty - m.remaining
      /\ level = [queue |-> r, qty |-> b[m.side][m.price].qty - m.remaining]
  BY DEF HeadTraded
<1> HIDE DEF q, after, level
<1>9. /\ r \in Seq(Order) /\ Len(r) = Len(q) /\ r[1] = after
      /\ \A i \in 2..Len(q) : r[i] = q[i]
      /\ RemoveAt(r, 1) = RemoveAt(q, 1)
  BY <1>2, <1>3, <1>4, TradedQueue
<1>10. Len(q) \in Nat \ {0} /\ q[1] = m /\ \A i \in 1..Len(q) : i = 1 \/ i \in 2..Len(q)
  BY <1>2, <1>3
<1> HIDE DEF r
<1>11. 1 \in 1..Len(q) /\ \A i \in 1..Len(q) : q[i].id = m.id <=> i = 1
  BY <1>7, <1>10
<1>12. \A i \in 1..Len(q) : r[i].id = q[i].id
  BY <1>4, <1>9, <1>10, Zenon
<1>13. level \in Level
  BY <1>1, <1>6, <1>8, <1>9 DEF Level
<1>14. c \in Books /\ c[m.side][m.price] = level
  BY <1>1, <1>5, <1>13, PutAt
<1>15. Put(c, m.side, m.price, [queue |-> RemoveAt(q, 1), qty |-> b[m.side][m.price].qty - m.remaining])
         = Put(b, m.side, m.price, [queue |-> RemoveAt(q, 1), qty |-> b[m.side][m.price].qty - m.remaining])
  <2>1. ASSUME NEW x PROVE Put(c, m.side, m.price, x) = Put(b, m.side, m.price, x)
    BY <1>1, <1>5 DEF Put, Books
  <2>2. QED
    BY <2>1
<1> HIDE DEF c
<1>16. RemoveOrder(b, m) =
         Put(b, m.side, m.price, [queue |-> RemoveAt(q, 1), qty |-> b[m.side][m.price].qty - m.remaining])
  BY <1>1, <1>5, <1>11, RemoveIsPut DEF q
<1>17. c[after.side][after.price] = level
  BY <1>4, <1>14, Zenon
<1>18. RemoveOrder(c, after) =
         Put(c, after.side, after.price,
             [queue |-> RemoveAt(c[after.side][after.price].queue, 1),
              qty   |-> c[after.side][after.price].qty - after.remaining])
  <2>1. c[after.side][after.price].queue = r
    BY <1>8, <1>17, Zenon
  <2>2. 1 \in 1..Len(c[after.side][after.price].queue)
    BY <1>9, <1>11, <2>1, Zenon
  <2>3. \A i \in 1..Len(c[after.side][after.price].queue) :
            c[after.side][after.price].queue[i].id = after.id <=> i = 1
    BY <1>4, <1>9, <1>11, <1>12, <2>1, Zenon
  <2>4. after.side \in Sides /\ after.price \in Prices
    BY <1>1, <1>4
  <2>5. QED
    BY <1>14, <2>2, <2>3, <2>4, RemoveIsPut
<1>19. c[after.side][after.price].qty - after.remaining = b[m.side][m.price].qty - m.remaining
  BY <1>1, <1>4, <1>6, <1>8, <1>17
<1>20. RemoveAt(c[after.side][after.price].queue, 1) = RemoveAt(q, 1)
  BY <1>8, <1>9, <1>17, Zenon
<1>21. RemoveOrder(c, after) = RemoveOrder(b, m)
  BY <1>4, <1>15, <1>16, <1>18, <1>19, <1>20, Zenon
<1>22. QED
  BY <1>21 DEF c, level, after

\* The smaller of two numbers.
LEMMA MinOfTwo ==
    ASSUME NEW a \in Nat, NEW b \in Nat
    PROVE  Min({a, b}) = IF a <= b THEN a ELSE b
<1>1. \E x \in {a, b} : \A y \in {a, b} : x <= y
  OBVIOUS
<1>2. Min({a, b}) \in {a, b} /\ \A y \in {a, b} : Min({a, b}) <= y
  BY <1>1, Zenon DEF Min
<1>3. QED
  BY <1>2

\* What the next iteration trades, and with whom.
Maker(m)  == BestCrossing(m.book, m.taker)
Amount(m) == Min({Maker(m).remaining, m.taker.remaining})

TradeOf(m) == [maker |-> Maker(m), taker |-> m.taker, price |-> Maker(m).price, quantity |-> Amount(m)]

\* The loop has nothing left to do.
Finished(m) == m.taker.remaining = 0 \/ ~HasCrossing(m.book, m.taker)

\* One iteration takes what the two orders can trade from both, and a maker
\* that is filled from the book.
LEMMA FillOnceSound ==
    ASSUME BookAssumption, NEW n \in Nat, NEW m, Sound(m.book, n), m.taker \in Order, ~Finished(m)
    PROVE  /\ Amount(m) \in Nat /\ Amount(m) > 0
           /\ Amount(m) <= Maker(m).remaining /\ Amount(m) <= m.taker.remaining
           /\ Amount(m) = Maker(m).remaining \/ Amount(m) = m.taker.remaining
           /\ Maker(m) \in LiveOrders(m.book)
           /\ FillOnce(m).taker = Less(m.taker, Amount(m))
           /\ Sound(FillOnce(m).book, n)
           /\ LiveOrders(FillOnce(m).book) =
                (LiveOrders(m.book) \ {Maker(m)}) \cup
                   (IF Amount(m) = Maker(m).remaining THEN {} ELSE {Less(Maker(m), Amount(m))})
<1> DEFINE maker  == Maker(m)
           traded == Amount(m)
           after  == Less(maker, traded)
           filled == Put(m.book, maker.side, maker.price,
                         HeadTraded(m.book[maker.side][maker.price], after, traded))
<1>1. m.taker.remaining # 0 /\ HasCrossing(m.book, m.taker)
  BY DEF Finished
<1>2. maker \in LiveOrders(m.book) /\ maker = Head(QueueOf(m.book, maker)) /\ QueueOf(m.book, maker) # <<>>
  <2> DEFINE best == BestCrossing(m.book, m.taker)
  <2>1. best \in LiveOrders(m.book) /\ best = Head(QueueOf(m.book, best)) /\ QueueOf(m.book, best) # <<>>
    BY <1>1, CrossingIsBest
  <2>2. Maker(m) = best
    BY Zenon DEF Maker
  <2> HIDE DEF best
  <2>3. QED
    BY <2>1, <2>2, Zenon
<1>3. maker \in Order /\ maker.remaining > 0 /\ maker.remaining \in Nat /\ m.taker.remaining \in Nat
  BY <1>2, LiveInPlace DEF Order
<1>4. traded = IF maker.remaining <= m.taker.remaining THEN maker.remaining ELSE m.taker.remaining
  <2> HIDE DEF maker
  <2>1. QED
    BY <1>3, MinOfTwo DEF Amount, maker
<1> HIDE DEF maker, traded
<1>5. /\ traded \in Nat /\ traded > 0 /\ traded <= maker.remaining /\ traded <= m.taker.remaining
      /\ traded = maker.remaining \/ traded = m.taker.remaining
  BY <1>1, <1>3, <1>4
<1>6. after.remaining = maker.remaining - traded
  BY <1>3, <1>5, LessIsOrder
<1>7. filled = [m.book EXCEPT ![maker.side][maker.price] =
                  [queue |-> <<after>> \o Tail(@.queue), qty |-> @.qty - traded]]
  BY Zenon DEF Put, HeadTraded
<1>8. FillOnce(m) =
        [book  |-> IF after.remaining = 0 THEN RemoveOrder(filled, after) ELSE filled,
         taker |-> Less(m.taker, traded),
         fills |-> Append(m.fills,
                      [maker |-> maker, taker |-> m.taker, price |-> maker.price,
                       quantity |-> traded])]
  BY <1>1, <1>7, Zenon DEF FillOnce, Less, maker, traded, Maker, Amount
<1> HIDE DEF after, filled
<1>9. /\ FillOnce(m).taker = Less(m.taker, traded)
      /\ FillOnce(m).book = IF after.remaining = 0 THEN RemoveOrder(filled, after) ELSE filled
  <2> DEFINE x == IF after.remaining = 0 THEN RemoveOrder(filled, after) ELSE filled
             y == Less(m.taker, traded)
             z == Append(m.fills, [maker |-> maker, taker |-> m.taker, price |-> maker.price,
                                   quantity |-> traded])
  <2>1. FillOnce(m) = [book |-> x, taker |-> y, fills |-> z]
    BY <1>8, Zenon
  <2> HIDE DEF x, y, z
  <2>2. FillOnce(m).taker = y /\ FillOnce(m).book = x
    BY <2>1
  <2>3. QED
    BY <2>2, Zenon DEF x, y
<1>10. CASE traded = maker.remaining
  <2>1. after.remaining = 0
    BY <1>3, <1>6, <1>10
  <2>2. FillOnce(m).book = RemoveOrder(filled, after)
    BY <1>9, <2>1
  <2>3. RemoveOrder(filled, after) = RemoveOrder(m.book, maker)
    BY <1>2, <1>10, FilledIsRemoved, Zenon DEF filled, after
  <2>4. /\ Sound(RemoveOrder(m.book, maker), n)
        /\ LiveOrders(RemoveOrder(m.book, maker)) = LiveOrders(m.book) \ {maker}
    BY <1>2, RemoveSound
  <2>5. Sound(FillOnce(m).book, n) /\ LiveOrders(FillOnce(m).book) = LiveOrders(m.book) \ {maker}
    BY <2>2, <2>3, <2>4, Zenon
  <2>6. LiveOrders(FillOnce(m).book) =
          (LiveOrders(m.book) \ {maker}) \cup (IF traded = maker.remaining THEN {} ELSE {after})
    BY <1>10, <2>5
  <2>7. QED
    BY <1>2, <1>5, <1>9, <2>5, <2>6, Zenon DEF maker, traded, after
<1>11. CASE traded < maker.remaining
  <2>1. after.remaining # 0 /\ traded # maker.remaining
    BY <1>3, <1>5, <1>6, <1>11
  <2>2. FillOnce(m).book = filled
    BY <1>9, <2>1
  <2>3. Sound(filled, n) /\ LiveOrders(filled) = (LiveOrders(m.book) \ {maker}) \cup {after}
    BY <1>2, <1>5, <1>11, PartialSound DEF filled, after
  <2>4. LiveOrders(FillOnce(m).book) =
          (LiveOrders(m.book) \ {maker}) \cup (IF traded = maker.remaining THEN {} ELSE {after})
    BY <2>1, <2>2, <2>3
  <2>5. QED
    BY <1>2, <1>5, <1>9, <2>2, <2>3, <2>4, Zenon DEF maker, traded, after
<1>12. QED
  BY <1>3, <1>5, <1>10, <1>11

\* A trade is between the taker and an order of the other side that it crosses.
LEMMA FillOnceTrade ==
    ASSUME BookAssumption, NEW n \in Nat, NEW m, Sound(m.book, n), m.taker \in Order, ~Finished(m)
    PROVE  /\ Maker(m).side = Opposite(m.taker.side)
           /\ Crosses(m.taker.side, m.taker.price, Maker(m).price)
           /\ FillOnce(m).fills = Append(m.fills, TradeOf(m))
<1>1. m.taker.remaining # 0 /\ HasCrossing(m.book, m.taker)
  BY DEF Finished
<1>2. Maker(m).side = Opposite(m.taker.side) /\ Crosses(m.taker.side, m.taker.price, Maker(m).price)
  BY <1>1, CrossingIsBest, Zenon DEF Maker
<1> DEFINE after  == Less(Maker(m), Amount(m))
           filled == [m.book EXCEPT ![Maker(m).side][Maker(m).price] =
                        [queue |-> <<after>> \o Tail(@.queue), qty |-> @.qty - Amount(m)]]
           x == IF after.remaining = 0 THEN RemoveOrder(filled, after) ELSE filled
           y == Less(m.taker, Amount(m))
           z == Append(m.fills, TradeOf(m))
<1>3. FillOnce(m) = [book |-> x, taker |-> y, fills |-> z]
  BY <1>1, Zenon DEF FillOnce, Less, Maker, Amount, TradeOf
<1> HIDE DEF x, y, z
<1>4. FillOnce(m).fills = z
  BY <1>3
<1>5. QED
  BY <1>2, <1>4 DEF z

\* The live orders are finitely many.
LEMMA FiniteLive ==
    ASSUME NEW n \in Nat, NEW b, Sound(b, n)
    PROVE  IsFiniteSet(LiveOrders(b)) /\ Cardinality(LiveOrders(b)) \in Nat
<1> DEFINE L == LiveOrders(b)
           f == [o \in L |-> o.id]
<1>1. \A o \in L : o.id \in 0..n
  <2>1. TAKE o \in L
  <2>2. o \in Order /\ o.id <= n
    BY LiveInPlace
  <2>3. QED
    BY <2>2 DEF Order
<1>2. \A o, x \in L : o.id = x.id => o = x
  BY IDsTellApart
<1> HIDE DEF L
<1>3. f \in Injection(L, 0..n)
  BY <1>1, <1>2 DEF Injection, IsInjective
<1>4. IsFiniteSet(0..n)
  BY FS_Interval
<1> HIDE DEF f
<1>5. IsFiniteSet(L)
  BY <1>3, <1>4, FS_Injection
<1>6. QED
  BY <1>5, FS_CardinalityType DEF L

\* The states of the loop after each iteration.
IsLoop(f, start, limit) ==
    f = [k \in 0..limit |-> IF k = 0 THEN start ELSE FillOnce(f[k - 1])]

\* The recursion of the loop has a solution, whatever it starts from.
LEMMA LoopExists ==
    ASSUME NEW start
    PROVE  \A limit \in Nat : \E f : IsLoop(f, start, limit)
<1> DEFINE S == {limit \in Nat : \E f : IsLoop(f, start, limit)}
<1>1. 0 \in S
  <2> DEFINE f == [k \in 0..0 |-> start]
  <2>1. f = [k \in 0..0 |-> IF k = 0 THEN start ELSE FillOnce(f[k - 1])]
    <3>1. \A k \in 0..0 : k = 0
      OBVIOUS
    <3>2. QED
      BY <3>1, Zenon
  <2> HIDE DEF f
  <2>2. IsLoop(f, start, 0)
    BY <2>1, Zenon DEF IsLoop
  <2>3. QED
    BY <2>2
<1>2. ASSUME NEW i \in Nat, i \in S PROVE i + 1 \in S
  <2>0. PICK f : IsLoop(f, start, i)
    BY <1>2
  <2>1. f = [k \in 0..i |-> IF k = 0 THEN start ELSE FillOnce(f[k - 1])]
    BY <2>0, Zenon DEF IsLoop
  <2> DEFINE g == [k \in 0..(i + 1) |-> IF k = i + 1 THEN FillOnce(f[i]) ELSE f[k]]
  <2>2. ASSUME NEW k \in 0..(i + 1) PROVE g[k] = IF k = 0 THEN start ELSE FillOnce(g[k - 1])
    <3>1. CASE k = i + 1
      <4>1. k # 0 /\ k - 1 = i /\ i \in 0..(i + 1) /\ i # i + 1
        BY <3>1
      <4>2. g[k] = FillOnce(f[i]) /\ g[i] = f[i]
        BY <3>1, <4>1, Zenon
      <4> HIDE DEF g
      <4>3. QED
        BY <4>1, <4>2, Zenon
    <3>2. CASE k \in 0..i
      <4>1. k # i + 1 /\ (k # 0 => k - 1 \in 0..(i + 1) /\ k - 1 # i + 1)
        BY <3>2
      <4>2. g[k] = f[k] /\ (k # 0 => g[k - 1] = f[k - 1])
        BY <4>1, Zenon
      <4>3. f[k] = IF k = 0 THEN start ELSE FillOnce(f[k - 1])
        BY <2>1, <3>2, Zenon
      <4> HIDE DEF g
      <4>4. QED
        BY <4>2, <4>3, Zenon
    <3>3. QED
      BY <3>1, <3>2
  <2>3. g = [k \in 0..(i + 1) |-> g[k]]
    BY Zenon
  <2> HIDE DEF g
  <2>4. g = [k \in 0..(i + 1) |-> IF k = 0 THEN start ELSE FillOnce(g[k - 1])]
    BY <2>2, <2>3, Zenon
  <2>5. i + 1 \in Nat
    OBVIOUS
  <2>6. IsLoop(g, start, i + 1)
    BY <2>4, Zenon DEF IsLoop
  <2>7. QED
    BY <2>5, <2>6
<1> HIDE DEF S
<1>3. Nat \subseteq S
  BY <1>1, <1>2, Totals!SetInduction
<1>4. QED
  BY <1>3 DEF S
\* What is left in a book is of orders another had.
Kept(b, c) ==
    \A x \in LiveOrders(c) : \E y \in LiveOrders(b) :
        x.id = y.id /\ x.owner = y.owner /\ x.side = y.side /\ x.price = y.price

\* The same order, whatever remains of it.
SameOrder(x, y) ==
    x.id = y.id /\ x.owner = y.owner /\ x.side = y.side /\ x.price = y.price /\ x.tif = y.tif

\* Where the loop can be after k iterations.
Reached(m, b, o, n, k) ==
    /\ Sound(m.book, n)
    /\ m.taker \in Order /\ SameOrder(m.taker, o)
    /\ Kept(b, m.book)
    /\ Finished(m) \/ Cardinality(LiveOrders(m.book)) + k <= Cardinality(LiveOrders(b))

\* An iteration goes from one to the next: it finishes the taker or uses up a
\* maker.
LEMMA ReachedNext ==
    ASSUME BookAssumption, NEW n \in Nat, NEW b, NEW o, NEW k \in Nat,
           NEW m, Reached(m, b, o, n, k)
    PROVE  Reached(FillOnce(m), b, o, n, k + 1)
<1>1. Sound(m.book, n) /\ m.taker \in Order /\ SameOrder(m.taker, o) /\ Kept(b, m.book)
  BY Zenon DEF Reached
<1>2. CASE Finished(m)
  <2>1. FillOnce(m) = m
    BY <1>2, Zenon DEF FillOnce, Finished
  <2>2. QED
    BY <1>1, <1>2, <2>1, Zenon DEF Reached
<1>3. CASE ~Finished(m)
  <2> DEFINE w == FillOnce(m)
             maker == Maker(m)
             traded == Amount(m)
  <2>1. /\ traded \in Nat /\ traded > 0
        /\ traded <= maker.remaining /\ traded <= m.taker.remaining
        /\ traded = maker.remaining \/ traded = m.taker.remaining
        /\ maker \in LiveOrders(m.book)
        /\ w.taker = Less(m.taker, traded)
        /\ Sound(w.book, n)
        /\ LiveOrders(w.book) = (LiveOrders(m.book) \ {maker}) \cup
                                   (IF traded = maker.remaining THEN {} ELSE {Less(maker, traded)})
    BY <1>1, <1>3, FillOnceSound, Zenon
  <2> HIDE DEF w, maker, traded
  <2>2. maker \in Order
    BY <1>1, <2>1, LiveInPlace
  <2>3. /\ w.taker \in Order /\ w.taker.remaining = m.taker.remaining - traded
        /\ w.taker.side = m.taker.side /\ w.taker.price = m.taker.price
        /\ w.taker.id = m.taker.id /\ w.taker.tif = m.taker.tif /\ w.taker.owner = m.taker.owner
    BY <1>1, <2>1, LessIsOrder
  <2>4. SameOrder(w.taker, o)
    BY <1>1, <2>3, Zenon DEF SameOrder
  <2>5. /\ Less(maker, traded).side = maker.side /\ Less(maker, traded).price = maker.price
        /\ Less(maker, traded).id = maker.id /\ Less(maker, traded).owner = maker.owner
    BY <2>1, <2>2, LessIsOrder
  <2>6. Kept(b, w.book)
    <3>1. ASSUME NEW x \in LiveOrders(w.book)
          PROVE  \E y \in LiveOrders(m.book) : x.id = y.id /\ x.owner = y.owner /\ x.side = y.side /\ x.price = y.price
      <4>1. CASE x \in LiveOrders(m.book)
        BY <4>1
      <4>2. CASE x = Less(maker, traded)
        BY <2>1, <2>5, <4>2
      <4>3. QED
        BY <2>1, <4>1, <4>2
    <3>2. ASSUME NEW x \in LiveOrders(w.book)
          PROVE  \E z \in LiveOrders(b) : x.id = z.id /\ x.owner = z.owner /\ x.side = z.side /\ x.price = z.price
      <4>1. PICK y \in LiveOrders(m.book) : x.id = y.id /\ x.owner = y.owner /\ x.side = y.side /\ x.price = y.price
        BY <3>1
      <4>2. PICK z \in LiveOrders(b) : y.id = z.id /\ y.owner = z.owner /\ y.side = z.side /\ y.price = z.price
        BY <1>1, <4>1, Zenon DEF Kept
      <4>3. QED
        BY <4>1, <4>2
    <3>3. QED
      BY <3>2, Zenon DEF Kept
  <2>7. Finished(w) \/ Cardinality(LiveOrders(w.book)) + (k + 1) <= Cardinality(LiveOrders(b))
    <3>1. CASE traded = m.taker.remaining
      <4>1. w.taker.remaining = 0
        BY <2>1, <2>3, <3>1
      <4>2. QED
        BY <4>1 DEF Finished
    <3>2. CASE traded = maker.remaining
      <4>1. LiveOrders(w.book) = LiveOrders(m.book) \ {maker}
        BY <2>1, <3>2
      <4>2. IsFiniteSet(LiveOrders(m.book)) /\ Cardinality(LiveOrders(m.book)) \in Nat
        BY <1>1, FiniteLive
      <4>3. Cardinality(LiveOrders(w.book)) = Cardinality(LiveOrders(m.book)) - 1
        <5>1. maker \in LiveOrders(m.book)
          BY <2>1
        <5>2. QED
          BY <4>1, <4>2, <5>1, FS_RemoveElement, ZenonT(30)
      <4>4. Cardinality(LiveOrders(m.book)) + k <= Cardinality(LiveOrders(b))
        BY <1>3, Zenon DEF Reached
      <4>5. (Cardinality(LiveOrders(m.book)) - 1) + (k + 1) = Cardinality(LiveOrders(m.book)) + k
        BY <4>2
      <4>6. QED
        BY <4>3, <4>4, <4>5, Zenon
    <3>3. QED
      BY <2>1, <3>1, <3>2
  <2>8. Reached(w, b, o, n, k + 1)
    BY <2>1, <2>3, <2>4, <2>6, <2>7, Zenon DEF Reached
  <2>9. QED
    BY <2>8 DEF w
<1>4. QED
  BY <1>2, <1>3

\* The states that the matching loop goes through.
IsMatching(run, b, o, n, limit) ==
    /\ limit = Cardinality(LiveOrders(b)) /\ limit \in Nat
    /\ run[0] = [book |-> b, taker |-> o, fills |-> <<>>]
    /\ \A k \in 1..limit : run[k] = FillOnce(run[k - 1])
    /\ \A k \in 0..limit : Reached(run[k], b, o, n, k)
    /\ run[limit] = Match(b, o)

\* The matching loop goes through states that are reached.
LEMMA MatchRuns ==
    ASSUME BookAssumption, NEW n \in Nat, NEW b, Sound(b, n), NEW o \in Order
    PROVE  \E run, limit : IsMatching(run, b, o, n, limit)
<1> DEFINE start == [book |-> b, taker |-> o, fills |-> <<>>]
           limit == Cardinality(LiveOrders(b))
           run == CHOOSE f : f = [k \in 0..limit |-> IF k = 0 THEN start ELSE FillOnce(f[k - 1])]
<1>1. Match(b, o) = run[limit]
  BY Zenon DEF Match
<1>2. limit \in Nat
  BY FiniteLive
<1>3. run = [k \in 0..limit |-> IF k = 0 THEN start ELSE FillOnce(run[k - 1])]
  <2>1. run = CHOOSE f : IsLoop(f, start, limit)
    BY Zenon DEF IsLoop
  <2> HIDE DEF limit, start, run
  <2>2. \E f : IsLoop(f, start, limit)
    BY <1>2, LoopExists
  <2>3. IsLoop(run, start, limit)
    BY <2>1, <2>2, Zenon
  <2>4. QED
    BY <2>3, Zenon DEF IsLoop
<1>4. Reached(start, b, o, n, 0)
  <2>1. start.book = b /\ start.taker = o
    BY Zenon
  <2>2. Kept(b, b)
    BY Zenon DEF Kept
  <2>3. SameOrder(o, o)
    BY Zenon DEF SameOrder
  <2>4. Cardinality(LiveOrders(b)) + 0 <= Cardinality(LiveOrders(b))
    BY <1>2
  <2> HIDE DEF start
  <2>5. QED
    BY <2>1, <2>2, <2>3, <2>4, Zenon DEF Reached
<1> HIDE DEF run, start, limit
<1> DEFINE S == {k \in 0..limit : Reached(run[k], b, o, n, k)}
<1>5. 0 \in S
  <2>1. 0 \in 0..limit
    BY <1>2
  <2>2. run[0] = start
    BY <1>3, <2>1
  <2>3. QED
    BY <1>4, <2>1, <2>2
<1>6. ASSUME NEW k \in 1..limit, k - 1 \in S PROVE k \in S
  <2>1. k \in 0..limit /\ k # 0 /\ k - 1 \in Nat /\ (k - 1) + 1 = k
    BY <1>2
  <2>2. run[k] = FillOnce(run[k - 1])
    BY <1>3, <2>1
  <2>3. Reached(run[k - 1], b, o, n, k - 1)
    BY <1>6
  <2>4. Reached(FillOnce(run[k - 1]), b, o, n, (k - 1) + 1)
    BY <2>1, <2>3, ReachedNext
  <2>5. QED
    BY <2>1, <2>2, <2>4
<1>7. 0..limit \subseteq S
  <2> HIDE DEF S
  <2>1. QED
    BY <1>2, <1>5, <1>6, Totals!IndexInduction
<1>8. \A k \in 0..limit : Reached(run[k], b, o, n, k)
  BY <1>7
<1>9. run[0] = start /\ \A k \in 1..limit : run[k] = FillOnce(run[k - 1])
  <2>1. 0 \in 0..limit /\ \A k \in 1..limit : k \in 0..limit /\ k # 0
    BY <1>2
  <2>2. QED
    BY <1>3, <2>1
<1>10. IsMatching(run, b, o, n, limit)
  BY <1>1, <1>2, <1>8, <1>9, Zenon DEF IsMatching, start, limit
<1>11. QED
  BY <1>10

\* The matching loop ends with the taker filled or with nothing left to trade
\* with: as many iterations as there are live orders are enough.
LEMMA MatchSound ==
    ASSUME BookAssumption, NEW n \in Nat, NEW b, Sound(b, n), NEW o \in Order
    PROVE  /\ Sound(Match(b, o).book, n)
           /\ Match(b, o).taker \in Order /\ SameOrder(Match(b, o).taker, o)
           /\ Kept(b, Match(b, o).book)
           /\ Finished(Match(b, o))
<1>1. PICK run, limit : IsMatching(run, b, o, n, limit)
  BY MatchRuns
<1> DEFINE w == run[limit]
<1>2. limit \in Nat /\ limit = Cardinality(LiveOrders(b)) /\ w = Match(b, o)
  BY <1>1, Zenon DEF IsMatching
<1>3. limit \in 0..limit
  BY <1>2
<1>4. Reached(w, b, o, n, limit)
  BY <1>1, <1>3, Zenon DEF IsMatching
<1> HIDE DEF w
<1>9. Finished(w)
  <2>1. SUFFICES ASSUME ~Finished(w) PROVE FALSE
    OBVIOUS
  <2>2. Sound(w.book, n) /\ w.taker \in Order
    BY <1>4, Zenon DEF Reached
  <2>3. Cardinality(LiveOrders(w.book)) + limit <= limit
    BY <1>2, <1>4, <2>1, Zenon DEF Reached
  <2>4. IsFiniteSet(LiveOrders(w.book)) /\ Cardinality(LiveOrders(w.book)) \in Nat
    BY <2>2, FiniteLive
  <2>5. Cardinality(LiveOrders(w.book)) = 0
    BY <1>2, <2>3, <2>4
  <2>6. LiveOrders(w.book) = {}
    BY <2>4, <2>5, FS_EmptySet
  <2>7. Maker(w) \in LiveOrders(w.book)
    BY <2>1, <2>2, FillOnceSound, Zenon
  <2>8. QED
    BY <2>6, <2>7
<1>10. QED
  BY <1>2, <1>4, <1>9, Zenon DEF Reached

-----------------------------------------------------------------------------
(* Cloning *)

\* A set of orders with identifiers of their own, put in sequence, is each of
\* them once.
LEMMA SequenceOfOrders ==
    ASSUME NEW L, L \subseteq Order, IsFiniteSet(L), \A x, y \in L : x.id = y.id => x = y
    PROVE  /\ InSequence(L) \in Seq(L) /\ Len(InSequence(L)) = Cardinality(L)
           /\ \A o \in L : \E i \in 1..Cardinality(L) : InSequence(L)[i] = o
           /\ \A i, j \in 1..Cardinality(L) : InSequence(L)[i] = InSequence(L)[j] => i = j
<1> DEFINE c == Cardinality(L)
           older(o) == {x \in L : BySequence(x, o)}
           rank == [o \in L |-> Cardinality(older(o))]
<1>1. c \in Nat
  BY FS_CardinalityType
<1>2. \A o \in L : o.id \in Nat
  BY DEF Order
<1>3. ASSUME NEW o \in L PROVE older(o) \subseteq L \ {o} /\ IsFiniteSet(older(o))
  <2>1. older(o) \subseteq L \ {o}
    BY <1>2 DEF BySequence
  <2>2. older(o) \in SUBSET L
    BY <2>1
  <2>3. QED
    BY <2>1, <2>2, FS_Subset
<1>4. ASSUME NEW o \in L, NEW x \in L, o.id < x.id PROVE older(o) \cup {o} \subseteq older(x)
  BY <1>2, <1>4 DEF BySequence
<1> HIDE DEF older
<1>5. ASSUME NEW o \in L PROVE rank[o] \in Nat /\ rank[o] <= c - 1 /\ rank[o] = Cardinality(older(o))
  <2>1. Cardinality(L \ {o}) = c - 1 /\ IsFiniteSet(L \ {o})
    BY FS_RemoveElement
  <2>2. Cardinality(older(o)) <= Cardinality(L \ {o})
    BY <1>3, <2>1, FS_Subset
  <2>3. Cardinality(older(o)) \in Nat
    BY <1>3, FS_CardinalityType
  <2>4. QED
    BY <2>1, <2>2, <2>3
<1> HIDE DEF rank
<1>6. ASSUME NEW o \in L, NEW x \in L, o.id < x.id PROVE rank[o] < rank[x]
  <2>1. o \notin older(o) /\ IsFiniteSet(older(o)) /\ IsFiniteSet(older(x))
    BY <1>3
  <2>2. Cardinality(older(o) \cup {o}) = Cardinality(older(o)) + 1
    BY <2>1, FS_AddElement
  <2>3. older(o) \cup {o} \in SUBSET older(x)
    BY <1>4, <1>6
  <2>4. Cardinality(older(o) \cup {o}) <= Cardinality(older(x))
    BY <2>1, <2>3, FS_Subset
  <2>5. rank[o] = Cardinality(older(o)) /\ rank[x] = Cardinality(older(x)) /\ rank[o] \in Nat
        /\ rank[x] \in Nat
    BY <1>5
  <2>6. QED
    BY <2>2, <2>4, <2>5
<1>7. ASSUME NEW o \in L, NEW x \in L, rank[o] = rank[x] PROVE o = x
  <2>1. rank[o] \in Nat /\ rank[x] \in Nat /\ o.id \in Nat /\ x.id \in Nat
    BY <1>2, <1>5
  <2>2. ~(o.id < x.id) /\ ~(x.id < o.id)
    BY <1>6, <1>7, <2>1
  <2>3. o.id = x.id
    BY <2>1, <2>2
  <2>4. QED
    BY <2>3
<1>8. ASSUME NEW k \in 0..(c - 1) PROVE \E o \in L : rank[o] = k
  <2>1. rank \in [L -> 0..(c - 1)]
    <3>1. rank = [o \in L |-> rank[o]]
      BY Zenon DEF rank
    <3>2. \A o \in L : rank[o] \in 0..(c - 1)
      BY <1>1, <1>5
    <3>3. QED
      BY <3>1, <3>2
  <2>2. rank \in Injection(L, 0..(c - 1))
    BY <1>7, <2>1 DEF Injection, IsInjective
  <2>3. IsFiniteSet(0..(c - 1)) /\ Cardinality(0..(c - 1)) = c
    BY <1>1, FS_Interval
  <2>4. rank \in Surjection(L, 0..(c - 1))
    BY <2>2, <2>3, FS_Injection
  <2>5. QED
    BY <2>4 DEF Surjection
<1> DEFINE s == InSequence(L)
<1>9. s = [i \in 1..c |-> CHOOSE o \in L : Cardinality(older(o)) = i - 1]
  BY Zenon DEF InSequence, older
<1>10. ASSUME NEW i \in 1..c PROVE s[i] \in L /\ rank[s[i]] = i - 1
  <2>1. i - 1 \in 0..(c - 1)
    BY <1>1
  <2>2. \E o \in L : Cardinality(older(o)) = i - 1
    BY <1>5, <1>8, <2>1
  <2>3. s[i] = CHOOSE o \in L : Cardinality(older(o)) = i - 1
    BY <1>9, Zenon
  <2> HIDE DEF s
  <2>4. s[i] \in L /\ Cardinality(older(s[i])) = i - 1
    BY <2>2, <2>3, Zenon
  <2>5. QED
    BY <1>5, <2>4
<1>11. s \in [1..c -> L]
  <2>1. s = [i \in 1..c |-> s[i]]
    BY <1>9, Zenon
  <2> HIDE DEF s
  <2>2. QED
    BY <1>10, <2>1
<1> HIDE DEF s
<1>12. s \in Seq(L) /\ Len(s) = c
  BY <1>1, <1>11
<1>13. ASSUME NEW o \in L PROVE \E i \in 1..c : s[i] = o
  <2>1. rank[o] + 1 \in 1..c /\ (rank[o] + 1) - 1 = rank[o]
    BY <1>1, <1>5
  <2>2. s[rank[o] + 1] \in L /\ rank[s[rank[o] + 1]] = rank[o]
    BY <1>10, <2>1
  <2>3. s[rank[o] + 1] = o
    BY <1>7, <2>2
  <2>4. QED
    BY <2>1, <2>3
<1>14. ASSUME NEW i \in 1..c, NEW j \in 1..c, s[i] = s[j] PROVE i = j
  <2>1. i - 1 = j - 1
    BY <1>10, <1>14
  <2>2. QED
    BY <1>1, <2>1
<1>15. QED
  BY <1>12, <1>13, <1>14, Zenon DEF s

\* Nothing is live in the empty book.
LEMMA EmptySound ==
    ASSUME NEW n
    PROVE  Sound(EmptyBook, n) /\ LiveOrders(EmptyBook) = {}
<1>1. EmptyLevel \in Level /\ EmptyLevel.queue = <<>> /\ EmptyLevel.qty = 0
  BY DEF EmptyLevel, Level
<1>2. EmptyBook \in Books /\ \A s \in Sides, p \in Prices : EmptyBook[s][p] = EmptyLevel
  BY <1>1 DEF EmptyBook, Books
<1>3. Len(<<>>) = 0 /\ 1..0 = {}
  OBVIOUS
<1>4. \A s \in Sides, p \in Prices : LevelSound(EmptyLevel, s, p, n)
  BY <1>1, <1>3, TotalEmpty DEF LevelSound
<1>5. IDs(<<>>) = {}
  BY <1>3 DEF IDs
<1>6. Apart(EmptyBook)
  BY <1>1, <1>2, <1>5 DEF Apart
<1>7. Sound(EmptyBook, n)
  BY <1>2, <1>4, <1>6, Zenon DEF Sound
<1>8. ASSUME NEW o \in LiveOrders(EmptyBook) PROVE FALSE
  <2>1. \E s \in Sides, p \in Prices : \E i \in 1..Len(EmptyBook[s][p].queue) : o = EmptyBook[s][p].queue[i]
    BY <1>2, LiveMember
  <2>2. QED
    BY <1>1, <1>2, <1>3, <2>1
<1>9. QED
  BY <1>7, <1>8

\* Clone() is a sound book of the same live orders.
LEMMA CloneSound ==
    ASSUME NEW n \in Nat, NEW b, Sound(b, n)
    PROVE  Sound(Clone(b), n) /\ LiveOrders(Clone(b)) = LiveOrders(b)
<1> DEFINE L == LiveOrders(b)
           s == Orders(b)
           c == Cardinality(L)
           made(k) == Resting!Fold(SubSeq(s, 1, k), EmptyBook)
<1>1. L \subseteq Order /\ \A o \in L : o.remaining > 0 /\ o.id <= n
  BY LiveInPlace
<1>2. \A x, y \in L : x.id = y.id => x = y
  BY IDsTellApart
<1>3. IsFiniteSet(L) /\ c \in Nat
  BY FiniteLive
<1> HIDE DEF L
<1>4. /\ s \in Seq(L) /\ Len(s) = c
      /\ \A o \in L : \E i \in 1..c : s[i] = o
      /\ \A i, j \in 1..c : s[i] = s[j] => i = j
  BY <1>1, <1>2, <1>3, SequenceOfOrders DEF Orders, L
<1>5. Clone(b) = Resting!Fold(s, EmptyBook)
  BY Zenon DEF Clone, Resting!Fold, FoldLeft, Resting!MapThenFoldSet,
               MapThenFoldSet, Resting!Greatest, Max
<1> HIDE DEF s, c
<1>6. /\ Resting!Fold(SubSeq(s, 1, 0), EmptyBook) = EmptyBook
      /\ \A k \in 1..Len(s) :
           Resting!Fold(SubSeq(s, 1, k), EmptyBook)
             = Rest(Resting!Fold(SubSeq(s, 1, k - 1), EmptyBook), s[k])
  BY <1>4, Resting!FoldStep
<1>7. Resting!Fold(s, EmptyBook) = made(Len(s))
  BY <1>4, Resting!FoldWhole
<1>8. made(0) = EmptyBook /\ \A k \in 1..c : made(k) = Rest(made(k - 1), s[k])
  BY <1>4, <1>6, Zenon
<1> HIDE DEF made
<1> DEFINE S == {k \in 0..c : Sound(made(k), n) /\ LiveOrders(made(k)) = {s[i] : i \in 1..k}}
<1>9. 0 \in S
  <2>1. {s[i] : i \in 1..0} = {} /\ 0 \in 0..c
    BY <1>3
  <2>2. Sound(made(0), n) /\ LiveOrders(made(0)) = {}
    BY <1>8, EmptySound
  <2>3. QED
    BY <2>1, <2>2
<1>10. ASSUME NEW k \in 1..c, k - 1 \in S PROVE k \in S
  <2>1. Sound(made(k - 1), n) /\ LiveOrders(made(k - 1)) = {s[i] : i \in 1..(k - 1)}
    BY <1>10
  <2>2. s[k] \in L /\ s[k].price \in Prices
    <3>1. s[k] \in L
      BY <1>4
    <3>2. QED
      BY <3>1, LiveInPlace DEF L
  <2>3. \A x \in LiveOrders(made(k - 1)) : x.id # s[k].id
    <3>1. ASSUME NEW i \in 1..(k - 1) PROVE s[i].id # s[k].id
      <4>1. i \in 1..c /\ i # k /\ s[i] \in L
        BY <1>3, <1>4
      <4>2. QED
        BY <1>2, <1>4, <2>2, <4>1
    <3>2. QED
      BY <2>1, <3>1
  <2>4. /\ Sound(Rest(made(k - 1), s[k]), n)
        /\ LiveOrders(Rest(made(k - 1), s[k])) = LiveOrders(made(k - 1)) \cup {s[k]}
    BY <1>1, <2>1, <2>2, <2>3, RestSound
  <2>5. made(k) = Rest(made(k - 1), s[k])
    BY <1>8
  <2>6. {s[i] : i \in 1..(k - 1)} \cup {s[k]} = {s[i] : i \in 1..k}
    <3>1. \A i \in 1..k : i \in 1..(k - 1) \/ i = k
      OBVIOUS
    <3>2. k \in 1..k /\ \A i \in 1..(k - 1) : i \in 1..k
      OBVIOUS
    <3>3. QED
      BY <3>1, <3>2
  <2>7. k \in 0..c
    BY <1>3
  <2>8. QED
    BY <2>1, <2>4, <2>5, <2>6, <2>7
<1>11. 0..c \subseteq S
  <2> HIDE DEF S
  <2>1. QED
    BY <1>3, <1>9, <1>10, Totals!IndexInduction
<1>12. Sound(made(c), n) /\ LiveOrders(made(c)) = {s[i] : i \in 1..c}
  BY <1>3, <1>11
<1>13. {s[i] : i \in 1..c} = L
  <2>1. \A i \in 1..c : s[i] \in L
    BY <1>4
  <2>2. QED
    BY <1>4, <2>1
<1>14. QED
  BY <1>4, <1>5, <1>7, <1>12, <1>13, Zenon DEF L
-----------------------------------------------------------------------------
(* The operations *)

\* No live bid is at or above a live ask.
Uncrossed(b) ==
    \A x, y \in LiveOrders(b) : x.side = "buy" /\ y.side = "sell" => x.price < y.price

\* A book that is sound up to one number is sound up to a greater one.
LEMMA SoundWider ==
    ASSUME NEW n \in Nat, NEW k \in Nat, n <= k, NEW b, Sound(b, n)
    PROVE  Sound(b, k)
<1>1. ASSUME NEW s \in Sides, NEW p \in Prices PROVE LevelSound(b[s][p], s, p, k)
  <2>1. LevelSound(b[s][p], s, p, n)
    BY Zenon DEF Sound
  <2>2. ASSUME NEW i \in 1..Len(b[s][p].queue) PROVE b[s][p].queue[i].id <= k
    <3>1. b[s][p].queue[i] \in Order /\ b[s][p].queue[i].id <= n
      BY QueueIsLive
    <3>2. b[s][p].queue[i].id \in Nat
      BY <3>1 DEF Order
    <3>3. QED
      BY <3>1, <3>2
  <2>3. QED
    BY <2>1, <2>2, Zenon DEF LevelSound
<1>2. QED
  BY <1>1, Zenon DEF Sound

\* What is kept of a book that is not crossed is not crossed.
LEMMA KeptUncrossed ==
    ASSUME NEW b, NEW c, Kept(b, c), Uncrossed(b)
    PROVE  Uncrossed(c)
<1> SUFFICES ASSUME NEW x \in LiveOrders(c), NEW y \in LiveOrders(c), x.side = "buy", y.side = "sell"
             PROVE  x.price < y.price
  BY DEF Uncrossed
<1>1. PICK u \in LiveOrders(b) : x.side = u.side /\ x.price = u.price
  BY Zenon DEF Kept
<1>2. PICK v \in LiveOrders(b) : y.side = v.side /\ y.price = v.price
  BY Zenon DEF Kept
<1>3. u.price < v.price
  BY <1>1, <1>2 DEF Uncrossed
<1>4. QED
  BY <1>1, <1>2, <1>3

\* A smaller set of live orders is kept of a greater one.
LEMMA FewerKept ==
    ASSUME NEW b, NEW c, LiveOrders(c) \subseteq LiveOrders(b)
    PROVE  Kept(b, c)
BY DEF Kept

\* Why submit() refuses an order.
Unwanted(b, o) == o.id <= MaxSequence(b) \/ WouldSelfTrade(b, o)

\* What submit() reports of an order that it takes.
LEMMA SubmitReport ==
    ASSUME NEW b, NEW o
    PROVE  /\ SubmitTo(b, o).ok <=> ~Unwanted(b, o)
           /\ ~Unwanted(b, o) =>
                /\ SubmitTo(b, o).fills = Match(b, o).fills
                /\ SubmitTo(b, o).book =
                     IF Match(b, o).taker.remaining > 0 /\ o.tif = "gtc"
                       THEN Rest(Match(b, o).book, Match(b, o).taker) ELSE Match(b, o).book
<1> DEFINE m == Match(b, o)
           rest == m.taker.remaining > 0 /\ o.tif = "gtc"
           after == IF rest THEN Rest(m.book, m.taker) ELSE m.book
           fs == m.fills
           left == m.taker.remaining
           report == SubmitTo(b, o)
<1>1. Refused.ok = FALSE
  BY DEF Refused
<1>2. CASE Unwanted(b, o)
  <2>1. report = Refused
    BY <1>2, Zenon DEF SubmitTo, Unwanted
  <2>2. QED
    BY <1>1, <1>2, <2>1
<1>3. CASE ~Unwanted(b, o)
  <2>1. report = [ok |-> TRUE, book |-> after, fills |-> fs, left |-> left, rests |-> rest]
    BY <1>3, Zenon DEF SubmitTo, Unwanted
  <2> HIDE DEF after, fs, left, rest, report
  <2>2. report.book = after /\ report.fills = fs /\ report.ok = TRUE
    BY <2>1
  <2>3. QED
    BY <1>3, <2>2, Zenon DEF report, after, rest, fs
<1>4. QED
  BY <1>2, <1>3

\* submit() leaves a sound book that is not crossed.
LEMMA SubmitSound ==
    ASSUME BookAssumption, NEW n \in Nat, NEW b, Sound(b, n), Uncrossed(b),
           NEW o \in Order, o.id = n + 1, o.tif = "gtc" => o.price \in Prices,
           SubmitTo(b, o).ok
    PROVE  Sound(SubmitTo(b, o).book, n + 1) /\ Uncrossed(SubmitTo(b, o).book)
<1> DEFINE m == Match(b, o)
           rests == m.taker.remaining > 0 /\ m.taker.tif = "gtc"
           report == SubmitTo(b, o)
<1>1. /\ Sound(m.book, n)
      /\ m.taker \in Order /\ SameOrder(m.taker, o)
      /\ Kept(b, m.book)
      /\ Finished(m)
  BY MatchSound
<1>2. m.taker.tif = o.tif
  BY <1>1, Zenon DEF SameOrder
<1>3. report.book = IF rests THEN Rest(m.book, m.taker) ELSE m.book
  <2>1. ~Unwanted(b, o)
    BY SubmitReport, Zenon
  <2>2. report.book = IF m.taker.remaining > 0 /\ o.tif = "gtc"
                        THEN Rest(m.book, m.taker) ELSE m.book
    BY <2>1, SubmitReport, Zenon
  <2> HIDE DEF m, report
  <2>3. QED
    BY <1>2, <2>2, Zenon
<1> HIDE DEF m
<1>4. Sound(m.book, n + 1)
  BY <1>1, SoundWider
<1>5. Uncrossed(m.book)
  BY <1>1, KeptUncrossed
<1>6. CASE ~rests
  BY <1>3, <1>4, <1>5, <1>6, Zenon
<1>7. CASE rests
  <2> DEFINE t == m.taker
             c == Rest(m.book, t)
  <2>1. t \in Order /\ t.remaining > 0 /\ t.id = n + 1 /\ t.price \in Prices
    BY <1>1, <1>7 DEF SameOrder
  <2>2. ASSUME NEW x \in LiveOrders(m.book) PROVE x.id # t.id
    <3>1. x \in Order /\ x.id <= n
      BY <1>1, LiveInPlace
    <3>2. QED
      BY <2>1, <3>1 DEF Order
  <2>3. Sound(c, n + 1) /\ LiveOrders(c) = LiveOrders(m.book) \cup {t}
    BY <1>4, <2>1, <2>2, RestSound
  <2>4. ~HasCrossing(m.book, t)
    BY <1>1, <2>1 DEF Finished
  <2>5. \A x \in LiveOrders(m.book) : x.side # t.side => ~Crosses(t.side, t.price, x.price)
    BY <1>1, <2>1, <2>4, CrossingIsBest
  <2>6. t.price \in Nat /\ \A x \in LiveOrders(m.book) : x.price \in Nat
    <3>1. \A x \in LiveOrders(m.book) : x \in Order
      BY <1>1, LiveInPlace
    <3>2. QED
      BY <2>1, <3>1 DEF Order, BookAssumption
  <2> HIDE DEF t, c
  <2>7. Uncrossed(c)
    <3> SUFFICES ASSUME NEW x \in LiveOrders(c), NEW y \in LiveOrders(c), x.side = "buy", y.side = "sell"
                 PROVE  x.price < y.price
      BY DEF Uncrossed
    <3>1. CASE x \in LiveOrders(m.book) /\ y \in LiveOrders(m.book)
      BY <1>5, <3>1 DEF Uncrossed
    <3>2. CASE x = t /\ y \in LiveOrders(m.book)
      <4>1. ~Crosses(t.side, t.price, y.price)
        BY <2>5, <3>2
      <4>2. QED
        BY <2>6, <3>2, <4>1 DEF Crosses
    <3>3. CASE x \in LiveOrders(m.book) /\ y = t
      <4>1. ~Crosses(t.side, t.price, x.price)
        BY <2>5, <3>3
      <4>2. QED
        BY <2>6, <3>3, <4>1 DEF Crosses
    <3>4. QED
      BY <2>3, <3>1, <3>2, <3>3
  <2>8. QED
    BY <1>3, <1>7, <2>3, <2>7, Zenon DEF c, t
<1>8. QED
  BY <1>6, <1>7

-----------------------------------------------------------------------------
(* What is traded *)

Trade == [maker : Order, taker : Order, price : Nat, quantity : Nat]

\* A fill of an order: at the price of a maker that was in the book.
FairTrade(f, b, o) ==
    /\ SameOrder(f.taker, o)
    /\ f.maker.side = Opposite(o.side) /\ f.price = f.maker.price
    /\ Crosses(o.side, o.price, f.maker.price)
    /\ \E y \in LiveOrders(b) :
         y.owner = f.maker.owner /\ y.side = f.maker.side /\ y.price = f.maker.price

FairTrades(trades, b, o) ==
    /\ trades \in Seq(Trade)
    /\ \A i \in 1..Len(trades) : FairTrade(trades[i], b, o)

\* The next trade of a loop is fair.
LEMMA NextTradeIsFair ==
    ASSUME BookAssumption, NEW n \in Nat, NEW b, NEW o, NEW k \in Nat,
           NEW m, Reached(m, b, o, n, k), ~Finished(m)
    PROVE  TradeOf(m) \in Trade /\ FairTrade(TradeOf(m), b, o)
<1> DEFINE maker == Maker(m)
           traded == Amount(m)
           taker == m.taker
           price == maker.price
           f == TradeOf(m)
<1>1. Sound(m.book, n) /\ taker \in Order /\ SameOrder(taker, o) /\ Kept(b, m.book)
  BY Zenon DEF Reached
<1>2. traded \in Nat /\ maker \in LiveOrders(m.book)
  BY <1>1, FillOnceSound
<1>3. maker.side = Opposite(taker.side) /\ Crosses(taker.side, taker.price, maker.price)
  BY <1>1, FillOnceTrade
<1>4. f = [maker |-> maker, taker |-> taker, price |-> price, quantity |-> traded]
  BY Zenon DEF TradeOf
<1> HIDE DEF maker, traded, taker, f
<1>5. maker \in Order
  BY <1>1, <1>2, LiveInPlace
<1>6. price \in Nat
  BY <1>5 DEF Order
<1>6a. price = maker.price
  OBVIOUS
<1> HIDE DEF price
<1>7. f.maker = maker /\ f.taker = taker /\ f.price = price /\ f.quantity = traded
  BY <1>4
<1>8. f \in Trade
  BY <1>1, <1>2, <1>4, <1>5, <1>6 DEF Trade
<1>9. maker.side = Opposite(o.side) /\ Crosses(o.side, o.price, maker.price)
  BY <1>1, <1>3, Zenon DEF SameOrder
<1>10. \E y \in LiveOrders(b) : y.owner = maker.owner /\ y.side = maker.side /\ y.price = maker.price
  BY <1>1, <1>2, Zenon DEF Kept
<1>11. FairTrade(f, b, o)
  BY <1>1, <1>6a, <1>7, <1>9, <1>10, Zenon DEF FairTrade
<1>12. QED
  BY <1>8, <1>11 DEF f

\* What an iteration trades, and what that leaves of the two orders.
Fills(m, f, w) ==
    /\ f \in Trade /\ f.taker = m.taker /\ f.price = f.maker.price
    /\ f.maker \in LiveOrders(m.book) /\ f.maker.side = Opposite(m.taker.side)
    /\ Crosses(m.taker.side, m.taker.price, f.price)
    /\ f.quantity <= f.maker.remaining /\ f.quantity <= m.taker.remaining
    /\ w.taker = Less(m.taker, f.quantity) /\ w.fills = Append(m.fills, f)
    /\ LiveOrders(w.book) = (LiveOrders(m.book) \ {f.maker}) \cup
         (IF f.quantity = f.maker.remaining THEN {} ELSE {Less(f.maker, f.quantity)})

\* An iteration of the loop that is not finished is a fill.
LEMMA IterationFills ==
    ASSUME BookAssumption, NEW n \in Nat, NEW b, NEW o, NEW k \in Nat,
           NEW m, Reached(m, b, o, n, k), ~Finished(m)
    PROVE  Fills(m, TradeOf(m), FillOnce(m))
<1> DEFINE f == TradeOf(m)
           w == FillOnce(m)
           maker == Maker(m)
           taker == m.taker
           price == maker.price
           traded == Amount(m)
<1>1. Sound(m.book, n) /\ taker \in Order
  BY Zenon DEF Reached
<1>2. f \in Trade
  BY NextTradeIsFair
<1>3. f = [maker |-> maker, taker |-> taker, price |-> price, quantity |-> traded]
  BY Zenon DEF TradeOf
<1>4. /\ traded <= maker.remaining /\ traded <= taker.remaining /\ maker \in LiveOrders(m.book)
      /\ w.taker = Less(taker, traded)
      /\ LiveOrders(w.book) = (LiveOrders(m.book) \ {maker}) \cup
           (IF traded = maker.remaining THEN {} ELSE {Less(maker, traded)})
  BY <1>1, FillOnceSound, Zenon
<1>5. maker.side = Opposite(taker.side) /\ Crosses(taker.side, taker.price, price) /\ w.fills = Append(m.fills, f)
  BY <1>1, FillOnceTrade, Zenon
<1>6. price = maker.price
  OBVIOUS
<1>7. taker = m.taker
  OBVIOUS
<1> HIDE DEF f, w, maker, taker, price, traded
<1>8. f.maker = maker /\ f.taker = taker /\ f.price = price /\ f.quantity = traded
  BY <1>3
<1>9. Fills(m, f, w)
  BY <1>2, <1>4, <1>5, <1>6, <1>7, <1>8, Zenon DEF Fills
<1>10. QED
  BY <1>9 DEF f, w

\* Appending a fair trade.
LEMMA FairAppend ==
    ASSUME NEW b, NEW o, NEW trades, FairTrades(trades, b, o), NEW f \in Trade, FairTrade(f, b, o)
    PROVE  FairTrades(Append(trades, f), b, o)
<1>1. trades \in Seq(Trade) /\ \A i \in 1..Len(trades) : FairTrade(trades[i], b, o)
  BY DEF FairTrades
<1> DEFINE g == Append(trades, f)
<1>2. /\ g \in Seq(Trade) /\ Len(g) = Len(trades) + 1 /\ g[Len(trades) + 1] = f
      /\ \A i \in 1..Len(trades) : g[i] = trades[i]
  BY <1>1
<1> HIDE DEF g
<1>3. ASSUME NEW i \in 1..Len(g) PROVE FairTrade(g[i], b, o)
  <2>1. CASE i = Len(trades) + 1
    BY <1>2, <2>1
  <2>2. CASE i # Len(trades) + 1
    <3>1. i \in 1..Len(trades)
      BY <1>1, <1>2, <2>2
    <3>2. QED
      BY <1>1, <1>2, <3>1
  <2>3. QED
    BY <2>1, <2>2
<1>4. FairTrades(g, b, o)
  BY <1>2, <1>3 DEF FairTrades
<1>5. QED
  BY <1>4 DEF g

\* The matching loop only makes fair trades.
LEMMA MatchTrades ==
    ASSUME BookAssumption, NEW n \in Nat, NEW b, Sound(b, n), NEW o \in Order
    PROVE  FairTrades(Match(b, o).fills, b, o)
<1>1. \E run, limit : IsMatching(run, b, o, n, limit)
  BY MatchRuns
<1>2. PICK run, limit : IsMatching(run, b, o, n, limit)
  BY <1>1
<1> DEFINE start == [book |-> b, taker |-> o, fills |-> <<>>]
<1>3. /\ limit \in Nat /\ run[0] = start
      /\ \A k \in 1..limit : run[k] = FillOnce(run[k - 1])
      /\ \A k \in 0..limit : Reached(run[k], b, o, n, k)
      /\ run[limit] = Match(b, o)
  BY <1>2, Zenon DEF IsMatching
<1> DEFINE S == {k \in 0..limit : FairTrades(run[k].fills, b, o)}
<1>4. 0 \in S
  <2>1. start.fills = <<>>
    OBVIOUS
  <2>2. run[0].fills = <<>>
    BY <1>3, <2>1
  <2>3. FairTrades(<<>>, b, o)
    BY DEF FairTrades
  <2>4. QED
    BY <1>3, <2>2, <2>3
<1>5. ASSUME NEW k \in 1..limit, k - 1 \in S PROVE k \in S
  <2> DEFINE m == run[k - 1]
  <2>1. k - 1 \in 0..limit /\ k - 1 \in Nat /\ k \in 0..limit
    BY <1>3
  <2>2. run[k] = FillOnce(m) /\ Reached(m, b, o, n, k - 1) /\ FairTrades(m.fills, b, o)
    BY <1>3, <1>5, <2>1
  <2>3. CASE Finished(m)
    <3>1. FillOnce(m) = m
      BY <2>3, Zenon DEF FillOnce, Finished
    <3>2. FairTrades(run[k].fills, b, o)
      BY <2>2, <3>1, Zenon
    <3>3. QED
      BY <2>1, <3>2
  <2>4. CASE ~Finished(m)
    <3> HIDE DEF m
    <3>1. TradeOf(m) \in Trade /\ FairTrade(TradeOf(m), b, o)
      BY <2>1, <2>2, <2>4, NextTradeIsFair
    <3>2. Sound(m.book, n) /\ m.taker \in Order
      BY <2>2, Zenon DEF Reached
    <3>3. FillOnce(m).fills = Append(m.fills, TradeOf(m))
      BY <2>4, <3>2, FillOnceTrade
    <3>4. FairTrades(FillOnce(m).fills, b, o)
      BY <2>2, <3>1, <3>3, FairAppend
    <3>5. QED
      BY <2>1, <2>2, <3>4
  <2>5. QED
    BY <2>3, <2>4
<1> HIDE DEF S
<1>6. 0..limit \subseteq S
  BY <1>3, <1>4, <1>5, Totals!IndexInduction
<1>7. limit \in S
  BY <1>3, <1>6
<1>8. QED
  BY <1>3, <1>7, Zenon DEF S

\* What a live order of the book after an order was submitted comes from.
Comes(x, b, o) ==
    \/ \E y \in LiveOrders(b) : x.id = y.id /\ x.owner = y.owner /\ x.side = y.side /\ x.price = y.price
    \/ SameOrder(x, o) /\ o.tif = "gtc"

\* An order with a new identifier that meets no order of its owner is taken.
LEMMA SubmitTakes ==
    ASSUME NEW n \in Nat, NEW b, Sound(b, n), NEW o \in Order, o.id = n + 1,
           \A y \in LiveOrders(b) :
             y.owner = o.owner /\ y.side # o.side => ~Crosses(o.side, o.price, y.price)
    PROVE  SubmitOrder(b, o).ok
<1> DEFINE c == Clone(b)
           L == LiveOrders(c)
           N == {0} \cup {x.id : x \in L}
<1>1. Sound(c, n) /\ LiveOrders(c) = LiveOrders(b)
  BY CloneSound
<1> HIDE DEF c
<1>2. IsFiniteSet(L) /\ \A x \in L : x.id \in Nat /\ x.id <= n
  BY <1>1, FiniteLive, LiveInPlace DEF Order
<1>3. IsFiniteSet(N)
  <2>1. N \subseteq 0..n
    BY <1>2
  <2>2. IsFiniteSet(0..n)
    BY FS_Interval
  <2> HIDE DEF N
  <2>3. QED
    BY <2>1, <2>2, FS_Subset
<1>4. N \subseteq Nat /\ N # {} /\ \A k \in N : k <= n
  BY <1>2
<1>5. MaxSequence(c) = Max(N)
  BY Zenon DEF MaxSequence
<1> HIDE DEF N
<1>6. MaxSequence(c) \in Nat /\ MaxSequence(c) <= n
  BY <1>3, <1>4, <1>5, Extremes
<1>7. ~(o.id <= MaxSequence(c))
  BY <1>6
<1>8. ~WouldSelfTrade(c, o)
  BY <1>1, Zenon DEF WouldSelfTrade, OrdersOf
<1>9. SubmitTo(c, o).ok
  BY <1>7, <1>8, SubmitReport DEF Unwanted
<1>10. QED
  BY <1>9, Zenon DEF SubmitOrder, c

\* A fair trade of an order that would not trade with its owner's is with
\* another.
LEMMA FairNotOwn ==
    ASSUME NEW b, NEW o \in Order, ~WouldSelfTrade(b, o), NEW f, FairTrade(f, b, o)
    PROVE  f.maker.owner # o.owner
<1>1. PICK y \in LiveOrders(b) : y.owner = f.maker.owner /\ y.side = f.maker.side /\ y.price = f.maker.price
  BY Zenon DEF FairTrade
<1>2. f.maker.side = Opposite(o.side) /\ Crosses(o.side, o.price, f.maker.price)
  BY Zenon DEF FairTrade
<1>3. Opposite(o.side) # o.side
  BY DEF Opposite, Order, Sides
<1>4. ~(y \in OrdersOf(b, o.owner) /\ y.side # o.side /\ Crosses(o.side, o.price, y.price))
  BY Zenon DEF WouldSelfTrade
<1>5. y \notin OrdersOf(b, o.owner)
  BY <1>1, <1>2, <1>3, <1>4, Zenon
<1>6. QED
  BY <1>1, <1>5 DEF OrdersOf

\* A taken order makes fair trades, none with its owner, and only its own rest
\* is new in the book.
LEMMA SubmitOutcome ==
    ASSUME BookAssumption, NEW n \in Nat, NEW b, Sound(b, n), Uncrossed(b),
           NEW o \in Order, o.id = n + 1, o.tif = "gtc" => o.price \in Prices,
           SubmitOrder(b, o).ok
    PROVE  /\ Sound(SubmitOrder(b, o).book, n + 1) /\ Uncrossed(SubmitOrder(b, o).book)
           /\ FairTrades(SubmitOrder(b, o).fills, b, o)
           /\ \A i \in 1..Len(SubmitOrder(b, o).fills) :
                SubmitOrder(b, o).fills[i].maker.owner # o.owner
           /\ \A x \in LiveOrders(SubmitOrder(b, o).book) : Comes(x, b, o)
<1> DEFINE c == Clone(b)
           r == SubmitTo(c, o)
           m == Match(c, o)
<1>1. Sound(c, n) /\ LiveOrders(c) = LiveOrders(b)
  BY CloneSound
<1>2. SubmitOrder(b, o) = r
  BY Zenon DEF SubmitOrder
<1> HIDE DEF c
<1>3. Uncrossed(c)
  BY <1>1 DEF Uncrossed
<1>4. Sound(r.book, n + 1) /\ Uncrossed(r.book)
  <2>1. r.ok
    BY <1>2
  <2>2. QED
    BY <1>1, <1>3, <2>1, SubmitSound
<1>5. /\ ~Unwanted(c, o) /\ r.fills = m.fills
      /\ r.book = IF m.taker.remaining > 0 /\ o.tif = "gtc" THEN Rest(m.book, m.taker) ELSE m.book
  BY <1>2, SubmitReport
<1>6. /\ Sound(m.book, n)
      /\ m.taker \in Order /\ SameOrder(m.taker, o)
      /\ Kept(c, m.book)
  BY <1>1, MatchSound
<1>7. FairTrades(m.fills, c, o)
  BY <1>1, MatchTrades
<1> HIDE DEF r, m
<1>8. \A f : FairTrade(f, c, o) <=> FairTrade(f, b, o)
  BY <1>1, Zenon DEF FairTrade
<1>9. FairTrades(m.fills, b, o)
  BY <1>7, <1>8, Zenon DEF FairTrades
<1>10. ASSUME NEW i \in 1..Len(m.fills) PROVE m.fills[i].maker.owner # o.owner
  <2> DEFINE f == m.fills[i]
  <2>1. FairTrade(f, c, o)
    BY <1>7, Zenon DEF FairTrades
  <2> HIDE DEF f
  <2>2. ~WouldSelfTrade(c, o)
    BY <1>5 DEF Unwanted
  <2>3. f.maker.owner # o.owner
    BY <2>1, <2>2, FairNotOwn
  <2>4. QED
    BY <2>3 DEF f
<1>11. ASSUME NEW x \in LiveOrders(r.book) PROVE Comes(x, b, o)
  <2>1. CASE x \in LiveOrders(m.book)
    BY <1>1, <1>6, <2>1, Zenon DEF Kept, Comes
  <2>2. CASE m.taker.remaining > 0 /\ o.tif = "gtc"
    <3> DEFINE t == m.taker
    <3>1. t \in Order /\ t.remaining > 0 /\ t.id = n + 1 /\ t.price \in Prices
      BY <1>6, <2>2 DEF SameOrder
    <3>2. ASSUME NEW z \in LiveOrders(m.book) PROVE z.id # t.id
      <4>1. z \in Order /\ z.id <= n
        BY <1>6, LiveInPlace
      <4>2. QED
        BY <3>1, <4>1 DEF Order
    <3>3. Sound(m.book, n + 1)
      BY <1>6, SoundWider
    <3>4. t.id <= n + 1
      BY <3>1
    <3>5. LiveOrders(Rest(m.book, t)) = LiveOrders(m.book) \cup {t}
      BY <3>1, <3>2, <3>3, <3>4, RestSound
    <3>6. r.book = Rest(m.book, t)
      BY <1>5, <2>2, Zenon
    <3>7. x \in LiveOrders(m.book) \/ x = t
      BY <3>5, <3>6
    <3>8. QED
      BY <1>6, <2>1, <2>2, <3>7, Zenon DEF Comes
  <2>3. CASE ~(m.taker.remaining > 0 /\ o.tif = "gtc")
    <3>1. r.book = m.book
      BY <1>5, <2>3, Zenon
    <3>2. QED
      BY <2>1, <3>1
  <2>4. QED
    BY <2>2, <2>3
<1>12. FairTrades(r.fills, b, o) /\ \A i \in 1..Len(r.fills) : r.fills[i].maker.owner # o.owner
  BY <1>5, <1>9, <1>10, Zenon
<1>13. QED
  BY <1>2, <1>4, <1>11, <1>12, Zenon

\* The run of the loop that a taken order goes through, and what it leaves.
Matched(run, b, o, n, limit, r) ==
    /\ limit \in Nat /\ run[0].taker = o /\ run[0].fills = <<>>
    /\ LiveOrders(run[0].book) = LiveOrders(b)
    /\ \A k \in 1..limit :
         \/ run[k] = run[k - 1]
         \/ /\ Fills(run[k - 1], TradeOf(run[k - 1]), run[k])
            /\ TradeOf(run[k - 1]).maker.owner # o.owner
    /\ \A k \in 0..limit :
         /\ Sound(run[k].book, n) /\ Kept(b, run[k].book)
         /\ run[k].taker \in Order /\ SameOrder(run[k].taker, o)
    /\ r.fills = run[limit].fills
    /\ \/ LiveOrders(r.book) = LiveOrders(run[limit].book)
       \/ LiveOrders(r.book) = LiveOrders(run[limit].book) \cup {run[limit].taker}

\* A taken order is matched by such a run.
LEMMA SubmitMatches ==
    ASSUME BookAssumption, NEW n \in Nat, NEW b, Sound(b, n),
           NEW o \in Order, o.id = n + 1, o.tif = "gtc" => o.price \in Prices,
           SubmitOrder(b, o).ok
    PROVE  \E run, limit : Matched(run, b, o, n, limit, SubmitOrder(b, o))
<1> DEFINE c == Clone(b)
           r == SubmitTo(c, o)
           w == Match(c, o)
           start == [book |-> c, taker |-> o, fills |-> <<>>]
<1>1. Sound(c, n) /\ LiveOrders(c) = LiveOrders(b)
  BY CloneSound
<1>2. SubmitOrder(b, o) = r
  BY Zenon DEF SubmitOrder
<1>3. start.book = c /\ start.taker = o /\ start.fills = <<>>
  OBVIOUS
<1> HIDE DEF c
<1>4. PICK run, limit : IsMatching(run, c, o, n, limit)
  BY <1>1, MatchRuns
<1>5. /\ limit \in Nat /\ run[0] = start
      /\ \A k \in 1..limit : run[k] = FillOnce(run[k - 1])
      /\ \A k \in 0..limit : Reached(run[k], c, o, n, k)
      /\ run[limit] = w
  BY <1>4, Zenon DEF IsMatching
<1>6. /\ ~Unwanted(c, o) /\ r.fills = w.fills
      /\ r.book = IF w.taker.remaining > 0 /\ o.tif = "gtc" THEN Rest(w.book, w.taker) ELSE w.book
  BY <1>2, SubmitReport
<1> HIDE DEF start, r, w
<1>7. ~WouldSelfTrade(c, o)
  BY <1>6 DEF Unwanted
<1>8. ASSUME NEW k \in 0..limit
      PROVE  /\ Sound(run[k].book, n) /\ Kept(b, run[k].book)
             /\ run[k].taker \in Order /\ SameOrder(run[k].taker, o)
  <2>1. Reached(run[k], c, o, n, k)
    BY <1>5
  <2>2. QED
    BY <1>1, <2>1, Zenon DEF Reached, Kept
<1>9. ASSUME NEW k \in 1..limit
      PROVE  \/ run[k] = run[k - 1]
             \/ /\ Fills(run[k - 1], TradeOf(run[k - 1]), run[k])
                /\ TradeOf(run[k - 1]).maker.owner # o.owner
  <2> DEFINE m == run[k - 1]
  <2>1. k - 1 \in 0..limit /\ k - 1 \in Nat
    BY <1>5
  <2>2. run[k] = FillOnce(m) /\ Reached(m, c, o, n, k - 1)
    BY <1>5, <2>1
  <2> HIDE DEF m
  <2>3. CASE Finished(m)
    <3>1. FillOnce(m) = m
      BY <2>3, Zenon DEF FillOnce, Finished
    <3>2. QED
      BY <2>2, <3>1 DEF m
  <2>4. CASE ~Finished(m)
    <3>1. Fills(m, TradeOf(m), FillOnce(m))
      BY <2>1, <2>2, <2>4, IterationFills
    <3>2. FairTrade(TradeOf(m), c, o)
      BY <2>1, <2>2, <2>4, NextTradeIsFair
    <3>3. TradeOf(m).maker.owner # o.owner
      BY <1>7, <3>2, FairNotOwn
    <3>4. QED
      BY <2>2, <3>1, <3>3, Zenon DEF m
  <2>5. QED
    BY <2>3, <2>4
<1>10. w = run[limit] /\ limit \in 0..limit /\ 0 \in 0..limit
  BY <1>5
<1>11. LiveOrders(r.book) = LiveOrders(w.book) \/ LiveOrders(r.book) = LiveOrders(w.book) \cup {w.taker}
  <2>1. CASE w.taker.remaining > 0 /\ o.tif = "gtc"
    <3> DEFINE t == w.taker
    <3>1. Sound(w.book, n) /\ t \in Order /\ SameOrder(t, o)
      BY <1>8, <1>10
    <3>2. t.remaining > 0 /\ t.id = n + 1 /\ t.price \in Prices
      BY <2>1, <3>1 DEF SameOrder
    <3>3. ASSUME NEW z \in LiveOrders(w.book) PROVE z.id # t.id
      <4>1. z \in Order /\ z.id <= n
        BY <3>1, LiveInPlace
      <4>2. QED
        BY <3>2, <4>1 DEF Order
    <3>4. Sound(w.book, n + 1)
      BY <3>1, SoundWider
    <3>5. t.id <= n + 1 /\ n + 1 \in Nat
      BY <3>2
    <3>6. LiveOrders(Rest(w.book, t)) = LiveOrders(w.book) \cup {t}
      BY <3>1, <3>2, <3>3, <3>4, <3>5, RestSound
    <3>7. r.book = Rest(w.book, t)
      BY <1>6, <2>1, Zenon
    <3>8. QED
      BY <3>6, <3>7, Zenon
  <2>2. CASE ~(w.taker.remaining > 0 /\ o.tif = "gtc")
    BY <1>6, <2>2, Zenon
  <2>3. QED
    BY <2>1, <2>2
<1>12. run[0].taker = o /\ run[0].fills = <<>> /\ LiveOrders(run[0].book) = LiveOrders(b)
  BY <1>1, <1>3, <1>5, Zenon
<1>13. Matched(run, b, o, n, limit, r)
  BY <1>5, <1>6, <1>8, <1>9, <1>10, <1>11, <1>12, Zenon DEF Matched
<1>14. QED
  BY <1>2, <1>13, Zenon

-----------------------------------------------------------------------------
(* The book *)

\* The invariant: every level is in order and the sides do not cross.
BookInv ==
    /\ nextOrder \in Nat
    /\ Sound(book, nextOrder)
    /\ Uncrossed(book)

\* A new order is an order, numbered after all the others.
LEMMA NewIsOrder ==
    ASSUME BookAssumption, NEW id \in Nat, NEW owner \in Owners, NEW side \in Sides,
           NEW price \in Prices, NEW qty \in Quantities, NEW tif \in TIFs
    PROVE  /\ NewOrder(id, owner, side, price, qty, tif) \in Order
           /\ NewOrder(id, owner, side, price, qty, tif).id = id
           /\ NewOrder(id, owner, side, price, qty, tif).price = price
BY DEF NewOrder, Order, BookAssumption

\* The empty book is as it should be.
LEMMA InitBook == Init => BookInv
<1> SUFFICES ASSUME Init PROVE BookInv
  OBVIOUS
<1>1. Sound(EmptyBook, 0) /\ LiveOrders(EmptyBook) = {}
  BY EmptySound
<1>2. QED
  BY <1>1 DEF Init, BookInv, Uncrossed

\* What an operation that matches an order with a sound book commits.
LEMMA CommitSound ==
    ASSUME BookAssumption, BookInv, nextOrder' = nextOrder + 1,
           NEW b, Sound(b, nextOrder), Uncrossed(b),
           NEW o \in Order, o.id = nextOrder + 1, o.price \in Prices,
           Commit(SubmitOrder(b, o))
    PROVE  BookInv'
<1> DEFINE report == SubmitOrder(b, o)
<1>1. nextOrder \in Nat /\ Sound(book, nextOrder) /\ Uncrossed(book)
  BY Zenon DEF BookInv
<1>2. Sound(Clone(b), nextOrder) /\ LiveOrders(Clone(b)) = LiveOrders(b)
  BY <1>1, CloneSound
<1>3. Uncrossed(Clone(b))
  BY <1>2, Zenon DEF Uncrossed
<1>4. report = SubmitTo(Clone(b), o)
  BY Zenon DEF SubmitOrder
<1>5. ASSUME report.ok PROVE Sound(report.book, nextOrder + 1) /\ Uncrossed(report.book)
  <2>1. SubmitTo(Clone(b), o).ok
    BY <1>4, <1>5, Zenon
  <2>2. Sound(SubmitTo(Clone(b), o).book, nextOrder + 1) /\ Uncrossed(SubmitTo(Clone(b), o).book)
    BY <1>1, <1>2, <1>3, <2>1, SubmitSound
  <2>3. QED
    BY <1>4, <2>2, Zenon
<1>6. Sound(book, nextOrder + 1)
  BY <1>1, SoundWider
<1>7. book' = IF report.ok THEN report.book ELSE book
  BY DEF Commit
<1> HIDE DEF report
<1>8. Sound(book', nextOrder + 1) /\ Uncrossed(book')
  BY <1>1, <1>5, <1>6, <1>7
<1>9. nextOrder + 1 \in Nat
  BY <1>1
<1>10. QED
  BY <1>8, <1>9, Zenon DEF BookInv

\* Every step keeps the invariant.
LEMMA NextBook == BookAssumption /\ BookInv /\ [Next]_vars => BookInv'
<1> SUFFICES ASSUME BookAssumption, BookInv, [Next]_vars PROVE BookInv'
  OBVIOUS
<1>1. nextOrder \in Nat /\ Sound(book, nextOrder) /\ Uncrossed(book)
  BY Zenon DEF BookInv
<1>2. ASSUME NEW old \in LiveOrders(book)
      PROVE  /\ Sound(RemoveOrder(book, old), nextOrder)
             /\ Uncrossed(RemoveOrder(book, old))
             /\ old \in Order
  <2>1. /\ Sound(RemoveOrder(book, old), nextOrder)
        /\ LiveOrders(RemoveOrder(book, old)) = LiveOrders(book) \ {old}
    BY <1>1, RemoveSound
  <2>2. Kept(book, RemoveOrder(book, old))
    BY <2>1, FewerKept
  <2>3. Uncrossed(RemoveOrder(book, old))
    BY <1>1, <2>2, KeptUncrossed
  <2>4. old \in Order
    BY <1>1, LiveInPlace
  <2>5. QED
    BY <2>1, <2>3, <2>4
<1>3. ASSUME NEW owner \in Owners, NEW side \in Sides, NEW price \in Prices, NEW qty \in Quantities,
             NEW tif \in TIFs, Submit(owner, side, price, qty, tif)
      PROVE  BookInv'
  <2> DEFINE o == NewOrder(nextOrder + 1, owner, side, price, qty, tif)
  <2>1. nextOrder' = nextOrder + 1 /\ Commit(SubmitOrder(book, o))
    BY <1>3 DEF Submit
  <2>2. o \in Order /\ o.id = nextOrder + 1 /\ o.price \in Prices
    BY <1>1, NewIsOrder
  <2> HIDE DEF o
  <2>3. QED
    BY <1>1, <2>1, <2>2, CommitSound
<1>4. ASSUME NEW old \in LiveOrders(book), Cancel(old) PROVE BookInv'
  <2>1. book' = RemoveOrder(book, old) /\ nextOrder' = nextOrder
    BY <1>4 DEF Cancel
  <2>2. QED
    BY <1>1, <1>2, <2>1, Zenon DEF BookInv
<1>5. ASSUME NEW old \in LiveOrders(book), NEW price \in Prices, NEW qty \in Quantities,
             NEW tif \in TIFs, Replace(old, price, qty, tif)
      PROVE  BookInv'
  <2> DEFINE o == NewOrder(nextOrder + 1, old.owner, old.side, price, qty, tif)
  <2>1. nextOrder' = nextOrder + 1 /\ Commit(ReplaceOrder(book, old, o))
    BY <1>5 DEF Replace
  <2>2. old.owner \in Owners /\ old.side \in Sides
    BY <1>2 DEF Order
  <2>3. o \in Order /\ o.id = nextOrder + 1 /\ o.price \in Prices
    BY <1>1, <2>2, NewIsOrder
  <2> HIDE DEF o
  <2>4. CASE o.id <= MaxSequence(book)
    <3>1. ReplaceOrder(book, old, o) = Refused
      BY <2>4, Zenon DEF ReplaceOrder
    <3>2. Refused.ok = FALSE
      BY DEF Refused
    <3>3. Commit(Refused)
      BY <2>1, <3>1, Zenon
    <3>4. book' = book
      BY <3>2, <3>3 DEF Commit
    <3>5. Sound(book, nextOrder + 1) /\ nextOrder + 1 \in Nat
      BY <1>1, SoundWider
    <3>6. QED
      BY <1>1, <2>1, <3>4, <3>5, Zenon DEF BookInv
  <2>5. CASE ~(o.id <= MaxSequence(book))
    <3>1. ReplaceOrder(book, old, o) = SubmitOrder(RemoveOrder(book, old), o)
      BY <2>5, Zenon DEF ReplaceOrder
    <3>2. Commit(SubmitOrder(RemoveOrder(book, old), o))
      BY <2>1, <3>1, Zenon
    <3>3. QED
      BY <1>2, <2>1, <2>3, <3>2, CommitSound
  <2>6. QED
    BY <2>4, <2>5
<1>6. CASE UNCHANGED vars
  BY <1>1, <1>6 DEF BookInv, vars
<1>7. QED
  BY <1>3, <1>4, <1>5, <1>6 DEF Next

\* What the invariant says of the best prices.
LEMMA BookNeverCrossed == BookAssumption /\ BookInv => NeverCrossed
<1> SUFFICES ASSUME BookAssumption, BookInv, Best(book, "buy") # 0, Best(book, "sell") # 0
             PROVE  Best(book, "buy") < Best(book, "sell")
  BY DEF NeverCrossed
<1>1. nextOrder \in Nat /\ Sound(book, nextOrder) /\ Uncrossed(book)
  BY Zenon DEF BookInv
<1>2. ASSUME NEW side \in Sides, Best(book, side) # 0
      PROVE  \E o \in LiveOrders(book) : o.side = side /\ o.price = Best(book, side)
  <2>1. Best(book, side) \in RestingPrices(book, side)
    BY <1>1, <1>2, BestPrice
  <2>2. Best(book, side) \in Prices
    BY <2>1 DEF RestingPrices
  <2> DEFINE p == Best(book, side)
  <2>a. p \in Prices
    BY <2>2
  <2> HIDE DEF p
  <2>3. p \in RestingPrices(book, side) <=> \E o \in LiveOrders(book) : o.side = side /\ o.price = p
    BY <1>1, <2>a, RestingIsLive
  <2>4. QED
    BY <2>1, <2>3 DEF p
<1>3. "buy" \in Sides /\ "sell" \in Sides
  BY DEF Sides
<1>4. PICK x \in LiveOrders(book) : x.side = "buy" /\ x.price = Best(book, "buy")
  BY <1>2, <1>3
<1>5. PICK y \in LiveOrders(book) : y.side = "sell" /\ y.price = Best(book, "sell")
  BY <1>2, <1>3
<1>6. x.price < y.price
  BY <1>1, <1>4, <1>5, Zenon DEF Uncrossed
<1>7. QED
  BY <1>4, <1>5, <1>6, Zenon

\* What the invariant says of the cached totals.
LEMMA BookLevelTotals == BookInv => LevelTotals
<1> SUFFICES ASSUME BookInv, NEW side \in Sides, NEW price \in Prices
             PROVE  book[side][price].qty =
                      FoldLeft(LAMBDA sum, o : sum + o.remaining, 0, book[side][price].queue)
  BY Zenon DEF LevelTotals
<1>1. LevelSound(book[side][price], side, price, nextOrder)
  BY Zenon DEF BookInv, Sound
<1>2. book[side][price].qty = Total(book[side][price].queue)
  BY <1>1, Zenon DEF LevelSound
<1>3. Total(book[side][price].queue) =
        FoldLeft(LAMBDA sum, o : sum + o.remaining, 0, book[side][price].queue)
  BY Zenon DEF Total, AddRemaining, Totals!Fold, FoldLeft, Totals!MapThenFoldSet,
               MapThenFoldSet, Totals!Greatest, Max
<1>4. QED
  BY <1>2, <1>3, Zenon

\* The invariant holds in every state.
THEOREM BookIsSound == Spec => []BookInv
<1>1. BookAssumption /\ BookInv /\ [Next]_vars => BookInv'
  BY NextBook
<1>2. QED
  BY <1>1, InitBook, BookAssumption, PTL DEF Spec

\* The best bid is below the best ask, after every submission, replacement and
\* cancellation, for any prices, quantities and owners (submit()).
THEOREM BookIsNeverCrossed == Spec => []NeverCrossed
<1>1. BookInv => NeverCrossed
  BY BookAssumption, BookNeverCrossed
<1>2. QED
  BY <1>1, BookIsSound, PTL

\* A level's cached total is the sum of what rests on it, after every partial
\* fill, removal and rest (level.qty in rest, remove and submit).
THEOREM LevelsAddUp == Spec => []LevelTotals
BY BookLevelTotals, BookIsSound, PTL
=============================================================================
