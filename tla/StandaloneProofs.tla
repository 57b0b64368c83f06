-------------------------- MODULE StandaloneProofs -------------------------
(***************************************************************************)
(* Proofs about the two modules that no other module builds on: the        *)
(* checked arithmetic, at every width of the integers, and the creation of *)
(* games on the disk, for every set of names, commands and terms.          *)
(***************************************************************************)
EXTENDS Fixed, GameCreation, TLAPS

-----------------------------------------------------------------------------
(* The checked arithmetic *)

\* What does not leave the range is not changed by wrapping.
LEMMA RemainderBelow ==
    ASSUME NEW n \in Nat, NEW m \in Nat, n < m
    PROVE  n % m = n
  OBVIOUS

\* What has a representation is not wrapped.
LEMMA WrapExact ==
    ASSUME MaxInt \in Nat, NEW x \in Int64
    PROVE  Wrap(x) = x
<1>1. x - MinInt \in Nat /\ 2 * MaxInt + 2 \in Nat /\ x - MinInt < 2 * MaxInt + 2
  BY DEF Int64, MinInt
<1>2. (x - MinInt) % (2 * MaxInt + 2) = x - MinInt
  BY <1>1, RemainderBelow
<1> QED BY <1>2 DEF Wrap, MinInt, Int64

\* AddMoney and AddQty return the sum, or refuse one that has no
\* representation; their guards compute nothing that wraps.
THEOREM AdditionIsExact ==
    ASSUME MaxInt \in Nat, NEW a \in Int64, NEW b \in Int64
    PROVE  Add(a, b) = Exactly(a + b)
<1>1. /\ b > 0 => Wrap(MaxInt - b) = MaxInt - b
      /\ b < 0 => Wrap(MinInt - b) = MinInt - b
      /\ a + b \in Int64 => Wrap(a + b) = a + b
  <2>1. /\ b > 0 => MaxInt - b \in Int64
        /\ b < 0 => MinInt - b \in Int64
    BY DEF Int64, MinInt
  <2> QED BY <2>1, WrapExact
<1> QED BY <1>1 DEF Add, Exactly, Int64, MinInt

\* NegMoney and NegQty return the additive inverse, or refuse it.
THEOREM NegationIsExact ==
    ASSUME MaxInt \in Nat, NEW v \in Int64
    PROVE  Neg(v) = Exactly(-v)
<1>1. -v \in Int64 => Wrap(-v) = -v
  BY WrapExact
<1> QED BY <1>1 DEF Neg, Exactly, Int64, MinInt

\* SubMoney and SubQty return the difference, or refuse it: also where the
\* subtrahend has no additive inverse.
THEOREM SubtractionIsExact ==
    ASSUME MaxInt \in Nat, NEW a \in Int64, NEW b \in Int64
    PROVE  Sub(a, b) = Exactly(a - b)
<1>1. /\ b > 0 => Wrap(MinInt + b) = MinInt + b
      /\ b < 0 => Wrap(MaxInt + b) = MaxInt + b
      /\ a - b \in Int64 => Wrap(a - b) = a - b
  <2>1. /\ b > 0 => MinInt + b \in Int64
        /\ b < 0 => MaxInt + b \in Int64
    BY DEF Int64, MinInt
  <2> QED BY <2>1, WrapExact
<1> QED BY <1>1 DEF Sub, Exactly, Int64, MinInt

\* AbsQtyChecked returns the magnitude, or refuses it.
THEOREM MagnitudeIsExact ==
    ASSUME MaxInt \in Nat, NEW v \in Int64
    PROVE  AbsQtyChecked(v) = Exactly(Size(v))
  BY NegationIsExact DEF AbsQtyChecked, Exactly, Size, Int64, MinInt

-----------------------------------------------------------------------------

\* A quotient is the largest number of whole divisors.
LEMMA QuotientBounds ==
    ASSUME NEW n \in Nat, NEW d \in Nat \ {0}
    PROVE  /\ n \div d \in Nat
           /\ d * (n \div d) <= n
           /\ n < d * (n \div d) + d
  OBVIOUS

\* A product grows with its factor.
LEMMA ProductsGrow ==
    ASSUME NEW x \in Nat, NEW y \in Nat, NEW d \in Nat, x <= y
    PROVE  d * x <= d * y
  OBVIOUS

\* Comparing with a quotient is comparing the product.
LEMMA AboveQuotient ==
    ASSUME NEW n \in Nat, NEW d \in Nat \ {0}, NEW x \in Nat
    PROVE  x > n \div d <=> d * x > n
<1> DEFINE q == n \div d
<1>1. q \in Nat /\ d * q <= n /\ n < d * q + d
  BY QuotientBounds
<1> HIDE DEF q
<1>2. ASSUME x > q PROVE d * x > n
  <2>1. q + 1 \in Nat /\ q + 1 <= x
    BY <1>1, <1>2
  <2>2. d * (q + 1) <= d * x
    BY <2>1, ProductsGrow
  <2>3. d * (q + 1) = d * q + d
    BY <1>1
  <2> QED BY <1>1, <2>2, <2>3
<1>3. ASSUME x <= q PROVE d * x <= n
  BY <1>1, <1>3, ProductsGrow
<1> QED BY <1>1, <1>2, <1>3 DEF q

\* The magnitude of a product.
LEMMA SizeOfProduct ==
    ASSUME NEW a \in Int, NEW b \in Int
    PROVE  /\ Size(a) \in Nat /\ Size(b) \in Nat
           /\ Size(a * b) = Size(b) * Size(a)
           /\ a # 0 /\ b # 0 => (a * b < 0 <=> (a < 0) # (b < 0))
<1>1. Size(a) \in Nat /\ Size(b) \in Nat
  BY DEF Size
<1>2. CASE a >= 0 /\ b >= 0
  <2>1. a * b >= 0 /\ a * b = b * a
    BY <1>2
  <2> QED BY <1>1, <1>2, <2>1 DEF Size
<1>3. CASE a >= 0 /\ b < 0
  <2>1. a * b <= 0 /\ (-b) * a = -(a * b) /\ (a # 0 => a * b < 0)
    BY <1>3
  <2> QED BY <1>1, <1>3, <2>1 DEF Size
<1>4. CASE a < 0 /\ b >= 0
  <2>1. a * b <= 0 /\ b * (-a) = -(a * b) /\ (b # 0 => a * b < 0)
    BY <1>4
  <2> QED BY <1>1, <1>4, <2>1 DEF Size
<1>5. CASE a < 0 /\ b < 0
  <2>1. a * b > 0 /\ (-b) * (-a) = a * b
    BY <1>5
  <2> QED BY <1>1, <1>5, <2>1 DEF Size
<1> QED BY <1>2, <1>3, <1>4, <1>5

\* Notional returns the product, or refuses one that has no representation:
\* its four guards, which divide, leave out no pair of amounts.
THEOREM NotionalIsExact ==
    ASSUME MaxInt \in Nat, NEW a \in Int64, NEW b \in Int64
    PROVE  Notional(a, b) = Exactly(a * b)
<1>1. a \in Int /\ b \in Int /\ 0 \in Int64
  BY DEF Int64, MinInt
<1>2. a * b \in Int64 => Wrap(a * b) = a * b
  BY WrapExact
<1>3. CASE a = 0 \/ b = 0
  <2>1. a * b = 0
    BY <1>1, <1>3
  <2> QED BY <1>1, <1>3, <2>1 DEF Notional, Exactly
<1>4. CASE a # 0 /\ b # 0
  <2> DEFINE p == a * b
  <2>1. /\ p \in Int /\ Size(p) = Size(b) * Size(a) /\ Size(p) = Size(a) * Size(b)
        /\ p < 0 <=> (a < 0) # (b < 0)
        /\ Size(a) \in Nat \ {0} /\ Size(b) \in Nat \ {0}
    <3>1. Size(a * b) = Size(b) * Size(a) /\ (a * b < 0 <=> (a < 0) # (b < 0))
      BY <1>1, <1>4, SizeOfProduct
    <3>2. Size(a) \in Nat \ {0} /\ Size(b) \in Nat \ {0}
      BY <1>1, <1>4 DEF Size
    <3>3. Size(b) * Size(a) = Size(a) * Size(b)
      BY <3>2
    <3>4. a * b \in Int
      BY <1>1
    <3> QED BY <3>1, <3>2, <3>3, <3>4
  <2> HIDE DEF p
  <2>2. p \in Int64 <=> Size(p) <= IF p < 0 THEN MaxInt + 1 ELSE MaxInt
    BY <2>1 DEF Int64, MinInt, Size
  <2>3. Size(MaxInt) = MaxInt /\ Size(MinInt) = MaxInt + 1 /\ MinInt < 0 /\ ~(MaxInt < 0)
    BY DEF Size, MinInt
  <2>4. CASE a > 0 /\ b > 0
    <3>1. Quo(MaxInt, b) = MaxInt \div Size(b)
      BY <2>3, <2>4, <1>1 DEF Quo
    <3>2. Size(a) = a /\ ~(p < 0)
      BY <1>1, <2>1, <2>4 DEF Size
    <3>3. a > Quo(MaxInt, b) <=> p \notin Int64
      BY <2>1, <2>2, <3>1, <3>2, AboveQuotient
    <3> QED BY <1>1, <1>2, <1>4, <2>4, <3>3 DEF Notional, Exactly, p
  <2>5. CASE a > 0 /\ b < 0
    <3>1. Quo(MinInt, a) = -((MaxInt + 1) \div Size(a))
      BY <2>3, <2>5, <1>1 DEF Quo
    <3>2. Size(b) = -b /\ p < 0
      BY <1>1, <2>1, <2>5 DEF Size
    <3>3. Size(b) > (MaxInt + 1) \div Size(a) <=> p \notin Int64
      BY <2>1, <2>2, <3>2, AboveQuotient
    <3>4. (MaxInt + 1) \div Size(a) \in Nat
      BY <2>1, QuotientBounds
    <3>5. b < Quo(MinInt, a) <=> p \notin Int64
      BY <1>1, <3>1, <3>2, <3>3, <3>4
    <3> QED BY <1>1, <1>2, <1>4, <2>5, <3>5 DEF Notional, Exactly, p
  <2>6. CASE a < 0 /\ b > 0
    <3>1. Quo(MinInt, b) = -((MaxInt + 1) \div Size(b))
      BY <2>3, <2>6, <1>1 DEF Quo
    <3>2. Size(a) = -a /\ p < 0
      BY <1>1, <2>1, <2>6 DEF Size
    <3>3. Size(a) > (MaxInt + 1) \div Size(b) <=> p \notin Int64
      BY <2>1, <2>2, <3>2, AboveQuotient
    <3>4. (MaxInt + 1) \div Size(b) \in Nat
      BY <2>1, QuotientBounds
    <3>5. a < Quo(MinInt, b) <=> p \notin Int64
      BY <1>1, <3>1, <3>2, <3>3, <3>4
    <3> QED BY <1>1, <1>2, <1>4, <2>6, <3>5 DEF Notional, Exactly, p
  <2>7. CASE a < 0 /\ b < 0
    <3>1. Quo(MaxInt, b) = -(MaxInt \div Size(b))
      BY <2>3, <2>7, <1>1 DEF Quo
    <3>2. Size(a) = -a /\ ~(p < 0)
      BY <1>1, <2>1, <2>7 DEF Size
    <3>3. Size(a) > MaxInt \div Size(b) <=> p \notin Int64
      BY <2>1, <2>2, <3>2, AboveQuotient
    <3>4. MaxInt \div Size(b) \in Nat
      BY <2>1, QuotientBounds
    <3>5. a < Quo(MaxInt, b) <=> p \notin Int64
      BY <1>1, <3>1, <3>2, <3>3, <3>4
    <3> QED BY <1>1, <1>2, <1>4, <2>7, <3>5 DEF Notional, Exactly, p
  <2> QED BY <1>1, <1>4, <2>4, <2>5, <2>6, <2>7
<1> QED BY <1>1, <1>3, <1>4

-----------------------------------------------------------------------------

\* The magnitude that scaleInt64 computes, that of MinInt included.
LEMMA UnsignedExact ==
    ASSUME MaxInt \in Nat, NEW v \in Int64
    PROVE  Unsigned(v) = Size(v) /\ Size(v) \in 0..(MaxInt + 1)
<1>1. Size(v) \in 0..(MaxInt + 1)
  BY DEF Size, Int64, MinInt
<1>2. CASE v >= 0
  BY <1>1, <1>2 DEF Unsigned, Size, Int64, MinInt
<1>3. CASE v < 0
  <2>1. v + 1 \in Int64 /\ -(v + 1) \in Int64 /\ -(v + 1) \in Nat
    BY <1>3 DEF Int64, MinInt
  <2>2. Wrap(-Wrap(v + 1)) = -(v + 1)
    BY <2>1, WrapExact
  <2>3. -(v + 1) < 2 * MaxInt + 2 /\ -(v + 1) + 1 < 2 * MaxInt + 2 /\ -(v + 1) + 1 \in Nat
    BY <2>1 DEF Int64, MinInt
  <2>4. UWrap(-(v + 1)) = -(v + 1) /\ UWrap(-(v + 1) + 1) = -(v + 1) + 1
    BY <2>1, <2>3, RemainderBelow DEF UWrap
  <2>5. -(v + 1) + 1 = -v
    BY <1>3 DEF Int64, MinInt
  <2> QED BY <1>1, <1>3, <2>2, <2>4, <2>5 DEF Unsigned, Size
<1> QED BY <1>2, <1>3 DEF Int64, MinInt

\* ScaleMoney and ScalePrice return value * numerator / denominator truncated
\* toward zero, or refuse it: the product of two words never overflows and a
\* quotient that does not fit one is always noticed.
THEOREM ScalingIsExact ==
    ASSUME MaxInt \in Nat, NEW v \in Int64, NEW n \in Int64, NEW d \in Int64,
           n >= 0, d > 0
    PROVE  Scale(v, n, d) = Exactly(Quo(v * n, d))
<1> DEFINE product == Size(v) * n
           quotient == product \div d
           limit == IF v < 0 THEN MaxInt + 1 ELSE MaxInt
<1>1. /\ v \in Int /\ n \in Nat /\ d \in Nat \ {0} /\ Size(v) \in Nat
      /\ Unsigned(v) = Size(v)
  BY UnsignedExact DEF Int64, MinInt
<1>2. product \in Nat
  BY <1>1
<1>3. UWrap(MaxInt + 1) = MaxInt + 1
  BY RemainderBelow DEF UWrap
<1>4. Scale(v, n, d) =
        IF product \div (2 * MaxInt + 2) >= d \/ quotient > limit THEN Error
        ELSE IF v >= 0 THEN Ok(quotient)
        ELSE Ok(IF quotient = MaxInt + 1 THEN MinInt ELSE Wrap(-quotient))
  BY <1>1, <1>3 DEF Scale, scaleInt64
<1>5. Size(v * n) = product /\ Size(d) = d
  <2>1. Size(n) = n /\ Size(v * n) = Size(n) * Size(v) /\ Size(d) = d
    BY <1>1, SizeOfProduct DEF Size
  <2> QED BY <1>1, <2>1
<1>6. v * n < 0 <=> v < 0 /\ n # 0
  BY <1>1
<1>7. n = 0 => product = 0
  BY <1>1
<1> HIDE DEF product
<1>8. quotient \in Nat /\ (product = 0 => quotient = 0)
  BY <1>1, <1>2, QuotientBounds
<1>9. Quo(v * n, d) = IF v < 0 THEN -quotient ELSE quotient
  BY <1>1, <1>5, <1>6, <1>7, <1>8 DEF Quo
<1>10. product \div (2 * MaxInt + 2) >= d => quotient > limit
  <2>1. product \div (2 * MaxInt + 2) \in Nat /\ 2 * MaxInt + 2 \in Nat \ {0}
    BY <1>2, QuotientBounds
  <2>2. d > product \div (2 * MaxInt + 2) <=> (2 * MaxInt + 2) * d > product
    BY <1>1, <1>2, <2>1, AboveQuotient
  <2>3. 2 * MaxInt + 2 > quotient <=> d * (2 * MaxInt + 2) > product
    BY <1>1, <1>2, <2>1, AboveQuotient
  <2>4. (2 * MaxInt + 2) * d = d * (2 * MaxInt + 2)
    BY <1>1
  <2>5. d > product \div (2 * MaxInt + 2) <=> 2 * MaxInt + 2 > quotient
    BY <2>2, <2>3, <2>4
  <2> HIDE DEF quotient
  <2> QED BY <1>1, <1>8, <2>1, <2>5
<1> HIDE DEF quotient
<1>11. Wrap(-quotient) = -quotient \/ quotient > MaxInt + 1
  <2>1. quotient <= MaxInt + 1 => -quotient \in Int64
    BY <1>8 DEF Int64, MinInt
  <2> QED BY <1>8, <2>1, WrapExact
<1> QED BY <1>1, <1>4, <1>8, <1>9, <1>10, <1>11 DEF Exactly, Int64, MinInt

-----------------------------------------------------------------------------
(* The creation of games *)

\* Where a game can be: served and told games are on the disk for good, the
\* one that is being published is on the disk alone.
Placed ==
    /\ games \subseteq Requests
    /\ synced \subseteq games
    /\ entries \subseteq synced
    /\ told \subseteq synced
    /\ publishing \subseteq games

CreationInv == Placed /\ OneGamePerCommand

\* An empty root has nothing in common with anything.
LEMMA CreationInitInv == CreationInit => CreationInv
  BY DEF CreationInit, CreationInv, Placed, OneGamePerCommand

\* A load moves the barrier over all games and leaves the games alone.
LEMMA LoadInv ==
    ASSUME CreationInv, NEW g \in games, LoadGame(g),
           entries' \subseteq entries \cup {g}, told' \subseteq told \cup {g}
    PROVE  CreationInv'
<1>1. games' = games /\ synced' = games /\ publishing' = publishing
  BY DEF LoadGame
<1>2. Placed'
  BY <1>1 DEF CreationInv, Placed
<1>3. OneGamePerCommand'
  BY <1>1 DEF CreationInv, OneGamePerCommand
<1> QED BY <1>2, <1>3 DEF CreationInv

\* A published game has a command that no other game has, because it passed
\* the scope check, and a name that none has.
LEMMA PublishInv ==
    ASSUME CreationInv, NEW r \in Requests, Publish(r)
    PROVE  CreationInv'
<1>1. /\ games' = games \cup {r} /\ publishing' = {r}
      /\ synced' = synced /\ entries' = entries /\ told' = told
      /\ \A g \in games : g.id # r.id
      /\ \A g \in games : g.command = r.command => g = r
  BY DEF Publish, Admitted, InScope
<1>2. Placed'
  BY <1>1 DEF CreationInv, Placed
<1>3. \A g \in games : g.id # r.id /\ g.command # r.command
  BY <1>1
<1>4. OneGamePerCommand'
  BY <1>1, <1>3 DEF CreationInv, OneGamePerCommand
<1> QED BY <1>2, <1>4 DEF CreationInv

\* Every step of a creation, a sync and a crash keeps the invariant.
LEMMA CreationStep == CreationInv /\ [CreationNext]_vars => CreationInv'
<1> SUFFICES ASSUME CreationInv, [CreationNext]_vars PROVE CreationInv'
  OBVIOUS
<1>1. ASSUME NEW r \in Requests, CreateServed(r) PROVE CreationInv'
  <2>1. /\ r \in entries /\ told' = told \cup {r}
        /\ UNCHANGED <<games, synced, entries, publishing>>
    BY <1>1 DEF CreateServed
  <2> QED BY <2>1 DEF CreationInv, Placed, OneGamePerCommand
<1>2. ASSUME NEW r \in Requests, CreateLoaded(r) PROVE CreationInv'
  <2>1. PICK g \in games : /\ LoadGame(g) /\ entries' = entries \cup {g}
                           /\ told' = IF g = r THEN told \cup {r} ELSE told
    BY <1>2 DEF CreateLoaded
  <2>2. entries' \subseteq entries \cup {g} /\ told' \subseteq told \cup {g}
    BY <2>1
  <2> QED BY <2>1, <2>2, LoadInv
<1>3. ASSUME NEW r \in Requests, Publish(r) PROVE CreationInv'
  BY <1>3, PublishInv
<1>4. ASSUME NEW g \in games, Show(g) PROVE CreationInv'
  <2>1. CASE g \in entries /\ told' = told \cup {g}
              /\ UNCHANGED <<games, synced, entries, publishing>>
    BY <2>1 DEF CreationInv, Placed, OneGamePerCommand
  <2>2. CASE LoadGame(g) /\ entries' = entries \cup {g} /\ told' = told \cup {g}
    BY <2>2, LoadInv
  <2> QED BY <1>4, <2>1, <2>2 DEF Show
<1>5. ASSUME NEW g \in games, LoadFails(g) PROVE CreationInv'
  <2>1. LoadGame(g) /\ entries' = entries /\ told' = told
    BY <1>5 DEF LoadFails
  <2> QED BY <2>1, LoadInv
<1>6. CASE Created
  BY <1>6 DEF Created, CreationInv, Placed, OneGamePerCommand
<1>7. CASE CreateFails
  BY <1>7 DEF CreateFails, CreationInv, Placed, OneGamePerCommand
<1>8. CASE ProcessEnds
  BY <1>8 DEF ProcessEnds, CreationInv, Placed, OneGamePerCommand
<1>9. CASE MachineCrash
  BY <1>9 DEF MachineCrash, CreationInv, Placed, OneGamePerCommand
<1>10. CASE UNCHANGED vars
  BY <1>10 DEF vars, CreationInv, Placed, OneGamePerCommand
<1> QED
  BY <1>1, <1>2, <1>3, <1>4, <1>5, <1>6, <1>7, <1>8, <1>9, <1>10 DEF CreationNext

\* So it always holds.
LEMMA CreationInvariance == CreationSpec => []CreationInv
<1> QED BY CreationInitInv, CreationStep, PTL DEF CreationSpec

\* A retried create command never makes a second game: the scope check reads
\* the disk under the lock that the rename holds too.
THEOREM CommandsCreateOneGame == CreationSpec => []OneGamePerCommand
<1>1. CreationInv => OneGamePerCommand
  BY DEF CreationInv
<1> QED BY <1>1, CreationInvariance, PTL

\* A game is told of only behind a barrier, so that no crash takes it back or
\* frees its name or its command for another.
THEOREM ToldGamesAreKept == CreationSpec => []ToldGamesStay
<1>1. CreationInv => ToldGamesStay
  BY DEF CreationInv, Placed, OneGamePerCommand, ToldGamesStay
<1> QED BY <1>1, CreationInvariance, PTL

\* What a client was told stays told and stays on the disk.
THEOREM GamesAreNeverTakenBack ==
    CreationSpec => [][told \subseteq told' /\ told \subseteq games']_vars
<1>1. CreationInv /\ CreationInv' /\ [CreationNext]_vars
        => [told \subseteq told' /\ told \subseteq games']_vars
  <2> SUFFICES ASSUME CreationInv, CreationInv', CreationNext
               PROVE  told \subseteq told' /\ told \subseteq games'
    OBVIOUS
  <2>1. told \subseteq told'
    BY DEF CreationNext, CreateServed, CreateLoaded, LoadGame, Show, LoadFails, Publish,
           Created, CreateFails, ProcessEnds, MachineCrash
  <2>2. told' \subseteq games'
    BY DEF CreationInv, Placed
  <2> QED BY <2>1, <2>2
<1> QED BY <1>1, CreationInvariance, PTL DEF CreationSpec

=============================================================================
