------------------------------ MODULE BookOps ------------------------------
(***************************************************************************)
(* The limit order book as a value (internal/orderbook/book.go): two sides *)
(* of price levels, each with a first-in first-out queue and the cached    *)
(* total of what rests on it.                                              *)
(*                                                                         *)
(* An order's identifier is also its sequence number, as the exchange that *)
(* drives the book makes them (newOrder, replaceLimit).  The sorted slice  *)
(* of prices is the set of prices whose level is not empty.  Policies      *)
(* other than RejectTaker and the overflow of a level's total are left out.*)
(***************************************************************************)
EXTENDS Integers, Sequences, FiniteSets, SequencesExt, FiniteSetsExt

CONSTANT Prices     \* the positive prices orders can have

Sides == {"buy", "sell"}
TIFs  == {"gtc", "ioc"}

Opposite(side) == IF side = "buy" THEN "sell" ELSE "buy"

\* New()
EmptyLevel == [queue |-> <<>>, qty |-> 0]
EmptyBook  == [side \in Sides |-> [price \in Prices |-> EmptyLevel]]

LiveOrders(book) ==
    UNION {UNION {ToSet(book[side][price].queue) : price \in Prices} : side \in Sides}

\* Mutant of BySequence: newest first.
ByAge(a, b) == a.id > b.id

BySequence(a, b) == a.id < b.id

\* Orders by sequence: each is where as many as are before it leave it.
InSequence(orders) ==
    [i \in 1..Cardinality(orders) |->
        CHOOSE o \in orders : Cardinality({x \in orders : BySequence(x, o)}) = i - 1]

\* Orders(): every live order, by sequence.
Orders(book) == InSequence(LiveOrders(book))

OrdersOf(book, owner) == {o \in LiveOrders(book) : o.owner = owner}

MaxSequence(book) == Max({0} \cup {o.id : o \in LiveOrders(book)})

\* rest(): at the tail of its level.
Rest(book, order) ==
    [book EXCEPT ![order.side][order.price] =
        [queue |-> Append(@.queue, order), qty |-> @.qty + order.remaining]]

\* remove(): unlinked from its level.
RemoveOrder(book, order) ==
    LET queue == book[order.side][order.price].queue
        at    == CHOOSE i \in DOMAIN queue : queue[i].id = order.id
    IN  [book EXCEPT ![order.side][order.price] =
            [queue |-> RemoveAt(queue, at), qty |-> @.qty - order.remaining]]

\* Clone(): an empty book in which every live order is put to rest again.
Clone(book) == FoldLeft(Rest, EmptyBook, Orders(book))

\* best(): the highest bid or the lowest ask, zero when the side is empty.
Best(book, side) ==
    LET prices == {p \in Prices : book[side][p].queue # <<>>}
    IN  IF prices = {} THEN 0 ELSE IF side = "buy" THEN Max(prices) ELSE Min(prices)

\* Mutant of Crosses: equal prices do not trade.
CrossesStrictly(side, limit, price) ==
    IF side = "buy" THEN price < limit ELSE price > limit

Crosses(side, limit, price) ==
    IF side = "buy" THEN price <= limit ELSE price >= limit

\* bestCrossing(): is there a maker the taker can trade with, and which.
HasCrossing(book, taker) ==
    LET best == Best(book, Opposite(taker.side))
    IN  best # 0 /\ Crosses(taker.side, taker.price, best)

BestCrossing(book, taker) ==
    Head(book[Opposite(taker.side)][Best(book, Opposite(taker.side))].queue)

WouldSelfTrade(book, order) ==
    \E o \in OrdersOf(book, order.owner) :
        o.side # order.side /\ Crosses(order.side, order.price, o.price)

\* Mutant of FillOnce: a fill leaves the cached total of the level as it was.
FillOnceKeepsTotal(m) ==
    IF m.taker.remaining = 0 \/ ~HasCrossing(m.book, m.taker)
      THEN m
      ELSE LET maker  == BestCrossing(m.book, m.taker)
               traded == Min({maker.remaining, m.taker.remaining})
               after  == [maker EXCEPT !.remaining = @ - traded]
               filled == [m.book EXCEPT ![maker.side][maker.price].queue = <<after>> \o Tail(@)]
           IN  [m EXCEPT !.book = IF after.remaining = 0 THEN RemoveOrder(filled, after) ELSE filled,
                         !.taker.remaining = @ - traded]

\* The body of the matching loop of submit(): the taker trades with the best
\* maker at the maker's price, and a maker with nothing left is removed.
FillOnce(m) ==
    IF m.taker.remaining = 0 \/ ~HasCrossing(m.book, m.taker)
      THEN m
      ELSE LET maker  == BestCrossing(m.book, m.taker)
               traded == Min({maker.remaining, m.taker.remaining})
               after  == [maker EXCEPT !.remaining = @ - traded]
               filled == [m.book EXCEPT ![maker.side][maker.price] =
                            [queue |-> <<after>> \o Tail(@.queue), qty |-> @.qty - traded]]
           IN  [book  |-> IF after.remaining = 0 THEN RemoveOrder(filled, after) ELSE filled,
                taker |-> [m.taker EXCEPT !.remaining = @ - traded],
                fills |-> Append(m.fills,
                            [maker |-> maker, taker |-> m.taker, price |-> maker.price,
                             quantity |-> traded])]

\* The loop ends after at most one iteration for each live order.
Match(book, order) ==
    LET start == [book |-> book, taker |-> order, fills |-> <<>>]
        limit == Cardinality(LiveOrders(book))
        run[n \in 0..limit] == IF n = 0 THEN start ELSE FillOnce(run[n - 1])
    IN  run[limit]

\* submit(): refused as a whole, or matched, and what is left of a GTC order
\* rests while what is left of an IOC order expires.
Refused == [ok |-> FALSE, book |-> EmptyBook, fills |-> <<>>, left |-> 0, rests |-> FALSE]

SubmitTo(book, order) ==
    IF order.id <= MaxSequence(book) \/ WouldSelfTrade(book, order)
      THEN Refused
      ELSE LET m     == Match(book, order)
               rests == m.taker.remaining > 0 /\ order.tif = "gtc"
           IN  [ok    |-> TRUE,
                book  |-> IF rests THEN Rest(m.book, m.taker) ELSE m.book,
                fills |-> m.fills,
                left  |-> m.taker.remaining,
                rests |-> rests]

\* Submit() works on a clone, which replaces the book when it succeeds.
SubmitOrder(book, order) == SubmitTo(Clone(book), order)

\* Replace(): the old order is out of the way of its replacement.
ReplaceOrder(book, old, order) ==
    IF order.id <= MaxSequence(book) THEN Refused ELSE SubmitOrder(RemoveOrder(book, old), order)

NewOrder(id, owner, side, price, qty, tif) ==
    [id |-> id, owner |-> owner, side |-> side, price |-> price,
     qty |-> qty, remaining |-> qty, tif |-> tif]
=============================================================================
