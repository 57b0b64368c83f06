--------------------------- MODULE PriceTimeBook ---------------------------
(***************************************************************************)
(* What the order book promises, without queues, levels or a matching      *)
(* loop: a set of live orders, in which an incoming order trades with      *)
(* crossing orders of other owners, better prices first and older orders   *)
(* first at one price, as much as it can.                                  *)
(***************************************************************************)
EXTENDS Integers, FiniteSets, FiniteSetsExt

CONSTANTS Owners, Prices, Quantities, IDs

VARIABLES
    live,   \* the live orders, with what remains of each
    fills   \* what the last operation traded with each maker, by identifier

CrossesWith(taker, maker) ==
    /\ maker.side # taker.side
    /\ IF taker.side = "buy" THEN maker.price <= taker.price ELSE maker.price >= taker.price

\* Maker a has priority over maker b on the same side.
Before(a, b) ==
    \/ IF a.side = "sell" THEN a.price < b.price ELSE a.price > b.price
    \/ a.price = b.price /\ a.id < b.id

Traded(f, o) == IF o.id \in DOMAIN f THEN f[o.id] ELSE 0

\* f is an allocation that price-time priority allows: a maker trades only
\* when every maker before it is filled, and the taker gets all it can.
PriceTimeFills(makers, taker, f) ==
    /\ \A m \in makers : Traded(f, m) <= m.remaining
    /\ \A a, b \in makers : Before(a, b) /\ Traded(f, b) > 0 => Traded(f, a) = a.remaining
    /\ MapThenSumSet(LAMBDA m : Traded(f, m), makers)
         = Min({taker.qty, MapThenSumSet(LAMBDA m : m.remaining, makers)})

Allocations(makers) ==
    UNION {[S -> Quantities] : S \in SUBSET {m.id : m \in makers}}

\* What is left of the makers, and of a taker that may rest.
AfterFills(before, taker, f) ==
    LET left    == taker.qty - MapThenSumSet(LAMBDA m : Traded(f, m), before)
        resting == {[m EXCEPT !.remaining = @ - Traded(f, m)] : m \in before}
                     \cup {[taker EXCEPT !.remaining = left] : tif \in {taker.tif} \cap {"gtc"}}
    IN  {o \in resting : o.remaining > 0}

Trade(before, taker) ==
    LET makers == {m \in before : CrossesWith(taker, m)}
    IN  /\ \A m \in makers : m.owner # taker.owner
        /\ \E f \in Allocations(makers) :
             /\ PriceTimeFills(makers, taker, f)
             /\ live' = AfterFills(before, taker, f)
             /\ fills' = f

-----------------------------------------------------------------------------

\* A new order is newer than every live one.
NewOrders ==
    {[id |-> id, owner |-> owner, side |-> side, price |-> price, qty |-> qty,
      remaining |-> qty, tif |-> tif] :
        id \in {i \in IDs : \A o \in live : o.id < i}, owner \in Owners,
        side \in {"buy", "sell"}, price \in Prices, qty \in Quantities, tif \in {"gtc", "ioc"}}

Init == live = {} /\ fills = <<>>

\* An order that would trade with its own owner is refused as a whole.
Submit(order) ==
    \/ Trade(live, order)
    \/ /\ \E m \in live : CrossesWith(order, m) /\ m.owner = order.owner
       /\ fills' = <<>> /\ UNCHANGED live

Cancel(old) == live' = live \ {old} /\ fills' = <<>>

\* A replacement that is refused leaves the old order in place.
Replace(old, order) ==
    \/ Trade(live \ {old}, order)
    \/ /\ \E m \in live \ {old} : CrossesWith(order, m) /\ m.owner = order.owner
       /\ fills' = <<>> /\ UNCHANGED live

Next ==
    \/ \E order \in NewOrders : Submit(order) \/ \E old \in live : Replace(old, order)
    \/ \E old \in live : Cancel(old)

Spec == Init /\ [][Next]_<<live, fills>>
=============================================================================
