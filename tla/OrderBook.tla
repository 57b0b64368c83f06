----------------------------- MODULE OrderBook -----------------------------
(***************************************************************************)
(* The order book as a component: the operations the venue calls on it,    *)
(* over the value BookOps defines.  Identifiers come from a counter, as    *)
(* they do in the exchange engine.                                         *)
(***************************************************************************)
EXTENDS BookOps

CONSTANTS
    Owners,       \* accounts that place orders
    Quantities,   \* quantities of an order
    MaxOrders     \* bound on the number of orders placed

ASSUME BookAssumption ==
    /\ Prices \subseteq Nat \ {0}
    /\ Quantities \subseteq Nat \ {0}
    /\ MaxOrders \in Nat

VARIABLES
    book,        \* the book
    nextOrder,   \* the last identifier given out
    fills        \* the fills of the last operation

vars == <<book, nextOrder, fills>>

-----------------------------------------------------------------------------

Init == book = EmptyBook /\ nextOrder = 0 /\ fills = <<>>

\* An operation that is refused leaves the book alone.
Commit(report) ==
    /\ book' = IF report.ok THEN report.book ELSE book
    /\ fills' = IF report.ok THEN report.fills ELSE <<>>

Submit(owner, side, price, qty, tif) ==
    /\ nextOrder < MaxOrders
    /\ nextOrder' = nextOrder + 1
    /\ Commit(SubmitOrder(book, NewOrder(nextOrder', owner, side, price, qty, tif)))

Cancel(order) ==
    /\ book' = RemoveOrder(book, order) /\ fills' = <<>>
    /\ UNCHANGED nextOrder

\* PreviewReplace and then Replace, of an order of the same owner and side.
Replace(old, price, qty, tif) ==
    /\ nextOrder < MaxOrders
    /\ nextOrder' = nextOrder + 1
    /\ Commit(ReplaceOrder(book, old,
                NewOrder(nextOrder', old.owner, old.side, price, qty, tif)))

Next ==
    \/ \E owner \in Owners, side \in Sides, price \in Prices, qty \in Quantities, tif \in TIFs :
          Submit(owner, side, price, qty, tif)
    \/ \E old \in LiveOrders(book) :
          \/ Cancel(old)
          \/ \E price \in Prices, qty \in Quantities, tif \in TIFs : Replace(old, price, qty, tif)

Spec == Init /\ [][Next]_vars

-----------------------------------------------------------------------------
(* Properties *)

\* The book never rests crossed: whatever was refused for self-trading, cut by
\* a partial fill or replaced, the best bid is below the best ask (submit()).
NeverCrossed ==
    Best(book, "buy") # 0 /\ Best(book, "sell") # 0 => Best(book, "buy") < Best(book, "sell")

\* A level's cached total is the sum of what rests on it, after partial fills,
\* removals and re-rests (level.qty in rest, remove and submit).
LevelTotals ==
    \A side \in Sides, price \in Prices :
        book[side][price].qty =
            FoldLeft(LAMBDA sum, o : sum + o.remaining, 0, book[side][price].queue)

\* The queues, levels and the matching loop implement price-time priority.
Reference == INSTANCE PriceTimeBook WITH
    IDs   <- 1..MaxOrders,
    live  <- LiveOrders(book),
    fills <- [id \in {fills[i].maker.id : i \in DOMAIN fills} |->
                 FoldLeft(LAMBDA sum, f : IF f.maker.id = id THEN sum + f.quantity ELSE sum, 0, fills)]

PriceTimePriority == Reference!Spec
=============================================================================
