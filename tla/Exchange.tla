------------------------------ MODULE Exchange -----------------------------
(***************************************************************************)
(* The single-instrument venue (internal/exchange): accounts, risk         *)
(* admission, settlement against the order book, reservations derived from *)
(* the live orders, and the double-entry journal.                          *)
(*                                                                         *)
(* Every command runs on a clone of the engine that replaces it when the   *)
(* command succeeds (transact), so a command is an operator from an engine *)
(* to a candidate engine, and a command that is refused is no step.  The   *)
(* candidate carries `ok', false once some call in it returned an error,   *)
(* and `edge', the execution edge of the player's fills.                   *)
(*                                                                         *)
(* The random streams are choices.  Event, trade and entry numbers, the    *)
(* text of events and the summaries other than the profit and loss are     *)
(* left out; so is the overflow of 64-bit amounts, far from these bounds.  *)
(***************************************************************************)
EXTENDS BookOps

CONSTANTS
    Bots,                   \* accounts other than the player's that may be opened
    RealTime,               \* real-time trading day, or turn-based game
    StartingCash, StartingPosition, StartingMark,
    BotCash, BotPosition,   \* what a bot's account is opened with
    StoragePerUnit,         \* carry rate
    NumTurns, InitialMarginBps, MaintenanceMarginBps, MaxPosition,
    MaxOrderQty,            \* quantity of a turn's quote and bound on a customer's order
    QuoteQty,               \* quantity of a real-time quote
    MaxOrdersPerTurn,
    Slippages, Moves,       \* basis points customers slip and the mark moves
    MaxMark,                \* bound on the mark
    MaxVersion              \* bound on the number of commands

Player == "player"
Flow   == "simulated-flow"

Ids == {Player, Flow} \cup Bots

External(id) == id = Flow

Whole == 10000   \* one, in basis points

Bps(amount, bps) == (amount * bps) \div Whole

\* The marks the model explores: positive, and within the bound.
Marks == 1..MaxMark

AbsQty(q) == IF q < 0 THEN -q ELSE q

\* Config.Validate(), as far as the parameters of the model go.
Validate ==
    /\ StartingCash \in Nat /\ StoragePerUnit \in Nat /\ NumTurns \in Nat
    /\ InitialMarginBps \in 0..Whole /\ MaintenanceMarginBps \in 0..InitialMarginBps
    /\ MaxPosition \in Nat \ {0}
    /\ StartingPosition \in Int /\ AbsQty(StartingPosition) <= MaxPosition
    /\ MaxOrderQty \in Nat \ {0} /\ MaxOrdersPerTurn \in Nat /\ QuoteQty \in 1..MaxOrderQty
    /\ Slippages \subseteq 0..Whole /\ Moves \subseteq (1 - Whole)..Whole
    /\ Prices \subseteq Nat \ {0} /\ MaxMark \in Nat /\ StartingMark \in Marks
    /\ BotCash \in Int /\ BotPosition \in Int
    /\ RealTime \in BOOLEAN /\ MaxVersion \in Nat

ASSUME ConfigAssumption == Validate

VARIABLES
    engine,   \* the engine
    fault     \* the error a step that no participant can be blamed for met last,
              \* or "none" when a command has succeeded since

vars == <<engine, fault>>

-----------------------------------------------------------------------------
(* The journal (ledger.go) *)

CashAvailable(id)       == <<"cash", "available", id>>
CashReserved(id)        == <<"cash", "reserved", id>>
InstrumentAvailable(id) == <<"instrument", "available", id>>
InstrumentReserved(id)  == <<"instrument", "reserved", id>>
OpeningCash(id)         == <<"cash", "opening", id>>
OpeningInstrument(id)   == <<"instrument", "opening", id>>
StorageAccount          == <<"cash", "storage", "venue">>

LedgerAccounts ==
    {<<unit, kind, id>> : unit \in {"cash", "instrument"},
                          kind \in {"available", "reserved", "opening"}, id \in Ids}
      \cup {StorageAccount}

Units == {"cash", "instrument"}

\* What a posting, an account with an amount, adds to its unit and its account.
Tally(totals, posting)  == [totals EXCEPT ![posting[1][1]] = @ + posting[2]]
Post(balances, posting) == [balances EXCEPT ![posting[1]] = @ + posting[2]]

\* append(): an entry is posted whole, and only if it balances in each unit.
PostEntry(c, postings) ==
    LET nothing == [unit \in Units |-> 0]
    IN  IF FoldLeft(Tally, nothing, postings) = nothing
          THEN [c EXCEPT !.ledger = FoldLeft(Post, @, postings)]
          ELSE [c EXCEPT !.ok = FALSE]

-----------------------------------------------------------------------------
(* Accounts and risk *)

NewAccount(cash, position) ==
    [cash |-> cash, position |-> position, reservedCash |-> 0, openBuy |-> 0, openSell |-> 0]

Equity(c, id) == c.accounts[id].cash + c.mark * c.accounts[id].position

\* accountWithinLimits()
WithinLimits(c, id, bps) ==
    \/ External(id)
    \/ /\ AbsQty(c.accounts[id].position) <= MaxPosition
       /\ Equity(c, id) > 0
       /\ Equity(c, id) >= Bps(c.mark * AbsQty(c.accounts[id].position), bps)

\* Mutant of FillStateWithinMargin: a fill only has to leave equity.
FillStateSolvent(c, cash, position) ==
    AbsQty(position) <= MaxPosition /\ cash + c.mark * position >= 0

\* fillStateWithinInitialMargin()
FillStateWithinMargin(c, cash, position) ==
    /\ AbsQty(position) <= MaxPosition
    /\ cash + c.mark * position >= Bps(c.mark * AbsQty(position), InitialMarginBps)

OfSide(orders, side) == {o \in orders : o.side = side}

\* What orders of one side have left, and what that costs.
OpenQty(orders, side)  == SumFunction([o \in OfSide(orders, side) |-> o.remaining])
Notional(orders, side) == SumFunction([o \in OfSide(orders, side) |-> o.price * o.remaining])

\* Mutant of CanPlace: an order is admitted for itself, not with the live ones.
CanPlaceAlone(c, id, proposed, staying) ==
    \A o \in proposed :
        /\ AbsQty(c.accounts[id].position + (IF o.side = "buy" THEN o.qty ELSE -o.qty)) <= MaxPosition
        /\ o.side = "buy" => c.accounts[id].cash >= o.price * o.qty

\* Mutant of CanPlace: position limits only.
CanPlaceUnfunded(c, id, proposed, staying) ==
    LET orders == proposed \cup staying
    IN  /\ AbsQty(c.accounts[id].position + OpenQty(orders, "buy")) <= MaxPosition
        /\ AbsQty(c.accounts[id].position - OpenQty(orders, "sell")) <= MaxPosition

\* canPlaceOrders(): the proposed orders and the live ones that stay.
CanPlace(c, id, proposed, staying) ==
    LET orders  == proposed \cup staying
        account == c.accounts[id]
        long    == account.position + OpenQty(orders, "buy")
        short   == account.position - OpenQty(orders, "sell")
        gross   == c.mark * AbsQty(account.position)
                     + Notional(orders, "buy") + Notional(orders, "sell")
    IN  \/ External(id)
        \/ /\ AbsQty(long) <= MaxPosition /\ AbsQty(short) <= MaxPosition
           /\ account.cash >= Notional(orders, "buy")
           /\ Equity(c, id) >= Bps(gross, InitialMarginBps)
           /\ FillStateWithinMargin(c, account.cash - Notional(orders, "buy"), long)
           /\ FillStateWithinMargin(c, account.cash + Notional(orders, "sell"), short)

\* What an account's live orders need.
ReservedFor(c, id) ==
    LET mine == OrdersOf(c.book, id)
    IN  [cash |-> Notional(mine, "buy"), buy |-> OpenQty(mine, "buy"), sell |-> OpenQty(mine, "sell")]

Venue(c) == {id \in DOMAIN c.accounts : ~External(id)}

\* The account fields that mirror the live orders.
Reserve(c, wanted) ==
    [c EXCEPT !.accounts = [id \in DOMAIN @ |->
        IF id \in DOMAIN wanted
          THEN [@[id] EXCEPT !.reservedCash = wanted[id].cash, !.openBuy = wanted[id].buy,
                             !.openSell = wanted[id].sell]
          ELSE @[id]]]

\* reconcileReservations(): one entry moves every account to what its live
\* orders reserve.
ReservationMoves(account, id, wanted) ==
    LET cash == wanted.cash - account.reservedCash
        sell == wanted.sell - account.openSell
    IN  << <<CashAvailable(id), -cash>>, <<CashReserved(id), cash>>,
           <<InstrumentAvailable(id), -sell>>, <<InstrumentReserved(id), sell>> >>

ReservationPostings(c, wanted) ==
    LET ids == SetToSeq(DOMAIN wanted)
    IN  FoldLeft(\o, <<>>, [i \in DOMAIN ids |->
            ReservationMoves(c.accounts[ids[i]], ids[i], wanted[ids[i]])])

PostReservations(c, wanted) == Reserve(PostEntry(c, ReservationPostings(c, wanted)), wanted)

Reconcile(c) == PostReservations(c, [id \in Venue(c) |-> ReservedFor(c, id)])

-----------------------------------------------------------------------------
(* Settlement *)

MakerBuys(fill) == fill.taker.side = "sell"
Buyer(fill)     == IF MakerBuys(fill) THEN fill.maker.owner ELSE fill.taker.owner
Seller(fill)    == IF MakerBuys(fill) THEN fill.taker.owner ELSE fill.maker.owner

\* A maker pays from what it has reserved, a taker from what is available.
BuyerReserved(fill)  == MakerBuys(fill) /\ ~External(Buyer(fill))
SellerReserved(fill) == ~MakerBuys(fill) /\ ~External(Seller(fill))

Paid(fill)    == fill.price * fill.quantity
Limited(fill) == fill.maker.price * fill.quantity

TradePostings(fill) ==
    << <<CashAvailable(Seller(fill)), Paid(fill)>>,
       <<InstrumentAvailable(Buyer(fill)), fill.quantity>> >>
      \o (IF BuyerReserved(fill)
            THEN << <<CashReserved(Buyer(fill)), -Limited(fill)>>,
                    <<CashAvailable(Buyer(fill)), Limited(fill) - Paid(fill)>> >>
            ELSE << <<CashAvailable(Buyer(fill)), -Paid(fill)>> >>)
      \o << <<IF SellerReserved(fill) THEN InstrumentReserved(Seller(fill))
              ELSE InstrumentAvailable(Seller(fill)), -fill.quantity>> >>

\* Mutant of FillEdge: sales are not counted.
FillEdgeOfBuys(c, fill) ==
    IF Buyer(fill) = Player THEN (c.mark - fill.price) * fill.quantity ELSE 0

\* playerFillPnL()
FillEdge(c, fill) ==
    CASE Buyer(fill) = Player  -> (c.mark - fill.price) * fill.quantity
      [] Seller(fill) = Player -> (fill.price - c.mark) * fill.quantity
      [] OTHER                 -> 0

Bought(account, fill) ==
    [account EXCEPT !.cash = @ - Paid(fill), !.position = @ + fill.quantity,
                    !.reservedCash = IF BuyerReserved(fill) THEN @ - Limited(fill) ELSE @,
                    !.openBuy = IF BuyerReserved(fill) THEN @ - fill.quantity ELSE @]

Sold(account, fill) ==
    [account EXCEPT !.cash = @ + Paid(fill), !.position = @ - fill.quantity,
                    !.openSell = IF SellerReserved(fill) THEN @ - fill.quantity ELSE @]

\* applyTrade()
ApplyTrade(c, fill) ==
    [PostEntry(c, TradePostings(fill)) EXCEPT
        !.accounts[Buyer(fill)]  = Bought(@, fill),
        !.accounts[Seller(fill)] = Sold(@, fill),
        !.edge = @ + FillEdge(c, fill)]

\* submitBookOrder() and settleReport()
Settle(c, report) ==
    IF report.ok THEN FoldLeft(ApplyTrade, [c EXCEPT !.book = report.book], report.fills)
                 ELSE [c EXCEPT !.ok = FALSE]

\* newOrder() and submitBookOrder()
Place(c, id, side, price, qty, tif) ==
    LET next == c.nextOrder + 1
    IN  Settle([c EXCEPT !.nextOrder = next],
               SubmitOrder(c.book, NewOrder(next, id, side, price, qty, tif)))

\* Mutant of CancelAll: only the oldest order is cancelled.
CancelOldest(c, id) ==
    [c EXCEPT !.book = FoldSet(LAMBDA o, b : RemoveOrder(b, o), @,
        {o \in OrdersOf(c.book, id) : \A p \in OrdersOf(c.book, id) : o.id <= p.id})]

\* cancelAccountOrders()
CancelAll(c, id) ==
    [c EXCEPT !.book = FoldLeft(RemoveOrder, @, InSequence(OrdersOf(c.book, id)))]

\* endSession()
EndSession(c, reason) == [c EXCEPT !.isOver = TRUE, !.reason = reason]

\* playerMaintenanceReason()
Breached(c)     == ~WithinLimits(c, Player, MaintenanceMarginBps)
BreachReason(c) == IF Equity(c, Player) <= 0 THEN "insolvent" ELSE "margin_breach"

\* Mutants of EndRealTime: reservations stay, and orders stay.
EndKeepsReservations(c, reason) == EndSession(CancelAll(c, Player), reason)

EndKeepsOrders(c, reason) == EndSession(Reconcile(c), reason)

\* cancelAccountOrders, reconcileReservations and endSession, which every end
\* of a real-time day goes through.
EndRealTime(c, reason) == EndSession(Reconcile(CancelAll(c, Player)), reason)

\* Mutant of EndOnBreach: only insolvency ends the day.
EndOnInsolvency(c) ==
    IF Equity(c, Player) <= 0 THEN EndRealTime(c, "insolvent") ELSE c

EndOnBreach(c) == IF Breached(c) THEN EndRealTime(c, BreachReason(c)) ELSE c

-----------------------------------------------------------------------------
(* The steps that commands are made of *)

\* validatePlayerQuote(): the renewal cancels every order the player has.
QuoteAdmitted(c, bid, ask, qty) ==
    /\ ~c.isOver
    /\ bid < ask
    /\ CanPlace(c, Player, {NewOrder(0, Player, "buy", bid, qty, "gtc"),
                            NewOrder(0, Player, "sell", ask, qty, "gtc")}, {})

\* replacePlayerQuote()
ReplaceQuote(c, bid, ask, qty) ==
    LET cancelled == CancelAll(c, Player)
        withBid   == Place(cancelled, Player, "buy", bid, qty, "gtc")
    IN  Reconcile(Place(withBid, Player, "sell", ask, qty, "gtc"))

Arrivals == [side : Sides, qty : 1..MaxOrderQty, slip : Slippages]

\* flowLimitV2()
FlowLimit(c, a) ==
    Max({1, Bps(c.mark, IF a.side = "buy" THEN Whole + a.slip ELSE Whole - a.slip)})

\* executeCustomerArrival()
Arrive(c, a) == Reconcile(Place(c, Flow, a.side, FlowLimit(c, a), a.qty, "ioc"))

\* chargeStorage(): from available cash, whatever is left of it.
Storage(c) == StoragePerUnit * AbsQty(c.accounts[Player].position)

\* Mutant of ChargeStorage: charged without an entry.
ChargeWithoutEntry(c) == [c EXCEPT !.accounts[Player].cash = @ - Storage(c)]

ChargeStorage(c) ==
    LET posted == PostEntry(c, << <<CashAvailable(Player), -Storage(c)>>,
                                  <<StorageAccount, Storage(c)>> >>)
    IN  [posted EXCEPT !.accounts[Player].cash = @ - Storage(c)]

NextMark(c, move) == Bps(c.mark, Whole + move)

MarkPnL(c, mark) == c.accounts[Player].position * (mark - c.mark)

\* transact(): the candidate replaces the engine, unless it met an error or
\* the command's profit and loss is not the change in the player's equity.
Reconciles(c, pnl) == c.ok /\ Equity(c, Player) - Equity(engine, Player) = pnl

Commit(c) == engine' = [c EXCEPT !.version = @ + 1, !.edge = 0] /\ fault' = "none"

Fail(why) == fault' = why /\ UNCHANGED engine

CommitOrFault(c, good) ==
    \/ good /\ Commit(c)
    \/ ~good /\ Fail("trading")

CommitReconciled(c, pnl) == CommitOrFault(c, Reconciles(c, pnl))

\* The profit and loss of a command that only trades is its execution edge.
CommitTrades(c) == CommitReconciled(c, c.edge)

-----------------------------------------------------------------------------
(* The real-time day: primitives that the sequencer's executor calls *)

UpdateQuote(bid, ask) ==
    /\ RealTime /\ QuoteAdmitted(engine, bid, ask, QuoteQty)
    /\ CommitTrades(EndOnBreach(ReplaceQuote(engine, bid, ask, QuoteQty)))

CustomerArrival(a) ==
    /\ RealTime /\ ~engine.isOver
    /\ CommitTrades(EndOnBreach(Arrive(engine, a)))

\* A mark that falls to nothing is an error.
MarkMove(move) ==
    LET mark == NextMark(engine, move)
    IN  /\ RealTime /\ ~engine.isOver
        /\ mark <= MaxMark
        /\ \/ mark = 0 /\ Fail("mark")
           \/ mark > 0 /\ CommitReconciled(EndOnBreach([engine EXCEPT !.mark = mark]),
                                           MarkPnL(engine, mark))

CarryCharge ==
    /\ RealTime /\ ~engine.isOver
    /\ LET charged == ChargeStorage(engine)
       IN  CommitOrFault(EndOnBreach(charged), Reconciles(charged, -Storage(engine)))

ExpireTradingDay ==
    /\ RealTime /\ ~engine.isOver
    /\ LET c == EndRealTime(engine, "time_expired") IN CommitOrFault(c, c.ok)

QuitRealTime ==
    /\ RealTime /\ ~engine.isOver
    /\ LET c == EndRealTime(engine, "player_quit") IN CommitOrFault(c, c.ok)

-----------------------------------------------------------------------------
(* The turn-based game, and the venue commands of other accounts *)

\* A turn is one command: the quote, the customers, the carry, the mark, and
\* then the maintenance check and the turn count (submitQuote, advance).
Trading(c, bid, ask, arrivals) == FoldLeft(Arrive, ReplaceQuote(c, bid, ask, MaxOrderQty), arrivals)

Marked(traded, mark) == [ChargeStorage(traded) EXCEPT !.turn = @ + 1, !.mark = mark]

EndTurn(c) ==
    CASE Breached(c) -> EndSession(c, BreachReason(c))
      [] ~Breached(c) /\ NumTurns > 0 /\ c.turn >= NumTurns -> EndSession(c, "turns_complete")
      [] OTHER -> c

CloseTurn(traded, mark) ==
    CommitReconciled(EndTurn(Marked(traded, mark)),
                     traded.edge + MarkPnL(traded, mark) - Storage(traded))

TurnArrivals ==
    IF MaxOrdersPerTurn = 0 THEN {<<>>} ELSE UNION {[1..n -> Arrivals] : n \in 1..MaxOrdersPerTurn}

\* The next mark is drawn between the quote and the customers.
SubmitQuote(bid, ask, arrivals, move) ==
    LET mark == NextMark(engine, move)
    IN  /\ ~RealTime /\ QuoteAdmitted(engine, bid, ask, MaxOrderQty)
        /\ mark <= MaxMark
        /\ \/ mark = 0 /\ Fail(IF ReplaceQuote(engine, bid, ask, MaxOrderQty).ok
                                 THEN "mark" ELSE "trading")
           \/ mark > 0 /\ CloseTurn(Trading(engine, bid, ask, arrivals), mark)

\* Quit() leaves the player's orders where they are.
Quit ==
    /\ ~RealTime /\ ~engine.isOver
    /\ Commit(EndSession(engine, "player_quit"))

Opening(id, cash, position) ==
    << <<CashAvailable(id), cash>>, <<OpeningCash(id), -cash>>,
       <<InstrumentAvailable(id), position>>, <<OpeningInstrument(id), -position>> >>

OpenAccount(id) ==
    /\ ~RealTime /\ ~engine.isOver
    /\ id \notin DOMAIN engine.accounts
    /\ LET opened == [engine EXCEPT !.accounts =
                        [d \in DOMAIN @ \cup {id} |->
                           IF d = id THEN NewAccount(BotCash, BotPosition) ELSE @[d]]]
           c      == PostEntry(opened, Opening(id, BotCash, BotPosition))
       IN  WithinLimits(opened, id, InitialMarginBps) /\ c.ok /\ Commit(c)

PlaceLimit(id, side, price, qty, tif) ==
    /\ ~RealTime /\ ~engine.isOver
    /\ CanPlace(engine, id, {NewOrder(0, id, side, price, qty, tif)}, OrdersOf(engine.book, id))
    /\ LET c == Reconcile(Place(engine, id, side, price, qty, tif)) IN c.ok /\ Commit(c)

Cancel(order) ==
    /\ ~RealTime /\ ~engine.isOver
    /\ LET c == Reconcile([engine EXCEPT !.book = RemoveOrder(@, order)]) IN c.ok /\ Commit(c)

ReplaceLimit(old, price, qty, tif) ==
    /\ ~RealTime /\ ~engine.isOver
    /\ CanPlace(engine, old.owner, {NewOrder(0, old.owner, old.side, price, qty, tif)},
                OrdersOf(engine.book, old.owner) \ {old})
    /\ LET next == engine.nextOrder + 1
           c    == Reconcile(Settle([engine EXCEPT !.nextOrder = next],
                     ReplaceOrder(engine.book, old,
                       NewOrder(next, old.owner, old.side, price, qty, tif))))
       IN  c.ok /\ Commit(c)

-----------------------------------------------------------------------------
(* The specification *)

\* New()
Init ==
    /\ engine = PostEntry(
         [ok |-> TRUE, edge |-> 0, version |-> 0, turn |-> 0, nextOrder |-> 0,
          mark |-> StartingMark, isOver |-> FALSE, reason |-> "", book |-> EmptyBook,
          accounts |-> [id \in {Player, Flow} |->
                          IF id = Player THEN NewAccount(StartingCash, StartingPosition)
                                         ELSE NewAccount(0, 0)],
          ledger |-> [a \in LedgerAccounts |-> 0]],
         Opening(Player, StartingCash, StartingPosition))
    /\ WithinLimits(engine, Player, InitialMarginBps)
    /\ fault = "none"

RealTimeStep ==
    \/ \E bid, ask \in Prices : UpdateQuote(bid, ask)
    \/ \E a \in Arrivals : CustomerArrival(a)
    \/ \E move \in Moves : MarkMove(move)
    \/ CarryCharge
    \/ ExpireTradingDay
    \/ QuitRealTime

TurnStep ==
    \/ \E bid, ask \in Prices, arrivals \in TurnArrivals, move \in Moves :
          SubmitQuote(bid, ask, arrivals, move)
    \/ Quit

VenueStep ==
    \/ \E id \in Bots : OpenAccount(id)
    \/ \E id \in DOMAIN engine.accounts, side \in Sides, price \in Prices, qty \in 1..MaxOrderQty,
          tif \in TIFs : PlaceLimit(id, side, price, qty, tif)
    \/ \E order \in LiveOrders(engine.book) :
          \/ Cancel(order)
          \/ \E price \in Prices, qty \in 1..MaxOrderQty, tif \in TIFs :
                ReplaceLimit(order, price, qty, tif)

Next ==
    /\ engine.version < MaxVersion
    /\ RealTimeStep \/ TurnStep \/ VenueStep

Spec == Init /\ [][Next]_vars

-----------------------------------------------------------------------------
(* Properties *)

\* The journal and the account fields agree: each account's settled, reserved
\* and committed amounts are the balances of its journal accounts, through
\* reservations, maker and taker fills and charges ("verified projections").
JournalMatchesAccounts ==
    \A id \in DOMAIN engine.accounts :
        LET a == engine.accounts[id]
        IN  /\ engine.ledger[CashAvailable(id)] + engine.ledger[CashReserved(id)] = a.cash
            /\ engine.ledger[InstrumentAvailable(id)] + engine.ledger[InstrumentReserved(id)]
                 = a.position
            /\ engine.ledger[CashReserved(id)] = a.reservedCash
            /\ engine.ledger[InstrumentReserved(id)] = a.openSell

\* What an account has reserved is what its live orders need, after every
\* fill, cancellation, replacement and end of a session.
ReservationsMatchOrders ==
    \A id \in Venue(engine) :
        LET a == engine.accounts[id]
        IN  [cash |-> a.reservedCash, buy |-> a.openBuy, sell |-> a.openSell]
              = ReservedFor(engine, id)

\* Position limits hold in the worst case: with all its open buys or all its
\* open sells filled, no account is past the limit (canPlaceOrders).
WorstCaseWithinLimit ==
    \A id \in Venue(engine) :
        LET a == engine.accounts[id]
        IN  AbsQty(a.position + a.openBuy) <= MaxPosition
              /\ AbsQty(a.position - a.openSell) <= MaxPosition

\* A resting buy is backed by settled cash, but for the carry that was charged
\* since: chargeStorage does not look at reservations.
ReservationsBacked ==
    \A id \in Venue(engine) :
        engine.accounts[id].cash + (IF id = Player THEN engine.ledger[StorageAccount] ELSE 0)
            >= engine.accounts[id].reservedCash

\* The errors that a step of the simulation (it fails the day) or an admitted
\* quote (it is rejected) can meet.  A move of the mark may leave it less than
\* one.  Otherwise profit and loss reconciles, entries balance and the book
\* takes every order, in a real-time day always; in a game, unless an account
\* of the venue left an order in the flow's name that the mark now lets a
\* customer, of the same name, trade with.  (A fault leaves the engine alone.)
FaultsExplained ==
    /\ fault = "mark" => \E move \in Moves : NextMark(engine, move) < 1
    /\ fault = "trading" =>
         /\ ~RealTime
         /\ \E o \in OrdersOf(engine.book, Flow), a \in Arrivals :
               o.side # a.side /\ Crosses(a.side, FlowLimit(engine, a), o.price)

\* While a real-time day is open the player meets maintenance margin, whichever
\* of quotes, customers, marks and carry came last; and a day that expires or
\* is quit ended in that state too.
OpenDayMeetsMaintenance ==
    RealTime /\ engine.reason \in {"", "time_expired", "player_quit"} => ~Breached(engine)

\* However a real-time day ends, the player's quote is off the book and its
\* reservations are released.
EndedDayIsFlat ==
    RealTime /\ engine.isOver =>
        /\ OrdersOf(engine.book, Player) = {}
        /\ engine.accounts[Player].reservedCash = 0 /\ engine.accounts[Player].openSell = 0

\* A real-time player has at most one order on each side: the projection that
\* the server sends reports one bid and one ask.
OneQuote ==
    RealTime => \A side \in Sides : Cardinality(OfSide(OrdersOf(engine.book, Player), side)) <= 1

\* What admission promises: while the mark stands still and nothing is
\* charged, no sequence of orders and fills takes an account below initial margin.
FillsKeepInitialMargin ==
    \A id \in Venue(engine) : WithinLimits(engine, id, InitialMarginBps)
=============================================================================
