# A verification development for MarketMaker

MarketMaker is a market-making game: a player quotes a bid and an ask on a
single-instrument venue, simulated customers trade against the quote, the mark
moves, carry is charged, and margin rules end the session. It has two modes: a
turn-based game, and a *real-time trading day* in which a sequencer drives the
simulation by the clock. Everything acknowledged is in a durable event log that
a restart replays.

The modules here model the parts that carry this logic, TLC checks them on
small instances, and TLAPS proves, for all instances, what matters most about
the sequencer, the schedule, the order book, the venue, the event log, the game
service and the arithmetic. `PROJECT.json` maps every definition to source lines and lists
the runs, mutants, hazards and theorems.

## Inventory

| Part | State | Operations | Talks to |
|---|---|---|---|
| Sequencer (`internal/realtime/sequencer.go`) | pending queue, wake slot, lifecycle status, logical time and anchors, timer, schedule cursor | Start(Action), Submit, Pause(Action), Resume(Action), CompleteAction, View, Snapshot, Close; timer; countdown; due work | called by HTTP goroutines; calls executor, replay lookup, schedule, clock |
| Order book (`internal/orderbook`) | price levels with FIFO queues and cached totals | Submit, Cancel, Replace, Clone | called by the exchange |
| Exchange (`internal/exchange`) | accounts, mark, book, reservations, journal, end of session | turn quote, real-time quote, customer, mark, carry, expiry, quit, account and limit-order commands | called by the executor and the turn handler |
| Event log (`internal/eventlog`) | file, acknowledged size and version, identifiers, lifecycle, logical time | Append, Recover, Sync, Open | called by the game service |
| Executor (`internal/realtime/exchange.go`) | quote revision | dispatch of an action to the engine | between sequencer and exchange |
| Generator (`internal/realtime/generator.go`) | three cadences, next candidate | Next, Commit | the sequencer's schedule |
| Game service (`cmd/server/exchange.go`) | entry per game: engine, log, commands, sequencer, storage fence; the games of the root | creation, commands, views, load and recovery, recovery pause, shutdown | all of the above |
| Fixed point (`internal/fixed`) | none | checked sums, differences, products, fractions | called by book, exchange, generator |
| Action encoding, scenarios, metrics, HTTP, CLI, web | none, or nothing read back | conversions and presentation | |

What is hard here:

* **concurrency**: client goroutines against the one loop, through a mutex, a
  one-slot channel and reply channels, while a timer runs;
* **ordering**: a request acts at its receipt time, which may be earlier than
  the moment it is handled, and scheduled work that was due must come first;
* **failure**: writes and syncs that fail with an unknown result, crashes of the
  process and the machine, repeated recovery, between any two scheduled actions
  and within the creation of a game;
* **agreement of memory and log**: the engine executes before its record is
  appended, so a failed append leaves it ahead of the log, and a replay must
  come to the same engine, quote revision and schedule;
* **long sequences of legal calls**: reservations, fills and cancellations that
  must keep journal, accounts and book in agreement;
* **progress**: a day must run without being called, and callers must not hang;
* **boundaries**: ties in the schedule, the last moment of a day, overflow.

## Modules

| Module | What it is |
|---|---|
| `Sequencer` | the sequencer, one action per point at which the loop can be interleaved |
| `SequencerProofs` | theorems about it |
| `BookOps` | the order book as a value, and its operations as operators |
| `OrderBook`, `BookProofs` | the book as a component with state, and theorems about it |
| `PriceTimeBook` | abstract: price-time priority over a set of orders |
| `Exchange`, `ExchangeProofs`, `ExchangeRiskProofs` | the venue on top of `BookOps`, both modes; theorems about its journal, reservations and days, and about admission |
| `EventLog`, `EventLogProofs` | the log file, the Log in memory, failures and crashes; theorems about it |
| `CommandLog` | abstract: the sequence of records callers were told are committed |
| `Generator` | the schedule of a day from its three cadences; theorems about it are in `GameSessionProofs` |
| `GameSession`, `GameSessionProofs` | one game of the server: entry, log, sequencer and generator through failures, reloads and shutdowns; theorems about it and about the generator it extends |
| `GameCreation` | the creation of games on the disk |
| `Fixed` | checked arithmetic at every width |
| `StandaloneProofs` | theorems about `GameCreation` and `Fixed`, which no other module builds on |
| `FoldProofs` | what loops and folds compute, by induction over their index |
| `MC*` | constants of the instances |

`Exchange` and `OrderBook` are composed over `BookOps`; `GameSession` extends
`Generator` and instantiates `EventLog` for the rules a record must meet.
`GameSession` does not run `Sequencer` itself: it keeps what a client, the log
and a restart can tell of it (status, logical time, the request in work), while
`Sequencer` has the goroutines and an arbitrary schedule.

### Sequencer

`Admit`, `Wake` and `Return` are the three parts of `request()`: under the
admission mutex, the non-blocking send, and the receive from the reply channel.
The goroutine of `run()` is cut where others can be seen to move: `Dequeue`,
`SelectWake` and `SelectTimer`, the timer branches (`Fired...`), each scheduled
action (`ProcessDue`), the countdown that a late request completes
(`LateCountdown`), and the request's own work, an action per kind. `phase` is
the program counter. `cur`, `viaTimer`, `firedAt` and `target` are locals of
the loop. `Gate`, `Served` and `DueFirst` are the order of checks in
`handleRequest`: replay first, then the late countdown, then the failed and
completed gates, then the status each kind requires, then due work.

The executor chooses any disposition, in every state. A durable executor
records all it does not fail, rejections included, as the server does. Reading
the clock again after an executor call is modelled by `now` of the step that
ends the call, so time may pass between receipt and execution, not inside of a
single call. `attempts`, `lastAt` and `viewed` are history variables for the
properties. The bounds are the number of admitted requests and the clock.

### Order book

`BookOps` keeps the code's representation: a queue and a cached total per level.
Every submission runs on `Clone`, which rests all orders again in the order of
their sequence numbers; the model does the same. Identifiers and sequence
numbers come from one counter, as in the engine, and so are one field. The only
self-trade policy the book accepts is RejectTaker.

### Exchange

`transact` runs a command on a clone and keeps it only on success, so a command
is an operator on an engine record, and an error leaves the engine as it was.
`ok` collects the errors of the calls inside. A refused command is no step.
Where the code compares a profit-and-loss attribution with the change in
equity, so does the model (`Reconciles`). `fault` is the error that a step no
participant is to blame for met last: a mark that falls to nothing ("mark", in
`MarkMove` and `SubmitQuote`) or any other ("trading"); the next command that
succeeds resets it. `CommitOrFault`, `CommitTrades`, `CommitReconciled` and
`Fail` are these branches. Random draws are choices. A game's turn that meets an
error discards the clone with its random streams, so the code would draw the
same move on a retry; the model may draw another, which allows more. The venue
commands are closed over HTTP in the current server but are commands of the
engine, which takes a limit order of any account that it knows, `simulated-flow`
included: such an order rests without any check of limits, and a later customer,
who trades under the same name, can be refused as a self-trade.

### Event log

`file` is what processes see, `disk` what survives a machine crash. A failed
`Append` leaves the line, a torn line, or (no step) nothing; whether a
line whose sync failed reached the disk is open. A machine crash leaves the disk
as it was or with any part of what was written since, the last line possibly
torn. Assumed: a later successful fsync covers earlier writes, and nobody else
writes to the file. `loadLocked` opens a log and serves it after `Sync` only,
which is the phase "opened". Sizes count lines, so the 64 MB limit is `MaxLines`.

### Generator

A candidate is a due time and a number. `Generate` draws the next candidate of
a kind from the last committed one, `AddCandidate` numbers it, `IsHead` is
`nextCandidate` with its tie-break, and `CommitKind` is `Commit` up to the next
draw. The streams draw any interval of their cadence, in the generator's own
specification on every draw, in a game from its seed, so that a replay draws the
same. Payloads are left out.

### GameSession

The entry is `loaded`, `failed` (its fence) and `memory`: commands, engine,
quote revision and generator. The engine is deterministic, which is what replay
rests on, and is reduced to how many changes it made and whether it is over; a
seed says after which change a market action or a turn's quote ruins the player,
which is one way for a day to end inside of a request. `Replay` folds
`replayRealTimeRecords` and `replayRecords` over a file: each record must pass
the log's validation, be the head of the schedule if it is scheduled, not bypass
what is due if it is not, and have the result that the engine comes to.

`Receive`, `ExecuteDue`, `Finish...` and `CountdownCompletes` are a request's way
through the loop; each executed action is one step, which commits (`Commits`) or
fails (`AppendFails`), with or without a line left in the file. `DueActionFails`
is an engine error in a scheduled action: the executor fails it before anything
is appended, which fails the sequencer (`broken`) and does not fence the entry.
It is possible at any customer or mark, the two whose errors the engine or the
executor can meet in a day (`FaultsExplained`). A quote or an opening quote may
be one that the engine refuses (`Refuses`). `Retry` answers
from a record, on every status, a failed or a closed sequencer included. The turn-based game has
`TurnCommand` and its failure, with a recovery that rebuilds the entry or fences
it. `ProcessEnds`, `MachineCrash`, `Load` and `LoadFails` are ends and beginnings
of the process: a load of an interrupted day appends the recovery pause. The
sequencer is only built on the first request for it, so between `Load` and
`BuildSequencer` a crash can intervene. `Drain`, `ShutdownSnapshot`,
`SendShutdownPause`, `ShutdownPauseReturns` and `ShutdownCloses` are `serve()`
and `Shutdown` in their order; the pause gets its name at the Snapshot
(`pauseNumber`), and records can be committed before it is sent.

`doubtful` says that the last record of the file may not be on the medium:
module `EventLog` shows that at most one is (`OneUncertain`), and that a log in
that state opens. Left out: the recaps' own failure and the check
that the sequencer's checkpoint is still current (`exchange.go:961`): nothing
recovers an entry that is being given a sequencer, so it never fires.

### GameCreation

A game is the request that created it; the service's lock makes `Publish` (up to
the rename) and `Created` or `CreateFails` one creation at a time, between which
the process or machine may end. `InScope` reads every game of the root. A
machine crash keeps what the root's sync covered and any part of the rest. One
process per root is assumed, as the log's lock makes it; the path for a name
that appeared in spite of the lock is left out.

### Fixed

The operations as the code writes them, on two's-complement integers whose
largest value is the constant `MaxInt`, where every intermediate sum, difference
and product wraps. `scaleInt64` has its double-word product and quotient, which
is where its `hi >= denominator` guard is needed.

## Runs

| Run | Instance | What it shows |
|---|---|---|
| `sequencer_durable` | 2 clients, 2 identifiers, 3 requests, clock to 3, scheduled actions at 1, 2, 2, from a fresh and a restored checkpoint; 4.2 million states | the safety properties of a journalled day |
| `sequencer_live` | fair; 2 clients, 3 requests, in-memory start, pause and resume next to the journalled start | requests are answered, countdowns end |
| `sequencer_alone` | fair; one request, then silence | a day left alone does all its due work |
| `sequencer_stall` | fair; start, then one Snapshot | **violation**, see below |
| `book` | 4 orders, 2 owners, 3 prices, 2 quantities | uncrossed, level totals, implements `PriceTimeBook` |
| `exchange_day` | real-time, 5 commands, 5 quote prices, marks that halve and rise by half, from 4 up to 9 and down to 1 and the error of its fall to nothing | journal, reservations, margin, the ends of a day |
| `exchange_turns` | 2 turns, up to 2 customers each, opening short, marks up to 6 that fall by three quarters or rise by one, to nothing too; limit orders of the player and of the flow account | the P&L attribution adds up over whole turns, and what errors a turn can meet |
| `exchange_venue` | the player and a bot, 5 commands, mark fixed, no carry | limit orders of several accounts stay within the limits, and admission keeps initial margin through every fill |
| `log` | 4 lines, 5 identifiers, every real-time record kind | durability and recovery; implements `CommandLog` |
| `session` | both modes, 3 identifiers, 7 records, a day of 4 ticks, customers and marks on different ticks or a player who is ruined by the third change; 775 thousand states | what clients were told and shown is what the log replays to, through failures, reloads and shutdowns |
| `session_refused_start` | real-time, 4 records | **violation**, see below |
| `session_tied` | real-time, 6 records, a customer and a mark due together | **violation**, see below |

Why these bounds: two due times coincide, one falls on the first tick after a
countdown, and receipt, timer and deadline can fall on the same tick; two
clients suffice for one to be between queueing and waking while another is
handled, and three requests for a retry behind a pause; four orders give a
taker that sweeps two levels and stops inside a queue; five commands reach
quote, fill, mark or carry, requote and end; four lines put an uncertain record
after acknowledged ones and reach the limit; seven records are a start, its
countdown, two scheduled actions, a quote, a pause and a resume, in every order
the code allows and with crashes between any two of them, and three identifiers
are a start, a quote against a stale revision and a second lifecycle request.
A revision or version that clients expect is at most 2 (`MaxArg`). Each property is broken by a mutant
of the code under the same instance, so each bound reaches the case the property
is about.

Deadlock is not checked where a system may stop: a closed sequencer, a game that
is over, a book that ran out of orders, a game with all of its records. The event
log never stops.

`ReservationsBacked` is stated up to the carry charged so far: `chargeStorage`
does not look at reservations, so a resting buy may end up short of cash by that
amount (the property says that it is never short by more).

### Fairness

The liveness runs assume weak fairness of the loop (the Go scheduler runs a
goroutine that can run, and the comment on `Executor` obliges an executor to
return), of a client's wake and return, and of the clock up to its bound. No
client has to call anything, and no order between goroutines is assumed.

### The findings

**A day can stall.** `run()` lets a queued request go before a timer that
already fired. It has
cleared `timer` by then, and afterwards re-arms only a countdown
(`sequencer.go:1244`). View, Submit and the lifecycle requests arm the timer
themselves; Snapshot, a replayed action and a refused request do not. The server
takes Snapshots in its health checks (`storageHealthy`, `exchange.go:1365`) and
at shutdown. A day that meets one at
the moment its timer fires stands still until the next request that arms the
timer, whereas `REALTIME_PLAY.md:459` demands that "A running solo trading day
progresses without player input". Nothing is lost: the next View or Submit
catches up in order, which is why the safety properties hold.

**A refused start strands its game.** A start whose opening quote the engine
refuses is committed as a record, and the lifecycle stays at preparing. The
process goes on and takes another start. After a restart,
`ensureRealTimeSequencer` (`exchange.go:919`) builds a preparing checkpoint that
has a record, which `validateCheckpoint` refuses, so every later view and command
of the game fails. `RestoredDayIsServed` says that a loaded game can be served.

**A recovery pause at a tie makes a log that does not load.** When the process
ends between two scheduled actions that are due together, the load commits its
pause at the last committed time (`exchange.go:1397`), where the other action is
still due. That load serves the game; the next one refuses its log
("external action bypassed due system work"), for good. The shipped cadences
(1.5 to 3 s, 5 to 8 s, and a carry of 10 s in a day of 90 s) draw to the
nanosecond, so ties are rare, but the generator breaks ties and so allows them.
Without ties `LogReplays` holds, which is what `session` checks.

## Proofs

Eight modules hold the theorems, which are for every value of the constants.

### Sequencer

`TypeCorrect` and the others of this table are about `Sequencer!Spec`, from
`ConstantsAssumption`: known request kinds, no caller by the name of the
empty loop's placeholder, an ordered schedule, a positive countdown, and
checkpoints that `validateCheckpoint` accepts and whose schedule cursor replay
has brought to their time. Clients, identifiers, schedule, countdown,
checkpoints, the kind of lifecycle and the bounds are arbitrary.

| Theorem | Statement | Argument |
|---|---|---|
| `TypeCorrect` | `[]TypeOK` | one step per action; `TypeOK` split into the parts actions touch |
| `WakeupsNotLost` | `[]NoLostWakeup` | the loop waits only after an empty dequeue (`SelectedEmpty`), whoever queues after that is about to wake it, and a wake is consumed only by a loop that dequeues again |
| `IdempotentActions` | `[]ExecutedAtMostOnce` | `OnceInv`: an executed identifier is recorded or the day has failed, and a request that acts was not replayable |
| `TimelineNeverMovesBack` | `TimelineMonotone` | `QueueInv` and `ClockInv` below |
| `ParticipantsNeverOvertake` | `DueBeforeParticipant` | the same, with the end of `processDue` |
| `EndedDaysStayEnded` | `EndedStaysEnded` | no action past the gates touches an ended day |
| `CountdownStaysArmed` | `[]CountdownArmed` | `CountdownInv` adds the moment between a consumed timer and its re-arming |
| `CallersAnsweredOnce` | `[]AnsweredOnce` | `PlaceInv`: no caller is twice in the queue, nor in two of queue, loop and answer |
| `ViewsNeverMoveBack` | `ViewsMonotone` | `ViewInv` does for what was viewed what `ClockInv` does for what was executed |

`TimelineMonotone` is far from inductive: a request executes at the logical time
of its *receipt*. The strengthening says that receipts in the queue are ordered
and none lies in the future (`QueueInv`), and that the time of the last executed
action is not after what the day stands at, nor after the target in use, nor
after the logical time of any receipt still to be handled, while the head of the
schedule is not before it (`ClockInv`). `PhaseInv` says what the loop's locals
are in each phase. TLC checked these on the instances of `sequencer_durable` and
of an in-memory day before they were proved.

### Generator

From `GeneratorAssumption` (what `validateGeneratorConfig` demands): the length
of the day, the cadences and everything the streams draw are arbitrary.
`ScheduleNeverInThePast` and `ExpiryEndsTheSchedule` state `NothingInThePast` and
`ExpiryIsLast`; `DueTimesNeverDecrease` and `IdentifiersAreFresh` say that the
schedule a sequencer reads is ordered, which `Sequencer` assumes of its own, and
that identifiers made of a candidate's number are distinct. The invariant is that
candidates have distinct numbers already given out (`Numbered`), that only the
expiry reaches the end of the day (`Within`), that none is before what was
committed of any kind (`Ahead`), and that nothing waits after the expiry
(`Ended`). `Ahead` is why committing only the head matters.

### FoldProofs: induction over loops

The models write a Go loop as a fold over a sequence, and what a fold computes
is an induction over its length. The library states induction with an operator
for a parameter, which the installed provers cannot instantiate. `FoldProofs`
states it with a *set* instead: a set of numbers that holds 0 and, with each
number, the next, holds all (`SetInduction`, from the least element that
`WFMin` gives); the same up to a bound and along a sequence (`IndexInduction`,
`SequenceInduction`). A fold is then a *run*, the function from the number of
elements read to the value reached (`FoldIsRun`, `FoldStep`, `FoldWhole`), and
it splits at any point (`FoldAppend`). The operation and the domain are constants
of the module; a proof instantiates it once per loop of the code. This is how
recovery, replay, matching and settlement are proved for logs, books and entries
of every size.

### Event log

From `LogAssumption` (the limits are numbers, the record kinds are the model's).
The theorems state every invariant that run `log` checks, and its refinement:

| Theorem | Statement |
|---|---|
| `AcknowledgedRecordsSurvive` | `[]AcknowledgedSurvives` |
| `GamesCanBeOpened` | `[]AlwaysLoadable` |
| `OneRecordIsUncertain` | `[]OneUncertain` |
| `RecoveryIsNeverRefused` | `[]RecoverNeverRefused` |
| `LogKeepsItsPromise` | `Spec` implements `CommandLog` |

`LogInv` has two parts. `Sound` is about the lines of the file and of the medium:
they begin with what is acknowledged, have at most one line more, and decoding
accepts all that are complete. `Knows` ties the Log in memory to the lines: it is
what decoding leaves, of the acknowledged lines while it is active and of the whole
file before its first sync, which is what makes the next accepted record decode
after them. Decoding is a fold, so that it accepts a prefix of what
it accepts, and a line exactly when `Append` would have, are inductions over the
file. The proof attempt found that two arms of the CASE in `LifecycleAfter`
overlapped, which TLC had resolved by taking the first; it is an IF now.

### Order book

From `BookAssumption`: prices and quantities are sets of positive integers, of any
size; owners and the bound on orders are arbitrary.

| Theorem | Statement |
|---|---|
| `BookIsSound` | `[](BookInv)`: levels and orders are well formed |
| `BookIsNeverCrossed` | `[]NeverCrossed` |
| `LevelsAddUp` | `[]LevelTotals` |

`BookInv` is `Sound` and `Uncrossed`. `Sound` says of each level that its orders
are of its side and price, have something left, are numbered once and by numbers
already given out, and add up to the cached total (`LevelSound`), and that no
identifier is in two levels (`Apart`). The proof follows the code: resting, removing
and trading each put one level in the place of another; `Clone` rests all orders
again and so returns a sound book with the same orders; and the matching loop uses
up the maker or the taker in each round, so that it ends within the number of
orders, and what a taker rests does not cross. That the cached total is right after
a sweep that stops inside a queue is a statement about a sum over a queue, which
tests check on examples and the theorem on every queue. `BookOps` writes its selections
and its sort as bounded loops and CHOOSE, not with the recursive operators of the
library, so that the prover can read them. About the run of the matching loop it is
also shown that each fill is between the taker and a live order of the other side, at
that order's price (`SubmitTakes`), what each round of the loop takes from the two
orders that meet in it (`SubmitMatches`), and when a submission is taken
(`SubmitOutcome`), which is what the venue relies on.

### Exchange

From `ConfigAssumption` (`Config.Validate`): accounts, prices, marks, margins,
quantities, draws and the number of commands and turns are arbitrary, and both
modes are covered.

| Theorem | Statement | Invariant |
|---|---|---|
| `JournalAgrees` | `[]JournalMatchesAccounts` | `Ready` |
| `ReservationsFollowOrders` | `[]ReservationsMatchOrders` | `Ready` |
| `FaultsAreExplained` | `[]FaultsExplained` | `Running` |
| `OpenDayIsSolvent` | `[]OpenDayMeetsMaintenance` | `Running` |
| `EndedDayFlat` | `[]EndedDayIsFlat` | `Running` |
| `OneBidOneAsk` | `[]OneQuote` | `Running` |
| `WorstCaseHolds` | `[]WorstCaseWithinLimit` | `Safe` |
| `ReservationsAreBacked` | `[]ReservationsBacked`, when `BotCash \in Nat` | `Safe` |

`Ready` says between two commands what `Sane` says inside of one, and that the
reservations are those of the live orders. `Sane` has the book in order (`BookInv`
of the book's proofs, whose lemmas are used by instance, with the engine's book for
the book and its accounts for the owners), every live order owned by an account that
is known, and the journal in agreement with the accounts (`Journalled`). A command is
a chain of operations, and each is shown once: a submission with its fills, a removal,
the cancellation of an account's orders, `reconcileReservations`, the carry, an
opening. Each keeps `Sane` and moves the player's equity by the edge it adds
(`Follows`, which composes), and `Reconcile` ends the chain with the reservations
that the live orders need. Three facts carry this:

* *Posting is additive.* The balances after an entry are those before it with the
  entry's amounts added, account by account (`PostedParts`), so that a trade of one
  buyer and one seller moves just their accounts, in the pattern that
  the account fields move in (`TradeJournalled`), whichever of the two was the maker;
  and the reservation entry, one loop over all accounts, moves each by its own
  difference and balances in each unit (`ReservationEntry`).
* *Sums over orders.* What an account needs is a sum over a set, which the library
  defines by recursion; `SumFacts` shows that taking one element out takes its amount
  out of the sum, for every finite set.
* *A submission's fills are settled in turn*, the fold of `ApplyTrade`; its invariant
  (`Carried`) does not say that reservations match the book, which is not so between
  the first and the last fill. That is why reservations are derived anew at the end.

`Running` adds that an error that was met is explained (`FaultsExplained`) and
that an open day is solvent, quoted at most once a side, and an ended one flat
(`DayHolds`). `FaultsExplained` says which error branches of the engine's own steps
can be taken: the one of a mark that a move takes below one, and in a game the
refusal of a customer who would trade with an order left in the flow's name. The
others cannot: the player's quote is placed on a book that holds only other accounts'
orders, so the bid is taken and the ask does not meet it (`QuoteTaken`); a customer's
order is immediate-or-cancel and meets its own name only in such an order
(`ArriveTaken`), of which a real-time day has none; entries balance; and the
attribution (edge, mark, carry) is the change in equity, over a whole turn of any
number of customers (`TurnReconciles`). `MarkMoveWays` and `SubmitQuoteWays` take the
two commands apart into what succeeds and what fails. 64-bit amounts do not overflow
here; see *Not modelled*.

`Safe` (module `ExchangeRiskProofs`) adds `Secured`: the position and the cash of
every account but the flow's, which has no limits, cover what all its live orders
have left, at their limits (`CoversAll`), live orders are numbered, and the carry
charged is an amount.
`canPlaceOrders` looks at the orders that stay and at the ones proposed, once,
before the command; everything after it has to keep what it saw:

* *A fill moves an amount from open to settled.* It takes from what an order has left
  just what it adds to the position, and pays the order's limit or less
  (`TradeFits`), so both worst cases and the room for cash stay. Within the matching
  loop the claim is about the working book and what is left of the taker, which is in
  no book yet; it is an invariant of the loop's index, carried through every trade and
  every maker that leaves (`RunCovers`), and at the end what rests is what was left.
* *Admission sees the orders that will be live* (`AdmittedAdmits`): a replacement gives
  up the one it replaces, a quote those it cancels, and the proposed order, which has
  no number yet, is none of the live ones, which is what `Numbered` is for.
* *Carry.* `chargeStorage` takes cash whatever is reserved. What it took stands in
  the journal's storage account, is the player's alone and only grows, so the cash
  and that balance together are what reservations are held against.
* *Openings, marks, reservations and ends* leave position, cash and orders or take
  orders away (`Spares`).

`ReservationsAreBacked` has `BotCash \in Nat` as a hypothesis because `AddAccount`
(`exchange.go:457`) accepts a negative balance when the value of the position meets
the margin: such an account owes cash with nothing reserved, and the property is false of
it. `WorstCaseHolds` needs no such condition. TLC found `Secured` true in every state of
the three exchange runs before it was proved.

### GameSession

From `SessionAssumption`. `SessionInv` has three parts: `StoreInv` (the records in
memory are the beginning of what a crash of the machine leaves, and all of the
file while the entry is not fenced), `ToldInv` (`ToldIsRecorded` with the range of
versions) and `LoopInv` (a fenced entry has no live sequencer, only a live one
processes a request). Only appending to a fenced file could move a record under an
answer, so the fence is where the argument turns.

| Theorem | Statement | What it adds to `SessionInv` |
|---|---|---|
| `AnswersAreKept` | `[]ToldIsRecorded` | |
| `InterruptedDaysArePaused` | `[]RestoredAsPaused` | |
| `EntriesHoldTheirFile` | an entry that is not fenced holds the records of its file and none is in doubt; a fenced real-time entry executes nothing | |
| `ShutdownsSettle` | `[]ShutdownSettles` | `StatusInv`, `ShutInv`: what each stage of the shutdown has already stopped, and what failed a failed sequencer |
| `RunningDaysAreQuoted` | `[]RunningDayIsQuoted` | `QuoteInv`: the quote revision is ahead of every accepted quote of the file, and a running day has moved it |
| `RevisionsAreUsedOnce` | `[]RevisionUsedOnce` | `QuoteInv`: revisions rise along the file |
| `LogsCanBeReplayed` | `[]LogReplays`, under `[]NoTies` | `ReplayInv`, `TimeInv`, `JobInv`, `PauseInv` |
| `MemoryIsTheReplay` | `[]MemoryMatchesLog`, under `[]NoTies` | the same |
| `NothingShownIsTakenBack` | `[]ShownIsRecorded`, under `[]NoTies` | `ShownInv`: what was shown is the engine of a prefix of the log |

`ReplayInv` says that the file can be replayed, with or without a doubtful last
record, and that an entry that is not fenced has the engine, quote and schedule that
the replay leaves; `TimeInv` says that a sequencer that is not running stands at
the time of its last record, so that a recovery pause there does not bypass due
work; `JobInv` says what the loop has checked of the request that it holds, and
`PauseInv` that no record has the name that a shutdown has taken for its pause. An
accepted request re-establishes `ReplayInv` because the checks that admit it are
those that replay makes, which is the step in which a difference between the two
paths of the code would show. The last three theorems have `[]NoTies`
(no two scheduled actions are due together) as a hypothesis: run `session_tied`
shows that the code violates `LogReplays` without it, and run `session` satisfies
it in all of its 775 thousand states, on which TLC also found the parts of the
invariant true before they were proved. Draws are those of a seed, repeated beyond
the last one given; identifiers, modes, draws and bounds are arbitrary.

### GameCreation and Fixed

These two modules have no run: their theorems, in `StandaloneProofs`, say all there
is to check.
`CommandsCreateOneGame` and `ToldGamesAreKept` state the module's two invariants
and `GamesAreNeverTakenBack` the action property, from where a game can be
(`Placed`): told and served games are behind the root's sync, a published one is
only visible. Every operation of `Fixed` returns the exact result or an error
where it does not fit (`AdditionIsExact`, `NegationIsExact`,
`SubtractionIsExact`, `MagnitudeIsExact`, `NotionalIsExact`, `ScalingIsExact`), at
every width and although the guards themselves are computed by wrapping
operations. `ScalingIsExact` is also where the guard on the high word is shown to
be enough.

### Model-checked only

* liveness, which is beyond the prover (`sequencer_live` and `sequencer_alone`);
* of the exchange, that fills keep initial margin (`FillsKeepInitialMargin`): it
  holds only while the mark stands still and nothing is charged, and its requirement
  is a product divided with truncation, for a position that a fill may turn from
  long to short;
* that the book implements `PriceTimeBook`, whose abstract matching is a choice
  among all sets of orders.

## Not modelled

Clocks, timers, schedules and projectors that panic, the random streams, the
payloads of scheduled actions, checksums and file
identity, older schemas, and the files of a game inside of its directory. The
payload encoding (`action.go`), parsing and formatting of decimals, lessons,
recaps, event pages and health are pure functions or reads of results;
metrics are counters that nothing reads; HTTP, the command-line and the
web client are input and output that keep no state. The engine model uses
exact amounts: `Fixed` shows that the program's are exact or refused, and a
refusal for overflow is not explored in the engine.

## Plan

What is left, in this order:

1. `FillsKeepInitialMargin` under its two hypotheses, from `Secured` and
   arithmetic about the truncated requirement.
2. The refinement of `PriceTimeBook` for every book.
3. A refinement of the loop of `GameSession` by `Sequencer`, so that the fence
   and the goroutines are checked together.
4. The choice of the side of an informed customer in the executor, which reads
   the move of the mark that is next in the schedule.
