----------------------------- MODULE Generator -----------------------------
(***************************************************************************)
(* The schedule of a real-time day (internal/realtime/generator.go).  At   *)
(* most one candidate of each kind waits; the earliest is the head; only   *)
(* committing the head draws the next candidate of its kind.  The head     *)
(* before and after a commit is what the sequencer reads as its schedule.  *)
(*                                                                         *)
(* The random streams are any choice of intervals within the cadence.      *)
(* Payloads are left out.                                                  *)
(***************************************************************************)
EXTENDS Integers, FiniteSets

CONSTANTS
    Duration,          \* length of the day
    CustomerCadence,   \* the intervals that may be drawn between customers
    MarkCadence,       \* and between mark moves
    CarryCadence       \* the interval between carry charges

\* validateGeneratorConfig().
ASSUME GeneratorAssumption ==
    /\ Duration \in Nat \ {0}
    /\ \A i \in CustomerCadence \cup MarkCadence : i \in 1..Duration
    /\ CarryCadence \in 1..Duration

VARIABLE generator

MarketKinds    == {"customer", "mark", "carry"}
ScheduledKinds == MarketKinds \cup {"expired"}

NoCandidate == [due |-> 0, sequence |-> 0]

Intervals(kind) ==
    CASE kind = "customer" -> CustomerCadence
      [] kind = "mark"     -> MarkCadence
      [] OTHER             -> {CarryCadence}

\* addCandidate(): numbered in the order of generation.
AddCandidate(g, kind, due) ==
    [g EXCEPT !.generated = @ + 1,
              !.candidates = [@ EXCEPT ![kind] = [due |-> due, sequence |-> g.generated + 1]]]

\* Mutant of Generate: a candidate may be due when the day ends.
GenerateToTheEnd(g, kind, interval) ==
    LET due == g.last[kind] + interval
        drawn == [g EXCEPT !.drawn = [@ EXCEPT ![kind] = g.drawn[kind] + 1]]
    IN  IF due > Duration THEN drawn ELSE AddCandidate(drawn, kind, due)

\* generateCustomer(), generateMark(), generateCarry(): the next candidate of
\* a kind, if it is due before the day ends.
Generate(g, kind, interval) ==
    LET due == g.last[kind] + interval
        drawn == [g EXCEPT !.drawn = [@ EXCEPT ![kind] = g.drawn[kind] + 1]]
    IN  IF due >= Duration THEN drawn ELSE AddCandidate(drawn, kind, due)

Empty ==
    [generated |-> 0, committed |-> 0,
     last  |-> [k \in MarketKinds |-> 0],
     drawn |-> [k \in MarketKinds |-> 0],
     candidates |-> [k \in ScheduledKinds |-> NoCandidate]]

NewGenerator(customer, mark) ==
    AddCandidate(
        Generate(Generate(Generate(Empty, "customer", customer), "mark", mark),
                 "carry", CarryCadence),
        "expired", Duration)

Pending(g) == {k \in ScheduledKinds : g.candidates[k] # NoCandidate}

\* Mutant of Precedes: the order of generation alone.
PrecedesByAge(a, b) == a.sequence < b.sequence

Precedes(a, b) == a.due < b.due \/ (a.due = b.due /\ a.sequence < b.sequence)

\* nextCandidate(): generation order breaks ties.
IsHead(g, k) ==
    /\ k \in Pending(g)
    /\ \A j \in Pending(g) \ {k} : Precedes(g.candidates[k], g.candidates[j])

\* Commit() of the head, whose kind is k, up to the next candidate.
Take(g, k) ==
    [g EXCEPT !.candidates = [@ EXCEPT ![k] = NoCandidate],
              !.committed = @ + 1,
              !.last = IF k = "expired" THEN @ ELSE [@ EXCEPT ![k] = g.candidates[k].due]]

CommitKind(g, k, interval) ==
    IF k = "expired" THEN Take(g, k) ELSE Generate(Take(g, k), k, interval)

-----------------------------------------------------------------------------

GeneratorInit ==
    \E customer \in CustomerCadence, mark \in MarkCadence :
        generator = NewGenerator(customer, mark)

Commit(k) ==
    /\ IsHead(generator, k)
    /\ \E interval \in Intervals(k) : generator' = CommitKind(generator, k, interval)

GeneratorNext == \E k \in ScheduledKinds : Commit(k)

GeneratorSpec == GeneratorInit /\ [][GeneratorNext]_generator

-----------------------------------------------------------------------------
(* Properties *)

\* Nothing waits that is due before what was committed: the schedule that the
\* sequencer reads through Next and Commit never moves back.
NothingInThePast ==
    \A k \in Pending(generator), j \in MarketKinds :
        generator.last[j] <= generator.candidates[k].due

\* The day ends with time_expired and nothing is scheduled at that moment or
\* after it, whatever is drawn ("Solo generation stops before the trading-day
\* expiry boundary").
ExpiryIsLast ==
    /\ \A k \in Pending(generator) \ {"expired"} : generator.candidates[k].due < Duration
    /\ "expired" \notin Pending(generator) => Pending(generator) = {}
=============================================================================
