-------------------------- MODULE GameSessionProofs --------------------------
(***************************************************************************)
(* Proofs about the schedule of a day and about a game of the server: for  *)
(* all command ids, play modes, lengths of the day, cadences, draws and    *)
(* numbers of records.                                                     *)
(***************************************************************************)
EXTENDS GameSession, SequenceTheorems, TLAPS

-----------------------------------------------------------------------------
(* The schedule: types and the parts of its invariant *)

Candidate == [due : Nat, sequence : Nat]

GeneratorType ==
    [generated : Nat, committed : Nat,
     last : [MarketKinds -> Nat], drawn : [MarketKinds -> Nat],
     candidates : [ScheduledKinds -> Candidate]]

(***************************************************************************)
(* The parts of the inductive invariant, over any generator: what waits    *)
(* has a number of its own that was given out, market kinds wait for times *)
(* before the end of the day and expiry for the end itself.                *)
(***************************************************************************)
Numbered(g) ==
    /\ \A k \in Pending(g) : g.candidates[k].sequence \in 1..g.generated
    /\ \A j, k \in Pending(g) : j # k => g.candidates[j].sequence # g.candidates[k].sequence

Within(g) ==
    /\ \A k \in Pending(g) \cap MarketKinds : g.candidates[k].due < Duration
    /\ "expired" \in Pending(g) => g.candidates["expired"].due = Duration

Ahead(g) == \A k \in Pending(g), j \in MarketKinds : g.last[j] <= g.candidates[k].due

Ended(g) == "expired" \notin Pending(g) => Pending(g) = {}

\* The parts that also hold while the generator is being built.
WellFormed(g) == g \in GeneratorType /\ Numbered(g) /\ Within(g) /\ Ahead(g)

GeneratorInv == WellFormed(generator) /\ Ended(generator)

-----------------------------------------------------------------------------
(* The operations *)

\* What the three assignments of Commit leave of a generator.
Updated(g, waits, count, lasts) ==
    [g EXCEPT !.candidates = waits, !.committed = count, !.last = lasts]

\* An update with parts of the right type keeps the type.
LEMMA UpdatedSound ==
    ASSUME NEW g \in GeneratorType, NEW waits \in [ScheduledKinds -> Candidate],
           NEW count \in Nat, NEW lasts \in [MarketKinds -> Nat]
    PROVE  LET e == Updated(g, waits, count, lasts)
           IN  /\ e \in GeneratorType
               /\ e.generated = g.generated /\ e.drawn = g.drawn
               /\ e.committed = count /\ e.candidates = waits /\ e.last = lasts
<1> DEFINE e == Updated(g, waits, count, lasts)
<1>1. e \in GeneratorType
  BY DEF GeneratorType, Updated
<1>2. /\ e.generated = g.generated /\ e.drawn = g.drawn
      /\ e.committed = count /\ e.candidates = waits /\ e.last = lasts
  BY DEF GeneratorType, Updated
<1> QED BY <1>1, <1>2

\* addCandidate: a candidate of a kind that waits for nothing gets a fresh
\* number and leaves the others alone.
LEMMA AddCandidateSound ==
    ASSUME NEW g, WellFormed(g), NEW kind \in ScheduledKinds, kind \notin Pending(g), NEW due \in Nat,
           IF kind = "expired" THEN due = Duration ELSE due < Duration,
           \A j \in MarketKinds : g.last[j] <= due
    PROVE  /\ WellFormed(AddCandidate(g, kind, due))
           /\ Pending(AddCandidate(g, kind, due)) = Pending(g) \cup {kind}
           /\ \A k \in Pending(g) :
                AddCandidate(g, kind, due).candidates[k] = g.candidates[k]
           /\ AddCandidate(g, kind, due).candidates[kind].due = due
           /\ AddCandidate(g, kind, due).candidates[kind].sequence = g.generated + 1
           /\ AddCandidate(g, kind, due).generated = g.generated + 1
<1> DEFINE h == AddCandidate(g, kind, due)
<1>1. g \in GeneratorType
  BY DEF WellFormed
<1>2. /\ h.generated = g.generated + 1 /\ h.committed = g.committed
      /\ h.last = g.last /\ h.drawn = g.drawn
      /\ h.candidates = [g.candidates EXCEPT ![kind] = [due |-> due, sequence |-> g.generated + 1]]
  BY <1>1 DEF AddCandidate, GeneratorType
<1>3. /\ h.candidates[kind] = [due |-> due, sequence |-> g.generated + 1]
      /\ \A k \in ScheduledKinds \ {kind} : h.candidates[k] = g.candidates[k]
  BY <1>1, <1>2 DEF GeneratorType
<1>4. g.generated + 1 \in Nat /\ g.generated + 1 # 0
  BY <1>1 DEF GeneratorType
<1>5. h.candidates[kind] # NoCandidate
  BY <1>3, <1>4 DEF NoCandidate
<1>6. Pending(h) = Pending(g) \cup {kind}
  BY <1>3, <1>5 DEF Pending
<1>7. \A k \in Pending(g) : h.candidates[k] = g.candidates[k]
  BY <1>3 DEF Pending
<1>8. h \in GeneratorType
  <2>1. h.candidates \in [ScheduledKinds -> Candidate]
    BY <1>1, <1>2, <1>4 DEF GeneratorType, Candidate
  <2> QED BY <1>1, <1>2, <1>4, <2>1 DEF GeneratorType, AddCandidate
<1>9. Numbered(h)
  <2>1. \A k \in Pending(g) : /\ g.candidates[k].sequence \in 1..g.generated
                              /\ g.candidates[k].sequence # g.generated + 1
    BY <1>1 DEF WellFormed, Numbered, GeneratorType
  <2>2. h.candidates[kind].sequence = g.generated + 1
    BY <1>3
  <2> QED BY <1>1, <1>2, <1>4, <1>6, <1>7, <2>1, <2>2 DEF WellFormed, Numbered, GeneratorType
<1>10. Within(h)
  <2>1. h.candidates[kind].due = due
    BY <1>3
  <2>2. "expired" \notin MarketKinds
    BY DEF MarketKinds
  <2> QED BY <1>6, <1>7, <2>1, <2>2 DEF WellFormed, Within
<1>11. Ahead(h)
  <2>1. h.candidates[kind].due = due
    BY <1>3
  <2> QED BY <1>2, <1>6, <1>7, <2>1 DEF WellFormed, Ahead
<1>12. h.candidates[kind].due = due /\ h.candidates[kind].sequence = g.generated + 1
  BY <1>3
<1> QED BY <1>2, <1>6, <1>7, <1>8, <1>9, <1>10, <1>11, <1>12 DEF WellFormed

\* generateCustomer, generateMark, generateCarry: what is drawn too late for
\* the day is dropped.
LEMMA GenerateSound ==
    ASSUME NEW g, WellFormed(g), NEW kind \in MarketKinds, kind \notin Pending(g),
           NEW interval \in Nat, \A j \in MarketKinds : g.last[j] <= g.last[kind]
    PROVE  /\ WellFormed(Generate(g, kind, interval))
           /\ Pending(Generate(g, kind, interval)) \in {Pending(g), Pending(g) \cup {kind}}
           /\ \A k \in Pending(g) :
                Generate(g, kind, interval).candidates[k] = g.candidates[k]
           /\ \A k \in Pending(Generate(g, kind, interval)) \ Pending(g) :
                /\ Generate(g, kind, interval).candidates[k].due = g.last[kind] + interval
                /\ Generate(g, kind, interval).candidates[k].sequence = g.generated + 1
           /\ Generate(g, kind, interval).last = g.last
           /\ Generate(g, kind, interval).generated \in {g.generated, g.generated + 1}
<1> DEFINE d   == [g EXCEPT !.drawn = [@ EXCEPT ![kind] = g.drawn[kind] + 1]]
           due == g.last[kind] + interval
<1>1. g \in GeneratorType
  BY DEF WellFormed
<1>2. /\ d.generated = g.generated /\ d.last = g.last /\ d.candidates = g.candidates
      /\ d \in GeneratorType
  BY <1>1 DEF GeneratorType
<1>3. Pending(d) = Pending(g)
  BY <1>2 DEF Pending
<1>4. WellFormed(d)
  BY <1>2, <1>3 DEF WellFormed, Numbered, Within, Ahead
<1>5. /\ due \in Nat /\ g.last[kind] <= due
      /\ \A j \in MarketKinds : d.last[j] <= due
  BY <1>1, <1>2 DEF GeneratorType
<1>6. CASE due >= Duration
  <2>1. Generate(g, kind, interval) = d
    BY <1>6 DEF Generate
  <2> QED BY <1>2, <1>3, <1>4, <2>1
<1>7. CASE ~(due >= Duration)
  <2>1. Generate(g, kind, interval) = AddCandidate(d, kind, due)
    BY <1>7 DEF Generate
  <2>2. due < Duration
    BY <1>5, <1>7, GeneratorAssumption
  <2>3. kind \in ScheduledKinds /\ kind # "expired" /\ kind \notin Pending(d)
    BY <1>3 DEF ScheduledKinds, MarketKinds
  <2>4. /\ WellFormed(AddCandidate(d, kind, due))
        /\ Pending(AddCandidate(d, kind, due)) = Pending(d) \cup {kind}
        /\ \A k \in Pending(d) : AddCandidate(d, kind, due).candidates[k] = d.candidates[k]
        /\ AddCandidate(d, kind, due).candidates[kind].due = due
        /\ AddCandidate(d, kind, due).candidates[kind].sequence = d.generated + 1
        /\ AddCandidate(d, kind, due).generated = d.generated + 1
    <3> HIDE DEF d, due
    <3>1. IF kind = "expired" THEN due = Duration ELSE due < Duration
      BY <2>2, <2>3
    <3> QED BY <1>4, <1>5, <2>3, <3>1, AddCandidateSound
  <2>5. AddCandidate(d, kind, due).last = g.last
    BY <1>2 DEF AddCandidate, GeneratorType
  <2> QED BY <1>2, <1>3, <1>5, <2>1, <2>4, <2>5
<1> QED BY <1>6, <1>7

\* NewGenerator: everything waits for a time in the day, none for its beginning,
\* and expiry for its end.
LEMMA NewGeneratorSound ==
    ASSUME NEW customer \in Nat \ {0}, NEW mark \in Nat \ {0}
    PROVE  /\ WellFormed(NewGenerator(customer, mark)) /\ Ended(NewGenerator(customer, mark))
           /\ \A k \in Pending(NewGenerator(customer, mark)) :
                0 < NewGenerator(customer, mark).candidates[k].due
<1> DEFINE c == Generate(Empty, "customer", customer)
           m == Generate(c, "mark", mark)
           y == Generate(m, "carry", CarryCadence)
<1>1. /\ Empty.last = [k \in MarketKinds |-> 0] /\ Empty \in GeneratorType
      /\ Pending(Empty) = {}
  BY DEF Empty, GeneratorType, Candidate, NoCandidate, Pending
<1>2. WellFormed(Empty)
  BY <1>1 DEF WellFormed, Numbered, Within, Ahead
<1>3. CarryCadence \in Nat \ {0} /\ Duration \in Nat \ {0}
  BY GeneratorAssumption
<1>4. /\ {"customer", "mark", "carry"} = MarketKinds
      /\ "expired" \in ScheduledKinds /\ "expired" \notin MarketKinds
  BY DEF MarketKinds, ScheduledKinds
<1>5. \A i, j \in MarketKinds : Empty.last[i] <= Empty.last[j]
  BY <1>1
<1> DEFINE Positive(g) == \A k \in Pending(g) : 0 < g.candidates[k].due
<1>6. ASSUME NEW g, WellFormed(g), Positive(g), g.last = Empty.last, NEW kind \in MarketKinds,
              kind \notin Pending(g), NEW interval \in Nat \ {0}
       PROVE  LET h == Generate(g, kind, interval)
              IN  /\ WellFormed(h) /\ Pending(h) \subseteq Pending(g) \cup {kind}
                  /\ h.last = Empty.last /\ Positive(h)
  <2> DEFINE h == Generate(g, kind, interval)
  <2>1. \A j \in MarketKinds : g.last[j] <= g.last[kind]
    BY <1>5, <1>6
  <2>2. /\ WellFormed(h) /\ Pending(h) \in {Pending(g), Pending(g) \cup {kind}} /\ h.last = g.last
        /\ \A k \in Pending(g) : h.candidates[k] = g.candidates[k]
        /\ \A k \in Pending(h) \ Pending(g) : h.candidates[k].due = g.last[kind] + interval
    BY <1>6, <2>1, GenerateSound
  <2>3. g.last[kind] + interval > 0
    BY <1>1, <1>6
  <2> HIDE DEF h
  <2>4. Positive(h)
    BY <1>6, <2>2, <2>3
  <2> QED BY <1>6, <2>2, <2>4 DEF h
<1>7. Positive(Empty)
  BY <1>1
<1>8. WellFormed(c) /\ Pending(c) \subseteq {"customer"} /\ c.last = Empty.last /\ Positive(c)
  <2> HIDE DEF Positive
  <2> QED BY <1>1, <1>2, <1>4, <1>6, <1>7
<1>9. WellFormed(m) /\ Pending(m) \subseteq {"customer", "mark"} /\ m.last = Empty.last /\ Positive(m)
  <2> HIDE DEF c, Positive
  <2>1. "mark" \in MarketKinds /\ "mark" \notin Pending(c)
    BY <1>4, <1>8
  <2>2. WellFormed(m) /\ Pending(m) \subseteq Pending(c) \cup {"mark"} /\ m.last = Empty.last /\ Positive(m)
    BY <1>6, <1>8, <2>1, SMTT(30)
  <2> QED BY <1>8, <2>2
<1>10. WellFormed(y) /\ Pending(y) \subseteq MarketKinds /\ y.last = Empty.last /\ Positive(y)
  <2> HIDE DEF m, Positive
  <2>1. "carry" \in MarketKinds /\ "carry" \notin Pending(m)
    BY <1>4, <1>9
  <2> QED BY <1>3, <1>4, <1>9, <1>6, <2>1
<1>11. NewGenerator(customer, mark) = AddCandidate(y, "expired", Duration)
  BY DEF NewGenerator
<1>12. \A j \in MarketKinds : y.last[j] <= Duration
  BY <1>1, <1>3, <1>10
<1>13. WellFormed(AddCandidate(y, "expired", Duration))
         /\ "expired" \in Pending(AddCandidate(y, "expired", Duration))
         /\ Positive(AddCandidate(y, "expired", Duration))
  <2> DEFINE n == AddCandidate(y, "expired", Duration)
  <2> HIDE DEF y
  <2>1. "expired" \notin Pending(y)
    BY <1>4, <1>10
  <2>2. /\ WellFormed(n) /\ Pending(n) = Pending(y) \cup {"expired"}
        /\ \A k \in Pending(y) : n.candidates[k] = y.candidates[k]
        /\ n.candidates["expired"].due = Duration
    BY <1>3, <1>4, <1>10, <1>12, <2>1, AddCandidateSound
  <2> HIDE DEF n
  <2>3. Positive(n)
    BY <1>3, <1>10, <2>2
  <2> QED BY <2>2, <2>3 DEF n
<1> QED BY <1>11, <1>13 DEF Ended

\* The head is no later than anything that waits, and expiry comes last.
LEMMA HeadIsEarliest ==
    ASSUME NEW g, WellFormed(g), NEW k \in ScheduledKinds, IsHead(g, k)
    PROVE  /\ \A j \in Pending(g) : g.candidates[k].due <= g.candidates[j].due
           /\ k = "expired" => Pending(g) = {k}
<1>1. \A j \in ScheduledKinds : g.candidates[j].due \in Nat /\ g.candidates[j].sequence \in Nat
  BY DEF WellFormed, GeneratorType, Candidate
<1>2. k \in Pending(g) /\ Pending(g) \subseteq ScheduledKinds
  BY DEF IsHead, Pending
<1>3. \A j \in Pending(g) : g.candidates[k].due <= g.candidates[j].due
  BY <1>1, <1>2 DEF IsHead, Precedes
<1>4. ASSUME k = "expired", NEW j \in Pending(g), j # k PROVE FALSE
  <2>1. j \in MarketKinds
    BY <1>2, <1>4 DEF ScheduledKinds
  <2>2. g.candidates[j].due < Duration /\ g.candidates[k].due = Duration
    BY <1>2, <1>4, <2>1 DEF WellFormed, Within
  <2>3. Duration \in Nat
    BY GeneratorAssumption
  <2> QED BY <1>1, <1>2, <1>3, <2>2, <2>3
<1> QED BY <1>2, <1>3, <1>4

\* Commit: taking the head leaves a sound generator whose last times are those
\* of the head at most.
LEMMA TakeSound ==
    ASSUME NEW g, WellFormed(g), NEW k \in MarketKinds, IsHead(g, k)
    PROVE  /\ WellFormed(Take(g, k)) /\ Pending(Take(g, k)) = Pending(g) \ {k}
           /\ \A j \in ScheduledKinds \ {k} : Take(g, k).candidates[j] = g.candidates[j]
           /\ Take(g, k).last[k] = g.candidates[k].due
           /\ \A j \in MarketKinds : Take(g, k).last[j] <= Take(g, k).last[k]
<1> DEFINE t == Take(g, k)
           due == g.candidates[k].due
<1>1. /\ g \in GeneratorType /\ k \in ScheduledKinds /\ k \in Pending(g)
      /\ due \in Nat
      /\ k # "expired"
  BY DEF WellFormed, GeneratorType, Candidate, ScheduledKinds, MarketKinds, IsHead
<1>2. NoCandidate \in Candidate
  BY DEF NoCandidate, Candidate
<1>3. /\ t.generated = g.generated /\ t.drawn = g.drawn
      /\ t.committed = g.committed + 1
      /\ t.candidates = [g.candidates EXCEPT ![k] = NoCandidate]
      /\ t.last = [g.last EXCEPT ![k] = due]
      /\ t \in GeneratorType
  <2> DEFINE waits == [g.candidates EXCEPT ![k] = NoCandidate]
             lasts == [g.last EXCEPT ![k] = due]
             e == Updated(g, waits, g.committed + 1, lasts)
  <2>1. t = e
    BY <1>1 DEF Take, Updated
  <2>2. waits \in [ScheduledKinds -> Candidate] /\ lasts \in [MarketKinds -> Nat]
    BY <1>1, <1>2 DEF GeneratorType
  <2>3. /\ e.generated = g.generated /\ e.drawn = g.drawn
        /\ e.committed = g.committed + 1 /\ e.candidates = waits /\ e.last = lasts
        /\ e \in GeneratorType
    <3>1. g.committed + 1 \in Nat
      BY <1>1 DEF GeneratorType
    <3> HIDE DEF waits, lasts
    <3> QED BY <1>1, <2>2, <3>1, UpdatedSound
  <2> QED BY <2>1, <2>3
<1>4. /\ \A j \in ScheduledKinds \ {k} : t.candidates[j] = g.candidates[j]
      /\ t.candidates[k] = NoCandidate
  BY <1>1, <1>3 DEF GeneratorType
<1>5. Pending(t) = Pending(g) \ {k}
  BY <1>4 DEF Pending
<1>6. t.last[k] = due /\ \A j \in MarketKinds \ {k} : t.last[j] = g.last[j]
  BY <1>1, <1>3 DEF GeneratorType
<1>7. \A j \in MarketKinds : g.last[j] <= due
  BY <1>1 DEF WellFormed, Ahead
<1>8. \A j \in Pending(g) : due <= g.candidates[j].due
  BY <1>1, HeadIsEarliest
<1>9. Numbered(t) /\ Within(t) /\ Ahead(t)
  <2>1. \A j \in Pending(t) : j \in Pending(g) /\ t.candidates[j] = g.candidates[j]
    BY <1>4, <1>5 DEF Pending
  <2>2. Numbered(t)
    BY <1>3, <2>1 DEF WellFormed, Numbered
  <2>3. Within(t)
    BY <2>1 DEF WellFormed, Within
  <2>4. Ahead(t)
    BY <1>6, <1>8, <2>1 DEF WellFormed, Ahead
  <2> QED BY <2>2, <2>3, <2>4
<1>10. WellFormed(t)
  BY <1>3, <1>9 DEF WellFormed
<1>11. \A j \in MarketKinds : t.last[j] <= t.last[k]
  BY <1>1, <1>6, <1>7
<1> QED BY <1>4, <1>5, <1>6, <1>10, <1>11

-----------------------------------------------------------------------------
(* The invariant *)

\* NewGenerator() establishes the invariant.
LEMMA InitInv == GeneratorInit => GeneratorInv
<1> SUFFICES ASSUME GeneratorInit PROVE GeneratorInv
  OBVIOUS
<1>1. PICK customer \in CustomerCadence, mark \in MarkCadence :
        generator = NewGenerator(customer, mark)
  BY DEF GeneratorInit
<1>2. customer \in Nat \ {0} /\ mark \in Nat \ {0}
  BY GeneratorAssumption
<1>3. WellFormed(NewGenerator(customer, mark)) /\ Ended(NewGenerator(customer, mark))
  BY <1>2, NewGeneratorSound
<1> QED BY <1>1, <1>3 DEF GeneratorInv

\* What a commit does to a sound generator: nothing that waits afterwards is
\* due before the action that was committed, and only the next candidate of
\* its kind, with a new number, was not waiting before.
LEMMA CommitSound ==
    ASSUME NEW g, WellFormed(g), Ended(g), NEW k \in ScheduledKinds, IsHead(g, k),
           NEW interval \in Nat
    PROVE  LET n == CommitKind(g, k, interval)
           IN  /\ WellFormed(n) /\ Ended(n) /\ g.generated <= n.generated
               /\ \A j \in Pending(n) : g.candidates[k].due <= n.candidates[j].due
               /\ \A j \in Pending(n) \ {k} :
                    j \in Pending(g) /\ n.candidates[j] = g.candidates[j]
               /\ k \in Pending(n) => /\ n.candidates[k].due = g.candidates[k].due + interval
                                      /\ n.candidates[k].sequence = g.generated + 1
<1> DEFINE t == Take(g, k)
           n == CommitKind(g, k, interval)
<1>1. /\ \A j \in Pending(g) : g.candidates[k].due <= g.candidates[j].due
      /\ k = "expired" => Pending(g) = {k}
  BY HeadIsEarliest
<1>2. CASE k = "expired"
  <2>1. n = t
    BY <1>2 DEF CommitKind
  <2>2. /\ t.candidates = [g.candidates EXCEPT ![k] = NoCandidate]
        /\ t.generated = g.generated /\ t.last = g.last
        /\ t \in GeneratorType
    <3>1. NoCandidate \in Candidate /\ g \in GeneratorType
      BY DEF NoCandidate, Candidate, WellFormed
    <3> DEFINE waits == [g.candidates EXCEPT ![k] = NoCandidate]
               e == Updated(g, waits, g.committed + 1, g.last)
    <3>2. waits \in [ScheduledKinds -> Candidate]
      BY <3>1 DEF GeneratorType
    <3>3. t = e
      BY <1>2 DEF Take, Updated
    <3>4. /\ e.candidates = waits /\ e.generated = g.generated /\ e.last = g.last
          /\ e \in GeneratorType
      <4>1. g.committed + 1 \in Nat /\ g.last \in [MarketKinds -> Nat]
        BY <3>1 DEF GeneratorType
      <4> HIDE DEF waits
      <4> QED BY <3>1, <3>2, <4>1, UpdatedSound
    <3> QED BY <3>3, <3>4
  <2>3. Pending(t) = {}
    <3>1. g \in GeneratorType
      BY DEF WellFormed
    <3>2. /\ \A j \in ScheduledKinds \ {k} : t.candidates[j] = g.candidates[j]
          /\ t.candidates[k] = NoCandidate
      BY <2>2, <3>1 DEF GeneratorType
    <3> QED BY <1>1, <1>2, <3>2 DEF Pending
  <2>4. WellFormed(t) /\ Ended(t)
    BY <2>2, <2>3 DEF WellFormed, Numbered, Within, Ahead, Ended
  <2>5. g.generated <= t.generated
    BY <2>2 DEF WellFormed, GeneratorType
  <2> QED BY <2>1, <2>3, <2>4, <2>5
<1>3. CASE k # "expired"
  <2>1. k \in MarketKinds
    BY <1>3 DEF ScheduledKinds
  <2>2. n = Generate(t, k, interval)
    BY <1>3 DEF CommitKind
  <2>3. /\ WellFormed(t) /\ Pending(t) = Pending(g) \ {k}
        /\ \A j \in ScheduledKinds \ {k} : t.candidates[j] = g.candidates[j]
        /\ t.last[k] = g.candidates[k].due /\ t.generated = g.generated
        /\ \A j \in MarketKinds : t.last[j] <= t.last[k]
    <3>1. t.generated = g.generated
      BY DEF Take, WellFormed, GeneratorType
    <3> QED BY <2>1, <3>1, TakeSound
  <2>4. /\ WellFormed(n) /\ Pending(n) \in {Pending(t), Pending(t) \cup {k}}
        /\ \A j \in Pending(t) : n.candidates[j] = t.candidates[j]
        /\ n.generated \in {t.generated, t.generated + 1}
        /\ \A j \in Pending(n) \ Pending(t) : /\ n.candidates[j].due = t.last[k] + interval
                                             /\ n.candidates[j].sequence = t.generated + 1
    <3> HIDE DEF t
    <3>1. k \notin Pending(t)
      BY <2>3
    <3> QED BY <2>1, <2>2, <2>3, <3>1, GenerateSound
  <2> HIDE DEF t, n
  <2>5. \A j \in Pending(n) : g.candidates[k].due <= n.candidates[j].due
    <3>1. ASSUME NEW j \in Pending(t) PROVE g.candidates[k].due <= n.candidates[j].due
      <4>1. j \in Pending(g) /\ j \in ScheduledKinds \ {k}
        BY <2>3 DEF Pending
      <4> QED BY <1>1, <2>3, <2>4, <4>1
    <3>2. g.candidates[k].due \in Nat
      BY DEF WellFormed, GeneratorType, Candidate
    <3>3. g.candidates[k].due <= g.candidates[k].due + interval
      BY <3>2
    <3> QED BY <2>3, <2>4, <3>1, <3>3
  <2>6. Ended(n)
    <3>1. k \in Pending(g)
      BY DEF IsHead
    <3>2. "expired" \in Pending(g)
      BY <3>1 DEF Ended
    <3>3. "expired" \in Pending(n)
      BY <1>3, <2>3, <2>4, <3>2
    <3> QED BY <3>3 DEF Ended
  <2>7. g.generated <= n.generated
    <3>1. g.generated \in Nat
      BY DEF WellFormed, GeneratorType
    <3> QED BY <2>3, <2>4, <3>1
  <2>8. \A j \in Pending(n) \ {k} : j \in Pending(g) /\ n.candidates[j] = g.candidates[j]
    <3>1. \A j \in Pending(t) : j \in Pending(g) /\ j \in ScheduledKinds \ {k}
      BY <2>3 DEF Pending
    <3> QED BY <2>3, <2>4, <3>1
  <2>9. k \in Pending(n) => /\ n.candidates[k].due = g.candidates[k].due + interval
                           /\ n.candidates[k].sequence = g.generated + 1
    BY <2>3, <2>4
  <2> QED BY <2>4, <2>5, <2>6, <2>7, <2>8, <2>9 DEF n
<1> QED BY <1>2, <1>3

\* Every Commit() keeps it.
LEMMA CommitStep ==
    ASSUME GeneratorInv, NEW k \in ScheduledKinds, Commit(k)
    PROVE  /\ GeneratorInv'
           /\ \A j \in Pending(generator') :
                generator.candidates[k].due <= generator'.candidates[j].due
<1>1. PICK interval \in Intervals(k) : generator' = CommitKind(generator, k, interval)
  BY DEF Commit
<1>2. interval \in Nat
  BY GeneratorAssumption DEF Intervals
<1>3. WellFormed(generator) /\ Ended(generator) /\ IsHead(generator, k)
  BY DEF GeneratorInv, Commit
<1>4. /\ WellFormed(CommitKind(generator, k, interval)) /\ Ended(CommitKind(generator, k, interval))
      /\ \A j \in Pending(CommitKind(generator, k, interval)) :
           generator.candidates[k].due <= CommitKind(generator, k, interval).candidates[j].due
  BY <1>2, <1>3, CommitSound
<1> QED BY <1>1, <1>4 DEF GeneratorInv

\* So it always holds.
LEMMA Invariance == GeneratorSpec => []GeneratorInv
<1>1. GeneratorInit => GeneratorInv
  BY InitInv
<1>2. GeneratorInv /\ [GeneratorNext]_generator => GeneratorInv'
  <2> SUFFICES ASSUME GeneratorInv, [GeneratorNext]_generator PROVE GeneratorInv'
    OBVIOUS
  <2>1. CASE GeneratorNext
    <3>1. PICK k \in ScheduledKinds : Commit(k)
      BY <2>1 DEF GeneratorNext
    <3> QED BY <3>1, CommitStep
  <2>2. CASE UNCHANGED generator
    BY <2>2 DEF GeneratorInv
  <2> QED BY <2>1, <2>2
<1> QED BY <1>1, <1>2, PTL DEF GeneratorSpec

-----------------------------------------------------------------------------
(* The theorems *)

\* The schedule never holds anything due before what was committed, for all
\* cadences and draws: Next after Commit never moves the day back.
THEOREM ScheduleNeverInThePast == GeneratorSpec => []NothingInThePast
<1>1. GeneratorInv => NothingInThePast
  BY DEF GeneratorInv, WellFormed, Ahead, NothingInThePast
<1> QED BY <1>1, Invariance, PTL

\* Expiry waits until it is the only action left, and everything else is due
\* strictly before it (NewGenerator, and the three guards due >= Duration).
THEOREM ExpiryEndsTheSchedule == GeneratorSpec => []ExpiryIsLast
<1>1. GeneratorInv => ExpiryIsLast
  BY DEF GeneratorInv, WellFormed, Within, Ended, ExpiryIsLast, Pending, ScheduledKinds
<1> QED BY <1>1, Invariance, PTL

\* Each commit leaves a schedule whose actions are all due when the committed
\* one was, or later: the due times that the sequencer reads never decrease.
THEOREM DueTimesNeverDecrease ==
    GeneratorSpec =>
        [][\A k \in ScheduledKinds : IsHead(generator, k) =>
             \A j \in Pending(generator') :
                 generator.candidates[k].due <= generator'.candidates[j].due]_generator
<1> DEFINE InOrder ==
        \A k \in ScheduledKinds : IsHead(generator, k) =>
            \A j \in Pending(generator') :
                generator.candidates[k].due <= generator'.candidates[j].due
<1>1. GeneratorInv /\ [GeneratorNext]_generator => [InOrder]_generator
  <2> SUFFICES ASSUME GeneratorInv, GeneratorNext, NEW k \in ScheduledKinds, IsHead(generator, k),
                      NEW j \in Pending(generator')
               PROVE  generator.candidates[k].due <= generator'.candidates[j].due
    BY DEF InOrder
  <2>1. PICK i \in ScheduledKinds : Commit(i)
    BY DEF GeneratorNext
  <2>2. generator.candidates[i].due <= generator'.candidates[j].due
    BY <2>1, CommitStep
  <2>3. GeneratorInv'
    BY <2>1, CommitStep
  <2>4. /\ generator \in GeneratorType /\ generator' \in GeneratorType
        /\ j \in ScheduledKinds
    BY <2>3 DEF GeneratorInv, WellFormed, Pending
  <2>5. /\ generator.candidates[k].due \in Nat /\ generator.candidates[i].due \in Nat
        /\ generator'.candidates[j].due \in Nat
    BY <2>4 DEF GeneratorType, Candidate
  <2>6. generator.candidates[k].due <= generator.candidates[i].due
    <3>1. i \in Pending(generator)
      BY <2>1 DEF Commit, IsHead
    <3>2. WellFormed(generator)
      BY DEF GeneratorInv
    <3> QED BY <3>1, <3>2, HeadIsEarliest
  <2> QED BY <2>2, <2>5, <2>6
<1> QED BY <1>1, Invariance, PTL DEF GeneratorSpec

\* No two actions that wait have the same identifier, and a new one never gets
\* a number that was given out before (addCandidate).
THEOREM IdentifiersAreFresh ==
    GeneratorSpec => [](\A j, k \in Pending(generator) :
        /\ generator.candidates[k].sequence <= generator.generated
        /\ j # k => generator.candidates[j].sequence # generator.candidates[k].sequence)
<1>1. GeneratorInv => \A j, k \in Pending(generator) :
        /\ generator.candidates[k].sequence <= generator.generated
        /\ j # k => generator.candidates[j].sequence # generator.candidates[k].sequence
  BY DEF GeneratorInv, WellFormed, Numbered, GeneratorType
<1> QED BY <1>1, Invariance, PTL

-----------------------------------------------------------------------------
(* Sequences, and what begins them *)

IsSeq(s) == \E S : s \in Seq(S)

\* The first sequence is the beginning of the second.
Begins(s, t) == Len(s) <= Len(t) /\ \A i \in 1..Len(s) : s[i] = t[i]

-----------------------------------------------------------------------------
(* Sequences of records *)

\* A sequence of anything has a length.
LEMMA SeqLength == ASSUME NEW s, IsSeq(s) PROVE Len(s) \in Nat
<1>1. PICK S : s \in Seq(S)
  BY DEF IsSeq
<1> QED BY <1>1

\* Appending leaves the beginning alone.
LEMMA AppendSeq ==
    ASSUME NEW s, IsSeq(s), NEW e
    PROVE  /\ IsSeq(Append(s, e))
           /\ Len(Append(s, e)) = Len(s) + 1
           /\ Append(s, e)[Len(s) + 1] = e
           /\ Begins(s, Append(s, e))
<1>1. PICK S : s \in Seq(S)
  BY DEF IsSeq
<1> DEFINE T == S \cup {e}
<1>2. s \in Seq(T) /\ e \in T
  BY <1>1
<1> HIDE DEF T
<1>3. /\ Append(s, e) \in Seq(T) /\ Len(Append(s, e)) = Len(s) + 1 /\ Len(s) \in Nat
      /\ Append(s, e)[Len(s) + 1] = e
      /\ \A i \in 1..Len(s) : Append(s, e)[i] = s[i]
  BY <1>2
<1> QED BY <1>3 DEF IsSeq, Begins

\* Taking the last element away leaves the beginning.
LEMMA FrontSeq ==
    ASSUME NEW s, IsSeq(s), Len(s) > 0
    PROVE  /\ IsSeq(Front(s))
           /\ Len(Front(s)) = Len(s) - 1
           /\ Begins(Front(s), s)
<1>1. PICK S : s \in Seq(S)
  BY DEF IsSeq
<1>2. Len(s) \in Nat /\ Len(s) - 1 \in Nat
  BY <1>1
<1>3. /\ Front(s) \in Seq(S) /\ Len(Front(s)) = Len(s) - 1
      /\ \A i \in 1..(Len(s) - 1) : Front(s)[i] = s[i]
  <2>1. 1 \in Int /\ Len(s) - 1 \in Int /\ \A i \in 1..(Len(s) - 1) : s[i] \in S
    BY <1>1, <1>2
  <2>2. /\ SubSeq(s, 1, Len(s) - 1) \in Seq(S)
        /\ Len(SubSeq(s, 1, Len(s) - 1)) = IF 1 <= Len(s) - 1 THEN Len(s) - 1 - 1 + 1 ELSE 0
        /\ \A i \in 1..(Len(s) - 1 - 1 + 1) : SubSeq(s, 1, Len(s) - 1)[i] = s[1 + i - 1]
    BY <2>1, SubSeqProperties
  <2> DEFINE f == SubSeq(s, 1, Len(s) - 1)
  <2> HIDE DEF f
  <2>3. /\ f \in Seq(S) /\ Len(f) = Len(s) - 1
        /\ \A i \in 1..(Len(s) - 1) : f[i] = s[i]
    <3>1. \A i \in 1..(Len(s) - 1) : i \in 1..(Len(s) - 1 - 1 + 1) /\ 1 + i - 1 = i
      BY <1>2
    <3>2. Len(f) = IF 1 <= Len(s) - 1 THEN Len(s) - 1 - 1 + 1 ELSE 0
      BY <2>2 DEF f
    <3>3. \A i \in 1..(Len(s) - 1) : f[i] = s[1 + i - 1]
      BY <2>2, <3>1 DEF f
    <3>4. \A i \in 1..(Len(s) - 1) : f[i] = s[i]
      BY <3>1, <3>3
    <3>5. Len(f) = Len(s) - 1
      <4>1. ASSUME NEW n \in Nat, n - 1 \in Nat, NEW m, m = IF 1 <= n - 1 THEN n - 1 - 1 + 1 ELSE 0
            PROVE  m = n - 1
        BY <4>1
      <4> QED BY <1>2, <3>2, <4>1
    <3> QED BY <2>2, <3>4, <3>5 DEF f
  <2>4. Front(s) = f
    BY DEF Front, f
  <2> QED BY <2>3, <2>4
<1> QED BY <1>2, <1>3 DEF IsSeq, Begins

\* The empty sequence, as a sequence of anything.
LEMMA NoRecords == IsSeq(<<>>) /\ Len(<<>>) = 0
<1>1. <<>> \in Seq({}) /\ Len(<<>>) = 0
  BY EmptySeq
<1>2. IsSeq(<<>>)
  <2> DEFINE none == <<>>
  <2>1. none \in Seq({})
    BY <1>1
  <2> HIDE DEF none
  <2>2. IsSeq(none)
    BY <2>1 DEF IsSeq
  <2> QED BY <2>2 DEF none
<1> QED BY <1>1, <1>2

\* A beginning of a beginning is one.
LEMMA BeginsTransitive ==
    ASSUME NEW s, NEW t, NEW u, IsSeq(s), IsSeq(t), IsSeq(u), Begins(s, t), Begins(t, u)
    PROVE  Begins(s, u)
  BY SeqLength DEF Begins

\* A sequence begins itself.
LEMMA BeginsReflexive == ASSUME NEW s, IsSeq(s) PROVE Begins(s, s)
  BY SeqLength DEF Begins

\* What appending to a sequence and taking its last element away leaves.
LEMMA FrontOfAppend ==
    ASSUME NEW s, IsSeq(s), NEW e
    PROVE  /\ IsSeq(Front(Append(s, e))) /\ Len(Front(Append(s, e))) = Len(s)
           /\ Begins(s, Front(Append(s, e)))
<1>1. Len(s) \in Nat
  BY SeqLength
<1>2. /\ IsSeq(Append(s, e)) /\ Len(Append(s, e)) = Len(s) + 1 /\ Begins(s, Append(s, e))
  BY AppendSeq
<1>3. /\ IsSeq(Front(Append(s, e))) /\ Len(Front(Append(s, e))) = Len(s)
      /\ Begins(Front(Append(s, e)), Append(s, e))
  <2> DEFINE a == Append(s, e)
  <2>1. IsSeq(a) /\ Len(a) = Len(s) + 1
    BY <1>2
  <2> HIDE DEF a
  <2>2. Len(a) > 0 /\ Len(a) - 1 = Len(s)
    BY <1>1, <2>1
  <2>3. IsSeq(Front(a)) /\ Len(Front(a)) = Len(s) /\ Begins(Front(a), a)
    BY <2>1, <2>2, FrontSeq
  <2> QED BY <2>3 DEF a
<1>4. \A i \in 1..Len(s) : Front(Append(s, e))[i] = s[i]
  <2> DEFINE a == Append(s, e)
             f == Front(a)
  <2> HIDE DEF a, f
  <2>1. \A i \in 1..Len(s) : a[i] = s[i]
    BY <1>2 DEF Begins, a
  <2>2. \A i \in 1..Len(s) : f[i] = a[i]
    <3>1. Begins(f, a) /\ Len(f) = Len(s)
      BY <1>3 DEF a, f
    <3> QED BY <3>1 DEF Begins
  <2>3. \A i \in 1..Len(s) : f[i] = s[i]
    BY <2>1, <2>2
  <2> QED BY <2>3 DEF a, f
<1> QED BY <1>1, <1>3, <1>4 DEF Begins

-----------------------------------------------------------------------------
(* The invariant *)

\* A sequencer that executes nothing: there is none, it failed, or it closed.
Dead == {"none", "failed", "closed"}

\* The records in memory are the beginning of what survives a crash, and all
\* of the file while the entry is not fenced.
StoreInv ==
    /\ IsSeq(file) /\ IsSeq(commands)
    /\ doubtful \in BOOLEAN /\ (doubtful => Len(file) > 0)
    /\ Begins(commands, Durable)
    /\ loaded /\ ~failed => commands = file /\ ~doubtful
    /\ mode = RealTime => \A i \in 1..Len(file) : file[i].lifecycle \notin Dead

\* ToldIsRecorded, with the range of the versions.
ToldInv == \A t \in told : t.at \in 1..Len(Durable) /\ t = Answer(Durable[t.at], t.at)

\* A fenced entry has no sequencer that could execute anything, a request is
\* only processed by a sequencer that can, and turn-based games have none.
LoopInv ==
    /\ mode \in {TurnBased, RealTime} /\ loaded \in BOOLEAN /\ failed \in BOOLEAN
    /\ failed => loaded /\ (mode = RealTime => status \in {"failed", "closed"})
    /\ ~loaded => status = "none" /\ job = NoJob /\ commands = <<>>
    /\ job # NoJob => status \notin Dead
    /\ mode = TurnBased => status = "none"
    /\ status = "closed" => stopping \in {"stopped", "aborted"}
    /\ RestoredAsPaused

SessionInv == StoreInv /\ ToldInv /\ LoopInv

-----------------------------------------------------------------------------
(* What the storage keeps *)

\* What survives a crash is a beginning of the file.
LEMMA DurableSeq ==
    ASSUME StoreInv
    PROVE  IsSeq(Durable) /\ Begins(Durable, file)
<1>1. CASE doubtful
  BY <1>1, FrontSeq DEF StoreInv, Durable
<1>2. CASE ~doubtful
  BY <1>2, BeginsReflexive DEF StoreInv, Durable
<1> QED BY <1>1, <1>2

\* What clients were told stays true while what survives a crash only grows.
LEMMA ToldStays ==
    ASSUME ToldInv, IsSeq(Durable), IsSeq(Durable'), Begins(Durable, Durable')
    PROVE  \A t \in told : t.at \in 1..Len(Durable') /\ t = Answer(Durable'[t.at], t.at)
<1>1. SUFFICES ASSUME NEW t \in told PROVE t.at \in 1..Len(Durable') /\ t = Answer(Durable'[t.at], t.at)
  OBVIOUS
<1>2. t.at \in 1..Len(Durable) /\ t = Answer(Durable[t.at], t.at)
  BY <1>1 DEF ToldInv
<1>3. Len(Durable) \in Nat /\ Len(Durable') \in Nat /\ Len(Durable) <= Len(Durable')
  BY SeqLength DEF Begins
<1>4. Durable[t.at] = Durable'[t.at]
  BY <1>2 DEF Begins
<1> QED BY <1>2, <1>3, <1>4

\* The same for a step that tells nothing more.
LEMMA ToldKept ==
    ASSUME ToldInv, IsSeq(Durable), IsSeq(Durable'), Begins(Durable, Durable'), told' = told
    PROVE  ToldInv'
  BY ToldStays DEF ToldInv

\* A step that leaves the records alone.
LEMMA StorageIdle ==
    ASSUME StoreInv, UNCHANGED <<mode, storage, loaded, failed, commands>>
    PROVE  StoreInv' /\ Durable' = Durable
<1>1. /\ file' = file /\ doubtful' = doubtful /\ mode' = mode /\ loaded' = loaded
      /\ failed' = failed /\ commands' = commands
  BY DEF storage
<1>2. Durable' = Durable
  BY <1>1 DEF Durable
<1> QED BY <1>1, <1>2 DEF StoreInv

\* A step that leaves the records and what clients were told alone.
LEMMA NothingTold ==
    ASSUME StoreInv, ToldInv, UNCHANGED <<mode, storage, loaded, failed, commands, told>>
    PROVE  StoreInv' /\ ToldInv'
<1>1. StoreInv' /\ Durable' = Durable /\ told' = told
  BY StorageIdle
<1> QED BY <1>1 DEF ToldInv

\* A commit appends to the file, behind a barrier, what it appends in memory.
LEMMA CommitsKeep ==
    ASSUME StoreInv, loaded, ~failed, NEW r, NEW out, Commits(r, out),
           UNCHANGED <<mode, loaded>>,
           mode = RealTime => r.lifecycle \notin Dead
    PROVE  /\ StoreInv'
           /\ IsSeq(Durable) /\ IsSeq(Durable') /\ Begins(Durable, Durable')
           /\ Durable' = commands' /\ Len(commands') = Len(commands) + 1
           /\ commands'[Len(commands')] = r /\ Len(commands) \in Nat
<1>1. /\ commands = file /\ ~doubtful /\ IsSeq(file) /\ Durable = file
  BY DEF StoreInv, Durable
<1>2. /\ file' = Append(file, r) /\ commands' = file' /\ doubtful' = FALSE
      /\ failed' = failed /\ mode' = mode /\ loaded' = loaded
  BY <1>1 DEF Commits
<1>3. Durable' = file'
  BY <1>2 DEF Durable
<1>4. /\ IsSeq(file') /\ Len(file') = Len(file) + 1 /\ file'[Len(file) + 1] = r
      /\ Begins(file, file') /\ Len(file) \in Nat
  BY <1>1, <1>2, AppendSeq, SeqLength
<1>5. mode = RealTime => \A i \in 1..Len(file') : file'[i].lifecycle \notin Dead
  BY <1>4 DEF StoreInv, Begins
<1>6. Begins(commands', Durable')
  BY <1>2, <1>3, <1>4, BeginsReflexive
<1>7. StoreInv'
  BY <1>2, <1>4, <1>5, <1>6 DEF StoreInv
<1> QED BY <1>1, <1>2, <1>3, <1>4, <1>7

\* A failed append leaves a line in doubt behind what memory has, or none.
LEMMA AppendFailsKeeps ==
    ASSUME StoreInv, loaded, ~failed, NEW r, NEW out, AppendFails(r, out),
           UNCHANGED <<mode, loaded>>,
           mode = RealTime => r.lifecycle \notin Dead
    PROVE  /\ StoreInv' /\ failed' = TRUE /\ commands' = commands
           /\ IsSeq(Durable) /\ IsSeq(Durable') /\ Begins(Durable, Durable')
<1>1. commands = file /\ ~doubtful /\ IsSeq(file) /\ Durable = file
  BY DEF StoreInv, Durable
<1>2. failed' = TRUE /\ commands' = commands /\ mode' = mode /\ loaded' = loaded
  BY DEF AppendFails
<1>3. CASE UNCHANGED storage
  <2>1. file' = file /\ doubtful' = doubtful /\ Durable' = Durable
    BY <1>3 DEF storage, Durable
  <2>2. StoreInv'
    BY <1>2, <2>1 DEF StoreInv
  <2> QED BY <1>1, <1>2, <2>1, <2>2, BeginsReflexive
<1>4. CASE file' = Append(file, r) /\ doubtful' = TRUE
  <2>1. /\ IsSeq(file') /\ Len(file') = Len(file) + 1 /\ file'[Len(file) + 1] = r
        /\ Begins(file, file') /\ Len(file) \in Nat
    BY <1>1, <1>4, AppendSeq, SeqLength
  <2>2. Durable' = Front(file')
    BY <1>4 DEF Durable
  <2>3. IsSeq(Durable') /\ Begins(file, Durable')
    BY <1>1, <1>4, <2>2, FrontOfAppend
  <2>4. mode = RealTime => \A i \in 1..Len(file') : file'[i].lifecycle \notin Dead
    BY <2>1 DEF StoreInv, Begins
  <2>5. StoreInv'
    BY <1>1, <1>2, <1>4, <2>1, <2>3, <2>4 DEF StoreInv
  <2> QED BY <1>1, <1>2, <2>3, <2>5
<1> QED BY <1>3, <1>4 DEF AppendFails

-----------------------------------------------------------------------------
(* The steps of the loop *)

\* A sequencer that executes belongs to an entry that serves.
LEMMA AliveServes ==
    ASSUME LoopInv, status \notin Dead
    PROVE  loaded /\ ~failed /\ mode = RealTime
  BY DEF LoopInv, Dead, TurnBased, RealTime

\* No record of a real-time day carries a lifecycle that the log does not have.
LEMMA RecordAlive ==
    ASSUME StoreInv, loaded, ~failed, mode = RealTime, NEW a, NEW at, NEW out
    PROVE  RecordOf(a, at, out).lifecycle \notin Dead
<1>1. LifecycleOf(commands) \notin Dead
  <2>1. CASE commands = <<>>
    BY <2>1 DEF LifecycleOf, Dead
  <2>2. CASE commands # <<>>
    <3>1. commands = file /\ IsSeq(file)
      BY DEF StoreInv
    <3>2. Len(file) \in 1..Len(file)
      <4>1. PICK S : file \in Seq(S)
        BY <3>1 DEF IsSeq
      <4> QED BY <2>2, <3>1, <4>1, EmptySeq
    <3>3. file[Len(file)].lifecycle \notin Dead
      BY <3>2 DEF StoreInv
    <3> QED BY <2>2, <3>1, <3>3 DEF LifecycleOf, Last
  <2> QED BY <2>1, <2>2
<1>2. LifecycleAfter(LifecycleOf(commands), a, out) \notin Dead
  BY <1>1 DEF LifecycleAfter, Dead
<1> QED BY <1>2 DEF RecordOf, Record

\* What the execution of an action by the loop keeps.
LEMMA LoopExecutesKeeps ==
    ASSUME StoreInv, LoopInv, status \notin Dead, NEW a, NEW next, LoopExecutes(a, next),
           next \notin Dead
    PROVE  /\ StoreInv'
           /\ IsSeq(Durable) /\ IsSeq(Durable') /\ Begins(Durable, Durable')
           /\ mode' = mode /\ loaded' = loaded
           /\ \/ /\ failed' = failed /\ status' = next
                 /\ Durable' = commands' /\ Len(commands') = Len(commands) + 1
                 /\ Len(commands) \in Nat
              \/ failed' = TRUE /\ status' = "failed" /\ commands' = commands
<1> DEFINE out == Outcome(a)
           r == RecordOf(a, elapsed, out)
<1>1. loaded /\ ~failed /\ mode = RealTime
  BY AliveServes
<1>2. r.lifecycle \notin Dead
  BY <1>1, RecordAlive
<1>3. UNCHANGED <<mode, loaded>>
  BY DEF LoopExecutes, fixed
<1> HIDE DEF r, out
<1>4. CASE Commits(r, out) /\ status' = next
  <2>1. failed' = failed
    BY <1>4 DEF Commits
  <2> QED BY <1>1, <1>2, <1>3, <1>4, <2>1, CommitsKeep
<1>5. CASE AppendFails(r, out) /\ status' = "failed"
  BY <1>1, <1>2, <1>3, <1>5, AppendFailsKeeps
<1> QED BY <1>4, <1>5 DEF LoopExecutes, r, out

\* A sequencer that executed something runs on or fails with its entry.
LEMMA LoopGoesOn ==
    ASSUME LoopInv, status \notin Dead, mode' = mode, loaded' = loaded,
           \/ failed' = failed /\ status' \notin Dead
           \/ failed' = TRUE /\ status' = "failed" /\ job' = NoJob
    PROVE  LoopInv'
<1>1. loaded = TRUE /\ failed = FALSE /\ mode = RealTime
  BY AliveServes DEF LoopInv
<1>2. mode' \in {TurnBased, RealTime} /\ loaded' \in BOOLEAN /\ failed' \in BOOLEAN
  BY <1>1
<1>3. failed' => loaded' /\ (mode' = RealTime => status' \in {"failed", "closed"})
  BY <1>1
<1>4. ~loaded' => status' = "none" /\ job' = NoJob /\ commands' = <<>>
  BY <1>1
<1>5. status' # "none" /\ status' # "closed"
  BY DEF Dead
<1>6. job' # NoJob => status' \notin Dead
  OBVIOUS
<1>7. mode' # TurnBased
  BY <1>1 DEF TurnBased, RealTime
<1>8. RestoredAsPaused'
  BY <1>5 DEF RestoredAsPaused
<1> QED BY <1>2, <1>3, <1>4, <1>5, <1>6, <1>7, <1>8 DEF LoopInv

\* The countdown ends.
LEMMA CountdownCompletesInv ==
    ASSUME SessionInv, CountdownCompletes PROVE SessionInv'
<1> DEFINE a == Action(<<"countdown", Last(commands).id>>, "countdown", 0)
<1>1. /\ status = "countdown" /\ LoopExecutes(a, "running")
      /\ UNCHANGED <<elapsed, job, stopping, clients>> /\ job = NoJob
  BY DEF CountdownCompletes, Idle, shutdown
<1> HIDE DEF a
<1>2. status \notin Dead /\ "running" \notin Dead
  BY <1>1 DEF Dead
<1>3. loaded /\ ~failed /\ mode = RealTime
  BY <1>2, AliveServes DEF SessionInv
<1>4. /\ StoreInv' /\ IsSeq(Durable) /\ IsSeq(Durable') /\ Begins(Durable, Durable')
      /\ mode' = mode /\ loaded' = loaded
      /\ \/ failed' = failed /\ status' = "running"
         \/ failed' = TRUE /\ status' = "failed"
  BY <1>1, <1>2, LoopExecutesKeeps DEF SessionInv
<1>5. ToldInv'
  BY <1>1, <1>4, ToldKept DEF SessionInv, clients
<1>6. LoopInv'
  BY <1>1, <1>2, <1>4, LoopGoesOn DEF SessionInv
<1> QED BY <1>4, <1>5, <1>6 DEF SessionInv

\* The loop finishes a request.
LEMMA FinishInv == ASSUME SessionInv, Finish PROVE SessionInv'
<1> DEFINE next == Leads(job, Outcome(job))
<1>1. /\ job # NoJob /\ LoopExecutes(job, next) /\ job' = NoJob
      /\ told' = IF commands' # commands /\ job.id \in IDs
                   THEN told \cup {Answer(Last(commands'), Len(commands'))}
                   ELSE told
      /\ stopping' = stopping
  BY DEF Finish, shutdown
<1>2. status \notin Dead
  BY <1>1 DEF SessionInv, LoopInv
<1>3. next \notin Dead
  BY <1>2 DEF Leads, LifecycleAfter, Dead
<1> HIDE DEF next
<1>4. loaded /\ ~failed /\ mode = RealTime
  BY <1>2, AliveServes DEF SessionInv
<1>5. /\ StoreInv' /\ IsSeq(Durable) /\ IsSeq(Durable') /\ Begins(Durable, Durable')
      /\ mode' = mode /\ loaded' = loaded
      /\ \/ /\ failed' = failed /\ status' = next
            /\ Durable' = commands' /\ Len(commands') = Len(commands) + 1
            /\ Len(commands) \in Nat
         \/ failed' = TRUE /\ status' = "failed" /\ commands' = commands
  BY <1>1, <1>2, <1>3, LoopExecutesKeeps DEF SessionInv
<1>6. ToldInv'
  <2>1. CASE told' = told
    BY <1>5, <2>1, ToldKept DEF SessionInv
  <2>2. CASE told' # told
    <3>1. /\ told' = told \cup {Answer(Last(commands'), Len(commands'))}
          /\ commands' # commands
      BY <1>1, <2>2
    <3>2. Durable' = commands' /\ Len(commands') = Len(commands) + 1 /\ Len(commands) \in Nat
      BY <1>5, <3>1
    <3>3. \A t \in told : t.at \in 1..Len(Durable') /\ t = Answer(Durable'[t.at], t.at)
      BY <1>5, ToldStays DEF SessionInv
    <3> DEFINE t == Answer(Last(commands'), Len(commands'))
    <3>4. t.at = Len(commands') /\ t = Answer(commands'[Len(commands')], Len(commands'))
      BY DEF Answer, Last
    <3>5. t.at \in 1..Len(Durable') /\ t = Answer(Durable'[t.at], t.at)
      BY <3>2, <3>4
    <3> HIDE DEF t
    <3> QED BY <3>1, <3>3, <3>5 DEF ToldInv, t
  <2> QED BY <2>1, <2>2
<1>7. LoopInv'
  BY <1>1, <1>2, <1>3, <1>5, LoopGoesOn DEF SessionInv
<1> QED BY <1>5, <1>6, <1>7 DEF SessionInv

\* A scheduled action is executed.
LEMMA ExecuteDueInv ==
    ASSUME SessionInv, NEW k \in ScheduledKinds, ExecuteDue(k) PROVE SessionInv'
<1> DEFINE a == Scheduled(generator, k)
           out == Outcome(a)
           r == RecordOf(a, generator.candidates[k].due, out)
<1>1. /\ job # NoJob /\ status = "running"
      /\ \/ Commits(r, out) /\ status' = r.lifecycle /\ job' \in {NoJob, job}
         \/ AppendFails(r, out) /\ status' = "failed" /\ job' = NoJob
      /\ UNCHANGED <<mode, loaded, stopping, told>>
  BY DEF ExecuteDue, fixed, clients, shutdown
<1>2. loaded /\ ~failed /\ mode = RealTime
  BY <1>1, AliveServes DEF SessionInv, Dead
<1>3. r.lifecycle \notin Dead
  BY <1>2, RecordAlive DEF SessionInv
<1> HIDE DEF r, out, a
<1>4. /\ StoreInv' /\ IsSeq(Durable) /\ IsSeq(Durable') /\ Begins(Durable, Durable')
      /\ \/ failed' = failed /\ status' = r.lifecycle /\ job' \in {NoJob, job}
         \/ failed' = TRUE /\ status' = "failed" /\ job' = NoJob
  <2>1. CASE Commits(r, out) /\ status' = r.lifecycle /\ job' \in {NoJob, job}
    <3>1. failed' = failed
      BY <2>1 DEF Commits
    <3> QED BY <1>1, <1>2, <1>3, <2>1, <3>1, CommitsKeep DEF SessionInv
  <2>2. CASE AppendFails(r, out) /\ status' = "failed" /\ job' = NoJob
    BY <1>1, <1>2, <1>3, <2>2, AppendFailsKeeps DEF SessionInv
  <2> QED BY <1>1, <2>1, <2>2
<1>5. ToldInv'
  BY <1>1, <1>4, ToldKept DEF SessionInv
<1>6. LoopInv'
  BY <1>1, <1>3, <1>4, LoopGoesOn DEF SessionInv, Dead
<1> QED BY <1>4, <1>5, <1>6 DEF SessionInv

\* The steps that leave the records and what clients were told alone, but for
\* the sequencer.
QuietStep ==
    \/ BuildSequencer \/ Tick \/ TimerFires \/ FinishView \/ FinishTimer
    \/ \E a \in Requests \cup {ViewJob} : Receive(a)
    \/ \E k \in {"customer", "mark"} : DueActionFails(k)
    \/ ShutdownNext \/ TurnView

\* What the quiet steps leave alone.
LEMMA QuietStepKeeps ==
    ASSUME QuietStep
    PROVE  UNCHANGED <<mode, storage, loaded, failed, commands, told>>
  BY DEF QuietStep, BuildSequencer, Tick, TimerFires, FinishView, FinishTimer, Receive, TurnView,
         DueActionFails, ShutdownNext, Drain, ShutdownSnapshot, SendShutdownPause, ShutdownPauseReturns,
         ShutdownCloses, fixed, memory, clients

\* A request is received by a sequencer that runs.
LEMMA ReceiveAlive ==
    ASSUME LoopInv, NEW a \in Requests \cup {ViewJob}, Receive(a)
    PROVE  status \notin Dead
<1>1. status # "none" /\ Admitted(a.kind) /\ stopping = "up"
  BY DEF Receive, Idle
<1>2. mode = RealTime /\ status # "closed"
  BY <1>1 DEF LoopInv
<1>3. a.kind \in {"start", "quote", "pause", "resume", "quit", "view"}
  BY <1>2 DEF Requests, ViewJob, Action
<1>4. status # "failed"
  BY <1>1, <1>3 DEF Admitted, Active
<1> QED BY <1>1, <1>2, <1>4 DEF Dead

\* The quiet steps, for the sequencer.
LEMMA QuietStepLoop ==
    ASSUME LoopInv, QuietStep, UNCHANGED <<mode, loaded, failed, commands>>
    PROVE  LoopInv'
<1>1. CASE BuildSequencer
  <2>1. /\ loaded /\ mode = RealTime /\ status = "none" /\ job' = job
        /\ status' \in {"preparing", "completed", "paused"}
    BY <1>1 DEF BuildSequencer, CheckpointValid
  <2>2. ~failed
    BY <2>1 DEF LoopInv
  <2> QED BY <2>1, <2>2 DEF LoopInv, RestoredAsPaused, Dead, TurnBased, RealTime
<1>2. CASE Tick \/ FinishView \/ FinishTimer
  <2>1. status' = status /\ stopping' = stopping /\ job' \in {NoJob, job}
    BY <1>2 DEF Tick, FinishView, FinishTimer, shutdown
  <2> QED BY <2>1 DEF LoopInv, RestoredAsPaused
<1>3. CASE TimerFires
  <2>1. status = "running" /\ status' = status /\ stopping' = stopping
    BY <1>3 DEF TimerFires, shutdown
  <2> QED BY <2>1 DEF LoopInv, RestoredAsPaused, Dead
<1>4. ASSUME NEW a \in Requests \cup {ViewJob}, Receive(a) PROVE LoopInv'
  <2>1. status \notin Dead
    BY <1>4, ReceiveAlive
  <2>2. status' = status /\ stopping' = stopping
    BY <1>4 DEF Receive, shutdown
  <2>3. loaded
    BY <2>1, AliveServes
  <2> QED BY <2>1, <2>2, <2>3 DEF LoopInv, RestoredAsPaused
<1>5. CASE TurnView
  <2>1. status' = status /\ stopping' = stopping /\ job' = job
    BY <1>5 DEF TurnView, loop, shutdown
  <2> QED BY <2>1 DEF LoopInv, RestoredAsPaused
<1>6. CASE Drain \/ ShutdownSnapshot \/ ShutdownPauseReturns
  <2>1. /\ status' = status /\ job' = job
        /\ stopping \in {"up", "drained", "pausing"}
    BY <1>6 DEF Drain, ShutdownSnapshot, ShutdownPauseReturns, loop
  <2> QED BY <2>1 DEF LoopInv, RestoredAsPaused
<1>7. CASE SendShutdownPause
  <2>1. /\ status' = status /\ status # "none" /\ stopping = "snapped"
        /\ job' # job => status \in Active
        /\ job = NoJob
    BY <1>7 DEF SendShutdownPause, Idle, Admitted
  <2>2. status \notin {"closed"} /\ Active \cap Dead = {}
    BY <2>1 DEF LoopInv, Active, Dead
  <2>3. job' # NoJob => status \notin Dead
    BY <2>1, <2>2
  <2> QED BY <2>1, <2>2, <2>3 DEF LoopInv, RestoredAsPaused
<1>8. CASE ShutdownCloses
  <2>1. /\ status' = "closed" /\ stopping' \in {"stopped", "aborted"}
        /\ job' = NoJob /\ status # "none"
    BY <1>8 DEF ShutdownCloses, Idle
  <2>2. mode = RealTime /\ loaded
    BY <2>1 DEF LoopInv
  <2> QED BY <2>1, <2>2 DEF LoopInv, RestoredAsPaused, TurnBased, RealTime
<1>9. ASSUME NEW k \in {"customer", "mark"}, DueActionFails(k) PROVE LoopInv'
  <2>1. status = "running" /\ status' = "failed" /\ job' = NoJob
    BY <1>9 DEF DueActionFails
  <2>2. mode = RealTime /\ loaded /\ ~failed
    BY <2>1, AliveServes DEF Dead
  <2> QED BY <2>1, <2>2 DEF LoopInv, RestoredAsPaused, TurnBased, RealTime
<1> QED BY <1>1, <1>2, <1>3, <1>4, <1>5, <1>6, <1>7, <1>8, <1>9 DEF QuietStep, ShutdownNext

\* The quiet steps.
LEMMA QuietStepInv == ASSUME SessionInv, QuietStep PROVE SessionInv'
<1>1. UNCHANGED <<mode, storage, loaded, failed, commands, told>>
  BY QuietStepKeeps
<1>2. StoreInv' /\ ToldInv'
  BY <1>1, NothingTold DEF SessionInv
<1>3. LoopInv'
  BY <1>1, QuietStepLoop DEF SessionInv
<1> QED BY <1>2, <1>3 DEF SessionInv

-----------------------------------------------------------------------------
(* Retries and the turn-based entry *)

\* What a retry is told is a record that no crash takes back.
LEMMA RetryInv == ASSUME SessionInv, NEW a, Retry(a) PROVE SessionInv'
<1>1. PICK i \in DOMAIN commands : told' = told \cup {Answer(commands[i], i)}
  BY DEF Retry, AnsweredFromRecord
<1>2. UNCHANGED <<mode, storage, loaded, failed, commands, status, job, stopping>>
  BY DEF Retry, fixed, memory, loop, shutdown
<1>3. StoreInv' /\ Durable' = Durable
  BY <1>2, StorageIdle DEF SessionInv
<1>4. i \in 1..Len(Durable) /\ commands[i] = Durable[i]
  <2>1. IsSeq(commands) /\ Begins(commands, Durable) /\ IsSeq(Durable)
    BY DurableSeq DEF SessionInv, StoreInv
  <2>2. DOMAIN commands = 1..Len(commands)
    <3>1. PICK S : commands \in Seq(S)
      BY <2>1 DEF IsSeq
    <3> QED BY <3>1
  <2>3. Len(commands) \in Nat /\ Len(Durable) \in Nat
    BY <2>1, SeqLength
  <2> QED BY <1>1, <2>1, <2>2, <2>3 DEF Begins
<1>5. ToldInv'
  BY <1>1, <1>3, <1>4 DEF SessionInv, ToldInv, Answer
<1>6. LoopInv'
  BY <1>2 DEF SessionInv, LoopInv, RestoredAsPaused
<1> QED BY <1>3, <1>5, <1>6 DEF SessionInv

\* A turn-based step has no sequencer to change.
LEMMA TurnLoop ==
    ASSUME LoopInv, mode = TurnBased, loaded, UNCHANGED <<mode, loaded, loop, stopping>>,
           failed' \in BOOLEAN
    PROVE  LoopInv'
<1>1. status' = status /\ job' = job /\ stopping' = stopping /\ mode' = mode /\ loaded' = loaded
  BY DEF loop, shutdown
<1> QED BY <1>1 DEF LoopInv, RestoredAsPaused, TurnBased, RealTime

\* A turn-based command.
LEMMA TurnCommandInv == ASSUME SessionInv, NEW a, TurnCommand(a) PROVE SessionInv'
<1> DEFINE r == TurnRecord(a)
           t == Answer(r, Len(commands'))
<1>1. /\ mode = TurnBased /\ loaded /\ ~failed /\ Commits(r, Outcome(a))
      /\ told' = told \cup {t}
      /\ UNCHANGED <<mode, loaded, loop, stopping>>
  BY DEF TurnCommand, TurnAdmitted, fixed, shutdown
<1> HIDE DEF r
<1>2. /\ StoreInv' /\ IsSeq(Durable) /\ IsSeq(Durable') /\ Begins(Durable, Durable')
      /\ Durable' = commands' /\ Len(commands') = Len(commands) + 1
      /\ commands'[Len(commands')] = r /\ Len(commands) \in Nat
  BY <1>1, CommitsKeep DEF SessionInv, TurnBased, RealTime
<1>3. t.at \in 1..Len(Durable') /\ t = Answer(Durable'[t.at], t.at)
  BY <1>2 DEF Answer
<1>4. \A u \in told : u.at \in 1..Len(Durable') /\ u = Answer(Durable'[u.at], u.at)
  BY <1>2, ToldStays DEF SessionInv
<1> HIDE DEF t
<1>5. ToldInv'
  BY <1>1, <1>3, <1>4 DEF ToldInv
<1>6. LoopInv'
  <2>1. failed' = failed
    BY <1>1 DEF Commits
  <2> QED BY <1>1, <2>1, TurnLoop DEF SessionInv, LoopInv
<1> QED BY <1>2, <1>5, <1>6 DEF SessionInv

\* The file that a failed append leaves to a turn-based game.
LEMMA TurnFileKeeps ==
    ASSUME StoreInv, loaded, ~failed, NEW r, file' \in {file, Append(file, r)}
    PROVE  /\ IsSeq(file) /\ Durable = file /\ commands = file
           /\ IsSeq(file') /\ Begins(file, file')
           /\ file' # file => /\ Len(file') > 0
                             /\ IsSeq(Front(file')) /\ Begins(file, Front(file'))
<1>1. IsSeq(file) /\ Durable = file /\ commands = file /\ Len(file) \in Nat
  BY SeqLength DEF StoreInv, Durable
<1>2. CASE file' = file
  BY <1>1, <1>2, BeginsReflexive
<1>3. CASE file' = Append(file, r)
  BY <1>1, <1>3, AppendSeq, FrontOfAppend
<1> QED BY <1>1, <1>2, <1>3

\* A turn-based command whose append fails.
LEMMA TurnCommandFailsInv == ASSUME SessionInv, NEW a, TurnCommandFails(a) PROVE SessionInv'
<1> DEFINE r == TurnRecord(a)
<1>1. /\ mode = TurnBased /\ loaded /\ ~failed
      /\ file' \in {file, Append(file, r)}
      /\ \/ commands' = file' /\ failed' = FALSE /\ doubtful' = FALSE
         \/ commands' = commands /\ failed' = TRUE /\ doubtful' = (file' # file)
      /\ UNCHANGED <<mode, loaded, loop, stopping>> /\ told' = told
  BY DEF TurnCommandFails, TurnAdmitted, Rebuild, fixed, clients, shutdown
<1> HIDE DEF r
<1>2. /\ IsSeq(file) /\ Durable = file /\ commands = file
      /\ IsSeq(file') /\ Begins(file, file')
      /\ file' # file => /\ Len(file') > 0
                        /\ IsSeq(Front(file')) /\ Begins(file, Front(file'))
  BY <1>1, TurnFileKeeps DEF SessionInv
<1>3. mode' # RealTime
  BY <1>1 DEF TurnBased, RealTime
<1>4. StoreInv' /\ IsSeq(Durable') /\ Begins(Durable, Durable')
  <2>1. CASE commands' = file' /\ failed' = FALSE /\ doubtful' = FALSE
    <3>1. Durable' = file'
      BY <2>1 DEF Durable
    <3> QED BY <1>2, <1>3, <2>1, <3>1, BeginsReflexive DEF StoreInv
  <2>2. CASE commands' = commands /\ failed' = TRUE /\ doubtful' = (file' # file)
    <3>1. Durable' = IF file' # file THEN Front(file') ELSE file'
      BY <2>2 DEF Durable
    <3>2. IsSeq(Durable') /\ Begins(file, Durable')
      BY <1>2, <3>1
    <3> QED BY <1>2, <1>3, <2>2, <3>2 DEF StoreInv
  <2> QED BY <1>1, <2>1, <2>2
<1>5. ToldInv'
  BY <1>1, <1>2, <1>4, ToldKept DEF SessionInv
<1>6. LoopInv'
  BY <1>1, TurnLoop DEF SessionInv
<1> QED BY <1>4, <1>5, <1>6 DEF SessionInv

-----------------------------------------------------------------------------
(* Ends and beginnings of the process *)

\* The process ends.
LEMMA ForgetInv ==
    ASSUME SessionInv, Forget, IsSeq(file'), doubtful' \in BOOLEAN,
           doubtful' => Len(file') > 0,
           IsSeq(Durable'), Begins(Durable, Durable'), Begins(file', file)
    PROVE  SessionInv'
<1>1. /\ loaded' = FALSE /\ failed' = FALSE /\ commands' = <<>> /\ status' = "none"
      /\ job' = NoJob /\ mode' = mode /\ told' = told
  BY DEF Forget, fixed, clients
<1>2. IsSeq(Durable)
  BY DurableSeq DEF SessionInv
<1>3. Begins(<<>>, Durable')
  <2>1. Len(Durable') \in Nat /\ Len(<<>>) = 0
    BY SeqLength, NoRecords
  <2> QED BY <2>1 DEF Begins
<1>4. mode' = RealTime => \A i \in 1..Len(file') : file'[i].lifecycle \notin Dead
  <2>1. Len(file') \in Nat /\ Len(file) \in Nat
    BY SeqLength DEF SessionInv, StoreInv
  <2> QED BY <1>1, <2>1 DEF SessionInv, StoreInv, Begins
<1>5. StoreInv'
  BY <1>1, <1>3, <1>4, NoRecords DEF StoreInv
<1>6. ToldInv'
  BY <1>1, <1>2, ToldKept DEF SessionInv
<1>7. LoopInv'
  BY <1>1 DEF SessionInv, LoopInv, RestoredAsPaused
<1> QED BY <1>5, <1>6, <1>7 DEF SessionInv

\* The process ends by itself.
LEMMA ProcessEndsInv == ASSUME SessionInv, ProcessEnds PROVE SessionInv'
<1>1. Forget /\ file' = file /\ doubtful' = doubtful
  BY DEF ProcessEnds, storage
<1>2. Durable' = Durable /\ IsSeq(Durable) /\ Begins(Durable, Durable)
  BY <1>1, DurableSeq, BeginsReflexive DEF SessionInv, Durable
<1>3. IsSeq(file) /\ Begins(file, file)
  BY BeginsReflexive DEF SessionInv, StoreInv
<1> QED BY <1>1, <1>2, <1>3, ForgetInv DEF SessionInv, StoreInv

\* A machine crash takes at most the line in doubt.
LEMMA MachineCrashInv == ASSUME SessionInv, MachineCrash PROVE SessionInv'
<1>1. Forget /\ file' \in {file, Durable} /\ doubtful' = FALSE
  BY DEF MachineCrash, Durable
<1>2. IsSeq(file) /\ IsSeq(Durable) /\ Begins(Durable, file)
  BY DurableSeq DEF SessionInv, StoreInv
<1>3. Durable' = file'
  BY <1>1 DEF Durable
<1>4. /\ IsSeq(file') /\ Begins(Durable, file') /\ Begins(file', file)
  BY <1>1, <1>2, BeginsReflexive
<1> QED BY <1>1, <1>3, <1>4, ForgetInv

\* The recovery pause behind the records of an interrupted day.
LEMMA PauseKeeps ==
    ASSUME SessionInv, NEW out, file' = Append(file, PauseRecord(out)), mode' = mode
    PROVE  /\ IsSeq(file') /\ Len(file') > 0 /\ file' # <<>> /\ Begins(file, file')
           /\ IsSeq(Front(file')) /\ Begins(file, Front(file'))
           /\ Last(file').lifecycle = "paused"
           /\ mode' = RealTime => \A i \in 1..Len(file') : file'[i].lifecycle \notin Dead
<1> DEFINE r == PauseRecord(out)
<1>1. r.lifecycle = "paused"
  BY DEF PauseRecord, Record
<1> HIDE DEF r
<1>2. file' = Append(file, r)
  BY DEF r
<1>3. IsSeq(file) /\ Len(file) \in Nat
  BY SeqLength DEF SessionInv, StoreInv
<1>4. /\ IsSeq(file') /\ Len(file') = Len(file) + 1 /\ file'[Len(file) + 1] = r
      /\ Begins(file, file')
      /\ IsSeq(Front(file')) /\ Begins(file, Front(file'))
  BY <1>2, <1>3, AppendSeq, FrontOfAppend
<1>5. Len(file') > 0 /\ file' # <<>>
  BY <1>3, <1>4, NoRecords
<1>6. Last(file').lifecycle = "paused"
  BY <1>1, <1>4 DEF Last
<1>7. mode' = RealTime => \A i \in 1..Len(file') : file'[i].lifecycle \notin Dead
  BY <1>1, <1>3, <1>4 DEF SessionInv, StoreInv, Begins, Dead
<1> QED BY <1>4, <1>5, <1>6, <1>7

\* An entry is loaded.
LEMMA LoadInv == ASSUME SessionInv, NEW p, Load(p) PROVE SessionInv'
<1> DEFINE out == Execute(RecoveryPause, p.engine, p.revision)
           interrupted == mode = RealTime /\ LifecycleOf(file) \in Active
<1>1. /\ ~loaded /\ loaded' = TRUE /\ doubtful' = FALSE /\ commands' = file'
      /\ file' = IF interrupted THEN Append(file, PauseRecord(out)) ELSE file
      /\ failed' = failed /\ mode' = mode /\ told' = told
      /\ status' = status /\ job' = job /\ stopping' = stopping
  BY DEF Load, fixed, loop, clients, shutdown
<1> HIDE DEF out
<1>2. IsSeq(file) /\ IsSeq(Durable) /\ Begins(Durable, file) /\ Begins(file, file)
  BY DurableSeq, BeginsReflexive DEF SessionInv, StoreInv
<1>3. /\ IsSeq(file') /\ Begins(file, file')
      /\ mode' = RealTime => \A i \in 1..Len(file') : file'[i].lifecycle \notin Dead
      /\ mode' = RealTime => LifecycleOf(file') \notin Active
  <2>1. CASE interrupted
    <3>1. /\ IsSeq(file') /\ Begins(file, file') /\ file' # <<>>
          /\ Last(file').lifecycle = "paused"
          /\ mode' = RealTime => \A i \in 1..Len(file') : file'[i].lifecycle \notin Dead
      BY <1>1, <2>1, PauseKeeps
    <3> QED BY <3>1 DEF LifecycleOf, Active
  <2>2. CASE ~interrupted
    <3>1. file' = file /\ mode' = mode
      BY <1>1, <2>2
    <3>2. LifecycleOf(file') = LifecycleOf(file)
      BY <3>1
    <3> QED BY <1>2, <2>2, <3>1, <3>2 DEF SessionInv, StoreInv
  <2> QED BY <2>1, <2>2
<1>4. Durable' = file' /\ Begins(file', file') /\ Begins(Durable, file')
  BY <1>1, <1>2, <1>3, BeginsReflexive, BeginsTransitive DEF Durable
<1>5. StoreInv'
  BY <1>1, <1>3, <1>4 DEF StoreInv
<1>6. ToldInv'
  BY <1>1, <1>2, <1>3, <1>4, ToldKept DEF SessionInv
<1>7. LoopInv'
  <2>1. ~failed /\ status = "none" /\ job = NoJob
    BY <1>1 DEF SessionInv, LoopInv
  <2>2. RestoredAsPaused'
    BY <1>1, <1>3 DEF RestoredAsPaused
  <2> QED BY <1>1, <2>1, <2>2 DEF SessionInv, LoopInv
<1> QED BY <1>5, <1>6, <1>7 DEF SessionInv

\* An entry is not loaded because its pause is not appended.
LEMMA LoadFailsInv == ASSUME SessionInv, NEW p, LoadFails(p) PROVE SessionInv'
<1> DEFINE out == Execute(RecoveryPause, p.engine, p.revision)
<1>1. /\ ~loaded /\ file' = Append(file, PauseRecord(out)) /\ doubtful' = TRUE
      /\ loaded' = loaded /\ commands' = commands
      /\ failed' = failed /\ mode' = mode /\ told' = told
      /\ status' = status /\ job' = job /\ stopping' = stopping
  BY DEF LoadFails, fixed, memory, loop, clients, shutdown
<1> HIDE DEF out
<1>2. IsSeq(file) /\ IsSeq(Durable) /\ Begins(Durable, file)
  BY DurableSeq DEF SessionInv, StoreInv
<1>3. /\ IsSeq(file') /\ Len(file') > 0
      /\ IsSeq(Front(file')) /\ Begins(file, Front(file'))
      /\ mode' = RealTime => \A i \in 1..Len(file') : file'[i].lifecycle \notin Dead
  BY <1>1, PauseKeeps
<1>4. Durable' = Front(file')
  BY <1>1 DEF Durable
<1>5. IsSeq(Durable') /\ Begins(Durable, Durable')
  BY <1>2, <1>3, <1>4, BeginsTransitive
<1>6. commands = <<>> /\ ~failed
  BY <1>1 DEF SessionInv, LoopInv
<1>7. Begins(<<>>, Durable')
  <2>1. Len(Durable') \in Nat /\ Len(<<>>) = 0
    BY <1>5, SeqLength, NoRecords
  <2> QED BY <2>1 DEF Begins
<1>8. StoreInv'
  BY <1>1, <1>3, <1>6, <1>7, NoRecords DEF StoreInv
<1>9. ToldInv'
  BY <1>1, <1>2, <1>5, ToldKept DEF SessionInv
<1>10. LoopInv'
  BY <1>1 DEF SessionInv, LoopInv, RestoredAsPaused
<1> QED BY <1>8, <1>9, <1>10 DEF SessionInv

-----------------------------------------------------------------------------
(* Every step *)

\* The invariant holds of a new game.
LEMMA SessionInit == Init => SessionInv
<1> SUFFICES ASSUME Init PROVE SessionInv
  OBVIOUS
<1>1. /\ mode \in Modes /\ file = <<>> /\ doubtful = FALSE /\ loaded = TRUE /\ failed = FALSE
      /\ commands = <<>> /\ status = "none" /\ job = NoJob /\ told = {}
  BY DEF Init
<1>2. Durable = <<>> /\ IsSeq(<<>>) /\ Len(<<>>) = 0 /\ Begins(<<>>, <<>>)
  BY <1>1, NoRecords, BeginsReflexive DEF Durable
<1>3. StoreInv
  <2>1. \A i \in 1..Len(file) : FALSE
    BY <1>1, <1>2
  <2> QED BY <1>1, <1>2, <2>1 DEF StoreInv
<1>4. ToldInv
  BY <1>1 DEF ToldInv
<1>5. LoopInv
  BY <1>1, SessionAssumption DEF LoopInv, RestoredAsPaused, LifecycleOf, Active
<1> QED BY <1>3, <1>4, <1>5 DEF SessionInv

\* Nothing happens.
LEMMA SessionUnchanged == ASSUME SessionInv, UNCHANGED vars PROVE SessionInv'
<1>1. UNCHANGED <<mode, storage, loaded, failed, commands, told, status, job, stopping>>
  BY DEF vars, fixed, memory, loop, clients, shutdown
<1>2. StoreInv' /\ ToldInv'
  BY <1>1, NothingTold DEF SessionInv
<1>3. LoopInv'
  BY <1>1 DEF SessionInv, LoopInv, RestoredAsPaused
<1> QED BY <1>2, <1>3 DEF SessionInv

\* Every step keeps the invariant.
LEMMA SessionStep == SessionInv /\ [Next]_vars => SessionInv'
<1> SUFFICES ASSUME SessionInv, [Next]_vars PROVE SessionInv'
  OBVIOUS
<1>1. CASE QuietStep
  BY <1>1, QuietStepInv
<1>2. CASE CountdownCompletes
  BY <1>2, CountdownCompletesInv
<1>3. ASSUME NEW k \in ScheduledKinds, ExecuteDue(k) PROVE SessionInv'
  BY <1>3, ExecuteDueInv
<1>4. CASE Finish
  BY <1>4, FinishInv
<1>5. ASSUME NEW a \in Requests, TurnCommand(a) PROVE SessionInv'
  BY <1>5, TurnCommandInv
<1>6. ASSUME NEW a \in Requests, TurnCommandFails(a) PROVE SessionInv'
  BY <1>6, TurnCommandFailsInv
<1>7. ASSUME NEW a \in Requests, Retry(a) PROVE SessionInv'
  BY <1>7, RetryInv
<1>8. CASE ProcessEnds
  BY <1>8, ProcessEndsInv
<1>9. CASE MachineCrash
  BY <1>9, MachineCrashInv
<1>10. CASE Load(Replay(file))
  BY <1>10, LoadInv
<1>11. CASE LoadFails(Replay(file))
  BY <1>11, LoadFailsInv
<1>12. CASE UNCHANGED vars
  BY <1>12, SessionUnchanged
<1> QED
  BY <1>1, <1>2, <1>3, <1>4, <1>5, <1>6, <1>7, <1>8, <1>9, <1>10, <1>11, <1>12
     DEF Next, RealTimeNext, QuietStep

\* The invariant holds of every game.
LEMMA SessionInvariance == Spec => []SessionInv
<1> QED BY SessionInit, SessionStep, PTL DEF Spec

-----------------------------------------------------------------------------
(* The sequencer and its shutdown *)

\* The last of a sequence that something was appended to.
LEMMA LastOfAppend ==
    ASSUME NEW s, IsSeq(s), NEW e
    PROVE  Append(s, e) # <<>> /\ Last(Append(s, e)) = e
<1>1. Len(s) \in Nat /\ Len(Append(s, e)) = Len(s) + 1 /\ Append(s, e)[Len(s) + 1] = e
  BY AppendSeq, SeqLength
<1>2. Append(s, e) # <<>>
  BY <1>1, NoRecords
<1> QED BY <1>1, <1>2 DEF Last

\* A live sequencer is where the last record left the game.
StatusInv ==
    /\ mode = RealTime /\ status \notin Dead => status = LifecycleOf(commands)
    /\ status = "failed" => failed \/ broken

\* How far a shutdown can be, and what it found and did on its way.
ShutInv ==
    /\ stopping # "up" => loaded
    /\ stopping \in {"drained", "snapped"} => job \in {NoJob, TimerJob}
    /\ stopping = "snapped" => status \in Active \cup {"completed", "failed"}
    /\ stopping = "pausing" =>
         IF job = NoJob THEN status \in {"paused", "completed", "failed"} ELSE job.kind = "pause"
    /\ stopping = "closing" => job = NoJob /\ status \notin Active
    /\ stopping \in {"stopped", "aborted"} => job = NoJob
    /\ stopping = "stopped" /\ mode = RealTime =>
         status \in {"none", "closed"} /\ ~failed /\ LifecycleOf(commands) \notin Active
    /\ stopping = "aborted" => status \in {"failed", "closed"} /\ (failed \/ broken)

\* A refused action leaves the lifecycle alone.
LEMMA RefusedStays ==
    ASSUME NEW a, NEW e, NEW rev, NEW previous, Execute(a, e, rev).rejection # "none"
    PROVE  LifecycleAfter(previous, a, Execute(a, e, rev)) = previous
<1>1. a.kind \in {"start", "quote"}
  BY DEF Execute, Refuses, Accept, Reject, Quote
<1> QED BY <1>1 DEF LifecycleAfter

\* What a commit by the loop makes of the lifecycle that the records tell.
LEMMA CommittedLifecycle ==
    ASSUME IsSeq(commands), NEW a, NEW at, NEW out, Commits(RecordOf(a, at, out), out)
    PROVE  /\ LifecycleOf(commands') = LifecycleAfter(LifecycleOf(commands), a, out)
           /\ ElapsedOf(commands') = at
<1> DEFINE r == RecordOf(a, at, out)
<1>1. commands' = Append(commands, r)
  BY DEF Commits
<1>2. r.lifecycle = LifecycleAfter(LifecycleOf(commands), a, out) /\ r.elapsed = at
  BY DEF RecordOf, Record
<1> HIDE DEF r
<1>3. commands' # <<>> /\ Last(commands') = r
  BY <1>1, LastOfAppend
<1> QED BY <1>2, <1>3 DEF LifecycleOf, ElapsedOf

\* The end of a countdown leaves the sequencer where its record says.
LEMMA CountdownStatus ==
    ASSUME SessionInv, StatusInv, ShutInv, CountdownCompletes PROVE StatusInv' /\ ShutInv'
<1> DEFINE a == Action(<<"countdown", Last(commands).id>>, "countdown", 0)
<1>1. /\ status = "countdown" /\ job = NoJob /\ LoopExecutes(a, "running")
      /\ job' = job /\ stopping' = stopping
  BY DEF CountdownCompletes, Idle, shutdown
<1>2. loaded /\ ~failed /\ mode = RealTime
  BY <1>1, AliveServes DEF SessionInv, Dead
<1>3. \/ /\ LifecycleOf(commands') = "running" /\ status' = "running" /\ failed' = failed
      \/ status' = "failed" /\ failed' = TRUE
  <2>1. CASE Commits(RecordOf(a, elapsed, Outcome(a)), Outcome(a)) /\ status' = "running"
    <3>1. LifecycleOf(commands') = LifecycleAfter(LifecycleOf(commands), a, Outcome(a))
      BY <2>1, CommittedLifecycle DEF SessionInv, StoreInv
    <3>2. LifecycleAfter(LifecycleOf(commands), a, Outcome(a)) = "running"
      BY DEF LifecycleAfter, Action
    <3> QED BY <2>1, <3>1, <3>2 DEF Commits
  <2>2. CASE AppendFails(RecordOf(a, elapsed, Outcome(a)), Outcome(a)) /\ status' = "failed"
    BY <2>2 DEF AppendFails
  <2> QED BY <1>1, <2>1, <2>2 DEF LoopExecutes
<1>4. mode' = mode /\ loaded' = loaded
  BY <1>1 DEF LoopExecutes, fixed
<1>5. StatusInv'
  BY <1>3, <1>4 DEF StatusInv, Dead
<1>6. ShutInv'
  BY <1>1, <1>2, <1>3, <1>4 DEF ShutInv, Active
<1> QED BY <1>5, <1>6

\* So does a request,
LEMMA FinishStatus ==
    ASSUME SessionInv, StatusInv, ShutInv, Finish PROVE StatusInv' /\ ShutInv'
<1> DEFINE out == Outcome(job)
           next == Leads(job, out)
<1>1. /\ job \notin {NoJob, TimerJob} /\ LoopExecutes(job, next) /\ job' = NoJob /\ stopping' = stopping
  BY DEF Finish, shutdown
<1>2. status \notin Dead
  BY <1>1 DEF SessionInv, LoopInv
<1>3. loaded /\ ~failed /\ mode = RealTime /\ status = LifecycleOf(commands)
  BY <1>2, AliveServes DEF SessionInv, StatusInv
<1>4. next = LifecycleAfter(status, job, out)
  <2>1. CASE out.rejection = "none"
    BY <2>1 DEF Leads
  <2>2. CASE out.rejection # "none"
    <3>1. LifecycleAfter(status, job, out) = status
      BY <2>2, RefusedStays DEF Outcome
    <3> QED BY <2>2, <3>1 DEF Leads
  <2> QED BY <2>1, <2>2
<1> HIDE DEF next, out
<1>5. \/ /\ LifecycleOf(commands') = next /\ status' = next /\ failed' = failed
      \/ status' = "failed" /\ failed' = TRUE
  <2>1. CASE Commits(RecordOf(job, elapsed, out), out) /\ status' = next
    <3>1. LifecycleOf(commands') = LifecycleAfter(LifecycleOf(commands), job, out)
      BY <2>1, CommittedLifecycle DEF SessionInv, StoreInv
    <3> QED BY <1>3, <1>4, <2>1, <3>1 DEF Commits
  <2>2. CASE AppendFails(RecordOf(job, elapsed, out), out) /\ status' = "failed"
    BY <2>2 DEF AppendFails
  <2> QED BY <1>1, <2>1, <2>2 DEF LoopExecutes, out
<1>6. mode' = mode /\ loaded' = loaded
  BY <1>1 DEF LoopExecutes, fixed
<1>7. StatusInv'
  <2>1. next # "failed"
    BY <1>2, <1>4 DEF LifecycleAfter, Dead
  <2> QED BY <1>5, <1>6, <2>1 DEF StatusInv, Dead
<1>8. stopping \notin {"drained", "snapped", "closing", "stopped", "aborted"}
  BY <1>1 DEF ShutInv
<1>9. stopping = "pausing" => next = "paused"
  BY <1>1, <1>4 DEF ShutInv, LifecycleAfter
<1>10. ShutInv'
  BY <1>1, <1>3, <1>5, <1>6, <1>8, <1>9 DEF ShutInv
<1> QED BY <1>7, <1>10

\* and a scheduled action.
LEMMA DueStatus ==
    ASSUME SessionInv, StatusInv, ShutInv, NEW k \in ScheduledKinds, ExecuteDue(k)
    PROVE  StatusInv' /\ ShutInv'
<1> DEFINE a == Scheduled(generator, k)
           out == Outcome(a)
           r == RecordOf(a, generator.candidates[k].due, out)
<1>1. /\ job # NoJob /\ status = "running"
      /\ \/ /\ Commits(r, out) /\ status' = r.lifecycle
            /\ job' = IF r.lifecycle = "completed" /\ job # ViewJob THEN NoJob ELSE job
         \/ AppendFails(r, out) /\ status' = "failed" /\ job' = NoJob
      /\ mode' = mode /\ loaded' = loaded /\ stopping' = stopping
  BY DEF ExecuteDue, fixed, shutdown
<1>2. loaded /\ ~failed /\ mode = RealTime /\ status = LifecycleOf(commands)
  BY <1>1, AliveServes DEF SessionInv, StatusInv, Dead
<1>3. r.lifecycle = LifecycleAfter(LifecycleOf(commands), a, out) /\ a.kind = k
  BY DEF RecordOf, Record, Scheduled, Action
<1>4. r.lifecycle \in {"running", "completed"}
  BY <1>1, <1>2, <1>3 DEF LifecycleAfter, ScheduledKinds, MarketKinds
<1>5. \/ /\ LifecycleOf(commands') = r.lifecycle /\ status' = r.lifecycle /\ failed' = failed
         /\ job' = IF r.lifecycle = "completed" /\ job # ViewJob THEN NoJob ELSE job
      \/ status' = "failed" /\ failed' = TRUE /\ job' = NoJob
  <2>1. CASE /\ Commits(r, out) /\ status' = r.lifecycle
             /\ job' = IF r.lifecycle = "completed" /\ job # ViewJob THEN NoJob ELSE job
    <3>1. LifecycleOf(commands') = LifecycleAfter(LifecycleOf(commands), a, out)
      BY <2>1, CommittedLifecycle DEF SessionInv, StoreInv
    <3> QED BY <1>3, <2>1, <3>1 DEF Commits
  <2>2. CASE AppendFails(r, out) /\ status' = "failed" /\ job' = NoJob
    BY <2>2 DEF AppendFails
  <2> QED BY <1>1, <2>1, <2>2
<1> HIDE DEF r, out, a
<1>6. StatusInv'
  BY <1>1, <1>4, <1>5 DEF StatusInv, Dead
<1>7. ViewJob # NoJob /\ ViewJob.kind # "pause"
  BY DEF ViewJob, NoJob, Action
<1>8. stopping \notin {"closing", "stopped", "aborted"}
  BY <1>1 , <1>2 DEF ShutInv
<1>9. ShutInv'
  BY <1>1, <1>2, <1>4, <1>5, <1>7, <1>8 DEF ShutInv, Active
<1> QED BY <1>6, <1>9

\* The steps of a sequencer and its shutdown that execute nothing.
LEMMA QuietStatus ==
    ASSUME SessionInv, StatusInv, ShutInv, QuietStep PROVE StatusInv' /\ ShutInv'
<1>1. mode' = mode /\ loaded' = loaded /\ failed' = failed /\ commands' = commands
  BY QuietStepKeeps DEF storage
<1>2. LifecycleOf(commands') = LifecycleOf(commands)
  BY <1>1
<1>3. CASE BuildSequencer
  <2>1. /\ stopping = "up" /\ stopping' = "up" /\ status' = LifecycleOf(commands)
        /\ status' \in {"preparing", "completed", "paused"}
    BY <1>3 DEF BuildSequencer, CheckpointValid, shutdown
  <2> QED BY <1>1, <1>2, <2>1 DEF StatusInv, ShutInv
<1>4. CASE Tick \/ FinishView \/ FinishTimer
  <2>1. /\ status' = status /\ stopping' = stopping /\ broken' = broken
        /\ job' = job \/ (job' = NoJob /\ job \in {TimerJob, ViewJob})
    BY <1>4 DEF Tick, FinishView, FinishTimer, shutdown
  <2>2. TimerJob.kind # "pause" /\ ViewJob.kind # "pause"
    BY DEF TimerJob, ViewJob, Action
  <2>3. TimerJob # NoJob /\ ViewJob # NoJob
    BY DEF TimerJob, ViewJob, NoJob, Action
  <2> QED BY <1>1, <1>2, <2>1, <2>2, <2>3 DEF StatusInv, ShutInv
<1>5. CASE TimerFires
  <2>1. /\ status = "running" /\ status' = status /\ UNCHANGED <<stopping, broken>>
        /\ job = NoJob /\ job' = TimerJob
    BY <1>5 DEF TimerFires, Idle, shutdown
  <2>2. ~failed /\ mode = RealTime
    BY <2>1, AliveServes DEF SessionInv, Dead
  <2> QED BY <1>1, <1>2, <2>1, <2>2 DEF StatusInv, ShutInv, Active
<1>6. ASSUME NEW a \in Requests \cup {ViewJob}, Receive(a) PROVE StatusInv' /\ ShutInv'
  <2>1. status' = status /\ stopping = "up" /\ stopping' = "up" /\ broken' = broken
    BY <1>6 DEF Receive, shutdown
  <2> QED BY <1>1, <1>2, <2>1 DEF StatusInv, ShutInv
<1>7. CASE TurnView
  <2>1. status' = status /\ UNCHANGED <<stopping, broken>> /\ job' = job
    BY <1>7 DEF TurnView, loop, shutdown
  <2> QED BY <1>1, <1>2, <2>1 DEF StatusInv, ShutInv
<1>8. CASE Drain
  <2>1. /\ status' = status /\ broken' = broken /\ job' = job /\ loaded /\ job \in {NoJob, TimerJob}
        /\ stopping' = IF status = "none" THEN "stopped" ELSE "drained"
    BY <1>8 DEF Drain, loop
  <2>2. status = "none" => job = NoJob
    BY DEF SessionInv, LoopInv, Dead
  <2>3. status = "none" /\ mode = RealTime => ~failed /\ LifecycleOf(commands) \notin Active
    BY <2>1 DEF SessionInv, LoopInv, RestoredAsPaused
  <2> QED BY <1>1, <1>2, <2>1, <2>2, <2>3 DEF StatusInv, ShutInv
<1>9. CASE ShutdownSnapshot
  <2>1. /\ status' = status /\ broken' = broken
        /\ job' = job /\ job = NoJob /\ stopping = "drained"
        /\ stopping' = IF status \in Active THEN "snapped" ELSE "closing"
    BY <1>9 DEF ShutdownSnapshot, Idle, loop
  <2> QED BY <1>1, <1>2, <2>1 DEF StatusInv, ShutInv
<1>10. CASE SendShutdownPause
  <2>1. /\ status' = status /\ broken' = broken /\ stopping = "snapped"
        /\ IF status \in Active THEN job' = ShutdownPause /\ stopping' = "pausing"
             ELSE job' = NoJob /\ stopping' = IF status = "completed" THEN "closing" ELSE "aborted"
    BY <1>10 DEF SendShutdownPause, Admitted, Settled, Idle
  <2>2. ShutdownPause.kind = "pause" /\ ShutdownPause # NoJob
    BY DEF ShutdownPause, NoJob, Action
  <2>3. status \in Active \cup {"completed", "failed"} /\ (status = "failed" => failed \/ broken)
    BY <2>1 DEF StatusInv, ShutInv
  <2> QED BY <1>1, <1>2, <2>1, <2>2, <2>3 DEF StatusInv, ShutInv, Active
<1>11. CASE ShutdownPauseReturns
  <2>1. /\ status' = status /\ broken' = broken
        /\ job' = job /\ job = NoJob /\ stopping = "pausing"
        /\ stopping' = IF status = "paused" \/ status = "completed" THEN "closing" ELSE "aborted"
    BY <1>11 DEF ShutdownPauseReturns, Settled, Idle, loop
  <2>2. status \in {"paused", "completed", "failed"} /\ (status = "failed" => failed \/ broken)
    BY <2>1 DEF StatusInv, ShutInv
  <2> QED BY <1>1, <1>2, <2>1, <2>2 DEF StatusInv, ShutInv, Active
<1>12. CASE ShutdownCloses
  <2>1. /\ status' = "closed" /\ broken' = broken
        /\ job' = job /\ job = NoJob /\ stopping = "closing"
        /\ stopping' = IF status = "failed" THEN "aborted" ELSE "stopped"
        /\ status # "none"
    BY <1>12 DEF ShutdownCloses, Idle
  <2>2. mode = RealTime /\ loaded /\ status # "closed"
    BY <2>1 DEF SessionInv, LoopInv
  <2>3. status \notin Active /\ (status = "failed" => failed \/ broken)
    BY <2>1 DEF StatusInv, ShutInv
  <2>4. status # "failed" => ~failed /\ LifecycleOf(commands) = status
    BY <2>1, <2>2 DEF SessionInv, LoopInv, StatusInv, Dead
  <2> QED BY <1>1, <1>2, <2>1, <2>2, <2>3, <2>4 DEF StatusInv, ShutInv, Dead
<1>13. ASSUME NEW k \in {"customer", "mark"}, DueActionFails(k) PROVE StatusInv' /\ ShutInv'
  <2>1. /\ job # NoJob /\ job' = NoJob /\ status = "running" /\ status' = "failed"
        /\ stopping' = stopping /\ broken' = TRUE
    BY <1>13 DEF DueActionFails
  <2>2. stopping \notin {"closing", "stopped", "aborted"}
    BY <2>1 DEF ShutInv
  <2> QED BY <1>1, <1>2, <2>1, <2>2 DEF StatusInv, ShutInv, Dead
<1> QED BY <1>3, <1>4, <1>5, <1>6, <1>7, <1>8, <1>9, <1>10, <1>11, <1>12, <1>13
        DEF QuietStep, ShutdownNext

\* No step outside of the sequencer is taken in the middle of a shutdown.
LEMMA OtherStatus ==
    ASSUME SessionInv, StatusInv, ShutInv,
           \/ \E a : TurnCommand(a) \/ TurnCommandFails(a) \/ Retry(a)
           \/ ProcessEnds \/ MachineCrash
           \/ \E p : Load(p) \/ LoadFails(p)
           \/ UNCHANGED vars
    PROVE  StatusInv' /\ ShutInv'
<1>1. ASSUME NEW a, TurnCommand(a) \/ TurnCommandFails(a) PROVE StatusInv' /\ ShutInv'
  <2>1. /\ mode = TurnBased /\ mode' = mode /\ stopping = "up" /\ stopping' = "up"
        /\ status' = status
    BY <1>1 DEF TurnCommand, TurnCommandFails, TurnAdmitted, fixed, loop, shutdown
  <2>2. status = "none"
    BY <2>1 DEF SessionInv, LoopInv
  <2> QED BY <2>1, <2>2 DEF StatusInv, ShutInv, TurnBased, RealTime
<1>2. ASSUME NEW a, Retry(a) PROVE StatusInv' /\ ShutInv'
  <2>1. /\ mode' = mode /\ stopping = "up" /\ stopping' = "up" /\ status' = status
        /\ commands' = commands /\ failed' = failed /\ broken' = broken
    BY <1>2 DEF Retry, fixed, loop, memory, shutdown
  <2> QED BY <2>1 DEF StatusInv, ShutInv
<1>3. CASE ProcessEnds \/ MachineCrash
  <2>1. status' = "none" /\ stopping' = "up"
    BY <1>3 DEF ProcessEnds, MachineCrash, Forget, shutdown
  <2> QED BY <2>1 DEF StatusInv, ShutInv, Dead
<1>4. ASSUME NEW p, Load(p) \/ LoadFails(p) PROVE StatusInv' /\ ShutInv'
  <2>1. ~loaded /\ status' = status /\ stopping' = stopping
    BY <1>4 DEF Load, LoadFails, loop, shutdown
  <2>2. status = "none" /\ stopping = "up"
    BY <2>1 DEF SessionInv, LoopInv, ShutInv
  <2> QED BY <2>1, <2>2 DEF StatusInv, ShutInv, Dead
<1>5. CASE UNCHANGED vars
  <2>1. UNCHANGED <<mode, loaded, failed, commands, status, job, stopping, broken>>
    BY <1>5 DEF vars, fixed, memory, loop, shutdown
  <2> QED BY <2>1 DEF StatusInv, ShutInv
<1> QED BY <1>1, <1>2, <1>3, <1>4, <1>5

\* Every step of a game, for the sequencer and its shutdown.
LEMMA StatusStep ==
    ASSUME SessionInv, StatusInv, ShutInv, [Next]_vars PROVE StatusInv' /\ ShutInv'
<1>1. CASE QuietStep
  BY <1>1, QuietStatus
<1>2. CASE CountdownCompletes
  BY <1>2, CountdownStatus
<1>3. ASSUME NEW k \in ScheduledKinds, ExecuteDue(k) PROVE StatusInv' /\ ShutInv'
  BY <1>3, DueStatus
<1>4. CASE Finish
  BY <1>4, FinishStatus
<1>5. CASE \/ \E a : TurnCommand(a) \/ TurnCommandFails(a) \/ Retry(a)
           \/ ProcessEnds \/ MachineCrash
           \/ \E p : Load(p) \/ LoadFails(p)
           \/ UNCHANGED vars
  BY <1>5, OtherStatus
<1> QED
  BY <1>1, <1>2, <1>3, <1>4, <1>5 DEF Next, RealTimeNext, QuietStep

\* The sequencer and its shutdown are as the invariants say.
LEMMA StatusInvariance == Spec => [](StatusInv /\ ShutInv)
<1>1. Init => StatusInv /\ ShutInv
  BY DEF Init, StatusInv, ShutInv, Dead
<1>2. SessionInv /\ (StatusInv /\ ShutInv) /\ [Next]_vars => (StatusInv /\ ShutInv)'
  BY StatusStep
<1> QED BY <1>1, <1>2, SessionInvariance, PTL DEF Spec

-----------------------------------------------------------------------------
(* Replays *)

Turn == INSTANCE FoldProofs WITH Op <- ReplayRecord

Engines == [applied : Nat, over : BOOLEAN]

\* A runtime has these fields, whatever was replayed.
Runtime(p) ==
    /\ p = [ok |-> p.ok, records |-> p.records, engine |-> p.engine, revision |-> p.revision,
            generator |-> p.generator]
    /\ p.ok \in BOOLEAN

IsQuote(r) == r.kind = "quote" /\ r.rejection = "none"

\* Every accepted quote was sent against a revision below this one, and against
\* a later one than the quotes before it.
Quotes(s, rev) == \A i \in 1..Len(s) : IsQuote(s[i]) => s[i].arg \in Nat /\ s[i].arg < rev

Rising(s) ==
    \A i, j \in 1..Len(s) : i < j /\ IsQuote(s[i]) /\ IsQuote(s[j]) => s[i].arg < s[j].arg

\* What a replay that succeeds leaves.
Replayed(s, p) ==
    /\ p.records = s
    /\ p.engine \in Engines /\ p.revision \in Nat
    /\ WellFormed(p.generator) /\ Ended(p.generator)
    /\ Quotes(s, p.revision) /\ Rising(s)

\* Replay takes one record after the other.
LEMMA ReplayIsFold ==
    ASSUME NEW s
    PROVE  Replay(s) = Turn!Fold(s, NewRuntime)
BY Zenon DEF Replay, Turn!Fold, FoldLeft, Turn!MapThenFoldSet,
             MapThenFoldSet, Turn!Greatest, Max

\* One record more is one turn of the loop more.
LEMMA ReplayAppend ==
    ASSUME NEW T, NEW s \in Seq(T), NEW r \in T
    PROVE  Replay(Append(s, r)) = ReplayRecord(Replay(s), r)
<1>1. Turn!Fold(Append(s, r), NewRuntime) = ReplayRecord(Turn!Fold(s, NewRuntime), r)
  <2> HIDE DEF ReplayRecord, NewRuntime
  <2> QED BY Turn!FoldAppend
<1> QED BY <1>1, ReplayIsFold, Zenon

\* Without records nothing is replayed.
LEMMA ReplayNothing == Replay(<<>>) = NewRuntime
<1> DEFINE s == SubSeq(<<>>, 1, 0)
<1>1. <<>> \in Seq({})
  OBVIOUS
<1>2. Turn!Fold(SubSeq(<<>>, 1, 0), NewRuntime) = NewRuntime
  <2> HIDE DEF ReplayRecord, NewRuntime
  <2> QED BY <1>1, Turn!FoldStep
<1>3. SubSeq(<<>>, 1, 0) = <<>>
  BY SubSeqEmpty
<1> QED BY <1>2, <1>3, ReplayIsFold, Zenon

\* The seed draws an interval of the kind's cadence.
LEMMA DrawInterval ==
    ASSUME seed \in Seeds, NEW g, NEW k \in ScheduledKinds
    PROVE  Draw(g, k) \in Intervals(k) /\ Draw(g, k) \in 1..Duration
<1>1. /\ seed.customer \in Seq(CustomerCadence) /\ seed.customer # <<>>
      /\ seed.mark \in Seq(MarkCadence) /\ seed.mark # <<>>
  BY SessionAssumption
<1>2. ASSUME NEW C, NEW s \in Seq(C), s # <<>>, NEW n PROVE Drawn(s, n) \in C
  <2>1. Len(s) \in DOMAIN s
    BY <1>2
  <2> QED BY <1>2, <2>1 DEF Drawn, Last
<1>3. /\ k = "customer" => Draw(g, k) \in CustomerCadence
      /\ k = "mark" => Draw(g, k) \in MarkCadence
      /\ k \notin {"customer", "mark"} => Draw(g, k) = CarryCadence
  <2>1. CASE k = "customer"
    BY <1>1, <1>2, <2>1 DEF Draw
  <2>2. CASE k = "mark"
    BY <1>1, <1>2, <2>2 DEF Draw
  <2>3. CASE k \notin {"customer", "mark"}
    BY <2>3 DEF Draw
  <2> QED BY <2>1, <2>2, <2>3
<1>4. Draw(g, k) \in Intervals(k)
  BY <1>3 DEF Intervals
<1> QED BY <1>3, <1>4, GeneratorAssumption

\* The new runtime, before anything is replayed.
LEMMA NewRuntimeFacts ==
    ASSUME seed \in Seeds
    PROVE  /\ Runtime(NewRuntime) /\ NewRuntime.ok /\ Replayed(<<>>, NewRuntime)
           /\ NewRuntime.engine.over = FALSE
           /\ \A k \in Pending(NewRuntime.generator) : 0 < NewRuntime.generator.candidates[k].due
<1>1. seed.customer[1] \in Nat \ {0} /\ seed.mark[1] \in Nat \ {0}
  <2>1. /\ seed.customer \in Seq(CustomerCadence) /\ seed.customer # <<>>
        /\ seed.mark \in Seq(MarkCadence) /\ seed.mark # <<>>
    BY SessionAssumption
  <2>2. seed.customer[1] \in CustomerCadence /\ seed.mark[1] \in MarkCadence
    BY <2>1
  <2> QED BY <2>2, GeneratorAssumption
<1> DEFINE g == NewGenerator(seed.customer[1], seed.mark[1])
<1>2. WellFormed(g) /\ Ended(g) /\ \A k \in Pending(g) : 0 < g.candidates[k].due
  BY <1>1, NewGeneratorSound
<1> HIDE DEF g
<1> DEFINE e == [applied |-> 0, over |-> FALSE]
<1>3. e \in Engines /\ e.over = FALSE
  BY DEF Engines
<1> HIDE DEF e
<1>4. NewRuntime = [ok |-> TRUE, records |-> <<>>, engine |-> e, revision |-> 0, generator |-> g]
  BY Zenon DEF NewRuntime, e, g
<1>5. /\ NewRuntime.ok = TRUE /\ NewRuntime.records = <<>> /\ NewRuntime.engine = e
      /\ NewRuntime.revision = 0 /\ NewRuntime.generator = g
  BY <1>4
<1>6. Runtime(NewRuntime)
  BY <1>4, <1>5 DEF Runtime
<1>7. Quotes(<<>>, 0) /\ Rising(<<>>)
  BY NoRecords DEF Quotes, Rising
<1> QED BY <1>2, <1>3, <1>5, <1>6, <1>7 DEF Replayed

\* What executing an action does to the engine and the quote revision.
LEMMA ExecuteFacts ==
    ASSUME NEW a, NEW e \in Engines, NEW rev \in Nat
    PROVE  LET out == Execute(a, e, rev)
           IN  /\ out.engine \in Engines /\ out.revision \in {rev, rev + 1}
               /\ a.kind = "quote" /\ out.rejection = "none" =>
                    a.arg = rev /\ out.revision = rev + 1
               /\ a.kind \in {"countdown", "resume"} => out.revision > 0
<1>1. e.applied + 1 \in Nat /\ \A b \in BOOLEAN : Changed(e, b) \in Engines
  BY DEF Engines, Changed
<1>2. \A d, v : /\ Accept(d, v).engine = d /\ Accept(d, v).revision = v
                /\ Accept(d, v).rejection = "none"
  BY DEF Accept
<1>3. \A c, d, v : /\ Reject(c, d, v).engine = d /\ Reject(c, d, v).revision = v
                   /\ Reject(c, d, v).rejection = c
  BY DEF Reject
<1> DEFINE out == Execute(a, e, rev)
<1>4. \/ out = Quote(e, rev) /\ (a.kind = "quote" => a.arg = rev)
      \/ /\ a.kind \notin {"countdown", "quote"} /\ (a.kind = "resume" => rev # 0)
         /\ \/ out = Accept(e, rev)
            \/ \E b \in BOOLEAN : out = Accept(Changed(e, b), rev)
            \/ out = Reject("command_rejected", e, rev)
      \/ /\ a.kind = "quote"
         /\ \E c \in {"command_rejected", "quote_revision_conflict"} : out = Reject(c, e, rev)
  <2>1. (e.applied + 1 = seed.ruin) \in BOOLEAN /\ TRUE \in BOOLEAN
    OBVIOUS
  <2> HIDE DEF Engines
  <2>2. CASE Refuses(a)
    <3>1. out = Reject("command_rejected", e, rev) /\ a.kind \in {"start", "quote"}
      BY <2>2 DEF Execute, Refuses, EngineKinds, MarketKinds
    <3> QED BY <2>2, <3>1
  <2>3. CASE a.kind = "countdown" \/ (a.kind = "resume" /\ rev = 0)
    <3>1. out = Quote(e, rev)
      BY <2>3 DEF Execute, Refuses, EngineKinds, MarketKinds
    <3> QED BY <2>3, <3>1
  <2>4. CASE a.kind = "quote" /\ ~Refuses(a)
    <3>1. out = IF a.arg = rev THEN Quote(e, rev) ELSE Reject("quote_revision_conflict", e, rev)
      BY <2>4 DEF Execute, Refuses, EngineKinds, MarketKinds
    <3> QED BY <2>4, <3>1
  <2>5. CASE a.kind \in EngineKinds
    <3>1. out = Accept(Changed(e, e.applied + 1 = seed.ruin), rev)
      BY <2>5 DEF Execute, Refuses, EngineKinds, MarketKinds
    <3>2. \E b \in BOOLEAN : out = Accept(Changed(e, b), rev)
      BY <2>1, <3>1
    <3> QED BY <2>5, <3>2 DEF EngineKinds, MarketKinds
  <2>6. CASE a.kind \in {"quit", "expired"}
    <3>1. out = Accept(Changed(e, TRUE), rev)
      BY <2>6 DEF Execute, Refuses, EngineKinds, MarketKinds
    <3>2. \E b \in BOOLEAN : out = Accept(Changed(e, b), rev)
      BY <2>1, <3>1
    <3> QED BY <2>6, <3>2
  <2>7. CASE /\ ~Refuses(a)
             /\ ~(a.kind = "countdown" \/ (a.kind = "resume" /\ rev = 0))
             /\ a.kind # "quote" /\ a.kind \notin EngineKinds /\ a.kind \notin {"quit", "expired"}
    <3>1. out = Accept(e, rev)
      BY <2>7 DEF Execute, Refuses
    <3> QED BY <2>7, <3>1
  <2> HIDE DEF out
  <2> QED BY <2>2, <2>3, <2>4, <2>5, <2>6, <2>7
<1> HIDE DEF out
<1>5. CASE out = Quote(e, rev) /\ (a.kind = "quote" => a.arg = rev)
  <2>1. out.engine = Changed(e, FALSE) /\ out.revision = rev + 1
    BY <1>2, <1>5 DEF Quote
  <2>2. Changed(e, FALSE) \in Engines
    BY <1>1
  <2>3. rev + 1 > 0
    OBVIOUS
  <2> HIDE DEF Engines
  <2> QED BY <1>5, <2>1, <2>2, <2>3 DEF out
<1>6. CASE /\ a.kind = "quote"
           /\ \E c \in {"command_rejected", "quote_revision_conflict"} : out = Reject(c, e, rev)
  <2>1. out.engine = e /\ out.revision = rev /\ out.rejection # "none"
    BY <1>3, <1>6
  <2> QED BY <1>6, <2>1 DEF out
<1>7. CASE /\ a.kind \notin {"countdown", "quote"} /\ (a.kind = "resume" => rev # 0)
           /\ \/ out = Accept(e, rev)
              \/ \E b \in BOOLEAN : out = Accept(Changed(e, b), rev)
              \/ out = Reject("command_rejected", e, rev)
  <2>1. out.revision = rev /\ out.engine \in Engines
    BY <1>1, <1>2, <1>3, <1>7
  <2> QED BY <1>7, <2>1 DEF out
<1> QED BY <1>4, <1>5, <1>6, <1>7 DEF out

\* An action appends at most a quote against the revision as it is, and then
\* moves the revision.
LEMMA QuotesAppended ==
    ASSUME NEW s, IsSeq(s), NEW rev \in Nat, Quotes(s, rev), Rising(s),
           NEW next \in {rev, rev + 1}, NEW r, IsQuote(r) => r.arg = rev /\ next = rev + 1
    PROVE  Quotes(Append(s, r), next) /\ Rising(Append(s, r))
<1> DEFINE t == Append(s, r)
           n == Len(s)
<1>1. n \in Nat /\ Len(t) = n + 1 /\ t[n + 1] = r /\ \A i \in 1..n : t[i] = s[i]
  BY SeqLength, AppendSeq DEF Begins
<1> HIDE DEF t
<1>2. \A i \in 1..(n + 1) : i \in 1..n \/ i = n + 1
  BY <1>1
<1>3. Quotes(t, next)
  BY <1>1, <1>2 DEF Quotes
<1>4. Rising(t)
  <2> SUFFICES ASSUME NEW i \in 1..(n + 1), NEW j \in 1..(n + 1), i < j,
                      IsQuote(t[i]), IsQuote(t[j])
               PROVE  t[i].arg < t[j].arg
    BY <1>1 DEF Rising
  <2>1. i \in 1..n /\ t[i] = s[i] /\ s[i].arg \in Nat /\ s[i].arg < rev
    BY <1>1 DEF Quotes
  <2>2. CASE j = n + 1
    BY <1>1, <2>1, <2>2
  <2>3. CASE j \in 1..n
    BY <1>1, <2>1, <2>3 DEF Rising
  <2> QED BY <1>2, <2>2, <2>3
<1> QED BY <1>3, <1>4 DEF t

\* One more record, after a replay.
LEMMA ReplayedAfter ==
    ASSUME seed \in Seeds, NEW s, IsSeq(s), NEW p, Runtime(p), p.ok => Replayed(s, p), NEW r
    PROVE  LET q == ReplayRecord(p, r)
               out == Execute(r, p.engine, p.revision)
           IN  /\ Runtime(q)
               /\ q.ok <=> p.ok /\ Replays(p, r, out)
               /\ q.ok => /\ Replayed(Append(s, r), q)
                          /\ q.engine = out.engine /\ q.revision = out.revision
                          /\ q.generator = Advanced(p.generator, r)
<1> DEFINE out == Execute(r, p.engine, p.revision)
           q == ReplayRecord(p, r)
<1>1. q = IF p.ok /\ Replays(p, r, out)
            THEN [ok |-> TRUE, records |-> Append(p.records, r), engine |-> out.engine,
                  revision |-> out.revision, generator |-> Advanced(p.generator, r)]
            ELSE [p EXCEPT !.ok = FALSE]
  BY Zenon DEF ReplayRecord, After
<1> HIDE DEF q
<1>2. CASE ~(p.ok /\ Replays(p, r, out))
  <2>1. q = [p EXCEPT !.ok = FALSE]
    BY <1>1, <1>2, Zenon
  <2>2. q.ok = FALSE /\ Runtime(q)
    BY <2>1 DEF Runtime
  <2> QED BY <1>2, <2>2 DEF q
<1>3. CASE p.ok /\ Replays(p, r, out)
  <2> HIDE DEF out
  <2> DEFINE t == Append(p.records, r)
             e == out.engine
             v == out.revision
             g == Advanced(p.generator, r)
  <2> HIDE DEF t, e, v, g
  <2>1. q = [ok |-> TRUE, records |-> t, engine |-> e, revision |-> v, generator |-> g]
    BY <1>1, <1>3, Zenon DEF t, e, v, g
  <2>2. q.ok = TRUE /\ q.records = t /\ q.engine = e /\ q.revision = v /\ q.generator = g
    BY <2>1
  <2>3. Runtime(q)
    BY <2>1, <2>2 DEF Runtime
  <2>4. p.records = s /\ p.engine \in Engines /\ p.revision \in Nat
        /\ WellFormed(p.generator) /\ Ended(p.generator) /\ Quotes(s, p.revision) /\ Rising(s)
    BY <1>3 DEF Replayed
  <2>5. /\ e \in Engines /\ v \in {p.revision, p.revision + 1}
        /\ r.kind = "quote" /\ out.rejection = "none" => r.arg = p.revision /\ v = p.revision + 1
    BY <2>4, ExecuteFacts DEF out, e, v
  <2>6. WellFormed(g) /\ Ended(g)
    <3>1. CASE r.kind \in ScheduledKinds
      <4>1. IsHead(p.generator, r.kind)
        BY <1>3, <3>1 DEF Replays
      <4>2. Draw(p.generator, r.kind) \in Nat
        BY <3>1, DrawInterval
      <4>3. g = CommitKind(p.generator, r.kind, Draw(p.generator, r.kind))
        BY <3>1 DEF g, Advanced
      <4> QED BY <2>4, <3>1, <4>1, <4>2, <4>3, CommitSound
    <3>2. CASE r.kind \notin ScheduledKinds
      BY <2>4, <3>2 DEF g, Advanced
    <3> QED BY <3>1, <3>2
  <2>7. out.rejection = r.rejection
    BY <1>3 DEF Replays
  <2>8. Quotes(t, v) /\ Rising(t)
    BY <2>4, <2>5, <2>7, QuotesAppended DEF t, IsQuote
  <2>9. Replayed(t, q)
    BY <2>2, <2>5, <2>6, <2>8, <2>4 DEF Replayed
  <2>10. t = Append(s, r)
    BY <2>4 DEF t
  <2> QED BY <1>3, <2>2, <2>3, <2>9, <2>10 DEF q, out, e, v, g
<1> QED BY <1>2, <1>3

\* What a replay of any records leaves, if it succeeds.
LEMMA ReplayFacts ==
    ASSUME seed \in Seeds, NEW s, IsSeq(s)
    PROVE  Runtime(Replay(s)) /\ (Replay(s).ok => Replayed(s, Replay(s)))
<1>1. PICK T : s \in Seq(T)
  BY DEF IsSeq
<1> DEFINE P == {t \in Seq(T) : Runtime(Replay(t)) /\ (Replay(t).ok => Replayed(t, Replay(t)))}
<1>2. <<>> \in P
  BY ReplayNothing, NewRuntimeFacts
<1>3. ASSUME NEW t \in Seq(T), NEW r \in T, t \in P PROVE Append(t, r) \in P
  <2>1. Runtime(Replay(t)) /\ (Replay(t).ok => Replayed(t, Replay(t)))
    BY <1>3
  <2>2. IsSeq(t) /\ Append(t, r) \in Seq(T)
    BY DEF IsSeq
  <2>3. Replay(Append(t, r)) = ReplayRecord(Replay(t), r)
    BY ReplayAppend
  <2> DEFINE q == ReplayRecord(Replay(t), r)
  <2>4. Runtime(q) /\ (q.ok => Replayed(Append(t, r), q))
    BY <2>1, <2>2, ReplayedAfter
  <2> HIDE DEF q
  <2> QED BY <2>2, <2>3, <2>4 DEF q
<1> HIDE DEF P
<1>4. Seq(T) \subseteq P
  BY <1>2, <1>3, Turn!SequenceInduction
<1> QED BY <1>1, <1>4 DEF P

-----------------------------------------------------------------------------
(* Quotes *)

\* What a game is created with does not change.
Created == seed \in Seeds /\ mode \in Modes

\* The quote revision is ahead of every accepted quote of the file while the
\* entry is not fenced, and a running day has moved it.
QuoteInv ==
    /\ engine \in Engines /\ revision \in Nat
    /\ Rising(file)
    /\ loaded /\ ~failed => /\ Quotes(file, revision)
                            /\ LifecycleOf(commands) = "running" => revision > 0
    /\ mode = TurnBased => \A i \in 1..Len(file) : file[i].lifecycle = "none"

\* No step changes what the game was created with.
LEMMA FixedStays == [Next]_vars => mode' = mode /\ seed' = seed
<1> SUFFICES ASSUME [Next]_vars PROVE mode' = mode /\ seed' = seed
  OBVIOUS
<1>1. fixed' = fixed
  <2>1. CASE RealTimeNext
    BY <2>1 DEF RealTimeNext, BuildSequencer, Tick, TimerFires, CountdownCompletes, Receive,
                ExecuteDue, DueActionFails, Finish, FinishView, FinishTimer, LoopExecutes
  <2>2. CASE ShutdownNext
    BY <2>2 DEF ShutdownNext, Drain, ShutdownSnapshot, SendShutdownPause, ShutdownPauseReturns,
                ShutdownCloses
  <2>3. ASSUME NEW a \in Requests, TurnCommand(a) \/ TurnCommandFails(a) \/ Retry(a)
        PROVE  fixed' = fixed
    BY <2>3 DEF TurnCommand, TurnCommandFails, Retry
  <2>4. CASE TurnView \/ ProcessEnds \/ MachineCrash \/ UNCHANGED vars
    BY <2>4 DEF TurnView, ProcessEnds, MachineCrash, Forget, vars
  <2>5. ASSUME NEW p, Load(p) \/ LoadFails(p) PROVE fixed' = fixed
    BY <2>5 DEF Load, LoadFails
  <2> QED BY <2>1, <2>2, <2>3, <2>4, <2>5 DEF Next
<1> QED BY <1>1 DEF fixed

\* So it stays among what games are created with.
LEMMA CreatedStays == Created /\ [Next]_vars => Created'
BY FixedStays DEF Created

\* So it always is.
LEMMA CreatedInvariance == Spec => []Created
<1>1. Init => Created
  BY DEF Init, Created
<1> QED BY <1>1, CreatedStays, PTL DEF Spec

\* A beginning of the file keeps the order of its quotes.
LEMMA BeginningRises ==
    ASSUME NEW s, NEW t, IsSeq(s), IsSeq(t), Begins(s, t), Rising(t) PROVE Rising(s)
  BY SeqLength DEF Begins, Rising

\* What the record of an action has of it.
Tells(r, a) ==
    /\ r.kind = a.kind /\ r.arg = a.arg
    /\ r.rejection = Outcome(a).rejection
    /\ r.over = Outcome(a).engine.over /\ r.result = Outcome(a).engine.applied

\* A record that leaves the day running started it or found it so.
LifecycleTold(r, a) ==
    /\ mode = TurnBased => r.lifecycle = "none"
    /\ r.lifecycle = "running" =>
         a.kind \in {"countdown", "resume"} \/ LifecycleOf(commands) = "running"

\* The record that the loop appends tells what it executed,
LEMMA RecordOfTells ==
    ASSUME mode = RealTime, NEW a, NEW at
    PROVE  Tells(RecordOf(a, at, Outcome(a)), a) /\ LifecycleTold(RecordOf(a, at, Outcome(a)), a)
<1> DEFINE out == Outcome(a)
           l == LifecycleAfter(LifecycleOf(commands), a, out)
<1>1. l = "running" => a.kind \in {"countdown", "resume"} \/ LifecycleOf(commands) = "running"
  BY DEF LifecycleAfter
<1> HIDE DEF l, out
<1>2. RecordOf(a, at, out) = Record(a, at, l, out)
  BY DEF RecordOf, l
<1> QED BY <1>1, <1>2 DEF Record, Tells, LifecycleTold, TurnBased, RealTime, out

\* as does that of a turn-based command.
LEMMA TurnRecordTells ==
    ASSUME NEW a PROVE Tells(TurnRecord(a), a) /\ LifecycleTold(TurnRecord(a), a)
  BY DEF TurnRecord, Record, Tells, LifecycleTold

\* What executing an action means for the quotes of the file.
LEMMA OutcomeQuotes ==
    ASSUME QuoteInv, NEW a, NEW r, Tells(r, a)
    PROVE  /\ Outcome(a).engine \in Engines /\ Outcome(a).revision \in {revision, revision + 1}
           /\ IsQuote(r) => r.arg = revision /\ Outcome(a).revision = revision + 1
           /\ a.kind \in {"countdown", "resume"} => Outcome(a).revision > 0
<1>1. engine \in Engines /\ revision \in Nat
  BY DEF QuoteInv
<1>2. LET out == Execute(a, engine, revision)
      IN  /\ out.engine \in Engines /\ out.revision \in {revision, revision + 1}
          /\ a.kind = "quote" /\ out.rejection = "none" =>
               a.arg = revision /\ out.revision = revision + 1
          /\ a.kind \in {"countdown", "resume"} => out.revision > 0
  BY <1>1, ExecuteFacts
<1> QED BY <1>2 DEF Outcome, Tells, IsQuote

\* A turn-based record has no lifecycle.
LEMMA AppendedNone ==
    ASSUME NEW s, IsSeq(s), \A i \in 1..Len(s) : s[i].lifecycle = "none",
           NEW r, r.lifecycle = "none"
    PROVE  \A i \in 1..Len(Append(s, r)) : Append(s, r)[i].lifecycle = "none"
<1>1. /\ Len(s) \in Nat /\ Len(Append(s, r)) = Len(s) + 1 /\ Append(s, r)[Len(s) + 1] = r
      /\ \A i \in 1..Len(s) : Append(s, r)[i] = s[i]
  BY SeqLength, AppendSeq DEF Begins
<1>2. \A i \in 1..(Len(s) + 1) : i \in 1..Len(s) \/ i = Len(s) + 1
  BY <1>1
<1> QED BY <1>1, <1>2

\* A commit keeps the quotes in order.
LEMMA CommitsQuotes ==
    ASSUME SessionInv, QuoteInv, loaded, ~failed, NEW a, NEW r, Tells(r, a), LifecycleTold(r, a),
           Commits(r, Outcome(a)), UNCHANGED <<mode, loaded>>
    PROVE  QuoteInv'
<1> DEFINE v == Outcome(a).revision
<1>1. /\ file' = Append(file, r) /\ commands' = Append(commands, r)
      /\ engine' = Outcome(a).engine /\ revision' = v
      /\ failed' = failed /\ mode' = mode /\ loaded' = loaded
  BY DEF Commits
<1>2. /\ Outcome(a).engine \in Engines /\ v \in {revision, revision + 1}
      /\ IsQuote(r) => r.arg = revision /\ v = revision + 1
      /\ a.kind \in {"countdown", "resume"} => v > 0
  BY OutcomeQuotes
<1> HIDE DEF v
<1>3. /\ IsSeq(file) /\ IsSeq(commands) /\ revision \in Nat /\ Rising(file) /\ Quotes(file, revision)
      /\ LifecycleOf(commands) = "running" => revision > 0
  BY DEF SessionInv, StoreInv, QuoteInv
<1>4. Quotes(file', v) /\ Rising(file')
  BY <1>1, <1>2, <1>3, QuotesAppended
<1>5. v \in Nat
  BY <1>2, <1>3
<1>6. LifecycleOf(commands') = r.lifecycle
  BY <1>1, <1>3, LastOfAppend DEF LifecycleOf
<1>7. r.lifecycle = "running" => v > 0
  BY <1>2, <1>3 DEF LifecycleTold
<1>8. mode' = TurnBased => \A i \in 1..Len(file') : file'[i].lifecycle = "none"
  BY <1>1, <1>3, AppendedNone DEF LifecycleTold, QuoteInv
<1> HIDE DEF Engines
<1> QED BY <1>1, <1>2, <1>4, <1>5, <1>6, <1>7, <1>8 DEF QuoteInv

\* A record in doubt is a quote against the revision as it was, at most.
LEMMA FileQuotes ==
    ASSUME SessionInv, QuoteInv, loaded, ~failed, NEW a, NEW r, Tells(r, a), LifecycleTold(r, a),
           file' \in {file, Append(file, r)}, mode' = mode
    PROVE  /\ Rising(file')
           /\ mode' = TurnBased => \A i \in 1..Len(file') : file'[i].lifecycle = "none"
<1> DEFINE v == Outcome(a).revision
<1>1. v \in {revision, revision + 1} /\ (IsQuote(r) => r.arg = revision /\ v = revision + 1)
  BY OutcomeQuotes
<1> HIDE DEF v
<1>2. IsSeq(file) /\ revision \in Nat /\ Rising(file) /\ Quotes(file, revision)
  BY DEF SessionInv, StoreInv, QuoteInv
<1>3. CASE file' = file
  BY <1>2, <1>3 DEF QuoteInv
<1>4. CASE file' = Append(file, r)
  <2>1. Rising(file')
    BY <1>1, <1>2, <1>4, QuotesAppended
  <2>2. mode' = TurnBased => \A i \in 1..Len(file') : file'[i].lifecycle = "none"
    BY <1>2, <1>4, AppendedNone DEF LifecycleTold, QuoteInv
  <2> QED BY <2>1, <2>2
<1> QED BY <1>3, <1>4

\* A failed append keeps them in order in the file; the entry is fenced.
LEMMA AppendFailsQuotes ==
    ASSUME SessionInv, QuoteInv, loaded, ~failed, NEW a, NEW r, Tells(r, a), LifecycleTold(r, a),
           AppendFails(r, Outcome(a)), mode' = mode
    PROVE  QuoteInv'
<1>1. /\ file' \in {file, Append(file, r)} /\ failed' = TRUE
      /\ engine' = Outcome(a).engine /\ revision' = Outcome(a).revision
  BY DEF AppendFails, storage
<1>2. Outcome(a).engine \in Engines /\ Outcome(a).revision \in Nat
  <2>1. /\ Outcome(a).engine \in Engines /\ Outcome(a).revision \in {revision, revision + 1}
        /\ revision \in Nat
    BY OutcomeQuotes DEF QuoteInv
  <2> QED BY <2>1
<1>3. /\ Rising(file')
      /\ mode' = TurnBased => \A i \in 1..Len(file') : file'[i].lifecycle = "none"
  BY <1>1, FileQuotes
<1> HIDE DEF Engines
<1> QED BY <1>1, <1>2, <1>3 DEF QuoteInv

\* Whatever the loop executes.
LEMMA LoopQuotes ==
    ASSUME SessionInv, QuoteInv, status \notin Dead, NEW a, NEW at,
           \/ Commits(RecordOf(a, at, Outcome(a)), Outcome(a))
           \/ AppendFails(RecordOf(a, at, Outcome(a)), Outcome(a)),
           UNCHANGED <<mode, loaded>>
    PROVE  QuoteInv'
<1>1. loaded /\ ~failed /\ mode = RealTime
  BY AliveServes DEF SessionInv
<1> DEFINE r == RecordOf(a, at, Outcome(a))
<1>2. Tells(r, a) /\ LifecycleTold(r, a)
  BY <1>1, RecordOfTells
<1> HIDE DEF r
<1>3. Commits(r, Outcome(a)) \/ AppendFails(r, Outcome(a))
  BY DEF r
<1> QED BY <1>1, <1>2, <1>3, CommitsQuotes, AppendFailsQuotes

\* A turn-based command, committed or not.
LEMMA TurnQuotes ==
    ASSUME SessionInv, QuoteInv, Created, NEW a, TurnCommand(a) \/ TurnCommandFails(a)
    PROVE  QuoteInv'
<1> DEFINE r == TurnRecord(a)
<1>1. Tells(r, a) /\ LifecycleTold(r, a)
  BY TurnRecordTells
<1>2. mode = TurnBased /\ loaded /\ ~failed /\ UNCHANGED <<mode, loaded>>
  BY DEF TurnCommand, TurnCommandFails, TurnAdmitted, fixed
<1>3. CASE TurnCommand(a)
  <2>1. Commits(r, Outcome(a))
    BY <1>3 DEF TurnCommand
  <2> HIDE DEF r
  <2> QED BY <1>1, <1>2, <2>1, CommitsQuotes
<1>4. CASE TurnCommandFails(a)
  <2>1. /\ file' \in {file, Append(file, r)}
        /\ \/ Rebuild(Replay(file'))
           \/ /\ failed' = TRUE /\ engine' = Outcome(a).engine
              /\ UNCHANGED <<commands, revision, generator>>
    BY <1>4 DEF TurnCommandFails
  <2> HIDE DEF r
  <2>2. /\ Rising(file')
        /\ mode' = TurnBased => \A i \in 1..Len(file') : file'[i].lifecycle = "none"
    BY <1>1, <1>2, <2>1, FileQuotes
  <2>3. CASE Rebuild(Replay(file'))
    <3> DEFINE p == Replay(file')
    <3>1. /\ p.ok /\ commands' = file' /\ engine' = p.engine /\ revision' = p.revision
      BY <2>3 DEF Rebuild
    <3>2. IsSeq(file')
      BY <1>2, <2>1, TurnFileKeeps DEF SessionInv
    <3>3. p.ok => Replayed(file', p)
      BY <3>2, ReplayFacts DEF Created
    <3> HIDE DEF p
    <3>4. p.engine \in Engines /\ p.revision \in Nat /\ Quotes(file', p.revision)
      BY <3>1, <3>3 DEF Replayed
    <3>5. LifecycleOf(commands') # "running"
      <4>1. CASE file' = <<>>
        BY <3>1, <4>1 DEF LifecycleOf
      <4>2. CASE file' # <<>>
        <5>1. Len(file') \in 1..Len(file')
          <6>1. PICK S : file' \in Seq(S)
            BY <3>2 DEF IsSeq
          <6> QED BY <4>2, <6>1, EmptySeq
        <5>2. Last(file').lifecycle = "none"
          BY <1>2, <2>2, <5>1 DEF Last
        <5> QED BY <3>1, <4>2, <5>2 DEF LifecycleOf
      <4> QED BY <4>1, <4>2
    <3> HIDE DEF Engines
    <3> QED BY <2>2, <3>1, <3>4, <3>5 DEF QuoteInv
  <2>4. CASE /\ failed' = TRUE /\ engine' = Outcome(a).engine
             /\ UNCHANGED <<commands, revision, generator>>
    <3>1. Outcome(a).engine \in Engines
      BY <1>1, OutcomeQuotes
    <3> HIDE DEF Engines
    <3> QED BY <2>2, <2>4, <3>1 DEF QuoteInv
  <2> QED BY <2>1, <2>3, <2>4
<1> QED BY <1>3, <1>4

\* What the end of a process or of the machine leaves of the quotes.
LEMMA ForgetQuotes ==
    ASSUME SessionInv, QuoteInv, Created, Forget, IsSeq(file'), Begins(file', file)
    PROVE  QuoteInv'
<1>1. /\ loaded' = FALSE /\ engine' = NewRuntime.engine /\ revision' = 0 /\ mode' = mode
  BY DEF Forget, fixed
<1>2. NewRuntime.engine \in Engines
  BY NewRuntimeFacts DEF Created, Replayed
<1>3. Rising(file')
  BY BeginningRises DEF SessionInv, StoreInv, QuoteInv
<1>4. mode' = TurnBased => \A i \in 1..Len(file') : file'[i].lifecycle = "none"
  <2>1. IsSeq(file)
    BY DEF SessionInv, StoreInv
  <2>2. \A i \in 1..Len(file') : i \in 1..Len(file) /\ file'[i] = file[i]
    BY <2>1, SeqLength DEF Begins
  <2> QED BY <1>1, <2>2 DEF QuoteInv
<1> HIDE DEF Engines
<1> QED BY <1>1, <1>2, <1>3, <1>4 DEF QuoteInv

\* A recovery pause is no quote, and a loaded day is not running.
LEMMA LoadQuotes ==
    ASSUME SessionInv, QuoteInv, Created, Load(Replay(file)) \/ LoadFails(Replay(file))
    PROVE  QuoteInv'
<1> DEFINE p == Replay(file)
           out == Execute(RecoveryPause, p.engine, p.revision)
           r == PauseRecord(out)
           interrupted == mode = RealTime /\ LifecycleOf(file) \in Active
<1>1. IsSeq(file) /\ Rising(file)
  BY DEF SessionInv, StoreInv, QuoteInv
<1>2. p.ok => Replayed(file, p)
  BY <1>1, ReplayFacts DEF Created
<1>3. p.ok /\ mode' = mode
  BY DEF Load, LoadFails, fixed
<1>4. r.kind = "pause" /\ r.lifecycle = "paused"
  BY DEF PauseRecord, Record, RecoveryPause, Action
<1>5. \/ /\ file' = (IF interrupted THEN Append(file, r) ELSE file) /\ commands' = file'
         /\ engine' = p.engine /\ revision' = p.revision
      \/ /\ interrupted /\ file' = Append(file, r)
         /\ loaded' = FALSE /\ engine' = engine /\ revision' = revision
  <2>1. ASSUME Load(p)
        PROVE  /\ file' = (IF interrupted THEN Append(file, r) ELSE file) /\ commands' = file'
               /\ engine' = p.engine /\ revision' = p.revision
    BY <2>1 DEF Load
  <2>2. ASSUME LoadFails(p)
        PROVE  /\ interrupted /\ file' = Append(file, r)
               /\ loaded' = FALSE /\ engine' = engine /\ revision' = revision
    <3>1. loaded \in BOOLEAN
      BY DEF SessionInv, LoopInv
    <3> QED BY <2>2, <3>1 DEF LoadFails, memory
  <2> QED BY <2>1, <2>2
<1> HIDE DEF p, out, r
<1>6. /\ p.engine \in Engines /\ p.revision \in Nat /\ Quotes(file, p.revision)
  BY <1>2, <1>3 DEF Replayed
<1>7. Quotes(Append(file, r), p.revision) /\ Rising(Append(file, r))
  BY <1>1, <1>4, <1>6, QuotesAppended DEF IsQuote
<1>8. interrupted => ~(mode' = TurnBased)
  BY <1>3 DEF TurnBased, RealTime
<1>9. /\ Rising(file')
      /\ mode' = TurnBased => \A i \in 1..Len(file') : file'[i].lifecycle = "none"
  <2>1. CASE file' = Append(file, r) /\ interrupted
    BY <1>7, <1>8, <2>1
  <2>2. CASE file' = file
    BY <1>1, <1>3, <2>2 DEF QuoteInv
  <2> QED BY <1>5, <2>1, <2>2
<1>10. CASE /\ file' = (IF interrupted THEN Append(file, r) ELSE file) /\ commands' = file'
            /\ engine' = p.engine /\ revision' = p.revision
  <2>1. Quotes(file', p.revision)
    BY <1>6, <1>7, <1>10
  <2>2. LifecycleOf(commands') # "running"
    <3>1. CASE interrupted
      <4>1. file' # <<>> /\ Last(file') = r
        BY <1>1, <1>10, <3>1, LastOfAppend
      <4> QED BY <1>4, <1>10, <4>1 DEF LifecycleOf
    <3>2. CASE ~interrupted
      <4>1. commands' = file
        BY <1>10, <3>2
      <4>2. CASE mode = RealTime
        BY <3>2, <4>1, <4>2 DEF Active
      <4>3. CASE mode # RealTime
        <5>1. mode = TurnBased
          BY <4>3 DEF SessionInv, LoopInv
        <5>2. CASE file = <<>>
          BY <4>1, <5>2 DEF LifecycleOf
        <5>3. CASE file # <<>>
          <6>1. PICK S : file \in Seq(S)
            BY <1>1 DEF IsSeq
          <6>2. Len(file) \in 1..Len(file)
            BY <5>3, <6>1, EmptySeq
          <6> QED BY <4>1, <5>1, <5>3, <6>2 DEF LifecycleOf, Last, QuoteInv
        <5> QED BY <5>2, <5>3
      <4> QED BY <4>2, <4>3
    <3> QED BY <3>1, <3>2
  <2> HIDE DEF Engines, interrupted
  <2> QED BY <1>6, <1>9, <1>10, <2>1, <2>2 DEF QuoteInv
<1>11. CASE loaded' = FALSE /\ engine' = engine /\ revision' = revision
  BY <1>9, <1>11 DEF QuoteInv
<1> QED BY <1>5, <1>10, <1>11

\* Every step keeps the quotes in order.
LEMMA QuoteStep ==
    ASSUME SessionInv, QuoteInv, Created, [Next]_vars PROVE QuoteInv'
<1>1. CASE QuietStep
  <2>1. UNCHANGED memory
    BY <1>1 DEF QuietStep, BuildSequencer, Tick, TimerFires, FinishView, FinishTimer, Receive,
                DueActionFails, TurnView, ShutdownNext, Drain, ShutdownSnapshot, SendShutdownPause,
                ShutdownPauseReturns, ShutdownCloses
  <2> QED BY <1>1, <2>1, QuietStepKeeps DEF QuoteInv, memory, storage
<1>2. CASE CountdownCompletes
  <2> DEFINE a == Action(<<"countdown", Last(commands).id>>, "countdown", 0)
  <2>1. status \notin Dead /\ LoopExecutes(a, "running")
    BY <1>2 DEF CountdownCompletes, Dead
  <2> QED BY <2>1, LoopQuotes DEF LoopExecutes, fixed
<1>3. ASSUME NEW k \in ScheduledKinds, ExecuteDue(k) PROVE QuoteInv'
  <2> DEFINE a == Scheduled(generator, k)
             at == generator.candidates[k].due
  <2>1. /\ status \notin Dead /\ UNCHANGED <<mode, loaded>>
        /\ \/ Commits(RecordOf(a, at, Outcome(a)), Outcome(a))
           \/ AppendFails(RecordOf(a, at, Outcome(a)), Outcome(a))
    BY <1>3 DEF ExecuteDue, Dead, fixed
  <2> QED BY <2>1, LoopQuotes
<1>4. CASE Finish
  <2>1. status \notin Dead /\ LoopExecutes(job, Leads(job, Outcome(job)))
    BY <1>4 DEF Finish, SessionInv, LoopInv
  <2> QED BY <2>1, LoopQuotes DEF LoopExecutes, fixed
<1>5. ASSUME NEW a \in Requests, TurnCommand(a) \/ TurnCommandFails(a) PROVE QuoteInv'
  BY <1>5, TurnQuotes
<1>6. ASSUME NEW a \in Requests, Retry(a) PROVE QuoteInv'
  BY <1>6 DEF Retry, QuoteInv, memory, storage, fixed
<1>7. CASE ProcessEnds
  BY <1>7, ForgetQuotes, BeginsReflexive DEF ProcessEnds, storage, SessionInv, StoreInv
<1>8. CASE MachineCrash
  <2>1. Forget /\ file' \in {file, Durable}
    BY <1>8 DEF MachineCrash, Durable
  <2>2. IsSeq(file') /\ Begins(file', file)
    BY <2>1, DurableSeq, BeginsReflexive DEF SessionInv, StoreInv
  <2> QED BY <2>1, <2>2, ForgetQuotes
<1>9. CASE Load(Replay(file)) \/ LoadFails(Replay(file))
  BY <1>9, LoadQuotes
<1>10. CASE UNCHANGED vars
  BY <1>10 DEF QuoteInv, vars, memory, storage, fixed
<1> QED
  BY <1>1, <1>2, <1>3, <1>4, <1>5, <1>6, <1>7, <1>8, <1>9, <1>10
     DEF Next, RealTimeNext, QuietStep

\* The quotes are always in order.
LEMMA QuoteInvariance == Spec => []QuoteInv
<1>1. Init => QuoteInv
  <2> SUFFICES ASSUME Init PROVE QuoteInv
    OBVIOUS
  <2>1. NewRuntime.engine \in Engines /\ NewRuntime.revision = 0 /\ Quotes(<<>>, 0) /\ Rising(<<>>)
    <3>1. seed \in Seeds
      BY DEF Init
    <3>2. NewRuntime.revision = 0
      BY DEF NewRuntime
    <3>3. Replayed(<<>>, NewRuntime)
      BY <3>1, NewRuntimeFacts
    <3> QED BY <3>2, <3>3 DEF Replayed
  <2>2. file = <<>> /\ commands = <<>> /\ engine = NewRuntime.engine /\ revision = 0
    BY DEF Init
  <2>3. LifecycleOf(commands) # "running" /\ \A i \in 1..Len(file) : FALSE
    BY <2>2, NoRecords DEF LifecycleOf
  <2> HIDE DEF Engines
  <2> QED BY <2>1, <2>2, <2>3 DEF QuoteInv
<1>2. SessionInv /\ Created /\ QuoteInv /\ [Next]_vars => QuoteInv'
  BY QuoteStep
<1> QED BY <1>1, <1>2, SessionInvariance, CreatedInvariance, PTL DEF Spec

-----------------------------------------------------------------------------
(* Replaying a log after a step *)

\* Replay, one record after the other, in any state.
TakesTurns ==
    /\ \A T : \A s \in Seq(T), r \in T : Replay(Append(s, r)) = ReplayRecord(Replay(s), r)
    /\ Replay(<<>>) = NewRuntime

\* Replay takes one record after the other.
LEMMA ReplayTakesTurns == TakesTurns
BY ReplayAppend, ReplayNothing DEF TakesTurns

\* A step that leaves the creation of the game alone changes no replay.
LEMMA ReplaysAlike ==
    ASSUME mode' = mode, seed' = seed, NEW s, IsSeq(s)
    PROVE  Replay(s)' = Replay(s)
<1>1. TakesTurns'
  BY ReplayTakesTurns, PTL
<1>2. NewRuntime' = NewRuntime
  BY DEF NewRuntime
<1>3. ASSUME NEW p, NEW r PROVE ReplayRecord(p, r)' = ReplayRecord(p, r)
  <2>1. ASSUME NEW a, NEW e, NEW rev PROVE Execute(a, e, rev)' = Execute(a, e, rev)
    BY Zenon DEF Execute, Refuses
  <2>2. ASSUME NEW g, NEW k PROVE Draw(g, k)' = Draw(g, k)
    BY Zenon DEF Draw
  <2>3. Advanced(p.generator, r)' = Advanced(p.generator, r)
    BY <2>2, Zenon DEF Advanced
  <2>4. ASSUME NEW out PROVE Replays(p, r, out)' = Replays(p, r, out)
    <3>1. LogAccepts(p.records, r)' = LogAccepts(p.records, r)
      BY Zenon DEF LogAccepts
    <3> QED BY <3>1, Zenon DEF Replays
  <2>5. ASSUME NEW out PROVE After(p, r, out)' = After(p, r, out)
    BY <2>3, <2>4, Zenon DEF After
  <2> QED BY <2>1, <2>5, Zenon DEF ReplayRecord
<1>4. PICK T : s \in Seq(T)
  BY DEF IsSeq
<1> DEFINE P == {t \in Seq(T) : Replay(t)' = Replay(t)}
<1>5. <<>> \in P
  BY <1>1, <1>2, ReplayTakesTurns DEF TakesTurns
<1>6. ASSUME NEW t \in Seq(T), NEW r \in T, t \in P PROVE Append(t, r) \in P
  <2>1. /\ Replay(Append(t, r)) = ReplayRecord(Replay(t), r)
        /\ Replay(Append(t, r))' = ReplayRecord(Replay(t), r)'
    BY <1>1, ReplayTakesTurns DEF TakesTurns
  <2>2. Replay(t)' = Replay(t)
    BY <1>6
  <2>3. Append(t, r) \in Seq(T)
    OBVIOUS
  <2> QED BY <1>3, <2>1, <2>2, <2>3
<1> HIDE DEF P
<1>7. Seq(T) \subseteq P
  BY <1>5, <1>6, Turn!SequenceInduction
<1> QED BY <1>4, <1>7 DEF P

-----------------------------------------------------------------------------
(* Identifiers *)

\* No two records share an identifier.
Distinct(s) == \A i, j \in 1..Len(s) : s[i].id = s[j].id => i = j

\* Where the identifier of a record comes from, for a generator that has
\* committed what was scheduled among the records.
Identified(s, i, g) ==
    \/ s[i].id \in IDs
    \/ /\ s[i].kind \in ScheduledKinds
       /\ \E n \in 1..g.generated :
            /\ s[i].id = <<s[i].kind, n>>
            /\ s[i].kind \in Pending(g) => g.candidates[s[i].kind].sequence # n
    \/ /\ s[i].kind = "countdown" /\ i > 1
       /\ s[i - 1].id \in IDs /\ s[i].id = <<"countdown", s[i - 1].id>>
    \/ s[i].kind = "pause" /\ s[i].id = <<"recovery", i - 1>>
    \/ s[i].kind = "pause" /\ \E n \in 1..i : s[i].id = <<"shutdown", n>>

Unknown(s, id) == \A i \in 1..Len(s) : s[i].id # id

\* The same of an action that is to follow the records.
Named(s, g, a) ==
    \/ a.id \in IDs /\ Unknown(s, a.id)
    \/ a.kind \in Pending(g) /\ a.id = ScheduledID(g, a.kind)
    \/ /\ a.kind = "countdown" /\ Len(s) > 0
       /\ s[Len(s)].id \in IDs /\ a.id = <<"countdown", s[Len(s)].id>>
    \/ a.kind = "pause" /\ a.id = <<"recovery", Len(s)>>
    \/ a.kind = "pause" /\ Unknown(s, a.id) /\ \E n \in 1..(Len(s) + 1) : a.id = <<"shutdown", n>>

\* Two pairs are the same if both of their parts are.
LEMMA Pairs == \A a, b, c, d : <<a, b>> = <<c, d>> => a = c /\ b = d
OBVIOUS

\* The identifiers of the system are not those of clients.
LEMMA SystemNames ==
    /\ \A k \in ScheduledKinds \cup {"recovery", "shutdown"}, n \in Nat : <<k, n>> \notin IDs
    /\ \A id \in IDs : <<"countdown", id>> \notin IDs
<1>1. \A x \in SystemIDs : x \notin IDs
  BY SessionAssumption
<1>2. \A k \in ScheduledKinds \cup {"recovery", "shutdown"}, n \in Nat : <<k, n>> \in SystemIDs
  BY DEF SystemIDs
<1>3. \A id \in IDs : <<"countdown", id>> \in SystemIDs
  BY DEF SystemIDs
<1> QED BY <1>1, <1>2, <1>3

\* An action that is named like this has an identifier that no record has.
LEMMA NamesAreNew ==
    ASSUME NEW s, IsSeq(s), Distinct(s), NEW g, WellFormed(g),
           \A i \in 1..Len(s) : Identified(s, i, g),
           NEW a, Named(s, g, a)
    PROVE  Unknown(s, a.id)
<1> SUFFICES ASSUME NEW i \in 1..Len(s), s[i].id = a.id, ~Unknown(s, a.id) PROVE FALSE
  BY DEF Unknown
<1>1. Len(s) \in Nat /\ i \in Nat /\ i - 1 \in Nat
  BY SeqLength
<1>2. /\ g.generated \in Nat
      /\ \A k \in Pending(g) : g.candidates[k].sequence \in Nat /\ k \in ScheduledKinds
  BY DEF WellFormed, GeneratorType, Candidate, Pending
<1>3. Identified(s, i, g)
  OBVIOUS
<1>4. {"countdown", "recovery", "shutdown"} \cap ScheduledKinds = {}
  BY DEF ScheduledKinds, MarketKinds
<1>5. CASE a.kind \in Pending(g) /\ a.id = ScheduledID(g, a.kind)
  <2> DEFINE n == g.candidates[a.kind].sequence
  <2>1. a.id = <<a.kind, n>> /\ n \in Nat /\ a.kind \in ScheduledKinds
    BY <1>2, <1>5 DEF ScheduledID
  <2>2. a.id \notin IDs
    BY <2>1, SystemNames
  <2>3. ASSUME NEW m \in 1..g.generated, s[i].id = <<s[i].kind, m>>,
               s[i].kind \in Pending(g) => g.candidates[s[i].kind].sequence # m
        PROVE  FALSE
    <3>1. s[i].kind = a.kind /\ m = n
      BY <2>1, <2>3, Pairs
    <3> QED BY <1>5, <2>3, <3>1
  <2>4. \A x : s[i].id # <<"countdown", x>> /\ s[i].id # <<"recovery", x>>
               /\ s[i].id # <<"shutdown", x>>
    BY <1>4, <2>1, Pairs
  <2> QED BY <1>3, <2>2, <2>3, <2>4 DEF Identified
<1>6. CASE /\ a.kind = "countdown" /\ Len(s) > 0
           /\ s[Len(s)].id \in IDs /\ a.id = <<"countdown", s[Len(s)].id>>
  <2>1. a.id \notin IDs
    BY <1>6, SystemNames
  <2>2. \A k \in ScheduledKinds \cup {"recovery", "shutdown"} : \A x : s[i].id # <<k, x>>
    BY <1>4, <1>6, Pairs
  <2>3. i > 1 /\ s[i].id = <<"countdown", s[i - 1].id>>
    BY <1>3, <2>1, <2>2 DEF Identified
  <2>4. s[i - 1].id = s[Len(s)].id
    BY <1>6, <2>3, Pairs
  <2>5. i - 1 \in 1..Len(s) /\ Len(s) \in 1..Len(s)
    BY <1>1, <1>6, <2>3
  <2>6. i - 1 = Len(s)
    BY <2>4, <2>5 DEF Distinct
  <2> QED BY <1>1, <2>6
<1>7. CASE a.kind = "pause" /\ a.id = <<"recovery", Len(s)>>
  <2>1. a.id \notin IDs
    BY <1>1, <1>7, SystemNames
  <2>2. \A k \in ScheduledKinds \cup {"countdown", "shutdown"} : \A x : s[i].id # <<k, x>>
    BY <1>4, <1>7, Pairs
  <2>3. s[i].id = <<"recovery", i - 1>>
    BY <1>3, <2>1, <2>2 DEF Identified
  <2>4. i - 1 = Len(s)
    BY <1>7, <2>3, Pairs
  <2> QED BY <1>1, <2>4
<1> QED BY <1>5, <1>6, <1>7 DEF Named

\* Once it is recorded, all records are identified as before.
LEMMA NamesKept ==
    ASSUME NEW s, IsSeq(s), Distinct(s), NEW g, WellFormed(g), Ended(g),
           \A i \in 1..Len(s) : Identified(s, i, g),
           NEW a, Named(s, g, a), NEW r, r.id = a.id, r.kind = a.kind, seed \in Seeds,
           r.kind \in ScheduledKinds => IsHead(g, r.kind) /\ r.id = ScheduledID(g, r.kind)
    PROVE  /\ Distinct(Append(s, r))
           /\ \A i \in 1..Len(Append(s, r)) : Identified(Append(s, r), i, Advanced(g, r))
<1> DEFINE t == Append(s, r)
           h == Advanced(g, r)
           n == Len(s)
<1>1. n \in Nat /\ Len(t) = n + 1 /\ t[n + 1] = r /\ \A i \in 1..n : t[i] = s[i]
  BY SeqLength, AppendSeq DEF Begins
<1>2. Unknown(s, r.id)
  BY NamesAreNew
<1>3. /\ g.generated \in Nat /\ Pending(g) \subseteq ScheduledKinds
      /\ \A k \in Pending(g) : g.candidates[k].sequence \in 1..g.generated
  BY DEF WellFormed, GeneratorType, Numbered, Pending
<1>4. /\ h.generated \in Nat /\ g.generated <= h.generated
      /\ \A k \in Pending(h) :
           IF k = r.kind /\ r.kind \in ScheduledKinds
             THEN h.candidates[k].sequence = g.generated + 1
             ELSE k \in Pending(g) /\ h.candidates[k] = g.candidates[k]
  <2>1. CASE r.kind \in ScheduledKinds
    <3> DEFINE d == Draw(g, r.kind)
    <3>1. d \in Nat
      BY <2>1, DrawInterval
    <3>2. h = CommitKind(g, r.kind, d)
      BY <2>1 DEF Advanced
    <3> HIDE DEF d, h
    <3>3. /\ WellFormed(h) /\ g.generated <= h.generated
          /\ \A j \in Pending(h) \ {r.kind} : j \in Pending(g) /\ h.candidates[j] = g.candidates[j]
          /\ r.kind \in Pending(h) => h.candidates[r.kind].sequence = g.generated + 1
      BY <2>1, <3>1, <3>2, CommitSound
    <3>4. h.generated \in Nat
      BY <3>3 DEF WellFormed, GeneratorType
    <3> QED BY <2>1, <3>3, <3>4
  <2>2. CASE r.kind \notin ScheduledKinds
    <3>1. h = g
      BY <2>2 DEF Advanced
    <3> QED BY <1>3, <2>2, <3>1
  <2> QED BY <2>1, <2>2
<1> HIDE DEF t, h
<1>5. Distinct(t)
  BY <1>1, <1>2 DEF Distinct, Unknown
<1>6. ASSUME NEW i \in 1..n PROVE Identified(t, i, h)
  <2>1. /\ t[i] = s[i] /\ (i > 1 => t[i - 1] = s[i - 1])
    BY <1>1
  <2>2. Identified(s, i, g)
    OBVIOUS
  <2>3. CASE /\ s[i].kind \in ScheduledKinds
             /\ \E m \in 1..g.generated :
                  /\ s[i].id = <<s[i].kind, m>>
                  /\ s[i].kind \in Pending(g) => g.candidates[s[i].kind].sequence # m
    <3>1. PICK m \in 1..g.generated :
                 /\ s[i].id = <<s[i].kind, m>>
                 /\ s[i].kind \in Pending(g) => g.candidates[s[i].kind].sequence # m
      BY <2>3
    <3>2. m \in 1..h.generated
      BY <1>3, <1>4
    <3>3. s[i].kind \in Pending(h) => h.candidates[s[i].kind].sequence # m
      BY <1>3, <1>4, <3>1
    <3> QED BY <2>1, <2>3, <3>1, <3>2, <3>3 DEF Identified
  <2> QED BY <2>1, <2>2, <2>3 DEF Identified
<1>7. Identified(t, n + 1, h)
  <2>1. t[n + 1] = r /\ (n > 0 => t[n] = s[n])
    BY <1>1
  <2>2. CASE a.kind \in Pending(g) /\ a.id = ScheduledID(g, a.kind)
    <3> DEFINE m == g.candidates[r.kind].sequence
    <3>1. m \in 1..g.generated /\ r.id = <<r.kind, m>> /\ r.kind \in ScheduledKinds
      BY <1>3, <2>2 DEF ScheduledID
    <3> HIDE DEF m
    <3>2. m \in 1..h.generated
      BY <1>3, <1>4, <3>1
    <3>3. r.kind \in Pending(h) => h.candidates[r.kind].sequence # m
      BY <1>3, <1>4, <3>1
    <3> QED BY <2>1, <3>1, <3>2, <3>3 DEF Identified
  <2>3. CASE a.id \in IDs
    BY <2>1, <2>3 DEF Identified
  <2>4. CASE /\ a.kind = "countdown" /\ n > 0
             /\ s[n].id \in IDs /\ a.id = <<"countdown", s[n].id>>
    <3>1. n + 1 > 1 /\ n + 1 - 1 = n
      BY <1>1, <2>4
    <3> QED BY <2>1, <2>4, <3>1 DEF Identified
  <2>5. CASE a.kind = "pause" /\ a.id = <<"recovery", n>>
    <3>1. n + 1 - 1 = n
      BY <1>1
    <3> QED BY <2>1, <2>5, <3>1 DEF Identified
  <2>6. CASE a.kind = "pause" /\ \E m \in 1..(n + 1) : a.id = <<"shutdown", m>>
    BY <2>1, <2>6 DEF Identified
  <2> QED BY <2>2, <2>3, <2>4, <2>5, <2>6 DEF Named
<1>8. \A i \in 1..(n + 1) : i \in 1..n \/ i = n + 1
  BY <1>1
<1> QED BY <1>1, <1>5, <1>6, <1>7, <1>8 DEF t, h

-----------------------------------------------------------------------------
(* What an action leads to *)

\* Where the loop, a recovery or a shutdown executes each kind of action.
Legal(l, kind, at) ==
    \/ kind = "start" /\ l = "preparing" /\ at = 0
    \/ kind = "countdown" /\ l = "countdown" /\ at = 0
    \/ kind \in ScheduledKinds \cup {"quote"} /\ l = "running"
    \/ kind = "pause" /\ (l = "running" \/ (l = "countdown" /\ at = 0))
    \/ kind = "resume" /\ l = "paused"
    \/ kind = "quit" /\ l \in {"preparing", "countdown", "running", "paused"}

\* Whether the game is over after an action that it was not over before.
LEMMA ExecuteEnds ==
    ASSUME NEW a, NEW e, e.over = FALSE, NEW rev
    PROVE  LET out == Execute(a, e, rev)
           IN  /\ out.engine.over \in BOOLEAN
               /\ a.kind \in {"start", "countdown", "quote", "pause", "resume"} => ~out.engine.over
               /\ a.kind \in {"quit", "expired"} => out.engine.over
               /\ a.kind \notin {"start", "quote"} => out.rejection = "none"
<1> DEFINE out == Execute(a, e, rev)
<1>1. /\ \A d, v : Accept(d, v).engine = d /\ Accept(d, v).rejection = "none"
      /\ \A c, d, v : Reject(c, d, v).engine = d
      /\ Changed(e, FALSE).over = FALSE /\ Changed(e, TRUE).over = TRUE
      /\ \A b \in BOOLEAN : Changed(e, b).over \in BOOLEAN
  <2>1. \A b : Changed(e, b).over = b
    BY DEF Changed
  <2>2. /\ Changed(e, FALSE).over = FALSE /\ Changed(e, TRUE).over = TRUE
        /\ \A b \in BOOLEAN : Changed(e, b).over \in BOOLEAN
    BY <2>1, Zenon
  <2> QED BY <2>2 DEF Accept, Reject
<1>2. e.over = FALSE /\ (e.applied + 1 = seed.ruin) \in BOOLEAN
  OBVIOUS
<1>3. CASE a.kind = "start"
  <2>1. out = IF a.arg = Crossed THEN Reject("command_rejected", e, rev) ELSE Accept(e, rev)
    BY <1>3 DEF Execute, Refuses, EngineKinds, MarketKinds
  <2> HIDE DEF out
  <2>2. out.engine = e
    BY <1>1, <2>1
  <2> QED BY <1>2, <1>3, <2>2 DEF out
<1>4. CASE a.kind = "countdown" \/ (a.kind = "resume" /\ rev = 0)
  <2>1. out = Quote(e, rev)
    BY <1>4 DEF Execute, Refuses, EngineKinds, MarketKinds
  <2> HIDE DEF out
  <2>2. out.engine = Changed(e, FALSE) /\ out.rejection = "none"
    BY <1>1, <2>1, Zenon DEF Quote
  <2> QED BY <1>1, <1>4, <2>2 DEF out
<1>5. CASE a.kind = "quote"
  <2>1. out = IF Refuses(a) THEN Reject("command_rejected", e, rev)
              ELSE IF a.arg = rev THEN Quote(e, rev)
              ELSE Reject("quote_revision_conflict", e, rev)
    BY <1>5 DEF Execute, Refuses, EngineKinds, MarketKinds
  <2> HIDE DEF out
  <2>2. out.engine \in {e, Changed(e, FALSE)}
    <3>1. Quote(e, rev).engine = Changed(e, FALSE)
      BY <1>1, Zenon DEF Quote
    <3>2. \/ out = Quote(e, rev)
          \/ \E c \in {"command_rejected", "quote_revision_conflict"} : out = Reject(c, e, rev)
      BY <2>1
    <3>3. \A c : Reject(c, e, rev).engine = e
      BY DEF Reject
    <3> QED BY <3>1, <3>2, <3>3
  <2>3. out.engine.over = FALSE
    BY <1>1, <1>2, <2>2
  <2> QED BY <1>5, <2>3 DEF out
<1>6. CASE a.kind \in EngineKinds
  <2>1. out = Accept(Changed(e, e.applied + 1 = seed.ruin), rev)
    BY <1>6 DEF Execute, Refuses, EngineKinds, MarketKinds
  <2> HIDE DEF out
  <2> DEFINE d == Changed(e, e.applied + 1 = seed.ruin)
  <2>2. out.engine = d /\ out.rejection = "none"
    <3> HIDE DEF d
    <3>1. out = Accept(d, rev)
      BY <2>1, Zenon DEF d
    <3> QED BY <1>1, <3>1
  <2>3. out.engine.over \in BOOLEAN
    BY <1>1, <1>2, <2>2, Zenon
  <2> QED BY <1>6, <2>2, <2>3 DEF EngineKinds, MarketKinds, out
<1>7. CASE a.kind \in {"quit", "expired"}
  <2>1. out = Accept(Changed(e, TRUE), rev)
    BY <1>7 DEF Execute, Refuses, EngineKinds, MarketKinds
  <2> HIDE DEF out
  <2>2. out.engine = Changed(e, TRUE) /\ out.rejection = "none"
    BY <1>1, <2>1, Zenon
  <2> QED BY <1>1, <1>7, <2>2 DEF out
<1>8. CASE /\ a.kind \notin {"start", "countdown", "quote", "quit", "expired"}
           /\ ~(a.kind = "resume" /\ rev = 0) /\ a.kind \notin EngineKinds
  <2>1. out = Accept(e, rev)
    BY <1>8 DEF Execute, Refuses
  <2> HIDE DEF out
  <2>2. out.engine = e /\ out.rejection = "none"
    BY <1>1, <2>1, Zenon
  <2>3. out.engine.over = FALSE
    BY <1>2, <2>2, Zenon
  <2> QED BY <1>8, <2>2, <2>3 DEF out
<1> QED BY <1>3, <1>4, <1>5, <1>6, <1>7, <1>8

\* What the log is told of an action and of what came of it.
Reports(r, a, at, out) ==
    /\ r.kind = LogKind(a.kind) /\ r.elapsed = at
    /\ r.over <=> out.engine.over
    /\ r.rejected <=> out.rejection # "none"

\* The lifecycle an action leads to is the log's, and is "completed" exactly
\* when the game is over.
Goes(l, a, at, out, r) ==
    /\ LifecycleAfter(l, a, out) = Log!LifecycleAfter(l, r)
    /\ out.engine.over <=> LifecycleAfter(l, a, out) = "completed"
    /\ LifecycleAfter(l, a, out) \in {"preparing", "countdown"} => a.kind = "start" /\ at = 0

Ongoing(e) == e.over = FALSE

\* That holds of every action that the lifecycle lets happen.
LEMMA LegalGoes ==
    ASSUME NEW l, NEW a, NEW at, Legal(l, a.kind, at), NEW e, Ongoing(e), NEW rev,
           NEW r, Reports(r, a, at, Execute(a, e, rev))
    PROVE  Goes(l, a, at, Execute(a, e, rev), r)
<1> DEFINE out == Execute(a, e, rev)
           next == LifecycleAfter(l, a, out)
<1>1. /\ out.engine.over \in BOOLEAN
      /\ a.kind \in {"start", "countdown", "quote", "pause", "resume"} => ~out.engine.over
      /\ a.kind \in {"quit", "expired"} => out.engine.over
      /\ a.kind \notin {"start", "quote"} => out.rejection = "none"
  <2>1. e.over = FALSE
    BY DEF Ongoing
  <2> QED BY <2>1, ExecuteEnds
<1> SUFFICES /\ next = Log!LifecycleAfter(l, r)
             /\ out.engine.over <=> next = "completed"
             /\ next \in {"preparing", "countdown"} => a.kind = "start" /\ at = 0
  BY Zenon DEF Goes
<1> HIDE DEF out
<1>0. /\ r.kind = LogKind(a.kind) /\ r.elapsed = at
      /\ r.over <=> out.engine.over
      /\ r.rejected <=> out.rejection # "none"
  BY DEF Reports, out
<1>2. CASE a.kind = "start"
  <2>1. l = "preparing" /\ at = 0 /\ r.kind = "start"
    BY <1>0, <1>2 DEF Legal, LogKind, ScheduledKinds, MarketKinds
  <2>2. next = IF out.rejection = "none" THEN "countdown" ELSE "preparing"
    BY <1>0, <1>1, <1>2, <2>1 DEF LifecycleAfter
  <2>3. Log!LifecycleAfter(l, r) = IF r.rejected THEN l ELSE "countdown"
    BY <1>0, <2>1 DEF Log!LifecycleAfter
  <2>4. next = Log!LifecycleAfter(l, r)
    BY <1>0, <2>1, <2>2, <2>3
  <2>5. next # "completed" /\ ~out.engine.over
    BY <1>1, <1>2, <2>2
  <2> QED BY <1>2, <2>1, <2>4, <2>5
<1>3. CASE a.kind = "countdown"
  <2>1. l = "countdown" /\ at = 0 /\ r.kind = "countdown"
    BY <1>0, <1>3 DEF Legal, LogKind, ScheduledKinds, MarketKinds
  <2>2. next = "running"
    BY <1>0, <1>3 DEF LifecycleAfter
  <2>3. Log!LifecycleAfter(l, r) = "running"
    BY <1>0, <1>1, <1>3, <2>1 DEF Log!LifecycleAfter
  <2> QED BY <1>0, <1>1, <1>3, <2>2, <2>3
<1>4. CASE a.kind = "quote"
  <2>1. l = "running" /\ r.kind = "quote"
    BY <1>0, <1>4 DEF Legal, LogKind, ScheduledKinds, MarketKinds
  <2>2. next = l
    BY <1>0, <1>1, <1>4 DEF LifecycleAfter
  <2>3. Log!LifecycleAfter(l, r) = l
    BY <1>0, <1>1, <1>4, <2>1 DEF Log!LifecycleAfter
  <2> QED BY <1>0, <1>1, <1>4, <2>1, <2>2, <2>3
<1>5. CASE a.kind = "pause"
  <2>1. (l = "running" \/ (l = "countdown" /\ at = 0)) /\ r.kind = "pause"
    BY <1>0, <1>5 DEF Legal, LogKind, ScheduledKinds, MarketKinds
  <2>2. next = "paused"
    BY <1>0, <1>5 DEF LifecycleAfter
  <2>3. Log!LifecycleAfter(l, r) = "paused"
    BY <1>0, <1>1, <1>5, <2>1 DEF Log!LifecycleAfter
  <2> QED BY <1>0, <1>1, <1>5, <2>2, <2>3
<1>6. CASE a.kind = "resume"
  <2>1. l = "paused" /\ r.kind = "resume"
    BY <1>0, <1>6 DEF Legal, LogKind, ScheduledKinds, MarketKinds
  <2>2. next = "running"
    BY <1>0, <1>6 DEF LifecycleAfter
  <2>3. Log!LifecycleAfter(l, r) = "running"
    BY <1>0, <1>1, <1>6, <2>1 DEF Log!LifecycleAfter
  <2> QED BY <1>0, <1>1, <1>6, <2>2, <2>3
<1>7. CASE a.kind = "quit"
  <2>1. l \in {"preparing", "countdown", "running", "paused"} /\ r.kind = "quit"
    BY <1>0, <1>7 DEF Legal, LogKind, ScheduledKinds, MarketKinds
  <2>2. next = "completed"
    BY <1>0, <1>1, <1>7 DEF LifecycleAfter
  <2>3. Log!LifecycleAfter(l, r) = "completed"
    BY <1>0, <1>1, <1>7, <2>1 DEF Log!LifecycleAfter
  <2> QED BY <1>0, <1>1, <1>7, <2>2, <2>3
<1>8. CASE a.kind \in MarketKinds
  <2>1. l = "running" /\ r.kind = "market"
    BY <1>0, <1>8 DEF Legal, LogKind, ScheduledKinds, MarketKinds
  <2>2. /\ out.rejection = "none"
        /\ a.kind \notin {"start", "countdown", "resume", "pause", "quit", "quote"}
    BY <1>0, <1>1, <1>8 DEF MarketKinds
  <2>3. next = IF out.engine.over THEN "completed" ELSE "running"
    BY <2>1, <2>2 DEF LifecycleAfter
  <2>4. Log!LifecycleAfter(l, r) = IF r.over THEN "completed" ELSE "running"
    BY <1>0, <2>1, <2>2 DEF Log!LifecycleAfter
  <2>5. next = Log!LifecycleAfter(l, r)
    BY <1>0, <2>3, <2>4
  <2>6. next \in {"completed", "running"} /\ (out.engine.over <=> next = "completed")
    BY <1>1, <2>3
  <2> QED BY <2>5, <2>6
<1>9. CASE a.kind = "expired"
  <2>1. l = "running" /\ r.kind = "expired"
    BY <1>0, <1>9 DEF Legal, LogKind, ScheduledKinds, MarketKinds
  <2>2. next = "completed"
    BY <1>0, <1>1, <1>9 DEF LifecycleAfter
  <2>3. Log!LifecycleAfter(l, r) = "completed"
    BY <1>0, <1>1, <1>9, <2>1 DEF Log!LifecycleAfter
  <2> QED BY <1>0, <1>1, <1>9, <2>2, <2>3
<1> QED
  BY <1>0, <1>2, <1>3, <1>4, <1>5, <1>6, <1>7, <1>8, <1>9 DEF Legal, ScheduledKinds

-----------------------------------------------------------------------------
(* Logs that can be replayed *)

\* No two actions of a schedule are due at one time.
OneAtATime(g) == \A j, k \in Pending(g) : g.candidates[j].due = g.candidates[k].due => j = k

\* A real-time log and what its replay leaves: nothing that waits is due by its
\* last record, and the game is over when its lifecycle says so.
Timed(s, p) ==
    /\ ElapsedOf(s) \in Nat
    /\ p.engine.over <=> LifecycleOf(s) = "completed"
    /\ \A k \in Pending(p.generator) : ElapsedOf(s) < p.generator.candidates[k].due
    /\ LifecycleOf(s) \in {"preparing", "countdown"} => ElapsedOf(s) = 0
    /\ LifecycleOf(s) = "countdown" => Len(s) > 0 /\ s[Len(s)].kind = "start"
    /\ \A i \in 1..Len(s) : Identified(s, i, p.generator)

Good(s) ==
    /\ Replay(s).ok /\ Distinct(s)
    /\ mode = RealTime => Timed(s, Replay(s))

\* When the schedule and the clock let an action follow what was replayed.
OnTime(p, a, at) ==
    IF a.kind \in ScheduledKinds
      THEN /\ IsHead(p.generator, a.kind) /\ a.id = ScheduledID(p.generator, a.kind)
           /\ at = p.generator.candidates[a.kind].due
      ELSE mode = RealTime => ~DueBy(p.generator, at)

\* What executing an action after a log gives, and the record of it.
Does(p, a, at, next, out, r) ==
    out = Execute(a, p.engine, p.revision) /\ r = Record(a, at, next, out)

\* A replay that has taken the record too.
Took(q, p, s, r, out) ==
    /\ q.ok /\ q.records = Append(s, r) /\ Runtime(q)
    /\ q.engine = out.engine /\ q.revision = out.revision
    /\ q.generator = Advanced(p.generator, r)

\* The record of an action that follows a log is replayed after it.
LEMMA OneMore ==
    ASSUME seed \in Seeds, NEW s, IsSeq(s), Replay(s).ok, NEW a, NEW at, NEW next, NEW out,
           NEW r, Does(Replay(s), a, at, next, out, r),
           LogAccepts(s, r), OnTime(Replay(s), a, at)
    PROVE  Took(Replay(Append(s, r)), Replay(s), s, r, out)
<1> DEFINE p == Replay(s)
           q == Replay(Append(s, r))
<1>0. out = Execute(a, p.engine, p.revision) /\ r = Record(a, at, next, out)
  BY DEF Does
<1>1. Runtime(p) /\ p.ok /\ Replayed(s, p)
  BY ReplayFacts
<1>2. p.records = s /\ p.engine \in Engines /\ p.revision \in Nat
  BY <1>1 DEF Replayed
<1>3. q = ReplayRecord(p, r)
  <2>1. PICK T : s \in Seq(T)
    BY DEF IsSeq
  <2>2. s \in Seq(T \cup {r}) /\ r \in T \cup {r}
    BY <2>1
  <2> QED BY <2>2, ReplayAppend
<1> HIDE DEF p, q
<1>4. /\ r.id = a.id /\ r.kind = a.kind /\ r.arg = a.arg /\ r.elapsed = at
      /\ r.rejection = out.rejection /\ r.over = out.engine.over
      /\ r.result = out.engine.applied
  BY <1>0 DEF Record
<1>5. Execute(r, p.engine, p.revision) = out
  <2>1. Refuses(r) = Refuses(a)
    BY <1>4 DEF Refuses
  <2> QED BY <1>0, <1>4, <2>1, Zenon DEF Execute
<1>6. out.engine = [applied |-> r.result, over |-> r.over]
  <2>1. out.engine \in Engines
    BY <1>0, <1>2, ExecuteFacts
  <2> QED BY <1>4, <2>1 DEF Engines
<1>7. Replays(p, r, out)
  <2>1. LogAccepts(p.records, r)
    BY <1>2
  <2>2. r.kind \in ScheduledKinds =>
          /\ IsHead(p.generator, r.kind)
          /\ r.id = ScheduledID(p.generator, r.kind)
          /\ r.elapsed = p.generator.candidates[r.kind].due
    BY <1>4 DEF OnTime, p
  <2>3. mode = RealTime /\ r.kind \in ExternalKinds => ~DueBy(p.generator, r.elapsed)
    <3>1. ExternalKinds \cap ScheduledKinds = {}
      BY DEF ExternalKinds, ScheduledKinds, MarketKinds
    <3> QED BY <1>4, <3>1 DEF OnTime, p
  <2> QED BY <1>4, <1>6, <2>1, <2>2, <2>3 DEF Replays
<1>8. p.ok => Replayed(s, p)
  BY <1>1
<1>9. /\ Runtime(q)
      /\ q.ok <=> p.ok /\ Replays(p, r, Execute(r, p.engine, p.revision))
      /\ q.ok => /\ Replayed(Append(s, r), q)
                 /\ q.engine = Execute(r, p.engine, p.revision).engine
                 /\ q.revision = Execute(r, p.engine, p.revision).revision
                 /\ q.generator = Advanced(p.generator, r)
  BY <1>1, <1>3, <1>8, ReplayedAfter
<1> QED BY <1>1, <1>5, <1>7, <1>9 DEF Replayed, Took, p, q

\* A schedule without ties moves on from the action that is committed.
LEMMA ScheduleMovesOn ==
    ASSUME seed \in Seeds, NEW g, WellFormed(g), Ended(g), OneAtATime(g),
           NEW r, r.kind \in ScheduledKinds, IsHead(g, r.kind)
    PROVE  LET h == Advanced(g, r)
           IN  /\ WellFormed(h) /\ Ended(h)
               /\ \A k \in Pending(h) : g.candidates[r.kind].due < h.candidates[k].due
<1> DEFINE d == Draw(g, r.kind)
           h == CommitKind(g, r.kind, d)
           due == g.candidates[r.kind].due
<1>1. d \in Nat /\ d > 0
  BY DrawInterval, GeneratorAssumption
<1>2. Advanced(g, r) = h
  BY DEF Advanced
<1> HIDE DEF d
<1>3. /\ WellFormed(h) /\ Ended(h)
      /\ \A j \in Pending(h) : due <= h.candidates[j].due
      /\ \A j \in Pending(h) \ {r.kind} : j \in Pending(g) /\ h.candidates[j] = g.candidates[j]
      /\ r.kind \in Pending(h) => h.candidates[r.kind].due = due + d
  BY <1>1, CommitSound
<1> HIDE DEF h
<1>4. due \in Nat /\ \A j \in Pending(h) : h.candidates[j].due \in Nat
  BY <1>3 DEF WellFormed, GeneratorType, Candidate, Pending
<1>5. r.kind \in Pending(g)
  BY DEF IsHead
<1>6. ASSUME NEW j \in Pending(h) \ {r.kind} PROVE due < h.candidates[j].due
  <2>1. j \in Pending(g) /\ h.candidates[j] = g.candidates[j] /\ due <= h.candidates[j].due
    BY <1>3
  <2>2. g.candidates[j].due # due
    BY <1>5, <1>6, <2>1 DEF OneAtATime
  <2> QED BY <1>4, <2>1, <2>2
<1>7. r.kind \in Pending(h) => due < h.candidates[r.kind].due
  BY <1>1, <1>3, <1>4
<1>8. \A k \in Pending(h) : due < h.candidates[k].due
  BY <1>6, <1>7
<1> QED BY <1>2, <1>3, <1>8

\* An action that the log, the schedule and the lifecycle let follow a log.
LEMMA GoodAppend ==
    ASSUME seed \in Seeds, mode = RealTime, NEW s, IsSeq(s), Good(s),
           NEW a, NEW at \in Nat, at >= ElapsedOf(s), Legal(LifecycleOf(s), a.kind, at),
           Named(s, Replay(s).generator, a), OnTime(Replay(s), a, at),
           a.kind \in ScheduledKinds => OneAtATime(Replay(s).generator),
           NEW next, NEW out, next = LifecycleAfter(LifecycleOf(s), a, out),
           NEW r, Does(Replay(s), a, at, next, out, r)
    PROVE  /\ LogAccepts(s, r) /\ Good(Append(s, r))
           /\ Took(Replay(Append(s, r)), Replay(s), s, r, out)
<1> DEFINE p == Replay(s)
           q == Replay(Append(s, r))
           l == LifecycleOf(s)
           line == [kind |-> LogKind(r.kind), elapsed |-> r.elapsed, over |-> r.over,
                    rejected |-> r.rejection # "none"]
<1>1. p.ok /\ Distinct(s) /\ Timed(s, p)
  BY DEF Good
<1>2. Replayed(s, p)
  BY <1>1, ReplayFacts
<1> HIDE DEF p, q
<1>3. /\ p.engine \in Engines /\ WellFormed(p.generator) /\ Ended(p.generator)
  BY <1>2 DEF Replayed
<1>0. out = Execute(a, p.engine, p.revision) /\ r = Record(a, at, next, out)
  BY DEF Does, p
<1>4. /\ r.id = a.id /\ r.kind = a.kind /\ r.elapsed = at /\ r.lifecycle = next
      /\ r.rejection = out.rejection /\ r.over = out.engine.over
  BY <1>0 DEF Record
<1>5. Ongoing(p.engine)
  <2>1. l # "completed"
    BY DEF Legal
  <2>2. p.engine.over \in BOOLEAN
    BY <1>3 DEF Engines
  <2> QED BY <1>1, <2>1, <2>2 DEF Timed, Ongoing
<1>6. /\ next = Log!LifecycleAfter(l, line)
      /\ out.engine.over <=> next = "completed"
      /\ next \in {"preparing", "countdown"} => a.kind = "start" /\ at = 0
  <2>1. Reports(line, a, at, out)
    BY <1>4 DEF Reports
  <2> HIDE DEF line
  <2>2. Goes(l, a, at, out, line)
    BY <1>0, <1>5, <2>1, LegalGoes
  <2> QED BY <2>2 DEF Goes
<1>7. /\ \A i \in 1..Len(s) : Identified(s, i, p.generator)
      /\ Named(s, p.generator, a)
  BY <1>1 DEF Timed, p
<1>8. Unknown(s, r.id)
  BY <1>1, <1>3, <1>4, <1>7, NamesAreNew
<1>9. LogAccepts(s, r)
  <2>1. DOMAIN s = 1..Len(s)
    <3>1. PICK S : s \in Seq(S)
      BY DEF IsSeq
    <3> QED BY <3>1
  <2>2. \A i \in DOMAIN s : s[i].id # r.id
    BY <1>8, <2>1 DEF Unknown
  <2>3. r.elapsed >= ElapsedOf(s)
    BY <1>4
  <2>4. r.lifecycle = Log!LifecycleAfter(LifecycleOf(s), line)
    BY <1>4, <1>6
  <2> QED BY <2>2, <2>3, <2>4 DEF LogAccepts
<1> HIDE DEF line
<1>10. Took(q, p, s, r, out)
  <2>1. Replay(s).ok
    BY <1>1 DEF p
  <2> QED BY <1>9, <2>1, OneMore DEF p, q
<1> DEFINE t == Append(s, r)
           h == Advanced(p.generator, r)
<1>11. Distinct(t) /\ \A i \in 1..Len(t) : Identified(t, i, h)
  <2>1. r.kind \in ScheduledKinds =>
          IsHead(p.generator, r.kind) /\ r.id = ScheduledID(p.generator, r.kind)
    BY <1>4 DEF OnTime, p
  <2> QED BY <1>1, <1>3, <1>4, <1>7, <2>1, NamesKept
<1>12. t # <<>> /\ Last(t) = r /\ Len(t) > 0 /\ t[Len(t)] = r
  <2>1. Len(s) \in Nat /\ Len(t) = Len(s) + 1 /\ t[Len(s) + 1] = r
    BY SeqLength, AppendSeq
  <2> QED BY <2>1, LastOfAppend
<1>13. LifecycleOf(t) = next /\ ElapsedOf(t) = at
  BY <1>4, <1>12 DEF LifecycleOf, ElapsedOf
<1>14. \A k \in Pending(h) : at < h.candidates[k].due
  <2>1. CASE r.kind \in ScheduledKinds
    <3>1. /\ IsHead(p.generator, r.kind) /\ at = p.generator.candidates[r.kind].due
          /\ OneAtATime(p.generator)
      BY <1>4, <2>1 DEF OnTime, p
    <3>2. \A k \in Pending(h) : p.generator.candidates[r.kind].due < h.candidates[k].due
      BY <1>3, <2>1, <3>1, ScheduleMovesOn
    <3> QED BY <3>1, <3>2
  <2>2. CASE r.kind \notin ScheduledKinds
    <3>1. h = p.generator
      BY <2>2 DEF Advanced
    <3>2. \A k \in Pending(p.generator) : ~(p.generator.candidates[k].due <= at)
      BY <1>4, <2>2 DEF OnTime, DueBy, p
    <3>3. \A k \in Pending(p.generator) : p.generator.candidates[k].due \in Nat
      BY <1>3 DEF WellFormed, GeneratorType, Candidate, Pending
    <3> QED BY <3>1, <3>2, <3>3
  <2> QED BY <2>1, <2>2
<1> HIDE DEF t, h
<1>15. Timed(t, q)
  <2>1. q.engine.over <=> LifecycleOf(t) = "completed"
    BY <1>6, <1>10, <1>13 DEF Took
  <2>2. /\ LifecycleOf(t) \in {"preparing", "countdown"} => ElapsedOf(t) = 0
        /\ LifecycleOf(t) = "countdown" => Len(t) > 0 /\ t[Len(t)].kind = "start"
    BY <1>4, <1>6, <1>12, <1>13
  <2>3. /\ \A k \in Pending(q.generator) : ElapsedOf(t) < q.generator.candidates[k].due
        /\ \A i \in 1..Len(t) : Identified(t, i, q.generator)
    BY <1>10, <1>11, <1>13, <1>14 DEF h, Took
  <2> QED BY <1>13, <2>1, <2>2, <2>3 DEF Timed
<1>16. Good(t)
  BY <1>10, <1>11, <1>15 DEF Good, Took, q, t
<1> QED BY <1>9, <1>10, <1>16 DEF p, q, t

-----------------------------------------------------------------------------
(* The log and the entry *)

\* No two actions of a real-time day's schedule are due at one time.
NoTies == mode = RealTime => OneAtATime(generator)

\* The entry has the engine, the quote revision and the schedule of a replay.
Same(p) == engine = p.engine /\ revision = p.revision /\ generator = p.generator

\* What is in the file can be replayed, whether a crash takes the last record
\* or not, and an entry that is not fenced is what the replay leaves.
ReplayInv ==
    /\ Good(file) /\ Good(Durable)
    /\ loaded /\ ~failed => Same(Replay(file))

\* The logical time of a sequencer is the last record's unless the day runs.
TimeInv ==
    mode = RealTime /\ status \notin Dead =>
      /\ elapsed \in Nat /\ elapsed >= ElapsedOf(commands)
      /\ status # "running" => elapsed = ElapsedOf(commands)

Asked == {"start", "quote", "pause", "resume", "quit"}

\* A request is only processed where it is admitted and has no record yet.
JobInv ==
    job \notin {NoJob, TimerJob, ViewJob} =>
      /\ job.kind \in Asked /\ Admitted(job.kind)
      /\ Unknown(commands, job.id)
      /\ \/ job.id \in IDs
         \/ job.kind = "pause" /\ \E n \in 1..(Len(commands) + 1) : job.id = <<"shutdown", n>>

\* The pause that a shutdown is to send has a name that no record has.
PauseInv ==
    stopping = "snapped" =>
      /\ pauseNumber \in 1..(Len(commands) + 1)
      /\ Unknown(commands, <<"shutdown", pauseNumber>>)

PlayInv == SessionInv /\ StatusInv /\ ShutInv /\ Created

\* A replay after a step is the replay before it.
LEMMA GoodAlike ==
    ASSUME mode' = mode, seed' = seed, NEW s, IsSeq(s)
    PROVE  Good(s)' <=> Good(s)
<1> DEFINE p == Replay(s)
<1>1. Replay(s)' = p
  BY ReplaysAlike
<1>2. Timed(s, p)' <=> Timed(s, p)
  BY <1>1 DEF Timed, Identified
<1> QED BY <1>1, <1>2 DEF Good

\* Taking away what was appended.
LEMMA FrontIsBack ==
    ASSUME NEW s, IsSeq(s), NEW e PROVE Front(Append(s, e)) = s
<1>1. PICK S : s \in Seq(S)
  BY DEF IsSeq
<1> DEFINE T == S \cup {e}
           t == Append(s, e)
<1>2. s \in Seq(T) /\ e \in T
  BY <1>1
<1> HIDE DEF T
<1>3. /\ t \in Seq(T) /\ Len(t) = Len(s) + 1 /\ Len(s) \in Nat
      /\ \A i \in 1..Len(s) : t[i] = s[i]
  BY <1>2
<1>4. SubSeq(t, 1, Len(s)) = s
  <2> HIDE DEF t
  <2> QED BY <1>2, <1>3
<1>5. Len(t) - 1 = Len(s)
  BY <1>3
<1> HIDE DEF t
<1> QED BY <1>4, <1>5 DEF Front, t

-----------------------------------------------------------------------------
(* Appending to a log that can be replayed *)

\* What a step leaves in the file and in memory can be replayed.
LEMMA ReplayKept ==
    ASSUME mode' = mode, seed' = seed, IsSeq(file'), IsSeq(Durable'),
           Good(file'), Good(Durable'),
           loaded' /\ ~failed' => /\ engine' = Replay(file').engine
                                  /\ revision' = Replay(file').revision
                                  /\ generator' = Replay(file').generator
    PROVE  ReplayInv'
<1>1. Good(file)' /\ Good(Durable)'
  BY GoodAlike
<1>2. Replay(file)' = Replay(file')
  BY ReplaysAlike
<1> QED BY <1>1, <1>2 DEF ReplayInv, Same

\* A commit, and a failed append, of a record that the log can take.
LEMMA AppendKept ==
    ASSUME SessionInv, ReplayInv, loaded, ~failed, mode' = mode, seed' = seed, loaded' = loaded,
           NEW r, NEW out, Good(Append(file, r)),
           Took(Replay(Append(file, r)), Replay(file), file, r, out),
           Commits(r, out) \/ AppendFails(r, out)
    PROVE  ReplayInv'
<1>1. IsSeq(file) /\ Durable = file /\ ~doubtful /\ Same(Replay(file))
  BY DEF SessionInv, StoreInv, Durable, ReplayInv
<1>2. IsSeq(Append(file, r)) /\ Front(Append(file, r)) = file
  BY <1>1, AppendSeq, FrontIsBack
<1>3. Good(file)
  BY DEF ReplayInv
<1>4. CASE Commits(r, out)
  <2>1. /\ file' = Append(file, r) /\ doubtful' = FALSE
        /\ engine' = out.engine /\ revision' = out.revision /\ generator' = Advanced(generator, r)
    BY <1>4 DEF Commits
  <2>2. Durable' = file'
    BY <2>1 DEF Durable
  <2>3. /\ engine' = Replay(file').engine /\ revision' = Replay(file').revision
        /\ generator' = Replay(file').generator
    BY <1>1, <2>1 DEF Took, Same
  <2> QED BY <1>2, <2>1, <2>2, <2>3, ReplayKept
<1>5. CASE AppendFails(r, out)
  <2>1. failed' = TRUE /\ file' \in {file, Append(file, r)} /\ Durable' = file
    <3>1. CASE UNCHANGED storage
      <4>1. file' = file /\ doubtful' = doubtful
        BY <3>1 DEF storage
      <4> QED BY <1>1, <1>5, <4>1 DEF AppendFails, Durable
    <3>2. CASE file' = Append(file, r) /\ doubtful' = TRUE
      BY <1>2, <1>5, <3>2 DEF AppendFails, Durable
    <3> QED BY <1>5, <3>1, <3>2 DEF AppendFails
  <2> QED BY <1>1, <1>2, <1>3, <2>1, ReplayKept
<1> QED BY <1>4, <1>5

\* The loop only executes actions that its log can take: those that the
\* lifecycle, the clock and the schedule let it execute under a new name.
LEMMA LoopAppends ==
    ASSUME SessionInv, StatusInv, Created, ReplayInv, status \notin Dead,
           NEW a, NEW at \in Nat, at >= ElapsedOf(commands), Legal(status, a.kind, at),
           Named(commands, generator, a),
           IF a.kind \in ScheduledKinds
             THEN /\ IsHead(generator, a.kind) /\ a.id = ScheduledID(generator, a.kind)
                  /\ at = generator.candidates[a.kind].due /\ OneAtATime(generator)
             ELSE ~DueBy(generator, at),
           NEW out, out = Outcome(a), NEW r, r = RecordOf(a, at, out)
    PROVE  /\ Good(Append(file, r))
           /\ Took(Replay(Append(file, r)), Replay(file), file, r, out)
<1> DEFINE p == Replay(file)
           next == LifecycleAfter(LifecycleOf(file), a, out)
<1>1. loaded /\ ~failed /\ mode = RealTime /\ status = LifecycleOf(commands)
  BY AliveServes DEF SessionInv, StatusInv
<1>2. IsSeq(file) /\ commands = file
  BY <1>1 DEF SessionInv, StoreInv
<1>3. /\ Good(file)
      /\ engine = p.engine /\ revision = p.revision /\ generator = p.generator
  BY <1>1 DEF ReplayInv, Same
<1>4. Does(p, a, at, next, out, r)
  BY <1>2, <1>3 DEF Does, Outcome, RecordOf
<1> HIDE DEF next
<1>5. OnTime(p, a, at) /\ (a.kind \in ScheduledKinds => OneAtATime(p.generator))
  BY <1>3 DEF OnTime
<1>6. Named(file, p.generator, a) /\ Legal(LifecycleOf(file), a.kind, at) /\ at >= ElapsedOf(file)
  BY <1>1, <1>2, <1>3
<1>7. seed \in Seeds
  BY DEF Created
<1>8. next = LifecycleAfter(LifecycleOf(file), a, out)
  BY DEF next
<1> HIDE DEF p
<1> QED BY <1>1, <1>2, <1>3, <1>4, <1>5, <1>6, <1>7, <1>8, GoodAppend DEF p

-----------------------------------------------------------------------------
(* What the loop executes *)

\* What a sequencer that can execute something has before it.
Sees ==
    /\ loaded /\ ~failed /\ mode = RealTime /\ status = LifecycleOf(commands)
    /\ IsSeq(commands) /\ commands = file /\ Distinct(commands)
    /\ elapsed \in Nat /\ ElapsedOf(commands) \in Nat /\ elapsed >= ElapsedOf(commands)
    /\ status # "running" => elapsed = ElapsedOf(commands)
    /\ status \in {"preparing", "countdown"} => elapsed = 0
    /\ status = "countdown" => Len(commands) > 0 /\ commands[Len(commands)].kind = "start"
    /\ WellFormed(generator)
    /\ \A k \in Pending(generator) :
         /\ generator.candidates[k].due \in Nat
         /\ ElapsedOf(commands) < generator.candidates[k].due
    /\ \A i \in 1..Len(commands) : Identified(commands, i, generator)

\* A live sequencer sees all of that.
LEMMA LoopSees ==
    ASSUME SessionInv, StatusInv, Created, ReplayInv, TimeInv, status \notin Dead
    PROVE  Sees
<1> DEFINE p == Replay(file)
<1>1. loaded /\ ~failed /\ mode = RealTime /\ status = LifecycleOf(commands)
  BY AliveServes DEF SessionInv, StatusInv
<1>2. IsSeq(file) /\ commands = file
  BY <1>1 DEF SessionInv, StoreInv
<1>3. Distinct(file) /\ Timed(file, p) /\ p.ok /\ generator = p.generator
  BY <1>1 DEF ReplayInv, Good, Same
<1>4. WellFormed(p.generator)
  <2>1. seed \in Seeds
    BY DEF Created
  <2> QED BY <1>2, <1>3, <2>1, ReplayFacts DEF Replayed
<1> HIDE DEF p
<1>5. \A k \in Pending(generator) : generator.candidates[k].due \in Nat
  BY <1>3, <1>4 DEF WellFormed, GeneratorType, Candidate, Pending
<1>6. /\ elapsed \in Nat /\ elapsed >= ElapsedOf(commands)
      /\ status # "running" => elapsed = ElapsedOf(commands)
  BY <1>1 DEF TimeInv
<1> QED BY <1>1, <1>2, <1>3, <1>4, <1>5, <1>6 DEF Sees, Timed

\* The clock and the schedule leave the loop to what is not scheduled.
LEMMA NothingDue ==
    ASSUME Sees, DueDone PROVE ~DueBy(generator, elapsed)
<1>1. CASE status = "running"
  BY <1>1 DEF DueDone
<1>2. CASE status # "running"
  BY <1>2 DEF Sees, DueBy
<1> QED BY <1>1, <1>2

\* The end of a countdown can be replayed.
LEMMA CountdownReplay ==
    ASSUME SessionInv, StatusInv, Created, ReplayInv, TimeInv, CountdownCompletes
    PROVE  ReplayInv'
<1> DEFINE a == Action(<<"countdown", Last(commands).id>>, "countdown", 0)
           out == Outcome(a)
           r == RecordOf(a, elapsed, out)
<1>1. /\ Commits(r, out) \/ AppendFails(r, out)
      /\ mode' = mode /\ seed' = seed /\ loaded' = loaded
  BY DEF CountdownCompletes, LoopExecutes, fixed
<1>2. status \notin Dead /\ status = "countdown"
  BY DEF CountdownCompletes, Dead
<1>3. Sees
  BY <1>2, LoopSees
<1>4. a.kind = "countdown" /\ a.id = <<"countdown", Last(commands).id>>
  BY DEF Action
<1>5. a.kind \notin ScheduledKinds
  BY <1>4 DEF ScheduledKinds, MarketKinds
<1> HIDE DEF a
<1>6. Len(commands) > 0 /\ Len(commands) \in Nat /\ commands[Len(commands)].id \in IDs
  <2>1. /\ Len(commands) \in Nat /\ Len(commands) > 0 /\ commands[Len(commands)].kind = "start"
        /\ Identified(commands, Len(commands), generator)
    BY <1>2, <1>3, SeqLength DEF Sees
  <2> QED BY <2>1 DEF Identified, ScheduledKinds, MarketKinds
<1>7. Named(commands, generator, a)
  BY <1>4, <1>6 DEF Named, Last
<1>8. elapsed = 0 /\ elapsed \in Nat /\ elapsed >= ElapsedOf(commands)
  BY <1>2, <1>3 DEF Sees
<1>9. Legal(status, a.kind, elapsed)
  BY <1>2, <1>4, <1>8 DEF Legal
<1>10. ~DueBy(generator, elapsed)
  BY <1>2, <1>3, NothingDue DEF DueDone
<1> HIDE DEF out, r
<1>11. out = Outcome(a) /\ r = RecordOf(a, elapsed, out)
  BY DEF out, r
<1>12. Good(Append(file, r)) /\ Took(Replay(Append(file, r)), Replay(file), file, r, out)
  BY <1>2, <1>5, <1>7, <1>8, <1>9, <1>10, <1>11, LoopAppends
<1>13. loaded /\ ~failed
  BY <1>3 DEF Sees
<1> QED BY <1>1, <1>12, <1>13, AppendKept

\* So can a request,
LEMMA FinishReplay ==
    ASSUME SessionInv, StatusInv, Created, ReplayInv, TimeInv, JobInv, Finish
    PROVE  ReplayInv'
<1> DEFINE out == Outcome(job)
           r == RecordOf(job, elapsed, out)
<1>1. /\ Commits(r, out) \/ AppendFails(r, out)
      /\ mode' = mode /\ seed' = seed /\ loaded' = loaded
  BY DEF Finish, LoopExecutes, fixed
<1>2. job \notin {NoJob, TimerJob, ViewJob} /\ DueDone
  BY DEF Finish
<1>3. status \notin Dead
  BY <1>2 DEF SessionInv, LoopInv
<1>4. Sees
  BY <1>3, LoopSees
<1>5. /\ job.kind \in Asked /\ Admitted(job.kind) /\ Unknown(commands, job.id)
      /\ \/ job.id \in IDs
         \/ job.kind = "pause" /\ \E n \in 1..(Len(commands) + 1) : job.id = <<"shutdown", n>>
  BY <1>2 DEF JobInv
<1>6. job.kind \notin ScheduledKinds
  BY <1>5 DEF Asked, ScheduledKinds, MarketKinds
<1>7. Named(commands, generator, job)
  BY <1>5 DEF Named
<1>8. elapsed \in Nat /\ elapsed >= ElapsedOf(commands)
  BY <1>4 DEF Sees
<1>9. Legal(status, job.kind, elapsed)
  <2>1. status \in {"preparing", "countdown"} => elapsed = 0
    BY <1>4 DEF Sees
  <2> QED BY <1>5, <2>1 DEF Asked, Admitted, Active, Legal
<1>10. ~DueBy(generator, elapsed)
  BY <1>2, <1>4, NothingDue
<1> HIDE DEF out, r
<1>11. out = Outcome(job) /\ r = RecordOf(job, elapsed, out)
  BY DEF out, r
<1>12. Good(Append(file, r)) /\ Took(Replay(Append(file, r)), Replay(file), file, r, out)
  BY <1>3, <1>6, <1>7, <1>8, <1>9, <1>10, <1>11, LoopAppends
<1>13. loaded /\ ~failed
  BY <1>4 DEF Sees
<1> QED BY <1>1, <1>12, <1>13, AppendKept

\* and a scheduled action that no other is due with.
LEMMA DueReplay ==
    ASSUME SessionInv, StatusInv, Created, ReplayInv, TimeInv, NoTies,
           NEW k \in ScheduledKinds, ExecuteDue(k)
    PROVE  ReplayInv'
<1> DEFINE a == Scheduled(generator, k)
           at == generator.candidates[k].due
           out == Outcome(a)
           r == RecordOf(a, at, out)
<1>1. /\ Commits(r, out) \/ AppendFails(r, out)
      /\ mode' = mode /\ seed' = seed /\ loaded' = loaded
  BY DEF ExecuteDue, fixed
<1>2. status = "running" /\ status \notin Dead /\ IsHead(generator, k)
  BY DEF ExecuteDue, Dead
<1>3. Sees
  BY <1>2, LoopSees
<1>4. a.kind = k /\ a.id = ScheduledID(generator, k)
  BY DEF Scheduled, Action
<1> HIDE DEF a
<1>5. k \in Pending(generator) /\ at \in Nat /\ at >= ElapsedOf(commands)
  <2>1. k \in Pending(generator)
    BY <1>2 DEF IsHead
  <2> QED BY <1>3, <2>1 DEF Sees
<1>6. Named(commands, generator, a)
  BY <1>4, <1>5 DEF Named
<1>7. OneAtATime(generator)
  BY <1>3 DEF NoTies, Sees
<1>8. Legal(status, a.kind, at)
  BY <1>2, <1>4 DEF Legal
<1>9. a.kind \in ScheduledKinds /\ IsHead(generator, a.kind) /\ a.id = ScheduledID(generator, a.kind)
      /\ at = generator.candidates[a.kind].due
  BY <1>2, <1>4
<1> HIDE DEF out, r, at
<1>10. out = Outcome(a) /\ r = RecordOf(a, at, out)
  BY DEF out, r
<1>11. Good(Append(file, r)) /\ Took(Replay(Append(file, r)), Replay(file), file, r, out)
  BY <1>2, <1>5, <1>6, <1>7, <1>8, <1>9, <1>10, LoopAppends
<1>12. loaded /\ ~failed
  BY <1>3 DEF Sees
<1> QED BY <1>1, <1>11, <1>12, AppendKept

-----------------------------------------------------------------------------
(* Turns, loads and ends *)

\* A new identifier leaves them distinct.
LEMMA DistinctAppend ==
    ASSUME NEW s, IsSeq(s), Distinct(s), NEW r, Unknown(s, r.id)
    PROVE  Distinct(Append(s, r))
<1> DEFINE t == Append(s, r)
           n == Len(s)
<1>1. n \in Nat /\ Len(t) = n + 1 /\ t[n + 1] = r /\ \A i \in 1..n : t[i] = s[i]
  BY SeqLength, AppendSeq DEF Begins
<1> HIDE DEF t
<1>2. Distinct(t)
  BY <1>1 DEF Distinct, Unknown
<1> QED BY <1>2 DEF t

\* A turn-based log takes every command with a new identifier.
LEMMA GoodTurn ==
    ASSUME seed \in Seeds, mode = TurnBased, NEW s, IsSeq(s), Good(s),
           NEW a, a.kind \notin ScheduledKinds, Unknown(s, a.id),
           NEW out, NEW r, Does(Replay(s), a, 0, "none", out, r)
    PROVE  Good(Append(s, r)) /\ Took(Replay(Append(s, r)), Replay(s), s, r, out)
<1>1. mode # RealTime
  BY DEF TurnBased, RealTime
<1>2. Replay(s).ok /\ Distinct(s)
  BY DEF Good
<1>3. r.id = a.id
  BY DEF Does, Record
<1>4. LogAccepts(s, r)
  <2>1. DOMAIN s = 1..Len(s)
    <3>1. PICK S : s \in Seq(S)
      BY DEF IsSeq
    <3> QED BY <3>1
  <2> QED BY <1>1, <1>3, <2>1 DEF LogAccepts, Unknown
<1>5. OnTime(Replay(s), a, 0)
  BY <1>1 DEF OnTime
<1>6. Took(Replay(Append(s, r)), Replay(s), s, r, out)
  BY <1>2, <1>4, <1>5, OneMore
<1>7. Distinct(Append(s, r))
  BY <1>2, <1>3, DistinctAppend
<1> QED BY <1>1, <1>6, <1>7 DEF Good, Took

\* A command of a turn-based game, whether its append fails or not.
LEMMA TurnReplay ==
    ASSUME SessionInv, Created, ReplayInv, NEW a \in Requests,
           TurnCommand(a) \/ TurnCommandFails(a)
    PROVE  ReplayInv'
<1> DEFINE out == Outcome(a)
           r == TurnRecord(a)
<1>1. /\ mode = TurnBased /\ loaded /\ ~failed
      /\ mode' = mode /\ seed' = seed /\ loaded' = loaded
      /\ \A c \in Range(commands) : c.id # a.id
  BY DEF TurnCommand, TurnCommandFails, TurnAdmitted, fixed
<1>2. a.kind \notin ScheduledKinds
  <2>1. mode # RealTime
    BY <1>1 DEF TurnBased, RealTime
  <2>2. a.kind \in {"submit_quote", "quit"}
    BY <2>1 DEF Requests, Action
  <2> QED BY <2>2 DEF ScheduledKinds, MarketKinds
<1>3. /\ IsSeq(file) /\ commands = file /\ ~doubtful /\ Durable = file /\ Good(file)
      /\ Same(Replay(file)) /\ seed \in Seeds
  BY <1>1 DEF SessionInv, StoreInv, Durable, ReplayInv, Created
<1>4. Unknown(file, a.id)
  <2>1. DOMAIN file = 1..Len(file)
    <3>1. PICK S : file \in Seq(S)
      BY <1>3 DEF IsSeq
    <3> QED BY <3>1
  <2> QED BY <1>1, <1>3, <2>1 DEF Unknown, Range
<1>5. Does(Replay(file), a, 0, "none", out, r)
  BY <1>3 DEF Does, TurnRecord, Outcome, Same
<1> HIDE DEF out, r
<1>6. Good(Append(file, r)) /\ Took(Replay(Append(file, r)), Replay(file), file, r, out)
  BY <1>1, <1>2, <1>3, <1>4, <1>5, GoodTurn
<1>7. CASE TurnCommand(a)
  <2>1. Commits(r, out)
    BY <1>7 DEF TurnCommand, r, out
  <2> QED BY <1>1, <1>6, <2>1, AppendKept
<1>8. CASE TurnCommandFails(a)
  <2>1. /\ file' \in {file, Append(file, r)}
        /\ \/ Rebuild(Replay(file'))
           \/ failed' = TRUE /\ doubtful' = (file' # file)
    BY <1>8 DEF TurnCommandFails, r
  <2>2. IsSeq(Append(file, r)) /\ Front(Append(file, r)) = file
    BY <1>3, AppendSeq, FrontIsBack
  <2>3. IsSeq(file') /\ Good(file')
    BY <1>3, <1>6, <2>1, <2>2
  <2>4. CASE Rebuild(Replay(file'))
    <3>1. /\ doubtful' = FALSE /\ engine' = Replay(file').engine
          /\ revision' = Replay(file').revision /\ generator' = Replay(file').generator
      BY <2>4 DEF Rebuild
    <3>2. Durable' = file'
      BY <3>1 DEF Durable
    <3> QED BY <1>1, <2>3, <3>1, <3>2, ReplayKept
  <2>5. CASE failed' = TRUE /\ doubtful' = (file' # file)
    <3>1. Durable' = file
      BY <2>1, <2>2, <2>5 DEF Durable
    <3> QED BY <1>1, <1>3, <2>3, <2>5, <3>1, ReplayKept
  <2> QED BY <2>1, <2>4, <2>5
<1> QED BY <1>7, <1>8

\* The process or the machine ends.
LEMMA ForgetReplay ==
    ASSUME SessionInv, ReplayInv, ProcessEnds \/ MachineCrash
    PROVE  ReplayInv'
<1>1. /\ mode' = mode /\ seed' = seed /\ loaded' = FALSE
      /\ \/ file' = file /\ doubtful' = doubtful
         \/ file' \in {file, Durable} /\ doubtful' = FALSE
  BY DEF ProcessEnds, MachineCrash, Forget, storage, fixed, Durable
<1>2. IsSeq(file) /\ IsSeq(Durable) /\ Good(file) /\ Good(Durable)
  BY DurableSeq DEF SessionInv, StoreInv, ReplayInv
<1>3. Durable' \in {file', Durable}
  BY <1>1 DEF Durable
<1> QED BY <1>1, <1>2, <1>3, ReplayKept

\* A pause that a load appends to the records of an interrupted day.
LEMMA PauseReplay ==
    ASSUME SessionInv, Created, ReplayInv, mode = RealTime, LifecycleOf(file) \in Active,
           NEW out, out = Execute(RecoveryPause, Replay(file).engine, Replay(file).revision)
    PROVE  /\ Good(Append(file, PauseRecord(out)))
           /\ Replay(Append(file, PauseRecord(out))).engine = Replay(file).engine
           /\ Replay(Append(file, PauseRecord(out))).revision = Replay(file).revision
           /\ Replay(Append(file, PauseRecord(out))).generator = Replay(file).generator
<1> DEFINE a == RecoveryPause
           at == ElapsedOf(file)
           p == Replay(file)
           r == PauseRecord(out)
           next == LifecycleAfter(LifecycleOf(file), a, out)
<1>1. a.kind = "pause" /\ a.id = <<"recovery", Len(file)>>
  BY DEF RecoveryPause, Action
<1>2. next = "paused"
  BY <1>1 DEF LifecycleAfter
<1>3. IsSeq(file) /\ Good(file) /\ Timed(file, p) /\ seed \in Seeds
  BY DEF SessionInv, StoreInv, ReplayInv, Good, Created
<1>4. Does(p, a, at, next, out, r)
  BY <1>2 DEF Does, PauseRecord
<1>5. Execute(a, p.engine, p.revision) = Accept(p.engine, p.revision)
  BY <1>1 DEF Execute, Refuses, EngineKinds, MarketKinds
<1>6. out.engine = p.engine /\ out.revision = p.revision
  BY <1>5 DEF Accept
<1> HIDE DEF a, r, next, p
<1>7. at \in Nat /\ at >= ElapsedOf(file) /\ (LifecycleOf(file) = "countdown" => at = 0)
  BY <1>3 DEF Timed
<1>8. Legal(LifecycleOf(file), a.kind, at)
  BY <1>1, <1>7 DEF Legal, Active
<1>9. Named(file, p.generator, a)
  BY <1>1 DEF Named
<1>10. a.kind \notin ScheduledKinds
  BY <1>1 DEF ScheduledKinds, MarketKinds
<1>11. OnTime(p, a, at)
  <2>1. ~DueBy(p.generator, at)
    <3>1. ASSUME NEW k \in Pending(p.generator) PROVE ~(p.generator.candidates[k].due <= at)
      <4>1. at < p.generator.candidates[k].due
        BY <1>3 DEF Timed
      <4>2. p.generator.candidates[k].due \in Nat
        <5>1. WellFormed(p.generator)
          BY <1>3, ReplayFacts DEF Good, Replayed, p
        <5> QED BY <5>1 DEF WellFormed, GeneratorType, Candidate, Pending
      <4> QED BY <1>7, <4>1, <4>2
    <3> QED BY <3>1 DEF DueBy
  <2> QED BY <1>10, <2>1 DEF OnTime
<1>12. next = LifecycleAfter(LifecycleOf(file), a, out)
  BY DEF next
<1> HIDE DEF at
<1>13. Good(Append(file, r)) /\ Took(Replay(Append(file, r)), p, file, r, out)
  BY <1>3, <1>4, <1>7, <1>8, <1>9, <1>10, <1>11, <1>12, GoodAppend DEF p
<1>14. Advanced(p.generator, r) = p.generator
  <2>1. r.kind = "pause"
    BY <1>1 DEF r, PauseRecord, Record, a
  <2> QED BY <2>1 DEF Advanced, ScheduledKinds, MarketKinds
<1> QED BY <1>6, <1>13, <1>14 DEF Took, p, r

\* A load that appends a pause, or fails to.
LEMMA LoadReplay ==
    ASSUME SessionInv, Created, ReplayInv, Load(Replay(file)) \/ LoadFails(Replay(file))
    PROVE  ReplayInv'
<1> DEFINE out == Execute(RecoveryPause, Replay(file).engine, Replay(file).revision)
           r == PauseRecord(out)
           interrupted == mode = RealTime /\ LifecycleOf(file) \in Active
<1>1. mode' = mode /\ seed' = seed
  BY DEF Load, LoadFails, fixed
<1>2. IsSeq(file) /\ Good(file)
  BY DEF SessionInv, StoreInv, ReplayInv
<1>3. interrupted => /\ Good(Append(file, r))
                     /\ Replay(Append(file, r)).engine = Replay(file).engine
                     /\ Replay(Append(file, r)).revision = Replay(file).revision
                     /\ Replay(Append(file, r)).generator = Replay(file).generator
  BY PauseReplay
<1>4. IsSeq(Append(file, r)) /\ Front(Append(file, r)) = file
  <2> HIDE DEF r
  <2> QED BY <1>2, AppendSeq, FrontIsBack
<1>5. CASE Load(Replay(file))
  <2>1. /\ doubtful' = FALSE /\ engine' = Replay(file).engine
        /\ revision' = Replay(file).revision /\ generator' = Replay(file).generator
        /\ file' = IF interrupted THEN Append(file, r) ELSE file
    BY <1>5 DEF Load
  <2> HIDE DEF r, out, interrupted
  <2>2. Durable' = file'
    BY <2>1 DEF Durable
  <2>3. IsSeq(file') /\ Good(file')
    BY <1>2, <1>3, <1>4, <2>1
  <2>4. /\ engine' = Replay(file').engine /\ revision' = Replay(file').revision
        /\ generator' = Replay(file').generator
    BY <1>3, <2>1
  <2> QED BY <1>1, <2>2, <2>3, <2>4, ReplayKept
<1>6. CASE LoadFails(Replay(file))
  <2>1. interrupted /\ file' = Append(file, r) /\ doubtful' = TRUE /\ ~loaded /\ loaded' = loaded
    BY <1>6 DEF LoadFails
  <2> HIDE DEF r, out, interrupted
  <2>2. Durable' = file
    BY <1>4, <2>1 DEF Durable
  <2> QED BY <1>1, <1>2, <1>3, <1>4, <2>1, <2>2, ReplayKept
<1> QED BY <1>5, <1>6

-----------------------------------------------------------------------------
(* The clock and the request of the loop *)

\* What no record answers.
LEMMA NothingElse == NoJob \in {NoJob, TimerJob, ViewJob} /\ TimerJob \in {NoJob, TimerJob, ViewJob}
OBVIOUS

\* The name of a pause that a shutdown sends is new.
LEMMA ShutdownIsNew ==
    ASSUME Sees PROVE Unknown(commands, <<"shutdown", Len(commands) + 1>>)
<1> DEFINE n == Len(commands)
           id == <<"shutdown", n + 1>>
<1>1. n \in Nat
  BY SeqLength DEF Sees
<1> SUFFICES ASSUME NEW i \in 1..n, commands[i].id = id PROVE FALSE
  BY DEF Unknown
<1>2. Identified(commands, i, generator)
  BY DEF Sees
<1>3. id \notin IDs
  BY <1>1, SystemNames
<1>4. \A k, x : k # "shutdown" => id # <<k, x>>
  BY Pairs
<1>5. "shutdown" \notin ScheduledKinds
  BY DEF ScheduledKinds, MarketKinds
<1>6. \E m \in 1..i : id = <<"shutdown", m>>
  <2> HIDE DEF id
  <2> QED BY <1>2, <1>3, <1>4, <1>5 DEF Identified
<1>7. PICK m \in 1..i : id = <<"shutdown", m>>
  BY <1>6
<1>8. m = n + 1
  BY <1>7, Pairs
<1> QED BY <1>1, <1>7, <1>8

\* The quiet steps, for the clock and the request.
LEMMA QuietLoop ==
    ASSUME SessionInv, StatusInv, ShutInv, Created, ReplayInv, TimeInv, JobInv, PauseInv, QuietStep
    PROVE  TimeInv' /\ JobInv'
<1>1. mode' = mode /\ loaded' = loaded /\ failed' = failed /\ commands' = commands
  BY QuietStepKeeps DEF storage
<1>2. ElapsedOf(commands') = ElapsedOf(commands)
  BY <1>1
<1>3. status \in Dead => job = NoJob
  BY DEF SessionInv, LoopInv
<1>4. ASSUME status' = status, job' \in {NoJob, TimerJob, ViewJob, job} PROVE JobInv'
  BY <1>1, <1>4 DEF JobInv, Admitted
<1>5. ASSUME status' = status, elapsed' = elapsed PROVE TimeInv'
  BY <1>1, <1>2, <1>5 DEF TimeInv
<1>6. CASE BuildSequencer
  <2>1. /\ loaded /\ mode = RealTime /\ status = "none" /\ job' = job
        /\ status' = LifecycleOf(commands) /\ elapsed' = ElapsedOf(commands)
    BY <1>6 DEF BuildSequencer
  <2>2. job = NoJob /\ ~failed
    BY <1>3, <2>1 DEF SessionInv, LoopInv, Dead
  <2>3. ElapsedOf(commands) \in Nat
    BY <2>1, <2>2 DEF SessionInv, StoreInv, ReplayInv, Good, Timed
  <2>4. ElapsedOf(commands) >= ElapsedOf(commands)
    BY <2>3
  <2> QED BY <1>1, <1>2, <2>1, <2>2, <2>3, <2>4, NothingElse DEF TimeInv, JobInv
<1>7. CASE Tick
  <2>1. status = "running" /\ status' = status /\ job' = job /\ elapsed' = elapsed + 1
    BY <1>7 DEF Tick
  <2>2. Sees
    BY <2>1, LoopSees DEF Dead
  <2>3. TimeInv'
    <3>1. elapsed + 1 \in Nat /\ elapsed + 1 >= ElapsedOf(commands)
      BY <2>2 DEF Sees
    <3> QED BY <1>2, <2>1, <3>1 DEF TimeInv
  <2> QED BY <1>4, <2>1, <2>3
<1>8. CASE TimerFires \/ FinishView \/ FinishTimer \/ TurnView
  <2>1. status' = status /\ elapsed' = elapsed /\ job' \in {NoJob, TimerJob, ViewJob, job}
    BY <1>8 DEF TimerFires, FinishView, FinishTimer, TurnView, loop
  <2> QED BY <1>4, <1>5, <2>1
<1>9. ASSUME NEW a \in Requests \cup {ViewJob}, Receive(a) PROVE TimeInv' /\ JobInv'
  <2>1. /\ status' = status /\ elapsed' = elapsed /\ job' = a
        /\ Admitted(a.kind) /\ \A r \in Range(commands) : r.id # a.id
    BY <1>9 DEF Receive
  <2>2. status \notin Dead
    BY <1>9, ReceiveAlive DEF SessionInv
  <2>3. Sees
    BY <2>2, LoopSees
  <2>4. Unknown(commands, a.id)
    <3>1. DOMAIN commands = 1..Len(commands)
      <4>1. PICK S : commands \in Seq(S)
        BY <2>3 DEF Sees, IsSeq
      <4> QED BY <4>1
    <3> QED BY <2>1, <3>1 DEF Unknown, Range
  <2>5. a # ViewJob => a.id \in IDs /\ a.kind \in Asked
    BY <2>3 DEF Sees, Requests, Action, Asked
  <2>6. Admitted(a.kind)'
    BY <2>1 DEF Admitted
  <2>7. JobInv'
    BY <1>1, <2>1, <2>4, <2>5, <2>6 DEF JobInv
  <2> QED BY <1>5, <2>1, <2>7
<1>10. CASE Drain \/ ShutdownSnapshot \/ ShutdownPauseReturns
  <2>1. status' = status /\ elapsed' = elapsed /\ job' = job
    BY <1>10 DEF Drain, ShutdownSnapshot, ShutdownPauseReturns, loop
  <2> QED BY <1>4, <1>5, <2>1
<1>11. CASE SendShutdownPause
  <2>1. /\ status' = status /\ elapsed' = elapsed
        /\ IF Admitted("pause") THEN job' = ShutdownPause ELSE job' = job
    BY <1>11 DEF SendShutdownPause
  <2>2. CASE Admitted("pause")
    <3>1. /\ ShutdownPause.kind = "pause"
          /\ ShutdownPause.id = <<"shutdown", pauseNumber>>
      BY DEF ShutdownPause, Action
    <3>2. Unknown(commands, ShutdownPause.id) /\ pauseNumber \in 1..(Len(commands) + 1)
      BY <1>11, <3>1 DEF SendShutdownPause, PauseInv
    <3>3. Admitted("pause")' /\ "pause" \in Asked
      BY <2>1, <2>2 DEF Admitted, Asked
    <3>4. job' = ShutdownPause
      BY <2>1, <2>2
    <3> HIDE DEF ShutdownPause
    <3>5. JobInv'
      BY <1>1, <3>1, <3>2, <3>3, <3>4 DEF JobInv
    <3> QED BY <1>5, <2>1, <3>5
  <2>3. CASE ~Admitted("pause")
    BY <1>4, <1>5, <2>1, <2>3
  <2> QED BY <2>2, <2>3
<1>12. CASE ShutdownCloses
  <2>1. status' = "closed" /\ job' = job /\ job = NoJob
    BY <1>12 DEF ShutdownCloses, Idle
  <2> QED BY <2>1, NothingElse DEF TimeInv, JobInv, Dead
<1>13. ASSUME NEW k \in {"customer", "mark"}, DueActionFails(k) PROVE TimeInv' /\ JobInv'
  <2>1. status' = "failed" /\ job' = NoJob
    BY <1>13 DEF DueActionFails
  <2> QED BY <2>1, NothingElse DEF TimeInv, JobInv, Dead
<1> QED BY <1>6, <1>7, <1>8, <1>9, <1>10, <1>11, <1>12, <1>13 DEF QuietStep, ShutdownNext

\* The loop executed an action of its own or a request, at its logical time.
LEMMA ExecutedLoop ==
    ASSUME Sees, NEW a, NEW next, LoopExecutes(a, next),
           elapsed' = elapsed, job' = NoJob
    PROVE  TimeInv' /\ JobInv'
<1>1. JobInv'
  BY NothingElse DEF JobInv
<1>2. CASE Commits(RecordOf(a, elapsed, Outcome(a)), Outcome(a))
  <2>1. ElapsedOf(commands') = elapsed
    BY <1>2, CommittedLifecycle DEF Sees
  <2>2. elapsed \in Nat /\ elapsed >= elapsed
    BY DEF Sees
  <2> QED BY <1>1, <2>1, <2>2 DEF TimeInv
<1>3. CASE status' = "failed"
  BY <1>1, <1>3 DEF TimeInv, Dead
<1> QED BY <1>2, <1>3 DEF LoopExecutes

\* A scheduled action, for the clock and the request.
LEMMA DueLoop ==
    ASSUME SessionInv, StatusInv, Created, ReplayInv, TimeInv, JobInv,
           NEW k \in ScheduledKinds, ExecuteDue(k)
    PROVE  TimeInv' /\ JobInv'
<1> DEFINE a == Scheduled(generator, k)
           at == generator.candidates[k].due
           out == Outcome(a)
           r == RecordOf(a, at, out)
<1>1. /\ status = "running" /\ status \notin Dead /\ IsHead(generator, k) /\ at <= elapsed
      /\ \/ /\ Commits(r, out)
            /\ status' = r.lifecycle
            /\ elapsed' = IF r.lifecycle = "completed" THEN r.elapsed ELSE elapsed
            /\ job' = IF r.lifecycle = "completed" /\ job # ViewJob THEN NoJob ELSE job
         \/ status' = "failed" /\ job' = NoJob
  BY DEF ExecuteDue, Dead
<1>2. Sees
  BY <1>1, LoopSees
<1>3. a.kind = k /\ a.id = ScheduledID(generator, k)
  BY DEF Scheduled, Action
<1>4. /\ r.id = a.id /\ r.elapsed = at
      /\ r.lifecycle = LifecycleAfter(LifecycleOf(commands), a, out)
  BY DEF RecordOf, Record
<1>5. r.lifecycle \in {"running", "completed"}
  <2>1. LifecycleOf(commands) = "running"
    BY <1>1, <1>2 DEF Sees
  <2> QED BY <1>3, <1>4, <2>1 DEF LifecycleAfter, ScheduledKinds, MarketKinds
<1>6. at \in Nat /\ elapsed \in Nat
  <2>1. k \in Pending(generator)
    BY <1>1 DEF IsHead
  <2> QED BY <1>2, <2>1 DEF Sees
<1>7. r.id = <<k, generator.candidates[k].sequence>> /\ generator.candidates[k].sequence \in Nat
  <2>1. k \in Pending(generator) /\ generator \in GeneratorType
    BY <1>1, <1>2 DEF IsHead, Sees, WellFormed
  <2> QED BY <1>3, <1>4, <2>1 DEF ScheduledID, GeneratorType, Candidate
<1> DEFINE n == generator.candidates[k].sequence
<1>8. CASE status' = "failed" /\ job' = NoJob
  BY <1>8, NothingElse DEF TimeInv, JobInv, Dead
<1>9. CASE /\ Commits(r, out)
           /\ status' = r.lifecycle
           /\ elapsed' = IF r.lifecycle = "completed" THEN r.elapsed ELSE elapsed
           /\ job' = IF r.lifecycle = "completed" /\ job # ViewJob THEN NoJob ELSE job
  <2>1. ElapsedOf(commands') = at
    BY <1>2, <1>9, CommittedLifecycle DEF Sees
  <2>2. commands' = Append(commands, r) /\ IsSeq(commands)
    BY <1>2, <1>9 DEF Commits, Sees
  <2> HIDE DEF a, at, out, r, n
  <2>3. TimeInv'
    <3>1. CASE r.lifecycle = "running"
      BY <1>1, <1>6, <1>9, <2>1, <3>1 DEF TimeInv
    <3>2. CASE r.lifecycle = "completed"
      <4>1. elapsed' = at /\ at >= at
        BY <1>4, <1>6, <1>9, <3>2
      <4> QED BY <1>6, <2>1, <4>1 DEF TimeInv
    <3> QED BY <1>5, <3>1, <3>2
  <2>4. JobInv'
    <3>1. CASE job' \in {NoJob, TimerJob, ViewJob}
      BY <3>1 DEF JobInv
    <3>2. CASE job' \notin {NoJob, TimerJob, ViewJob}
      <4>1. /\ job' = job /\ status' = status /\ job \notin {NoJob, TimerJob, ViewJob}
        BY <1>1, <1>5, <1>9, <3>2
      <4>2. /\ job.kind \in Asked /\ Admitted(job.kind) /\ Unknown(commands, job.id)
            /\ \/ job.id \in IDs
               \/ job.kind = "pause" /\ \E m \in 1..(Len(commands) + 1) : job.id = <<"shutdown", m>>
        BY <4>1 DEF JobInv
      <4>3. r.id # job.id
        <5>1. <<k, n>> \notin IDs
          BY <1>7, SystemNames DEF n
        <5>2. \A x : <<k, n>> # <<"shutdown", x>>
          <6>1. k # "shutdown"
            BY DEF ScheduledKinds, MarketKinds
          <6> QED BY <6>1, Pairs
        <5>3. r.id = <<k, n>>
          BY <1>7 DEF n
        <5> QED BY <4>2, <5>1, <5>2, <5>3
      <4>4. /\ Len(commands) \in Nat /\ Len(commands') = Len(commands) + 1
            /\ commands'[Len(commands) + 1] = r
            /\ \A i \in 1..Len(commands) : commands'[i] = commands[i]
        BY <2>2, SeqLength, AppendSeq DEF Begins
      <4>5. Unknown(commands', job.id)
        BY <4>2, <4>3, <4>4 DEF Unknown
      <4>6. Admitted(job.kind)'
        BY <4>1, <4>2 DEF Admitted
      <4>7. \A m \in 1..(Len(commands) + 1) : m \in 1..(Len(commands') + 1)
        BY <4>4
      <4> QED BY <4>1, <4>2, <4>5, <4>6, <4>7 DEF JobInv
    <3> QED BY <3>1, <3>2
  <2> QED BY <2>3, <2>4
<1> QED BY <1>1, <1>8, <1>9

\* A record with a name of another kind leaves the pause's name unknown.
LEMMA PauseKept ==
    ASSUME PauseInv, NEW r, IsSeq(commands), \A x : r.id # <<"shutdown", x>>,
           commands' \in {commands, Append(commands, r)},
           stopping' = stopping, pauseNumber' = pauseNumber
    PROVE  PauseInv'
<1> DEFINE n == Len(commands)
           id == <<"shutdown", pauseNumber>>
<1>1. CASE commands' = commands
  BY <1>1 DEF PauseInv
<1>2. CASE commands' = Append(commands, r) /\ stopping = "snapped"
  <2>1. pauseNumber \in 1..(n + 1) /\ Unknown(commands, id)
    BY <1>2 DEF PauseInv
  <2>2. /\ n \in Nat /\ Len(commands') = n + 1 /\ commands'[n + 1] = r
        /\ \A i \in 1..n : commands'[i] = commands[i]
    BY <1>2, SeqLength, AppendSeq DEF Begins
  <2>3. r.id # id
    OBVIOUS
  <2> HIDE DEF n, id
  <2>4. Unknown(commands', id)
    BY <2>1, <2>2, <2>3 DEF Unknown
  <2>5. pauseNumber \in 1..(Len(commands') + 1)
    BY <2>1, <2>2
  <2> QED BY <2>4, <2>5 DEF PauseInv, id
<1>3. CASE stopping # "snapped"
  BY <1>3 DEF PauseInv
<1> QED BY <1>1, <1>2, <1>3

\* What the loop executes in the middle of a shutdown is not a pause of it.
LEMMA PauseLoop ==
    ASSUME SessionInv, ShutInv, PauseInv,
           CountdownCompletes \/ Finish \/ \E k \in ScheduledKinds : ExecuteDue(k)
    PROVE  PauseInv'
<1>1. IsSeq(commands)
  BY DEF SessionInv, StoreInv
<1>2. CASE CountdownCompletes
  <2> DEFINE r == RecordOf(Action(<<"countdown", Last(commands).id>>, "countdown", 0), elapsed,
                           Outcome(Action(<<"countdown", Last(commands).id>>, "countdown", 0)))
  <2>1. /\ commands' \in {commands, Append(commands, r)}
        /\ stopping' = stopping /\ pauseNumber' = pauseNumber
    BY <1>2 DEF CountdownCompletes, LoopExecutes, Commits, AppendFails, shutdown
  <2>2. r.id = <<"countdown", Last(commands).id>>
    BY DEF RecordOf, Record, Action
  <2>3. \A x : r.id # <<"shutdown", x>>
    BY <2>2, Pairs
  <2> HIDE DEF r
  <2> QED BY <1>1, <2>1, <2>3, PauseKept
<1>3. CASE Finish
  <2>1. job \notin {NoJob, TimerJob} /\ stopping' = stopping
    BY <1>3 DEF Finish, shutdown
  <2>2. stopping' # "snapped"
    BY <2>1 DEF ShutInv
  <2> QED BY <2>2 DEF PauseInv
<1>4. ASSUME NEW k \in ScheduledKinds, ExecuteDue(k) PROVE PauseInv'
  <2> DEFINE a == Scheduled(generator, k)
             r == RecordOf(a, generator.candidates[k].due, Outcome(a))
  <2>1. /\ commands' \in {commands, Append(commands, r)}
        /\ stopping' = stopping /\ pauseNumber' = pauseNumber
    BY <1>4 DEF ExecuteDue, Commits, AppendFails, shutdown
  <2>2. r.id = <<k, generator.candidates[k].sequence>> /\ k # "shutdown"
    BY DEF RecordOf, Record, Scheduled, ScheduledID, Action, ScheduledKinds, MarketKinds
  <2>3. \A x : r.id # <<"shutdown", x>>
    BY <2>2, Pairs
  <2> HIDE DEF r
  <2> QED BY <1>1, <2>1, <2>3, PauseKept
<1> QED BY <1>2, <1>3, <1>4

\* The other steps: a shutdown takes a new name.
LEMMA PauseStep ==
    ASSUME SessionInv, StatusInv, ShutInv, Created, ReplayInv, TimeInv, PauseInv, [Next]_vars
    PROVE  PauseInv'
<1>1. ASSUME commands' = commands, UNCHANGED shutdown PROVE PauseInv'
  BY <1>1 DEF PauseInv, shutdown
<1>2. ASSUME stopping' # "snapped" PROVE PauseInv'
  BY <1>2 DEF PauseInv
<1>3. CASE ShutdownSnapshot
  <2>1. CASE stopping' = "snapped"
    <3>1. status \in Active /\ pauseNumber' = Len(commands) + 1 /\ commands' = commands
      BY <1>3, <2>1 DEF ShutdownSnapshot, memory
    <3>2. Sees
      BY <3>1, LoopSees DEF Active, Dead
    <3>3. Len(commands) \in Nat /\ Unknown(commands, <<"shutdown", Len(commands) + 1>>)
      BY <3>2, SeqLength, ShutdownIsNew DEF Sees
    <3> QED BY <3>1, <3>3 DEF PauseInv
  <2> QED BY <1>2, <2>1
<1>4. CASE Drain \/ SendShutdownPause \/ ShutdownPauseReturns \/ ShutdownCloses
  <2>1. stopping' # "snapped"
    BY <1>4 DEF Drain, SendShutdownPause, ShutdownPauseReturns, ShutdownCloses
  <2> QED BY <1>2, <2>1
<1>5. CASE \/ BuildSequencer \/ Tick \/ TimerFires \/ FinishView \/ FinishTimer \/ TurnView
           \/ \E a \in Requests \cup {ViewJob} : Receive(a)
           \/ \E a : Retry(a)
           \/ UNCHANGED vars
  <2>1. commands' = commands /\ UNCHANGED shutdown
    BY <1>5 DEF BuildSequencer, Tick, TimerFires, FinishView, FinishTimer, TurnView, Receive, Retry,
                memory, vars
  <2> QED BY <1>1, <2>1
<1>6. ASSUME NEW a, TurnCommand(a) \/ TurnCommandFails(a) PROVE PauseInv'
  <2>1. stopping = "up" /\ stopping' = stopping
    BY <1>6 DEF TurnCommand, TurnCommandFails, TurnAdmitted, shutdown
  <2> QED BY <1>2, <2>1
<1>7. CASE ProcessEnds \/ MachineCrash
  <2>1. stopping' = "up"
    BY <1>7 DEF ProcessEnds, MachineCrash, Forget
  <2> QED BY <1>2, <2>1
<1>8. ASSUME NEW p, Load(p) \/ LoadFails(p) PROVE PauseInv'
  <2>1. ~loaded /\ stopping' = stopping
    BY <1>8 DEF Load, LoadFails, shutdown
  <2> QED BY <1>2, <2>1 DEF ShutInv
<1>9. ASSUME NEW k \in {"customer", "mark"}, DueActionFails(k) PROVE PauseInv'
  <2>1. commands' = commands /\ stopping' = stopping /\ pauseNumber' = pauseNumber
    BY <1>9 DEF DueActionFails, memory
  <2> QED BY <2>1 DEF PauseInv
<1> QED
  BY <1>3, <1>4, <1>5, <1>6, <1>7, <1>8, <1>9, PauseLoop DEF Next, RealTimeNext, ShutdownNext

\* The steps outside of the sequencer, for the clock and the request.
LEMMA OtherLoop ==
    ASSUME SessionInv, TimeInv, JobInv,
           \/ \E a : TurnCommand(a) \/ TurnCommandFails(a) \/ Retry(a)
           \/ ProcessEnds \/ MachineCrash
           \/ \E p : Load(p) \/ LoadFails(p)
           \/ UNCHANGED vars
    PROVE  TimeInv' /\ JobInv'
<1>0. status \in Dead => job = NoJob
  BY DEF SessionInv, LoopInv
<1>1. ASSUME NEW a, TurnCommand(a) \/ TurnCommandFails(a) PROVE TimeInv' /\ JobInv'
  <2>1. mode = TurnBased /\ status' = status /\ job' = job
    BY <1>1 DEF TurnCommand, TurnCommandFails, TurnAdmitted, loop
  <2>2. status = "none"
    BY <2>1 DEF SessionInv, LoopInv
  <2> QED BY <1>0, <2>1, <2>2, NothingElse DEF TimeInv, JobInv, Dead
<1>2. ASSUME NEW a, Retry(a) PROVE TimeInv' /\ JobInv'
  <2>1. mode' = mode /\ status' = status /\ elapsed' = elapsed /\ job' = job /\ commands' = commands
    BY <1>2 DEF Retry, fixed, loop, memory
  <2> QED BY <2>1 DEF TimeInv, JobInv, Admitted
<1>3. CASE ProcessEnds \/ MachineCrash
  <2>1. status' = "none" /\ job' = NoJob
    BY <1>3 DEF ProcessEnds, MachineCrash, Forget
  <2> QED BY <2>1, NothingElse DEF TimeInv, JobInv, Dead
<1>4. ASSUME NEW p, Load(p) \/ LoadFails(p) PROVE TimeInv' /\ JobInv'
  <2>1. ~loaded /\ status' = status /\ job' = job
    BY <1>4 DEF Load, LoadFails, loop
  <2>2. status = "none"
    BY <2>1 DEF SessionInv, LoopInv
  <2> QED BY <1>0, <2>1, <2>2, NothingElse DEF TimeInv, JobInv, Dead
<1>5. CASE UNCHANGED vars
  <2>1. mode' = mode /\ status' = status /\ elapsed' = elapsed /\ job' = job /\ commands' = commands
    BY <1>5 DEF vars, fixed, loop, memory
  <2> QED BY <2>1 DEF TimeInv, JobInv, Admitted
<1> QED BY <1>1, <1>2, <1>3, <1>4, <1>5

-----------------------------------------------------------------------------
(* What a crash leaves, and what was shown *)

\* Every step leaves a log that can be replayed.
LEMMA ReplayStep ==
    ASSUME PlayInv, ReplayInv, TimeInv, JobInv, PauseInv, NoTies, [Next]_vars
    PROVE  ReplayInv' /\ TimeInv' /\ JobInv'
<1>0. SessionInv /\ StatusInv /\ ShutInv /\ Created
  BY DEF PlayInv
<1>1. CASE QuietStep
  <2>1. UNCHANGED memory
    BY <1>1 DEF QuietStep, BuildSequencer, Tick, TimerFires, FinishView, FinishTimer, Receive,
                DueActionFails, TurnView, ShutdownNext, Drain, ShutdownSnapshot, SendShutdownPause,
                ShutdownPauseReturns, ShutdownCloses
  <2>2. /\ mode' = mode /\ file' = file /\ doubtful' = doubtful /\ loaded' = loaded
        /\ failed' = failed
    BY <1>1, QuietStepKeeps DEF storage
  <2>3. seed' = seed
    BY <1>1 DEF QuietStep, BuildSequencer, Tick, TimerFires, FinishView, FinishTimer, Receive,
                DueActionFails, TurnView, ShutdownNext, Drain, ShutdownSnapshot, SendShutdownPause,
                ShutdownPauseReturns, ShutdownCloses, fixed
  <2>4. Durable' = Durable /\ IsSeq(Durable) /\ IsSeq(file)
    BY <1>0, <2>2, DurableSeq DEF Durable, SessionInv, StoreInv
  <2>5. ReplayInv'
    BY <2>1, <2>2, <2>3, <2>4, ReplayKept DEF memory, ReplayInv, Same
  <2> QED BY <1>0, <1>1, <2>5, QuietLoop
<1>2. CASE CountdownCompletes
  <2>1. status \notin Dead /\ job' = NoJob /\ elapsed' = elapsed
    BY <1>2 DEF CountdownCompletes, Idle, Dead
  <2>2. Sees
    BY <1>0, <2>1, LoopSees
  <2>3. LoopExecutes(Action(<<"countdown", Last(commands).id>>, "countdown", 0), "running")
    BY <1>2 DEF CountdownCompletes
  <2>4. TimeInv' /\ JobInv'
    BY <2>1, <2>2, <2>3, ExecutedLoop
  <2> QED BY <1>0, <1>2, <2>4, CountdownReplay
<1>3. ASSUME NEW k \in ScheduledKinds, ExecuteDue(k) PROVE ReplayInv' /\ TimeInv' /\ JobInv'
  BY <1>0, <1>3, DueReplay, DueLoop
<1>4. CASE Finish
  <2>1. status \notin Dead /\ job' = NoJob /\ elapsed' = elapsed
    BY <1>0, <1>4 DEF Finish, SessionInv, LoopInv
  <2>2. Sees
    BY <1>0, <2>1, LoopSees
  <2>3. LoopExecutes(job, Leads(job, Outcome(job)))
    BY <1>4 DEF Finish
  <2>4. TimeInv' /\ JobInv'
    BY <2>1, <2>2, <2>3, ExecutedLoop
  <2> QED BY <1>0, <1>4, <2>4, FinishReplay
<1>5. CASE \/ \E a \in Requests : TurnCommand(a) \/ TurnCommandFails(a) \/ Retry(a)
           \/ ProcessEnds \/ MachineCrash
           \/ Load(Replay(file)) \/ LoadFails(Replay(file))
           \/ UNCHANGED vars
  <2>1. TimeInv' /\ JobInv'
    BY <1>0, <1>5, OtherLoop
  <2>2. CASE (\E a \in Requests : Retry(a)) \/ UNCHANGED vars
    <3>1. UNCHANGED <<fixed, storage, loaded, failed, memory>>
      BY <2>2 DEF Retry, vars
    <3>2. /\ mode' = mode /\ seed' = seed /\ file' = file /\ doubtful' = doubtful
          /\ loaded' = loaded /\ failed' = failed
          /\ engine' = engine /\ revision' = revision /\ generator' = generator
      BY <3>1 DEF fixed, storage, memory
    <3>3. Durable' = Durable /\ IsSeq(Durable) /\ IsSeq(file)
      BY <1>0, <3>2, DurableSeq DEF Durable, SessionInv, StoreInv
    <3>4. ReplayInv'
      BY <3>2, <3>3, ReplayKept DEF ReplayInv, Same
    <3> QED BY <2>1, <3>4
  <2> QED BY <1>0, <1>5, <2>1, <2>2, TurnReplay, ForgetReplay, LoadReplay
<1> QED
  BY <1>1, <1>2, <1>3, <1>4, <1>5 DEF Next, RealTimeNext, QuietStep

\* A new game has nothing to replay.
LEMMA ReplayInit == Init => ReplayInv /\ TimeInv /\ JobInv /\ PauseInv
<1> SUFFICES ASSUME Init PROVE ReplayInv /\ TimeInv /\ JobInv /\ PauseInv
  OBVIOUS
<1>1. /\ seed \in Seeds /\ file = <<>> /\ doubtful = FALSE /\ status = "none" /\ job = NoJob
      /\ engine = NewRuntime.engine /\ revision = 0 /\ generator = NewRuntime.generator
  BY DEF Init
<1> DEFINE p == NewRuntime
<1>2. /\ p.ok /\ p.engine.over = FALSE
      /\ \A k \in Pending(p.generator) : 0 < p.generator.candidates[k].due
  BY <1>1, NewRuntimeFacts
<1>3. p.revision = 0
  BY DEF NewRuntime
<1> HIDE DEF p
<1>4. ElapsedOf(<<>>) = 0 /\ LifecycleOf(<<>>) = "preparing"
  BY DEF ElapsedOf, LifecycleOf
<1>5. \A i \in 1..Len(<<>>) : FALSE
  BY NoRecords
<1>6. Timed(<<>>, p)
  BY <1>2, <1>4, <1>5 DEF Timed
<1>7. Replay(<<>>) = p
  BY ReplayNothing DEF p
<1>8. Good(<<>>)
  BY <1>2, <1>5, <1>6, <1>7 DEF Good, Distinct
<1>9. file = <<>> /\ Durable = <<>>
  BY <1>1 DEF Durable
<1>10. ReplayInv
  BY <1>1, <1>3, <1>7, <1>8, <1>9 DEF ReplayInv, Same, p
<1>11. TimeInv /\ JobInv
  BY <1>1, NothingElse DEF TimeInv, JobInv, Dead
<1>12. PauseInv
  BY DEF Init, PauseInv
<1> QED BY <1>10, <1>11, <1>12

\* The log of a game without ties can always be replayed.
LEMMA ReplayInvariance ==
    Spec /\ []NoTies => [](PlayInv /\ ReplayInv /\ TimeInv /\ JobInv)
<1>1. SessionInv /\ (StatusInv /\ ShutInv) /\ Created <=> PlayInv
  BY DEF PlayInv
<1>2. /\ PlayInv /\ NoTies /\ (ReplayInv /\ TimeInv /\ JobInv /\ PauseInv) /\ [Next]_vars
      => (ReplayInv /\ TimeInv /\ JobInv /\ PauseInv)'
  BY ReplayStep, PauseStep DEF PlayInv
<1> QED BY <1>1, <1>2, ReplayInit, SessionInvariance, StatusInvariance, CreatedInvariance, PTL
        DEF Spec

\* A step leaves on the medium what was there, what was in doubt, or one more.
LEMMA DurableNext ==
    ASSUME SessionInv, [Next]_vars
    PROVE  \E r : Durable' \in {Durable, file, Append(file, r)}
<1>1. ASSUME UNCHANGED storage PROVE Durable' = Durable
  BY <1>1 DEF storage, Durable
<1>2. ASSUME loaded, ~failed, NEW r, NEW out, Commits(r, out) \/ AppendFails(r, out)
      PROVE  Durable' \in {file, Append(file, r)}
  <2>1. IsSeq(file) /\ ~doubtful
    BY <1>2 DEF SessionInv, StoreInv
  <2>2. Front(Append(file, r)) = file
    BY <2>1, FrontIsBack
  <2>3. CASE Commits(r, out)
    <3>1. file' = Append(file, r) /\ doubtful' = FALSE
      BY <2>3 DEF Commits
    <3> QED BY <3>1 DEF Durable
  <2>4. CASE AppendFails(r, out)
    <3>1. CASE file' = Append(file, r) /\ doubtful' = TRUE
      BY <2>2, <3>1 DEF Durable
    <3>2. CASE UNCHANGED storage
      <4>1. file' = file /\ doubtful' = doubtful
        BY <3>2 DEF storage
      <4> QED BY <2>1, <4>1 DEF Durable
    <3> QED BY <2>4, <3>1, <3>2 DEF AppendFails
  <2> QED BY <1>2, <2>3, <2>4
<1>3. CASE QuietStep
  BY <1>1, <1>3, QuietStepKeeps
<1>4. ASSUME status \notin Dead, NEW a, NEW next, LoopExecutes(a, next)
      PROVE  \E r : Durable' \in {Durable, file, Append(file, r)}
  <2>1. loaded /\ ~failed
    BY <1>4, AliveServes DEF SessionInv
  <2> QED BY <1>2, <1>4, <2>1 DEF LoopExecutes
<1>5. CASE CountdownCompletes
  BY <1>4, <1>5 DEF CountdownCompletes, Dead
<1>6. ASSUME NEW k \in ScheduledKinds, ExecuteDue(k)
      PROVE  \E r : Durable' \in {Durable, file, Append(file, r)}
  <2>1. loaded /\ ~failed
    BY <1>6, AliveServes DEF ExecuteDue, SessionInv, Dead
  <2> DEFINE out == Outcome(Scheduled(generator, k))
             r == RecordOf(Scheduled(generator, k), generator.candidates[k].due, out)
  <2>2. Commits(r, out) \/ AppendFails(r, out)
    BY <1>6 DEF ExecuteDue
  <2> HIDE DEF r, out
  <2> QED BY <1>2, <2>1, <2>2
<1>7. CASE Finish
  <2>1. status \notin Dead
    BY <1>7 DEF Finish, SessionInv, LoopInv
  <2> QED BY <1>4, <1>7, <2>1 DEF Finish
<1>8. ASSUME NEW a \in Requests, TurnCommand(a) \/ TurnCommandFails(a)
      PROVE  \E r : Durable' \in {Durable, file, Append(file, r)}
  <2>1. loaded /\ ~failed
    BY <1>8 DEF TurnCommand, TurnCommandFails, TurnAdmitted
  <2>2. CASE TurnCommand(a)
    BY <1>2, <2>1, <2>2 DEF TurnCommand
  <2>3. CASE TurnCommandFails(a)
    <3>1. /\ file' \in {file, Append(file, TurnRecord(a))}
          /\ doubtful' = FALSE \/ doubtful' = (file' # file)
      BY <2>3 DEF TurnCommandFails, Rebuild
    <3>2. IsSeq(file)
      BY DEF SessionInv, StoreInv
    <3>3. Front(Append(file, TurnRecord(a))) = file
      BY <3>2, FrontIsBack
    <3>4. Durable' \in {file', file}
      BY <3>1, <3>3 DEF Durable
    <3> QED BY <3>1, <3>4
  <2> QED BY <1>8, <2>2, <2>3
<1>9. ASSUME NEW a \in Requests, Retry(a) PROVE Durable' = Durable
  BY <1>1, <1>9 DEF Retry
<1>10. CASE ProcessEnds \/ MachineCrash
  <2>1. CASE ProcessEnds
    BY <1>1, <2>1 DEF ProcessEnds
  <2>2. CASE MachineCrash
    <3>1. doubtful' = FALSE /\ file' \in {file, Durable}
      BY <2>2 DEF MachineCrash, Durable
    <3> QED BY <3>1 DEF Durable
  <2> QED BY <1>10, <2>1, <2>2
<1>11. ASSUME NEW p, Load(p) PROVE \E r : Durable' \in {file, Append(file, r)}
  <2>1. doubtful' = FALSE /\ \E r : file' \in {file, Append(file, r)}
    BY <1>11 DEF Load
  <2> QED BY <2>1 DEF Durable
<1>12. ASSUME NEW p, LoadFails(p) PROVE Durable' = file
  <2>1. PICK r : file' = Append(file, r) /\ doubtful' = TRUE
    BY <1>12 DEF LoadFails
  <2>2. IsSeq(file)
    BY DEF SessionInv, StoreInv
  <2> QED BY <2>1, <2>2, FrontIsBack DEF Durable
<1>13. CASE UNCHANGED vars
  BY <1>1, <1>13 DEF vars
<1> QED
  BY <1>3, <1>5, <1>6, <1>7, <1>8, <1>9, <1>10, <1>11, <1>12, <1>13
     DEF Next, RealTimeNext, QuietStep

\* What survives a crash is never taken back by a step.
LEMMA DurableGrows ==
    ASSUME SessionInv, [Next]_vars
    PROVE  IsSeq(Durable) /\ IsSeq(Durable') /\ Begins(Durable, Durable')
<1>1. IsSeq(file) /\ IsSeq(Durable) /\ Begins(Durable, file)
  BY DurableSeq DEF SessionInv, StoreInv
<1>2. PICK r : Durable' \in {Durable, file, Append(file, r)}
  BY DurableNext
<1>3. IsSeq(Append(file, r)) /\ Begins(file, Append(file, r))
  BY <1>1, AppendSeq
<1>4. Begins(Durable, Append(file, r)) /\ Begins(Durable, Durable)
  BY <1>1, <1>3, BeginsTransitive, BeginsReflexive
<1> QED BY <1>1, <1>2, <1>3, <1>4

\* The beginnings of a sequence are those of what continues it.
LEMMA BeginningKept ==
    ASSUME NEW s, IsSeq(s), NEW t, IsSeq(t), Begins(s, t), NEW n \in 0..Len(s)
    PROVE  SubSeq(t, 1, n) = SubSeq(s, 1, n) /\ IsSeq(SubSeq(s, 1, n)) /\ n \in 0..Len(t)
<1>1. PICK S, T : s \in Seq(S) /\ t \in Seq(T)
  BY DEF IsSeq
<1>2. /\ Len(s) \in Nat /\ Len(t) \in Nat /\ Len(s) <= Len(t)
      /\ \A i \in 1..n : s[i] = t[i] /\ i \in 1..Len(s) /\ i \in 1..Len(t)
  BY <1>1 DEF Begins
<1>3. SubSeq(t, 1, n) = [i \in 1..n |-> t[i]]
  BY <1>1, <1>2
<1>4. SubSeq(s, 1, n) = [i \in 1..n |-> s[i]]
  BY <1>1, <1>2
<1>5. SubSeq(s, 1, n) \in Seq(S)
  BY <1>1, <1>2
<1>6. SubSeq(t, 1, n) = SubSeq(s, 1, n)
  BY <1>2, <1>3, <1>4, Zenon
<1> QED BY <1>2, <1>5, <1>6 DEF IsSeq

\* ShownIsRecorded, with the range of what was shown.
ShownInv ==
    /\ shown.through \in 0..Len(Durable)
    /\ Replay(SubSeq(Durable, 1, shown.through)).engine = shown.engine
    /\ Replay(SubSeq(Durable, 1, shown.through)).revision = shown.revision

\* Every step leaves what was shown on record.
LEMMA ShownStep ==
    ASSUME PlayInv, ReplayInv, ShownInv, [Next]_vars
    PROVE  ShownInv'
<1>1. IsSeq(Durable) /\ IsSeq(Durable') /\ Begins(Durable, Durable')
  BY DurableGrows DEF PlayInv
<1>2. mode' = mode /\ seed' = seed
  BY FixedStays
<1>3. CASE shown' = shown
  <2> DEFINE n == shown.through
             s == SubSeq(Durable, 1, n)
  <2>1. n \in 0..Len(Durable)
    BY DEF ShownInv
  <2>2. SubSeq(Durable', 1, n) = s /\ IsSeq(s) /\ n \in 0..Len(Durable')
    BY <1>1, <2>1, BeginningKept
  <2>3. SubSeq(Durable, 1, shown.through)' = s
    BY <1>3, <2>2
  <2>4. Replay(SubSeq(Durable, 1, shown.through))' = Replay(SubSeq(Durable, 1, shown.through)')
    BY <1>2, <2>2, <2>3, ReplaysAlike
  <2> QED BY <1>3, <2>2, <2>3, <2>4 DEF ShownInv
<1>4. CASE FinishView \/ TurnView
  <2>1. shown' = Seen /\ UNCHANGED storage
    BY <1>4 DEF FinishView, TurnView
  <2>2. loaded /\ ~failed
    <3>1. ViewJob # NoJob
      BY DEF ViewJob, NoJob, Action
    <3>2. FinishView => status \notin Dead
      BY <3>1 DEF FinishView, PlayInv, SessionInv, LoopInv
    <3> QED BY <1>4, <3>2, AliveServes DEF TurnView, PlayInv, SessionInv
  <2>3. commands = file /\ ~doubtful /\ IsSeq(file) /\ Same(Replay(file))
    BY <2>2 DEF PlayInv, SessionInv, StoreInv, ReplayInv
  <2>4. Durable' = file
    BY <2>1, <2>3 DEF storage, Durable
  <2> DEFINE n == Len(file)
  <2>5. n \in 0..n /\ SubSeq(file, 1, n) = file
    <3>1. PICK S : file \in Seq(S)
      BY <2>3 DEF IsSeq
    <3> QED BY <3>1
  <2>6. shown'.through = n /\ shown'.engine = engine /\ shown'.revision = revision
    BY <2>1, <2>3 DEF Seen
  <2>7. SubSeq(Durable, 1, shown.through)' = file
    BY <2>4, <2>5, <2>6
  <2>8. Replay(SubSeq(Durable, 1, shown.through))' = Replay(SubSeq(Durable, 1, shown.through)')
    BY <1>2, <2>3, <2>7, ReplaysAlike
  <2> QED BY <2>3, <2>4, <2>5, <2>6, <2>7, <2>8 DEF ShownInv, Same
<1>5. shown' = shown \/ FinishView \/ TurnView
  <2>1. CASE RealTimeNext
    BY <2>1 DEF RealTimeNext, BuildSequencer, Tick, TimerFires, CountdownCompletes, Receive,
                ExecuteDue, DueActionFails, Finish, FinishTimer, clients
  <2>2. CASE ShutdownNext
    BY <2>2 DEF ShutdownNext, Drain, ShutdownSnapshot, SendShutdownPause, ShutdownPauseReturns,
                ShutdownCloses, clients
  <2>3. ASSUME NEW a \in Requests, TurnCommand(a) \/ TurnCommandFails(a) \/ Retry(a)
        PROVE  shown' = shown
    BY <2>3 DEF TurnCommand, TurnCommandFails, Retry, clients
  <2>4. CASE ProcessEnds \/ MachineCrash \/ UNCHANGED vars
    BY <2>4 DEF ProcessEnds, MachineCrash, Forget, vars, clients
  <2>5. ASSUME NEW p, Load(p) \/ LoadFails(p) PROVE shown' = shown
    BY <2>5 DEF Load, LoadFails, clients
  <2> QED BY <2>1, <2>2, <2>3, <2>4, <2>5 DEF Next
<1> QED BY <1>3, <1>4, <1>5

\* A new game has shown nothing.
LEMMA ShownInit == Init => ShownInv
<1> SUFFICES ASSUME Init PROVE ShownInv
  OBVIOUS
<1>1. /\ file = <<>> /\ doubtful = FALSE /\ shown.through = 0
      /\ shown.engine = NewRuntime.engine /\ shown.revision = 0
  BY DEF Init
<1>2. Durable = <<>>
  BY <1>1 DEF Durable
<1>3. SubSeq(<<>>, 1, 0) = <<>>
  BY SubSeqEmpty
<1> DEFINE none == <<>>
           p == NewRuntime
<1>4. Replay(none) = p /\ Len(none) = 0 /\ p.revision = 0
  BY ReplayNothing, NoRecords DEF NewRuntime
<1>5. SubSeq(Durable, 1, shown.through) = none
  BY <1>1, <1>2, <1>3
<1>6. Durable = none
  BY <1>2
<1>7. shown.engine = p.engine
  BY <1>1
<1> HIDE DEF none, p
<1>8. shown.through \in 0..Len(Durable)
  BY <1>1, <1>4, <1>6
<1>9. Replay(SubSeq(Durable, 1, shown.through)) = p
  BY <1>4, <1>5
<1> QED BY <1>1, <1>4, <1>7, <1>8, <1>9 DEF ShownInv

\* What was shown is always on record.
LEMMA ShownInvariance == Spec /\ []NoTies => []ShownInv
<1>1. (PlayInv /\ ReplayInv /\ TimeInv /\ JobInv) /\ ShownInv /\ [Next]_vars => ShownInv'
  BY ShownStep
<1> QED BY <1>1, ShownInit, ReplayInvariance, PTL DEF Spec

-----------------------------------------------------------------------------
(* The theorems *)

\* What a client was told of a command is a record of the log for good: no
\* failed append, fence, crash, reload or retry changes or loses it.
THEOREM AnswersAreKept == Spec => []ToldIsRecorded
<1>1. SessionInv => ToldIsRecorded
  <2> SUFFICES ASSUME SessionInv, NEW t \in told
               PROVE  t.at <= Len(Durable) /\ t = Answer(Durable[t.at], t.at)
    BY DEF ToldIsRecorded
  <2>1. t.at \in 1..Len(Durable) /\ t = Answer(Durable[t.at], t.at)
    BY DEF SessionInv, ToldInv
  <2>2. Len(Durable) \in Nat
    BY DurableSeq, SeqLength DEF SessionInv
  <2> QED BY <2>1, <2>2
<1> QED BY <1>1, SessionInvariance, PTL

\* An interrupted day is paused before anybody can play on it.
THEOREM InterruptedDaysArePaused == Spec => []RestoredAsPaused
<1>1. SessionInv => RestoredAsPaused
  BY DEF SessionInv, LoopInv
<1> QED BY <1>1, SessionInvariance, PTL

\* A served entry that is not fenced holds exactly the records of its file,
\* and a fenced real-time entry has a sequencer that executes nothing.
THEOREM EntriesHoldTheirFile ==
    Spec => [](/\ loaded /\ ~failed => commands = file /\ ~doubtful
               /\ failed /\ mode = RealTime => status \in {"failed", "closed"})
<1>1. SessionInv => /\ loaded /\ ~failed => commands = file /\ ~doubtful
                    /\ failed /\ mode = RealTime => status \in {"failed", "closed"}
  BY DEF SessionInv, StoreInv, LoopInv
<1> QED BY <1>1, SessionInvariance, PTL

\* A shutdown that succeeds leaves no day running in the log, and one that fails
\* does so because an append did (Shutdown, and the pause it sends).
THEOREM ShutdownsSettle == Spec => []ShutdownSettles
<1>1. SessionInv /\ StatusInv /\ ShutInv => ShutdownSettles
  BY DEF SessionInv, StoreInv, ShutInv, ShutdownSettles
<1> QED BY <1>1, SessionInvariance, StatusInvariance, PTL

\* A running day has had its opening quote, also after it was paused out of its
\* countdown, lost with the process and resumed (openingQuoteFromRecords).
THEOREM RunningDaysAreQuoted == Spec => []RunningDayIsQuoted
<1>1. QuoteInv => RunningDayIsQuoted
  BY DEF QuoteInv, RunningDayIsQuoted
<1> QED BY <1>1, QuoteInvariance, PTL

\* No quote revision is used twice, although a crash takes the executor's away
\* and a replay builds it anew (quoteRevision, and the conflict it is checked for).
THEOREM RevisionsAreUsedOnce == Spec => []RevisionUsedOnce
<1>1. SessionInv /\ QuoteInv => RevisionUsedOnce
  <2> SUFFICES ASSUME SessionInv, QuoteInv PROVE RevisionUsedOnce
    OBVIOUS
  <2>1. DOMAIN file = 1..Len(file)
    <3>1. PICK S : file \in Seq(S)
      BY DEF SessionInv, StoreInv, IsSeq
    <3> QED BY <3>1
  <2> QED BY <2>1 DEF QuoteInv, Rising, RevisionUsedOnce, Accepted, IsQuote
<1> QED BY <1>1, SessionInvariance, QuoteInvariance, PTL

\* As long as no two scheduled actions of the day are due at one time, nothing
\* that failed appends, crashes, reloads, retries and shutdowns leave in a log
\* makes a replay refuse it (replayRealTimeRecords, replayRecords).
THEOREM LogsCanBeReplayed == Spec /\ []NoTies => []LogReplays
<1>1. ReplayInv => LogReplays
  BY DEF ReplayInv, Good, LogReplays
<1> QED BY <1>1, ReplayInvariance, PTL

\* An entry that is not fenced is what a replay of its log builds, to the
\* engine, the quote revision and the cursor of the generator.
THEOREM MemoryIsTheReplay == Spec /\ []NoTies => []MemoryMatchesLog
<1>1. PlayInv /\ ReplayInv => MemoryMatchesLog
  <2> SUFFICES ASSUME PlayInv, ReplayInv, loaded, ~failed
               PROVE  /\ commands = file
                      /\ [ok |-> TRUE, records |-> commands, engine |-> engine,
                          revision |-> revision, generator |-> generator] = Replay(file)
    BY DEF MemoryMatchesLog
  <2> DEFINE p == Replay(file)
  <2>1. commands = file /\ IsSeq(file) /\ p.ok /\ Same(p) /\ seed \in Seeds
    BY DEF PlayInv, SessionInv, StoreInv, ReplayInv, Good, Created
  <2>2. Runtime(p) /\ p.records = file
    BY <2>1, ReplayFacts DEF Replayed
  <2> HIDE DEF p
  <2>3. p.ok = TRUE
    BY <2>1, <2>2 DEF Runtime
  <2>4. p = [ok |-> p.ok, records |-> p.records, engine |-> p.engine,
             revision |-> p.revision, generator |-> p.generator]
    BY <2>2, Zenon DEF Runtime
  <2>5. p = [ok |-> TRUE, records |-> commands, engine |-> engine,
             revision |-> revision, generator |-> generator]
    BY <2>1, <2>2, <2>3, <2>4, Zenon DEF Same
  <2> QED BY <2>1, <2>5 DEF p
<1> QED BY <1>1, ReplayInvariance, PTL

\* No client is shown a state that a crash can take back: what was shown is what
\* the surviving records, up to where it goes, replay to.
THEOREM NothingShownIsTakenBack == Spec /\ []NoTies => []ShownIsRecorded
<1>1. SessionInv /\ ShownInv => ShownIsRecorded
  <2> SUFFICES ASSUME SessionInv, ShownInv PROVE ShownIsRecorded
    OBVIOUS
  <2>1. Len(Durable) \in Nat
    BY DurableSeq, SeqLength DEF SessionInv
  <2> QED BY <2>1 DEF ShownInv, ShownIsRecorded
<1> QED BY <1>1, SessionInvariance, ShownInvariance, PTL
==============================================================================
