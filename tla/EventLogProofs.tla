--------------------------- MODULE EventLogProofs --------------------------
(***************************************************************************)
(* Proofs about the event log, for all command ids, kinds, bounds on the   *)
(* elapsed time and on the lines, and both kinds of game.                  *)
(*                                                                         *)
(* The file, the medium and the Log are related through one predicate,     *)
(* Sound(acks, lines): the acknowledged records are the beginning of the   *)
(* lines, and at most one line follows them, torn or a record the Log      *)
(* would accept.  That line is in doubt, and Open() and Recover() decide   *)
(* about it.  The loop of parseRecords() is FoldLeft(ParseLine, ...); what *)
(* it returns for every file follows from module FoldProofs.               *)
(***************************************************************************)
EXTENDS EventLog, SequenceTheorems, TLAPS

\* What parsing starts with, and what it does line by line.
Start(from) == [ok |-> TRUE, log |-> from, records |-> <<>>]

Loop == INSTANCE FoldProofs WITH Op <- ParseLine

\* Where the owner of a Log can be, and what a Log can know.
Phases == {"active", "opened", "closed"}

Logs ==
    [phase : Phases, next : Nat, ids : SUBSET (IDs \cup {CreateID}), elapsed : 0..MaxElapsed,
     lifecycle : Lifecycles \cup {"none"}, size : Nat]

Lines == Records \cup {Torn}

\* What a Log knows after the first k lines.
LogAfter(from, lines, k) ==
    [phase |-> from.phase, next |-> from.next + k,
     ids |-> from.ids \cup {lines[i].id : i \in 1..k},
     elapsed |-> IF k = 0 THEN from.elapsed ELSE lines[k].elapsed,
     lifecycle |-> IF k = 0 THEN from.lifecycle ELSE lines[k].lifecycle,
     size |-> from.size + k]

\* The first k lines are records, each valid after those before it.
ValidUpTo(from, lines, k) ==
    \A i \in 1..k : lines[i] # Torn /\ Valid(LogAfter(from, lines, i - 1), lines[i])

\* The first sequence is the beginning of the second.
Begins(s, t) == Len(s) <= Len(t) /\ \A i \in 1..Len(s) : s[i] = t[i]

-----------------------------------------------------------------------------
(* What parsing does *)

\* Parse takes one line after the other.
LEMMA ParseIsLoop ==
    ASSUME NEW lines, NEW from
    PROVE  Parse(lines, from) = Loop!Fold(lines, Start(from))
BY Zenon DEF Parse, Start, Loop!Fold, FoldLeft, Loop!MapThenFoldSet,
             MapThenFoldSet, Loop!Greatest, Max

\* The lines up to k are parsed by parsing line k after those before it.
LEMMA ParseStep ==
    ASSUME NEW T, NEW lines \in Seq(T), NEW from
    PROVE  /\ Parse(SubSeq(lines, 1, 0), from) = Start(from)
           /\ \A k \in 1..Len(lines) :
                Parse(SubSeq(lines, 1, k), from)
                  = ParseLine(Parse(SubSeq(lines, 1, k - 1), from), lines[k])
<1>1. /\ Loop!Fold(SubSeq(lines, 1, 0), Start(from)) = Start(from)
      /\ \A k \in 1..Len(lines) :
           Loop!Fold(SubSeq(lines, 1, k), Start(from))
             = ParseLine(Loop!Fold(SubSeq(lines, 1, k - 1), Start(from)), lines[k])
  <2> HIDE DEF ParseLine, Start
  <2>1. QED
    BY Loop!FoldStep
<1>2. QED
  BY <1>1, ParseIsLoop, Zenon

\* A record added to what the Log knew of the lines before it.
LEMMA LogAfterStep ==
    ASSUME NEW from \in Logs, NEW lines, NEW k \in Nat
    PROVE  /\ LogAfter(from, lines, 0) = from
           /\ LogAfter(from, lines, k + 1) = Advance(LogAfter(from, lines, k), lines[k + 1])
<1>1. {lines[i].id : i \in 1..0} = {}
  OBVIOUS
<1>2. LogAfter(from, lines, 0) = from
  BY <1>1 DEF LogAfter, Logs
<1>3. {lines[i].id : i \in 1..(k + 1)} = {lines[i].id : i \in 1..k} \cup {lines[k + 1].id}
  OBVIOUS
<1>4. LogAfter(from, lines, k + 1) = Advance(LogAfter(from, lines, k), lines[k + 1])
  <2> DEFINE ids(j) == {lines[i].id : i \in 1..j}
  <2>1. from.ids \cup ids(k + 1) = (from.ids \cup ids(k)) \cup {lines[k + 1].id}
    BY <1>3
  <2>2. /\ from.next + (k + 1) = (from.next + k) + 1
        /\ from.size + (k + 1) = (from.size + k) + 1
        /\ k + 1 # 0
    BY DEF Logs
  <2>3. LogAfter(from, lines, k + 1) =
          [phase |-> from.phase, next |-> (from.next + k) + 1,
           ids |-> (from.ids \cup ids(k)) \cup {lines[k + 1].id},
           elapsed |-> lines[k + 1].elapsed, lifecycle |-> lines[k + 1].lifecycle,
           size |-> (from.size + k) + 1]
    BY <2>1, <2>2, Zenon DEF LogAfter
  <2> DEFINE l == LogAfter(from, lines, k)
  <2>4. /\ l.phase = from.phase /\ l.next = from.next + k /\ l.ids = from.ids \cup ids(k)
        /\ l.size = from.size + k
    BY DEF LogAfter
  <2>5. DOMAIN l = {"phase", "next", "ids", "elapsed", "lifecycle", "size"}
    BY DEF LogAfter
  <2> HIDE DEF ids, l
  <2>6. Advance(l, lines[k + 1]) =
          [phase |-> l.phase, next |-> l.next + 1, ids |-> l.ids \cup {lines[k + 1].id},
           elapsed |-> lines[k + 1].elapsed, lifecycle |-> lines[k + 1].lifecycle,
           size |-> l.size + 1]
    <3> DEFINE q == Advance(l, lines[k + 1])
    <3>1. q = [f \in {"phase", "next", "ids", "elapsed", "lifecycle", "size"} |-> q[f]]
      BY <2>5 DEF Advance
    <3>2. /\ q.phase = l.phase /\ q.next = l.next + 1
          /\ q.ids = l.ids \cup {lines[k + 1].id}
          /\ q.elapsed = lines[k + 1].elapsed /\ q.lifecycle = lines[k + 1].lifecycle
          /\ q.size = l.size + 1
      BY <2>5 DEF Advance
    <3> HIDE DEF q
    <3>3. q = [phase |-> l.phase, next |-> l.next + 1, ids |-> l.ids \cup {lines[k + 1].id},
               elapsed |-> lines[k + 1].elapsed, lifecycle |-> lines[k + 1].lifecycle,
               size |-> l.size + 1]
      BY <3>1, <3>2
    <3>4. QED
      BY <3>3 DEF q
  <2>7. QED
    <3>1. LogAfter(from, lines, k + 1) = Advance(l, lines[k + 1])
      BY <2>3, <2>4, <2>6
    <3>2. QED
      BY <3>1, Zenon DEF l
<1>5. QED
  BY <1>2, <1>4

\* What is read of one more line.
LEMMA ReadLine ==
    ASSUME NEW l, NEW records, NEW line
    PROVE  ParseLine([ok |-> TRUE, log |-> l, records |-> records], line) =
             IF line # Torn /\ Valid(l, line)
               THEN [ok |-> TRUE, log |-> Advance(l, line), records |-> Append(records, line)]
               ELSE [ok |-> FALSE, log |-> l, records |-> records]
<1> DEFINE p == [ok |-> TRUE, log |-> l, records |-> records]
<1>1. p.ok = TRUE /\ p.log = l /\ p.records = records
  OBVIOUS
<1>2. p = [f \in {"ok", "log", "records"} |-> p[f]]
  OBVIOUS
<1> HIDE DEF p
<1>3. ASSUME NEW v PROVE [p EXCEPT !.ok = v] = [ok |-> v, log |-> l, records |-> records]
  <2> DEFINE q == [p EXCEPT !.ok = v]
  <2>1. q = [f \in {"ok", "log", "records"} |-> q[f]]
    BY <1>2
  <2>2. q.ok = v /\ q.log = p.log /\ q.records = p.records
    BY <1>2
  <2> HIDE DEF q
  <2>3. q = [ok |-> v, log |-> l, records |-> records]
    BY <1>1, <2>1, <2>2
  <2>4. QED
    BY <2>3 DEF q
<1>4. ASSUME NEW v, NEW w
      PROVE  [p EXCEPT !.log = v, !.records = w] = [ok |-> TRUE, log |-> v, records |-> w]
  <2> DEFINE q == [p EXCEPT !.log = v, !.records = w]
  <2>1. q = [f \in {"ok", "log", "records"} |-> q[f]]
    BY <1>2
  <2>2. q.ok = p.ok /\ q.log = v /\ q.records = w
    BY <1>2
  <2> HIDE DEF q
  <2>3. q = [ok |-> TRUE, log |-> v, records |-> w]
    BY <1>1, <2>1, <2>2
  <2>4. QED
    BY <2>3 DEF q
<1>5. ParseLine(p, line) =
        IF line # Torn /\ Valid(l, line)
          THEN [ok |-> TRUE, log |-> Advance(l, line), records |-> Append(records, line)]
          ELSE [ok |-> FALSE, log |-> l, records |-> records]
  BY <1>1, <1>3, <1>4, Zenon DEF ParseLine
<1>6. QED
  BY <1>5, Zenon DEF p

\* Valid lines are read to the last one.
LEMMA ParseValid ==
    ASSUME NEW from \in Logs, NEW lines \in Seq(Lines), NEW k \in 0..Len(lines),
           ValidUpTo(from, lines, k)
    PROVE  Parse(SubSeq(lines, 1, k), from)
             = [ok |-> TRUE, log |-> LogAfter(from, lines, k), records |-> SubSeq(lines, 1, k)]
<1> DEFINE Read(i) == [ok |-> TRUE, log |-> LogAfter(from, lines, i),
                       records |-> SubSeq(lines, 1, i)]
           S == {i \in 0..k : Parse(SubSeq(lines, 1, i), from) = Read(i)}
<1>1. 0 \in S
  <2>1. SubSeq(lines, 1, 0) = <<>>
    OBVIOUS
  <2>2. Parse(SubSeq(lines, 1, 0), from) = Start(from)
    BY ParseStep
  <2>3. LogAfter(from, lines, 0) = from
    BY LogAfterStep
  <2>4. Parse(SubSeq(lines, 1, 0), from) = Read(0)
    BY <2>1, <2>2, <2>3, Zenon DEF Start
  <2> HIDE DEF Read
  <2>5. QED
    BY <2>4
<1>2. ASSUME NEW i \in 1..k, i - 1 \in S PROVE i \in S
  <2>1. i \in 1..Len(lines) /\ i - 1 \in Nat /\ (i - 1) + 1 = i
    OBVIOUS
  <2>2. Parse(SubSeq(lines, 1, i), from) = ParseLine(Read(i - 1), lines[i])
    <3>1. Parse(SubSeq(lines, 1, i), from)
            = ParseLine(Parse(SubSeq(lines, 1, i - 1), from), lines[i])
      BY <2>1, ParseStep
    <3>2. Parse(SubSeq(lines, 1, i - 1), from) = Read(i - 1)
      BY <1>2
    <3>3. QED
      BY <3>1, <3>2, Zenon
  <2>3. lines[i] # Torn /\ Valid(LogAfter(from, lines, i - 1), lines[i])
    BY DEF ValidUpTo
  <2>4. LogAfter(from, lines, i) = Advance(LogAfter(from, lines, i - 1), lines[i])
    BY <2>1, LogAfterStep
  <2>5. SubSeq(lines, 1, i) = Append(SubSeq(lines, 1, i - 1), lines[i])
    BY <2>1
  <2>6. ParseLine(Read(i - 1), lines[i]) = Read(i)
    <3>1. ParseLine(Read(i - 1), lines[i]) =
            IF lines[i] # Torn /\ Valid(LogAfter(from, lines, i - 1), lines[i])
              THEN [ok |-> TRUE, log |-> Advance(LogAfter(from, lines, i - 1), lines[i]),
                    records |-> Append(SubSeq(lines, 1, i - 1), lines[i])]
              ELSE [ok |-> FALSE, log |-> LogAfter(from, lines, i - 1),
                    records |-> SubSeq(lines, 1, i - 1)]
      BY ReadLine, ZenonT(30)
    <3>2. QED
      BY <2>3, <2>4, <2>5, <3>1, ZenonT(30)
  <2>7. QED
    BY <2>2, <2>6
<1> HIDE DEF S
<1>3. 0..k \subseteq S
  BY <1>1, <1>2, Loop!IndexInduction
<1>4. k \in S
  BY <1>3
<1>5. QED
  BY <1>4 DEF S

\* Nothing is read after a line that is not valid.
LEMMA ParseStops ==
    ASSUME NEW from \in Logs, NEW lines \in Seq(Lines), NEW k \in 0..(Len(lines) - 1),
           ValidUpTo(from, lines, k), ~ValidUpTo(from, lines, k + 1)
    PROVE  Parse(lines, from)
             = [ok |-> FALSE, log |-> LogAfter(from, lines, k), records |-> SubSeq(lines, 1, k)]
<1> DEFINE Read == [ok |-> FALSE, log |-> LogAfter(from, lines, k),
                    records |-> SubSeq(lines, 1, k)]
           n == Len(lines) - k - 1
           S == {i \in Nat : i <= n => Parse(SubSeq(lines, 1, k + 1 + i), from) = Read}
<1>1. 0 \in S
  <2>1. k + 1 \in 1..Len(lines) /\ (k + 1) - 1 = k
    OBVIOUS
  <2>2. Parse(SubSeq(lines, 1, k + 1), from)
          = ParseLine(Parse(SubSeq(lines, 1, k), from), lines[k + 1])
    BY <2>1, ParseStep
  <2>3. k \in 0..Len(lines)
    OBVIOUS
  <2>4. Parse(SubSeq(lines, 1, k), from)
          = [ok |-> TRUE, log |-> LogAfter(from, lines, k), records |-> SubSeq(lines, 1, k)]
    BY <2>3, ParseValid
  <2>5. ~(lines[k + 1] # Torn /\ Valid(LogAfter(from, lines, k), lines[k + 1]))
    BY DEF ValidUpTo
  <2>6. Parse(SubSeq(lines, 1, k + 1), from) = Read
    BY <2>2, <2>4, <2>5, ReadLine, Zenon
  <2>7. k + 1 + 0 = k + 1
    OBVIOUS
  <2> HIDE DEF Read
  <2>8. QED
    BY <2>6, <2>7
<1>2. ASSUME NEW i \in Nat, i \in S PROVE i + 1 \in S
  <2>1. CASE i + 1 <= n
    <3>1. k + 1 + (i + 1) \in 1..Len(lines) /\ (k + 1 + (i + 1)) - 1 = k + 1 + i /\ i <= n
      BY <2>1
    <3>2. Parse(SubSeq(lines, 1, k + 1 + (i + 1)), from)
            = ParseLine(Parse(SubSeq(lines, 1, k + 1 + i), from), lines[k + 1 + (i + 1)])
      BY <3>1, ParseStep
    <3>3. Parse(SubSeq(lines, 1, k + 1 + i), from) = Read
      BY <1>2, <3>1
    <3>4. ParseLine(Read, lines[k + 1 + (i + 1)]) = Read
      BY DEF ParseLine
    <3>5. Parse(SubSeq(lines, 1, k + 1 + (i + 1)), from) = Read
      BY <3>2, <3>3, <3>4, Zenon
    <3> HIDE DEF Read, n
    <3>6. QED
      BY <3>5
  <2>2. CASE ~(i + 1 <= n)
    BY <2>2
  <2>3. QED
    BY <2>1, <2>2
<1> HIDE DEF S
<1>3. Nat \subseteq S
  BY <1>1, <1>2, Loop!SetInduction
<1>4. n \in S /\ n \in Nat /\ k + 1 + n = Len(lines)
  BY <1>3
<1>5. SubSeq(lines, 1, Len(lines)) = lines
  OBVIOUS
<1> HIDE DEF Read, n
<1>6. Parse(SubSeq(lines, 1, Len(lines)), from) = Read
  BY <1>4 DEF S
<1>7. QED
  BY <1>5, <1>6, Zenon DEF Read

\* Lines are valid to the last one, or up to one that is not.
LEMMA ValidPrefix ==
    ASSUME NEW from, NEW lines \in Seq(Lines)
    PROVE  \/ ValidUpTo(from, lines, Len(lines))
           \/ \E k \in 0..(Len(lines) - 1) :
                ValidUpTo(from, lines, k) /\ ~ValidUpTo(from, lines, k + 1)
<1>1. SUFFICES ASSUME \A k \in 0..(Len(lines) - 1) :
                        ValidUpTo(from, lines, k) => ValidUpTo(from, lines, k + 1)
               PROVE  ValidUpTo(from, lines, Len(lines))
  OBVIOUS
<1> DEFINE S == {i \in 0..Len(lines) : ValidUpTo(from, lines, i)}
<1>2. 0 \in S
  BY DEF ValidUpTo
<1>3. ASSUME NEW i \in 1..Len(lines), i - 1 \in S PROVE i \in S
  <2>1. i - 1 \in 0..(Len(lines) - 1) /\ (i - 1) + 1 = i
    OBVIOUS
  <2>2. QED
    BY <1>1, <1>3, <2>1
<1>4. Len(lines) \in Nat
  OBVIOUS
<1> HIDE DEF S
<1>5. 0..Len(lines) \subseteq S
  BY <1>2, <1>3, <1>4, Loop!IndexInduction
<1>6. QED
  BY <1>4, <1>5 DEF S

-----------------------------------------------------------------------------
(* The invariant *)

\* A file that holds what was acknowledged, that can be opened, and that is at
\* most one line longer: what a failed append may leave behind.
Sound(acks, lines) ==
    /\ lines \in Seq(Lines)
    /\ ValidUpTo(NewLog, lines, Len(Complete(lines)))
    /\ Begins(acks, lines)
    /\ Len(lines) <= Len(acks) + 1
    /\ Len(lines) <= MaxLines

\* What the Log knows, by phase of its owner.
Knows ==
    /\ log.phase = "active" => log = LogAfter(NewLog, acked, Len(acked))
    /\ log.phase = "opened" =>
         /\ ~IsTorn(file)
         /\ log = [LogAfter(NewLog, file, Len(file)) EXCEPT !.phase = "opened"]
    /\ log.phase = "closed" => log = Closed

\* The acknowledged records begin the file and the medium, and the Log knows
\* what it read of them.
LogInv ==
    /\ log \in Logs /\ acked \in Seq(Records)
    /\ Sound(acked, file) /\ Sound(acked, disk)
    /\ Knows

-----------------------------------------------------------------------------
(* Lines *)

\* A record has fields that a torn line has not.
LEMMA RecordIsNotTorn ==
    ASSUME MaxLines \in Nat, NEW r \in Records
    PROVE  r # Torn
<1>1. r.version # 0
  BY DEF Records
<1>2. Torn.version = 0
  BY DEF Torn
<1>3. QED
  BY <1>1, <1>2

\* The first lines of a file.
LEMMA FirstLines ==
    ASSUME NEW T, NEW lines \in Seq(T), NEW k \in 0..Len(lines)
    PROVE  /\ SubSeq(lines, 1, k) \in Seq(T)
           /\ Len(SubSeq(lines, 1, k)) = k
           /\ \A i \in 1..k : SubSeq(lines, 1, k)[i] = lines[i]
OBVIOUS

\* What is left of a file without an unterminated last line.
LEMMA CompleteFacts ==
    ASSUME NEW lines \in Seq(Lines)
    PROVE  /\ Complete(lines) \in Seq(Lines)
           /\ Len(Complete(lines)) = (IF IsTorn(lines) THEN Len(lines) - 1 ELSE Len(lines))
           /\ Len(Complete(lines)) \in 0..Len(lines)
           /\ Complete(lines) = SubSeq(lines, 1, Len(Complete(lines)))
           /\ \A i \in 1..Len(Complete(lines)) : Complete(lines)[i] = lines[i]
<1>1. CASE IsTorn(lines)
  <2>1. Complete(lines) = SubSeq(lines, 1, Len(lines) - 1) /\ Len(lines) > 0
    BY <1>1 DEF Complete, IsTorn, Front
  <2> DEFINE n == Len(lines) - 1
             rest == SubSeq(lines, 1, n)
  <2>2. n \in 0..Len(lines) /\ n = Len(lines) - 1
    BY <2>1
  <2>3. rest \in Seq(Lines) /\ Len(rest) = n /\ \A i \in 1..n : rest[i] = lines[i]
    <3> HIDE DEF n
    <3>1. QED
      BY <2>2, FirstLines
  <2>4. Complete(lines) = rest /\ rest = SubSeq(lines, 1, n)
    BY <2>1
  <2> HIDE DEF n, rest
  <2>5. QED
    BY <1>1, <2>2, <2>3, <2>4, Zenon
<1>2. CASE ~IsTorn(lines)
  <2>1. Complete(lines) = lines
    BY <1>2 DEF Complete
  <2>2. QED
    BY <1>2, <2>1
<1>3. QED
  BY <1>1, <1>2

\* The order of the model and the library's are one.
LEMMA BeginsIsPrefix ==
    ASSUME NEW S, NEW T, NEW s \in Seq(S), NEW t \in Seq(T)
    PROVE  Begins(s, t) <=> IsPrefix(s, t)
<1>1. ASSUME Begins(s, t) PROVE IsPrefix(s, t)
  <2>1. Len(s) <= Len(t) /\ \A i \in 1..Len(s) : s[i] = t[i]
    BY <1>1 DEF Begins
  <2>2. SubSeq(s, 1, Len(s)) = SubSeq(t, 1, Len(s))
    BY <2>1
  <2>3. QED
    BY <2>1, <2>2 DEF IsPrefix
<1>2. ASSUME IsPrefix(s, t) PROVE Begins(s, t)
  <2>1. Len(s) <= Len(t) /\ SubSeq(s, 1, Len(s)) = SubSeq(t, 1, Len(s))
    BY <1>2 DEF IsPrefix
  <2>2. \A i \in 1..Len(s) : SubSeq(s, 1, Len(s))[i] = s[i] /\ SubSeq(t, 1, Len(s))[i] = t[i]
    BY <2>1
  <2>3. QED
    BY <2>1, <2>2 DEF Begins
<1>3. QED
  BY <1>1, <1>2

\* Lines that agree are valid together, and a Log knows the same of them.
LEMMA AgreeingLines ==
    ASSUME NEW from, NEW s, NEW t, NEW k \in Nat, \A i \in 1..k : s[i] = t[i]
    PROVE  /\ \A j \in 0..k : LogAfter(from, s, j) = LogAfter(from, t, j)
           /\ ValidUpTo(from, s, k) <=> ValidUpTo(from, t, k)
<1>1. ASSUME NEW j \in 0..k PROVE LogAfter(from, s, j) = LogAfter(from, t, j)
  <2>1. {s[i].id : i \in 1..j} = {t[i].id : i \in 1..j}
    OBVIOUS
  <2>2. j # 0 => s[j] = t[j]
    OBVIOUS
  <2>3. QED
    BY <2>1, <2>2, Zenon DEF LogAfter
<1>2. ASSUME NEW i \in 1..k PROVE s[i] = t[i] /\ LogAfter(from, s, i - 1) = LogAfter(from, t, i - 1)
  BY <1>1
<1>3. ValidUpTo(from, s, k) <=> ValidUpTo(from, t, k)
  BY <1>2, Zenon DEF ValidUpTo
<1>4. QED
  BY <1>1, <1>3

\* Fewer lines are valid too.
LEMMA FewerLines ==
    ASSUME NEW from, NEW s, NEW k \in Nat, NEW j \in 0..k, ValidUpTo(from, s, k)
    PROVE  ValidUpTo(from, s, j)
BY DEF ValidUpTo

\* A part of a sound file that holds what was acknowledged is sound, also when
\* a torn line follows.
LEMMA SoundPart ==
    ASSUME NEW acks, NEW lines, Sound(acks, lines), acks \in Seq(Records),
           NEW k \in Len(acks)..Len(lines), MaxLines \in Nat
    PROVE  /\ Sound(acks, SubSeq(lines, 1, k))
           /\ k < Len(lines) => Sound(acks, SubSeq(lines, 1, k) \o <<Torn>>)
<1> DEFINE part == SubSeq(lines, 1, k)
           torn == SubSeq(lines, 1, k) \o <<Torn>>
<1>1. /\ lines \in Seq(Lines) /\ Len(acks) \in Nat /\ Len(lines) \in Nat /\ k \in Nat
      /\ ValidUpTo(NewLog, lines, Len(Complete(lines)))
      /\ Begins(acks, lines) /\ Len(lines) <= Len(acks) + 1 /\ Len(lines) <= MaxLines
  BY DEF Sound
<1>2. part \in Seq(Lines) /\ Len(part) = k /\ \A i \in 1..k : part[i] = lines[i]
  BY <1>1
<1>3. /\ torn \in Seq(Lines) /\ Len(torn) = k + 1 /\ \A i \in 1..k : torn[i] = lines[i]
      /\ torn[k + 1] = Torn
  <2>1. Torn \in Lines
    BY DEF Lines
  <2>2. QED
    BY <1>2, <2>1
<1> HIDE DEF part, torn
<1>4. Begins(acks, part) /\ Begins(acks, torn)
  BY <1>1, <1>2, <1>3 DEF Begins
<1>5. k < Len(lines) => k <= Len(Complete(lines))
  BY <1>1, CompleteFacts
<1>6. ValidUpTo(NewLog, part, Len(Complete(part)))
  <2>1. CASE k < Len(lines)
    <3>1. ValidUpTo(NewLog, lines, k)
      BY <1>1, <1>5, <2>1, FewerLines, CompleteFacts
    <3>2. ValidUpTo(NewLog, part, k)
      BY <1>1, <1>2, <3>1, AgreeingLines
    <3>3. Len(Complete(part)) \in 0..k
      BY <1>2, CompleteFacts
    <3>4. QED
      BY <1>1, <3>2, <3>3, FewerLines
  <2>2. CASE k = Len(lines)
    <3>1. part = lines
      BY <1>1, <2>2 DEF part
    <3>2. QED
      BY <1>1, <3>1
  <2>3. QED
    BY <1>1, <2>1, <2>2
<1>7. ASSUME k < Len(lines) PROVE ValidUpTo(NewLog, torn, Len(Complete(torn)))
  <2>1. ValidUpTo(NewLog, lines, k)
    BY <1>1, <1>5, <1>7, FewerLines, CompleteFacts
  <2>2. ValidUpTo(NewLog, torn, k)
    BY <1>1, <1>3, <2>1, AgreeingLines
  <2>3. IsTorn(torn)
    BY <1>1, <1>3 DEF IsTorn, Last
  <2>4. Len(Complete(torn)) = k
    BY <1>1, <1>3, <2>3, CompleteFacts
  <2>5. QED
    BY <2>2, <2>4, Zenon
<1>8. Sound(acks, part)
  <2>1. Len(part) <= Len(acks) + 1 /\ Len(part) <= MaxLines
    BY <1>1, <1>2
  <2>2. QED
    BY <1>2, <1>4, <1>6, <2>1, Zenon DEF Sound
<1>9. k < Len(lines) => Sound(acks, torn)
  <2>1. k < Len(lines) => Len(torn) <= Len(acks) + 1 /\ Len(torn) <= MaxLines
    BY <1>1, <1>3
  <2>2. QED
    BY <1>3, <1>4, <1>7, <2>1, Zenon DEF Sound
<1>10. QED
  BY <1>8, <1>9 DEF part, torn

\* The longest common prefix holds every common beginning.
LEMMA LongestHolds ==
    ASSUME NEW S, NEW T, NEW u \in Seq(S), NEW s \in Seq(T), NEW t \in Seq(T),
           Begins(u, s), Begins(u, t)
    PROVE  Len(LongestCommonPrefix({s, t})) \in Len(u)..Len(t)
<1> DEFINE C == CommonPrefixes({s, t})
           N == {Len(p) : p \in C}
<1>1. \A p \in C : Len(p) \in 0..Len(t)
  <2> TAKE p \in C
  <2>1. IsPrefix(p, t) /\ \E q \in {s, t} : p \in Prefixes(q)
    BY DEF CommonPrefixes
  <2>2. Len(p) <= Len(t)
    BY <2>1 DEF IsPrefix
  <2>3. Len(p) \in Nat
    BY <2>1 DEF Prefixes
  <2>4. QED
    BY <2>2, <2>3
<1>2. u \in C
  <2>1. IsPrefix(u, s) /\ IsPrefix(u, t)
    BY BeginsIsPrefix
  <2>2. u = SubSeq(s, 1, Len(u)) /\ Len(u) \in 0..Len(s)
    BY DEF Begins
  <2>3. u \in Prefixes(s)
    BY <2>2 DEF Prefixes
  <2>4. QED
    BY <2>1, <2>3 DEF CommonPrefixes
<1> HIDE DEF C
<1>3. \E m \in N : \A k \in N : k <= m
  <2>1. Len(t) \in Nat
    OBVIOUS
  <2>2. N \subseteq 0..Len(t)
    BY <1>1, Zenon
  <2>3. Len(u) \in N
    BY <1>2, Zenon
  <2>4. N # {}
    BY <2>3, Zenon
  <2> HIDE DEF N
  <2>5. QED
    BY <2>1, <2>2, <2>4, Loop!BoundedMaximum
<1>4. \E longest \in C : \A other \in C : Len(other) <= Len(longest)
  BY <1>3
<1>5. /\ LongestCommonPrefix({s, t}) \in C
      /\ \A other \in C : Len(other) <= Len(LongestCommonPrefix({s, t}))
  BY <1>4, Zenon DEF LongestCommonPrefix, C
<1> DEFINE low == Len(LongestCommonPrefix({s, t}))
<1>6. low \in 0..Len(t) /\ Len(u) <= low
  BY <1>1, <1>2, <1>5, Zenon
<1>7. Len(u) \in Nat /\ Len(t) \in Nat
  OBVIOUS
<1> HIDE DEF low
<1>8. low \in Len(u)..Len(t)
  BY <1>6, <1>7
<1>9. QED
  BY <1>8, Zenon DEF low

\* Whatever a machine crash leaves of sound files is sound.
LEMMA SurvivingIsSound ==
    ASSUME acked \in Seq(Records), Sound(acked, file), Sound(acked, disk), MaxLines \in Nat
    PROVE  \A lines \in Surviving : Sound(acked, lines)
<1> DEFINE low == Len(LongestCommonPrefix({disk, file}))
<1>1. file \in Seq(Lines) /\ disk \in Seq(Lines) /\ Begins(acked, file) /\ Begins(acked, disk)
  BY DEF Sound
<1>2. low \in Len(acked)..Len(file)
  BY <1>1, LongestHolds
<1> HIDE DEF low
<1>3. ASSUME NEW n \in low..Len(file)
      PROVE  /\ Sound(acked, SubSeq(file, 1, n))
             /\ n < Len(file) => Sound(acked, SubSeq(file, 1, n) \o <<Torn>>)
  <2>1. n \in Len(acked)..Len(file)
    BY <1>1, <1>2
  <2>2. QED
    BY <2>1, SoundPart
<1>4. ASSUME NEW n \in low..Len(file) - 1
      PROVE  Sound(acked, SubSeq(file, 1, n) \o <<Torn>>)
  <2>1. n \in low..Len(file) /\ n < Len(file)
    BY <1>1, <1>2
  <2>2. QED
    BY <1>3, <2>1
<1>5. QED
  BY <1>3, <1>4, Zenon DEF Surviving, low

-----------------------------------------------------------------------------
(* What a Log knows *)

\* The Log of a new game.
LEMMA NewLogFacts ==
    ASSUME LogAssumption
    PROVE  /\ NewLog \in Logs /\ Closed \in Logs
           /\ NewLog.phase = "active" /\ NewLog.size = 0 /\ NewLog.next = 1
           /\ NewLog.ids = {CreateID} /\ NewLog.elapsed = 0
           /\ NewLog.lifecycle = (IF RealTime THEN "preparing" ELSE "none")
           /\ Closed.phase = "closed"
<1>1. 0 \in 0..MaxElapsed
  BY DEF LogAssumption
<1>2. NewLog \in Logs
  BY <1>1 DEF NewLog, Logs, Phases, Lifecycles
<1>3. Closed \in Logs /\ Closed.phase = "closed"
  <2> HIDE DEF NewLog
  <2>1. QED
    BY <1>2 DEF Closed, Logs, Phases
<1>4. QED
  BY <1>2, <1>3 DEF NewLog

\* Records leave a Log that is typed.
LEMMA LogAfterType ==
    ASSUME NEW from \in Logs, NEW lines, NEW k \in Nat, \A i \in 1..k : lines[i] \in Records
    PROVE  LogAfter(from, lines, k) \in Logs
<1>1. \A i \in 1..k : /\ lines[i].id \in IDs /\ lines[i].elapsed \in 0..MaxElapsed
                      /\ lines[i].lifecycle \in Lifecycles \cup {"none"}
  BY DEF Records
<1>2. {lines[i].id : i \in 1..k} \subseteq IDs
  BY <1>1
<1>3. from.ids \cup {lines[i].id : i \in 1..k} \in SUBSET (IDs \cup {CreateID})
  BY <1>2 DEF Logs
<1>4. /\ (IF k = 0 THEN from.elapsed ELSE lines[k].elapsed) \in 0..MaxElapsed
      /\ (IF k = 0 THEN from.lifecycle ELSE lines[k].lifecycle) \in Lifecycles \cup {"none"}
  <2>1. k # 0 => k \in 1..k
    OBVIOUS
  <2>2. QED
    BY <1>1, <2>1 DEF Logs
<1>5. from.next + k \in Nat /\ from.size + k \in Nat /\ from.phase \in Phases
  BY DEF Logs
<1>6. QED
  BY <1>3, <1>4, <1>5 DEF LogAfter, Logs

\* A Log knows of two parts what it knows of the second after the first.
LEMMA LogAfterConcat ==
    ASSUME NEW from \in Logs, NEW T, NEW s \in Seq(T), NEW t \in Seq(T), NEW k \in 0..Len(t)
    PROVE  LogAfter(from, s \o t, Len(s) + k) = LogAfter(LogAfter(from, s, Len(s)), t, k)
<1> DEFINE n == Len(s)
           st == s \o t
           mid == LogAfter(from, s, n)
<1>1. n \in Nat /\ k \in Nat /\ \A i \in 1..n : st[i] = s[i]
  OBVIOUS
<1>2. \A i \in 1..k : st[n + i] = t[i]
  OBVIOUS
<1> HIDE DEF n, st
<1>3. {st[i].id : i \in 1..(n + k)} = {s[i].id : i \in 1..n} \cup {t[i].id : i \in 1..k}
  <2>1. ASSUME NEW i \in 1..(n + k) PROVE i \in 1..n \/ (i - n \in 1..k /\ n + (i - n) = i)
    BY <1>1
  <2>2. \A i \in 1..(n + k) : st[i].id \in {s[j].id : j \in 1..n} \cup {t[j].id : j \in 1..k}
    <3> TAKE i \in 1..(n + k)
    <3>1. CASE i \in 1..n
      BY <1>1, <3>1
    <3>2. CASE i - n \in 1..k /\ n + (i - n) = i
      <4>1. st[i] = t[i - n]
        BY <1>2, <3>2
      <4>2. QED
        BY <3>2, <4>1
    <3>3. QED
      BY <2>1, <3>1, <3>2
  <2>3. \A i \in 1..n : i \in 1..(n + k)
    BY <1>1
  <2>4. \A i \in 1..k : n + i \in 1..(n + k)
    BY <1>1
  <2>5. \A i \in 1..n : s[i].id \in {st[j].id : j \in 1..(n + k)}
    BY <1>1, <2>3
  <2>6. \A i \in 1..k : t[i].id \in {st[j].id : j \in 1..(n + k)}
    <3> TAKE i \in 1..k
    <3>1. st[n + i].id \in {st[j].id : j \in 1..(n + k)}
      BY <2>4
    <3>2. QED
      BY <1>2, <3>1
  <2>7. QED
    BY <2>2, <2>5, <2>6
<1>4. /\ mid.phase = from.phase /\ mid.next = from.next + n /\ mid.size = from.size + n
      /\ mid.ids = from.ids \cup {s[i].id : i \in 1..n}
      /\ mid.elapsed = (IF n = 0 THEN from.elapsed ELSE s[n].elapsed)
      /\ mid.lifecycle = (IF n = 0 THEN from.lifecycle ELSE s[n].lifecycle)
  BY DEF LogAfter
<1> HIDE DEF mid
<1>5. /\ from.next + (n + k) = mid.next + k /\ from.size + (n + k) = mid.size + k
  BY <1>1, <1>4 DEF Logs
<1>6. /\ (IF n + k = 0 THEN from.elapsed ELSE st[n + k].elapsed)
            = (IF k = 0 THEN mid.elapsed ELSE t[k].elapsed)
      /\ (IF n + k = 0 THEN from.lifecycle ELSE st[n + k].lifecycle)
            = (IF k = 0 THEN mid.lifecycle ELSE t[k].lifecycle)
  <2>1. CASE k = 0
    <3>1. n + k = n /\ (n # 0 => n \in 1..n)
      BY <1>1, <2>1
    <3>2. QED
      BY <1>1, <1>4, <2>1, <3>1
  <2>2. CASE k # 0
    <3>1. n + k # 0 /\ k \in 1..k
      BY <1>1, <2>2
    <3>2. QED
      BY <1>2, <2>2, <3>1
  <2>3. QED
    BY <2>1, <2>2
<1>7. from.ids \cup {st[i].id : i \in 1..(n + k)} = mid.ids \cup {t[i].id : i \in 1..k}
  BY <1>3, <1>4
<1>8. LogAfter(from, st, n + k) = LogAfter(mid, t, k)
  BY <1>4, <1>5, <1>6, <1>7, Zenon DEF LogAfter
<1>9. QED
  BY <1>8, Zenon DEF n, st, mid

\* Valid lines, and lines valid after those, are valid together.
LEMMA ValidConcat ==
    ASSUME NEW from \in Logs, NEW s \in Seq(Lines), NEW t \in Seq(Lines), NEW k \in 0..Len(t),
           ValidUpTo(from, s, Len(s)), ValidUpTo(LogAfter(from, s, Len(s)), t, k)
    PROVE  ValidUpTo(from, s \o t, Len(s) + k)
<1> DEFINE n == Len(s)
           st == s \o t
           mid == LogAfter(from, s, n)
<1>1. n \in Nat /\ k \in Nat /\ (\A i \in 1..n : st[i] = s[i]) /\ \A i \in 1..k : st[n + i] = t[i]
  OBVIOUS
<1>2. \A i \in 0..k : LogAfter(from, st, n + i) = LogAfter(mid, t, i)
  <2> TAKE i \in 0..k
  <2>1. i \in 0..Len(t)
    OBVIOUS
  <2>2. QED
    BY <2>1, LogAfterConcat
<1> HIDE DEF n, st, mid
<1>3. ASSUME NEW i \in 1..(n + k)
      PROVE  st[i] # Torn /\ Valid(LogAfter(from, st, i - 1), st[i])
  <2>1. CASE i \in 1..n
    <3>1. ValidUpTo(from, st, n)
      BY <1>1, AgreeingLines DEF n
    <3>2. QED
      BY <2>1, <3>1 DEF ValidUpTo
  <2>2. CASE i \notin 1..n
    <3>1. i - n \in 1..k /\ n + (i - n) = i /\ (i - n) - 1 \in 0..k
          /\ n + ((i - n) - 1) = i - 1
      BY <1>1, <2>2
    <3>2. st[i] = t[i - n] /\ LogAfter(from, st, i - 1) = LogAfter(mid, t, (i - n) - 1)
      BY <1>1, <1>2, <3>1
    <3>3. t[i - n] # Torn /\ Valid(LogAfter(mid, t, (i - n) - 1), t[i - n])
      BY <3>1, Zenon DEF ValidUpTo, mid, n
    <3>4. QED
      BY <3>2, <3>3, Zenon
  <2>3. QED
    BY <2>1, <2>2
<1>4. QED
  BY <1>3, Zenon DEF ValidUpTo, n, st

-----------------------------------------------------------------------------
(* The steps *)

\* The records that were acknowledged, and what an active Log knows of them.
LEMMA AcknowledgedFacts ==
    ASSUME LogAssumption, LogInv
    PROVE  /\ ValidUpTo(NewLog, acked, Len(acked))
           /\ log.phase = "active" =>
                /\ log = LogAfter(NewLog, acked, Len(acked))
                /\ log.size = Len(acked) /\ log.next = Len(acked) + 1
           /\ Len(acked) <= MaxLines /\ MaxLines \in Nat
           /\ Len(acked) <= Len(Complete(file))
<1>1. /\ acked \in Seq(Records) /\ file \in Seq(Lines) /\ Begins(acked, file)
      /\ ValidUpTo(NewLog, file, Len(Complete(file)))
      /\ Len(file) <= MaxLines /\ MaxLines \in Nat
  BY DEF LogInv, Sound, LogAssumption
<1>2. Len(acked) \in Nat /\ Len(acked) <= Len(file) /\ \A i \in 1..Len(acked) : acked[i] = file[i]
  BY <1>1 DEF Begins
<1>3. Len(acked) <= Len(Complete(file))
  <2>1. CASE IsTorn(file)
    <3>1. Len(Complete(file)) = Len(file) - 1 /\ file[Len(file)] = Torn
      BY <1>1, <2>1, CompleteFacts DEF IsTorn, Last
    <3>2. Len(acked) # Len(file)
      <4>1. SUFFICES ASSUME Len(acked) = Len(file) PROVE FALSE
        OBVIOUS
      <4>2. Len(file) # 0
        BY <1>1, <2>1 DEF IsTorn
      <4>3. Len(acked) \in 1..Len(acked)
        BY <1>2, <4>1, <4>2
      <4>4. acked[Len(acked)] = Torn /\ acked[Len(acked)] \in Records
        BY <1>1, <1>2, <3>1, <4>1, <4>3
      <4>5. QED
        BY <1>1, <4>4, RecordIsNotTorn
    <3>3. QED
      BY <1>1, <1>2, <3>1, <3>2
  <2>2. CASE ~IsTorn(file)
    BY <1>1, <1>2, <2>2, CompleteFacts
  <2>3. QED
    BY <2>1, <2>2
<1>4. ValidUpTo(NewLog, file, Len(acked))
  <2>1. Len(acked) \in 0..Len(Complete(file)) /\ Len(Complete(file)) \in Nat
    BY <1>1, <1>2, <1>3, CompleteFacts
  <2>2. QED
    BY <1>1, <2>1, FewerLines
<1>5. ValidUpTo(NewLog, acked, Len(acked))
  BY <1>2, <1>4, AgreeingLines
<1>6. log.phase = "active" =>
        log = LogAfter(NewLog, acked, Len(acked)) /\ log.size = Len(acked) /\ log.next = Len(acked) + 1
  <2>1. NewLog.size = 0 /\ NewLog.next = 1
    BY NewLogFacts
  <2>2. log.phase = "active" => log = LogAfter(NewLog, acked, Len(acked))
    BY DEF LogInv, Knows
  <2>3. /\ LogAfter(NewLog, acked, Len(acked)).size = 0 + Len(acked)
        /\ LogAfter(NewLog, acked, Len(acked)).next = 1 + Len(acked)
    BY <2>1 DEF LogAfter
  <2>4. QED
    BY <1>2, <2>2, <2>3
<1>7. QED
  BY <1>1, <1>2, <1>3, <1>5, <1>6

\* Lines that are all valid are a sound file, whether they are acknowledged or
\* all but the last one.
LEMMA ValidIsSound ==
    ASSUME LogAssumption, NEW lines \in Seq(Lines), NEW acks \in Seq(Records),
           ValidUpTo(NewLog, lines, Len(lines)), Begins(acks, lines),
           Len(lines) <= Len(acks) + 1, Len(lines) <= MaxLines
    PROVE  Sound(acks, lines) /\ lines \in Seq(Records) /\ ~IsTorn(lines)
<1>1. Len(lines) \in Nat /\ Len(Complete(lines)) \in 0..Len(lines)
  BY CompleteFacts
<1>2. ValidUpTo(NewLog, lines, Len(Complete(lines)))
  BY <1>1, FewerLines
<1>3. \A i \in 1..Len(lines) : lines[i] \in Lines /\ lines[i] # Torn
  BY DEF ValidUpTo
<1>4. \A i \in 1..Len(lines) : lines[i] \in Records
  BY <1>3 DEF Lines
<1>5. lines \in Seq(Records)
  BY <1>1, <1>4
<1>6. ~IsTorn(lines)
  <2>1. lines # <<>> => Len(lines) \in 1..Len(lines)
    OBVIOUS
  <2>2. QED
    BY <1>3, <2>1 DEF IsTorn, Last
<1>7. QED
  BY <1>2, <1>5, <1>6 DEF Sound

\* Every sequence is a beginning of itself.
LEMMA BeginsItself == \A s : Len(s) \in Nat => Begins(s, s)
BY DEF Begins

\* A record the Log accepts, or a torn line, after what was acknowledged.
LEMMA Extended ==
    ASSUME LogAssumption, LogInv, log.phase = "active", Unextended, log.size < MaxLines,
           NEW r \in Candidates, Valid(log, r)
    PROVE  /\ file = acked /\ r \in Records
           /\ Append(file, r) \in Seq(Records)
           /\ Sound(acked, Append(file, r)) /\ Sound(Append(file, r), Append(file, r))
           /\ Sound(acked, Append(file, Torn))
           /\ Advance(log, r) = LogAfter(NewLog, Append(file, r), Len(Append(file, r)))
           /\ Advance(log, r) \in Logs
<1>1. /\ ValidUpTo(NewLog, acked, Len(acked))
      /\ log = LogAfter(NewLog, acked, Len(acked))
      /\ log.size = Len(acked) /\ log.next = Len(acked) + 1
      /\ MaxLines \in Nat
  BY AcknowledgedFacts
<1>2. acked \in Seq(Records) /\ file \in Seq(Lines) /\ Begins(acked, file)
  BY DEF LogInv, Sound
<1>3. Len(acked) \in Nat /\ Len(file) = Len(acked) /\ Len(acked) < MaxLines
  BY <1>1, <1>2 DEF Unextended
<1>4. file = acked
  <2>1. \A i \in 1..Len(acked) : acked[i] = file[i]
    BY <1>2 DEF Begins
  <2>2. QED
    BY <1>2, <1>3, <2>1
<1>5. r \in Records
  <2>1. log.next \in 1..MaxLines
    BY <1>1, <1>3
  <2>2. QED
    BY <2>1 DEF Candidates, Records
<1>6. r # Torn
  BY <1>1, <1>5, RecordIsNotTorn
<1> DEFINE n == Len(acked)
           longer == Append(acked, r)
           torn == Append(acked, Torn)
<1>7. /\ n \in Nat /\ longer \in Seq(Records) /\ Len(longer) = n + 1 /\ longer[n + 1] = r
      /\ \A i \in 1..n : longer[i] = acked[i]
  BY <1>2, <1>5
<1>8. /\ torn \in Seq(Lines) /\ Len(torn) = n + 1 /\ torn[n + 1] = Torn
      /\ \A i \in 1..n : torn[i] = acked[i]
  <2>1. acked \in Seq(Lines) /\ Torn \in Lines
    BY <1>2, <1>4 DEF Lines
  <2>2. QED
    BY <2>1
<1>9. longer \in Seq(Lines)
  <2>1. acked \in Seq(Lines) /\ r \in Lines
    BY <1>2, <1>4, <1>5 DEF Lines
  <2>2. QED
    BY <2>1
<1> HIDE DEF longer, torn, n
<1>10. /\ \A j \in 0..n : LogAfter(NewLog, longer, j) = LogAfter(NewLog, acked, j)
       /\ ValidUpTo(NewLog, longer, n)
  BY <1>1, <1>7, AgreeingLines DEF n
<1>11. ValidUpTo(NewLog, longer, n + 1)
  <2>1. ASSUME NEW i \in 1..(n + 1)
        PROVE  longer[i] # Torn /\ Valid(LogAfter(NewLog, longer, i - 1), longer[i])
    <3>1. CASE i \in 1..n
      BY <1>10, <3>1 DEF ValidUpTo
    <3>2. CASE i = n + 1
      <4>1. i - 1 = n /\ n \in 0..n
        BY <1>7, <3>2
      <4>2. LogAfter(NewLog, longer, i - 1) = log
        BY <1>1, <1>10, <4>1 DEF n
      <4>3. QED
        BY <1>6, <1>7, <3>2, <4>2
    <3>3. QED
      BY <1>7, <3>1, <3>2
  <2>2. QED
    BY <2>1, Zenon DEF ValidUpTo
<1>12. Begins(acked, longer) /\ Begins(longer, longer) /\ Begins(acked, torn)
  BY <1>7, <1>8 DEF Begins, n
<1>13. Sound(acked, longer) /\ Sound(longer, longer)
  <2>1. ValidUpTo(NewLog, longer, Len(longer))
    BY <1>7, <1>11
  <2>2. Len(longer) <= Len(acked) + 1 /\ Len(longer) <= Len(longer) + 1 /\ Len(longer) <= MaxLines
    BY <1>1, <1>3, <1>7 DEF n
  <2>3. QED
    BY <1>2, <1>7, <1>9, <1>12, <2>1, <2>2, ValidIsSound
<1>14. Sound(acked, torn)
  <2>1. ValidUpTo(NewLog, torn, n)
    BY <1>1, <1>7, <1>8, AgreeingLines DEF n
  <2>2. IsTorn(torn)
    BY <1>7, <1>8 DEF IsTorn, Last
  <2>3. Len(Complete(torn)) = n
    BY <1>7, <1>8, <2>2, CompleteFacts
  <2>4. ValidUpTo(NewLog, torn, Len(Complete(torn)))
    BY <2>1, <2>3, Zenon
  <2>5. Len(torn) <= Len(acked) + 1 /\ Len(torn) <= MaxLines
    BY <1>1, <1>3, <1>8 DEF n
  <2>6. QED
    BY <1>8, <1>12, <2>4, <2>5, Zenon DEF Sound
<1>15. /\ Advance(log, r) = LogAfter(NewLog, longer, n + 1)
       /\ Advance(log, r) \in Logs
  <2>1. NewLog \in Logs
    BY NewLogFacts
  <2>2. LogAfter(NewLog, longer, n + 1) = Advance(LogAfter(NewLog, longer, n), longer[n + 1])
    BY <1>7, <2>1, LogAfterStep
  <2>3. LogAfter(NewLog, longer, n) = log
    BY <1>1, <1>7, <1>10 DEF n
  <2>4. \A i \in 1..(n + 1) : longer[i] \in Records
    BY <1>7
  <2>5. n + 1 \in Nat
    BY <1>7
  <2>6. LogAfter(NewLog, longer, n + 1) \in Logs
    BY <2>1, <2>4, <2>5, LogAfterType
  <2>7. QED
    BY <1>7, <2>2, <2>3, <2>6
<1>16. QED
  BY <1>4, <1>5, <1>7, <1>13, <1>14, <1>15 DEF longer, torn

\* An appended record is acknowledged, in the file and on the medium.
LEMMA Append1Inv ==
    ASSUME LogAssumption, LogInv, NEW r \in Candidates, Append1(r)
    PROVE  LogInv'
<1>1. /\ log.phase = "active" /\ Valid(log, r) /\ Unextended /\ log.size < MaxLines
      /\ file' = Append(file, r) /\ disk' = file' /\ log' = Advance(log, r)
      /\ acked' = Append(acked, r)
  BY DEF Append1
<1>2. /\ file = acked /\ Append(file, r) \in Seq(Records)
      /\ Sound(Append(file, r), Append(file, r))
      /\ Advance(log, r) = LogAfter(NewLog, Append(file, r), Len(Append(file, r)))
      /\ Advance(log, r) \in Logs
  BY <1>1, Extended
<1>3. acked' = Append(file, r)
  BY <1>1, <1>2
<1>4. log'.phase = "active"
  <2>1. LogAfter(NewLog, Append(file, r), Len(Append(file, r))).phase = NewLog.phase
    BY DEF LogAfter
  <2>2. QED
    BY <1>1, <1>2, <2>1, NewLogFacts
<1>5. Knows'
  BY <1>1, <1>2, <1>3, <1>4 DEF Knows
<1>6. QED
  BY <1>1, <1>2, <1>3, <1>5 DEF LogInv

\* A failed append leaves at most the line in doubt, here or on the medium.
LEMMA AppendFailsInv ==
    ASSUME LogAssumption, LogInv, NEW r \in Candidates, AppendFails(r)
    PROVE  LogInv'
<1>1. /\ log.phase = "active" /\ Valid(log, r) /\ Unextended /\ log.size < MaxLines
      /\ file' = Append(file, r) \/ file' = Append(file, Torn)
      /\ disk' = disk \/ (file' = Append(file, r) /\ disk' = file')
      /\ log' = log /\ acked' = acked
  BY DEF AppendFails
<1>2. Sound(acked, Append(file, r)) /\ Sound(acked, Append(file, Torn))
  BY <1>1, Extended
<1>3. Sound(acked, disk)
  BY DEF LogInv
<1>4. Sound(acked', file') /\ Sound(acked', disk')
  BY <1>1, <1>2, <1>3
<1>5. Knows'
  BY <1>1 DEF LogInv, Knows
<1>6. QED
  BY <1>1, <1>4, <1>5 DEF LogInv

\* Parsing an untorn file reads all of it when it is valid.
LEMMA ParseWhole ==
    ASSUME NEW from \in Logs, NEW lines \in Seq(Lines), ValidUpTo(from, lines, Len(lines))
    PROVE  Parse(lines, from)
             = [ok |-> TRUE, log |-> LogAfter(from, lines, Len(lines)), records |-> lines]
<1>1. Len(lines) \in 0..Len(lines) /\ SubSeq(lines, 1, Len(lines)) = lines
  OBVIOUS
<1>2. Parse(SubSeq(lines, 1, Len(lines)), from)
        = [ok |-> TRUE, log |-> LogAfter(from, lines, Len(lines)),
           records |-> SubSeq(lines, 1, Len(lines))]
  BY <1>1, ParseValid
<1>3. QED
  BY <1>1, <1>2, Zenon

\* What parsing returns of any lines: the valid ones at their beginning.
LEMMA ParseReads ==
    ASSUME NEW from \in Logs, NEW lines \in Seq(Lines)
    PROVE  \E k \in 0..Len(lines) :
             /\ ValidUpTo(from, lines, k)
             /\ Parse(lines, from).log = LogAfter(from, lines, k)
             /\ Parse(lines, from).records = SubSeq(lines, 1, k)
<1>1. CASE ValidUpTo(from, lines, Len(lines))
  <2>1. Parse(lines, from)
          = [ok |-> TRUE, log |-> LogAfter(from, lines, Len(lines)), records |-> lines]
    BY <1>1, ParseWhole
  <2>2. Len(lines) \in 0..Len(lines) /\ SubSeq(lines, 1, Len(lines)) = lines
    OBVIOUS
  <2>3. /\ Parse(lines, from).log = LogAfter(from, lines, Len(lines))
        /\ Parse(lines, from).records = SubSeq(lines, 1, Len(lines))
    BY <2>1, <2>2
  <2>4. QED
    BY <1>1, <2>2, <2>3, Zenon
<1>2. ASSUME NEW k \in 0..(Len(lines) - 1),
             ValidUpTo(from, lines, k), ~ValidUpTo(from, lines, k + 1)
      PROVE  \E j \in 0..Len(lines) :
               /\ ValidUpTo(from, lines, j)
               /\ Parse(lines, from).log = LogAfter(from, lines, j)
               /\ Parse(lines, from).records = SubSeq(lines, 1, j)
  <2>1. Parse(lines, from)
          = [ok |-> FALSE, log |-> LogAfter(from, lines, k), records |-> SubSeq(lines, 1, k)]
    BY <1>2, ParseStops
  <2>2. k \in 0..Len(lines)
    OBVIOUS
  <2>3. QED
    BY <1>2, <2>1, <2>2
<1>3. QED
  BY <1>1, <1>2, ValidPrefix

\* What an active Log recovers: the acknowledged records, the uncertain one
\* that follows if it is a valid record, and nothing else.
LEMMA RecoveredFacts ==
    ASSUME LogAssumption, LogInv, log.phase = "active"
    PROVE  /\ RecoveredFile \in Seq(Records) /\ ~IsTorn(RecoveredFile)
           /\ Sound(acked, RecoveredFile) /\ Sound(RecoveredFile, RecoveredFile)
           /\ Recovered.log = LogAfter(NewLog, RecoveredFile, Len(RecoveredFile))
           /\ Recovered.log \in Logs
<1> DEFINE n == Len(acked)
           tail == SubSeq(file, n + 1, Len(file))
<1>1. /\ ValidUpTo(NewLog, acked, n) /\ log = LogAfter(NewLog, acked, n)
      /\ log.size = n /\ n <= MaxLines /\ MaxLines \in Nat
  BY AcknowledgedFacts
<1>2. /\ acked \in Seq(Records) /\ acked \in Seq(Lines) /\ file \in Seq(Lines)
      /\ Begins(acked, file) /\ Len(file) <= n + 1 /\ Len(file) <= MaxLines
      /\ log \in Logs /\ NewLog \in Logs
  BY NewLogFacts DEF LogInv, Sound, Lines
<1>3. /\ n \in Nat /\ Len(file) \in Nat /\ n <= Len(file)
      /\ \A i \in 1..n : acked[i] = file[i]
  BY <1>2 DEF Begins
<1>4. SubSeq(file, 1, n) = acked
  <2>1. n \in 0..Len(file)
    BY <1>3
  <2>2. /\ SubSeq(file, 1, n) \in Seq(Lines) /\ Len(SubSeq(file, 1, n)) = n
        /\ \A i \in 1..n : SubSeq(file, 1, n)[i] = file[i]
    BY <1>2, <2>1, FirstLines
  <2>3. QED
    BY <1>2, <1>3, <2>2
<1>5. tail \in Seq(Lines) /\ Len(tail) = Len(file) - n
  BY <1>2, <1>3
<1>6. Recovered = Parse(tail, log) /\ RecoveredFile = acked \o Parse(tail, log).records
  BY <1>1, <1>4 DEF Recovered, RecoveredFile
<1> HIDE DEF tail
<1>7. PICK k \in 0..Len(tail) :
        /\ ValidUpTo(log, tail, k)
        /\ Parse(tail, log).log = LogAfter(log, tail, k)
        /\ Parse(tail, log).records = SubSeq(tail, 1, k)
  BY <1>2, <1>5, ParseReads
<1> DEFINE kept == SubSeq(tail, 1, k)
           all == acked \o kept
<1>8. kept \in Seq(Lines) /\ Len(kept) = k /\ \A i \in 1..k : kept[i] = tail[i]
  BY <1>5, FirstLines
<1>9. k \in Nat
  BY <1>5
<1> HIDE DEF kept
<1>10. all \in Seq(Lines) /\ Len(all) = n + k /\ \A i \in 1..n : all[i] = acked[i]
  BY <1>2, <1>8
<1>11. ValidUpTo(log, kept, k) /\ LogAfter(log, tail, k) = LogAfter(log, kept, k)
  <2>1. k \in 0..k
    BY <1>9
  <2>2. /\ \A j \in 0..k : LogAfter(log, kept, j) = LogAfter(log, tail, j)
        /\ ValidUpTo(log, kept, k) <=> ValidUpTo(log, tail, k)
    <3>1. \A i \in 1..k : kept[i] = tail[i]
      BY <1>8
    <3>2. QED
      BY <1>9, <3>1, AgreeingLines, Zenon
  <2>3. LogAfter(log, kept, k) = LogAfter(log, tail, k)
    BY <2>1, <2>2, Zenon
  <2>4. QED
    BY <1>7, <2>2, <2>3
<1>12. ValidUpTo(NewLog, all, n + k) /\ LogAfter(NewLog, all, n + k) = LogAfter(log, kept, k)
  <2>1. k \in 0..Len(kept)
    BY <1>8, <1>9
  <2>2. ValidUpTo(NewLog, acked, Len(acked)) /\ log = LogAfter(NewLog, acked, Len(acked))
    BY <1>1
  <2>3. ValidUpTo(LogAfter(NewLog, acked, Len(acked)), kept, k)
    BY <1>11, <2>2
  <2>4. ValidUpTo(NewLog, acked \o kept, Len(acked) + k)
    BY <1>2, <1>8, <2>1, <2>2, <2>3, ValidConcat
  <2>5. LogAfter(NewLog, acked \o kept, Len(acked) + k)
          = LogAfter(LogAfter(NewLog, acked, Len(acked)), kept, k)
    BY <1>2, <1>8, <2>1, LogAfterConcat
  <2>6. QED
    BY <2>2, <2>4, <2>5, Zenon
<1> HIDE DEF all
<1>13. ValidUpTo(NewLog, all, Len(all))
  BY <1>10, <1>12
<1>14. Begins(acked, all) /\ Begins(all, all)
  BY <1>3, <1>9, <1>10 DEF Begins
<1>15. Len(all) <= n + 1 /\ Len(all) <= Len(all) + 1 /\ Len(all) <= MaxLines
  BY <1>1, <1>2, <1>3, <1>5, <1>7, <1>9, <1>10
<1>16. Sound(acked, all) /\ all \in Seq(Records) /\ ~IsTorn(all)
  BY <1>2, <1>10, <1>13, <1>14, <1>15, ValidIsSound
<1>17. Sound(all, all)
  BY <1>10, <1>13, <1>14, <1>15, <1>16, ValidIsSound
<1>18. RecoveredFile = all /\ Recovered.log = LogAfter(NewLog, all, Len(all))
  <2>1. Parse(tail, log).records = kept
    BY <1>7 DEF kept
  <2>2. Recovered.log = LogAfter(log, tail, k)
    BY <1>6, <1>7
  <2>3. RecoveredFile = all
    BY <1>6, <2>1 DEF all
  <2>4. QED
    BY <1>10, <1>11, <1>12, <2>2, <2>3
<1>19. LogAfter(NewLog, all, Len(all)) \in Logs
  <2>1. Len(all) \in Nat /\ \A i \in 1..Len(all) : all[i] \in Records
    BY <1>16
  <2>2. QED
    BY <1>2, <2>1, LogAfterType
<1>20. QED
  BY <1>16, <1>17, <1>18, <1>19

\* Recover() acknowledges the line in doubt, or cuts it off.
LEMMA RecoverInv ==
    ASSUME LogAssumption, LogInv, Recover
    PROVE  LogInv'
<1>1. /\ log.phase = "active"
      /\ file' = RecoveredFile /\ disk' = file' /\ log' = Recovered.log /\ acked' = file'
  BY DEF Recover
<1>2. /\ RecoveredFile \in Seq(Records) /\ Sound(RecoveredFile, RecoveredFile)
      /\ Recovered.log = LogAfter(NewLog, RecoveredFile, Len(RecoveredFile))
      /\ Recovered.log \in Logs
  BY <1>1, RecoveredFacts
<1>3. log'.phase = "active"
  <2>1. LogAfter(NewLog, RecoveredFile, Len(RecoveredFile)).phase = NewLog.phase
    BY DEF LogAfter
  <2>2. QED
    BY <1>1, <1>2, <2>1, NewLogFacts
<1>4. acked' = RecoveredFile /\ file' = RecoveredFile /\ disk' = RecoveredFile
  BY <1>1
<1>5. Knows'
  BY <1>1, <1>2, <1>3, <1>4 DEF Knows
<1>6. QED
  BY <1>1, <1>2, <1>4, <1>5 DEF LogInv

\* A recovery whose sync fails has cut the file but acknowledged nothing.
LEMMA RecoverFailsInv ==
    ASSUME LogAssumption, LogInv, RecoverFails
    PROVE  LogInv'
<1>1. /\ log.phase = "active"
      /\ file' = RecoveredFile /\ disk' = disk /\ log' = log /\ acked' = acked
  BY DEF RecoverFails
<1>2. Sound(acked, RecoveredFile)
  BY <1>1, RecoveredFacts
<1>3. Sound(acked', file') /\ Sound(acked', disk')
  BY <1>1, <1>2 DEF LogInv
<1>4. Knows'
  BY <1>1 DEF LogInv, Knows
<1>5. QED
  BY <1>1, <1>3, <1>4 DEF LogInv

\* What Open() makes of the file.
LEMMA CompletedFacts ==
    ASSUME LogAssumption, LogInv
    PROVE  /\ Sound(acked, Complete(file)) /\ ~IsTorn(Complete(file))
           /\ Complete(file) \in Seq(Records)
           /\ Loaded.ok
           /\ Loaded.log = LogAfter(NewLog, Complete(file), Len(Complete(file)))
           /\ Loaded.log \in Logs
<1> DEFINE whole == Complete(file)
<1>1. /\ acked \in Seq(Records) /\ file \in Seq(Lines) /\ Begins(acked, file)
      /\ ValidUpTo(NewLog, file, Len(whole))
      /\ Len(file) <= Len(acked) + 1 /\ Len(file) <= MaxLines /\ NewLog \in Logs
  BY NewLogFacts DEF LogInv, Sound
<1>2. /\ whole \in Seq(Lines) /\ Len(whole) \in 0..Len(file)
      /\ \A i \in 1..Len(whole) : whole[i] = file[i]
  BY <1>1, CompleteFacts
<1>3. Len(acked) <= Len(whole)
  BY AcknowledgedFacts
<1> HIDE DEF whole
<1>4. ValidUpTo(NewLog, whole, Len(whole))
  BY <1>1, <1>2, AgreeingLines
<1>5. Begins(acked, whole)
  BY <1>1, <1>2, <1>3 DEF Begins
<1>6. Len(whole) <= Len(acked) + 1 /\ Len(whole) <= MaxLines
  BY <1>1, <1>2 DEF LogAssumption
<1>7. Sound(acked, whole) /\ ~IsTorn(whole) /\ whole \in Seq(Records)
  BY <1>1, <1>2, <1>4, <1>5, <1>6, ValidIsSound
<1>8. Parse(whole, NewLog)
        = [ok |-> TRUE, log |-> LogAfter(NewLog, whole, Len(whole)), records |-> whole]
  BY <1>1, <1>2, <1>4, ParseWhole
<1>9. Loaded.ok /\ Loaded.log = LogAfter(NewLog, whole, Len(whole))
  BY <1>8 DEF Loaded, whole
<1>10. LogAfter(NewLog, whole, Len(whole)) \in Logs
  <2>1. Len(whole) \in Nat /\ \A i \in 1..Len(whole) : whole[i] \in Records
    BY <1>7
  <2>2. QED
    BY <1>1, <2>1, LogAfterType
<1>11. QED
  BY <1>7, <1>9, <1>10 DEF whole

\* Open() reads the acknowledged records and the one that may follow them.
LEMMA OpenInv ==
    ASSUME LogAssumption, LogInv, Open
    PROVE  LogInv'
<1>1. /\ log.phase = "closed" /\ file' = Complete(file) /\ acked' = acked
      /\ disk' = file' \/ disk' = disk
      /\ Loaded.ok => log' = [Loaded.log EXCEPT !.phase = "opened"]
  BY DEF Open
<1>2. /\ Sound(acked, Complete(file)) /\ ~IsTorn(Complete(file)) /\ Loaded.ok
      /\ Loaded.log = LogAfter(NewLog, Complete(file), Len(Complete(file)))
      /\ Loaded.log \in Logs
  BY CompletedFacts
<1>3. log' = [LogAfter(NewLog, file', Len(file')) EXCEPT !.phase = "opened"]
  BY <1>1, <1>2
<1>4. log' \in Logs /\ log'.phase = "opened"
  BY <1>1, <1>2 DEF Logs, Phases
<1>5. Knows'
  BY <1>1, <1>2, <1>3, <1>4 DEF Knows
<1>6. Sound(acked', file') /\ Sound(acked', disk')
  BY <1>1, <1>2 DEF LogInv
<1>7. QED
  BY <1>1, <1>4, <1>5, <1>6 DEF LogInv

\* An Open() whose sync fails has cut the torn line off the file.
LEMMA OpenFailsInv ==
    ASSUME LogAssumption, LogInv, OpenFails
    PROVE  LogInv'
<1>1. /\ log.phase = "closed" /\ file' = Complete(file)
      /\ disk' = disk /\ log' = log /\ acked' = acked
  BY DEF OpenFails
<1>2. Sound(acked, Complete(file))
  BY CompletedFacts
<1>3. Knows'
  BY <1>1 DEF LogInv, Knows
<1>4. Sound(acked', file') /\ Sound(acked', disk')
  BY <1>1, <1>2 DEF LogInv
<1>5. QED
  BY <1>1, <1>3, <1>4 DEF LogInv

\* An opened Log serves its whole file, which is one valid session.
LEMMA OpenedFacts ==
    ASSUME LogAssumption, LogInv, log.phase = "opened"
    PROVE  /\ file \in Seq(Records) /\ Sound(file, file)
           /\ [log EXCEPT !.phase = "active"] = LogAfter(NewLog, file, Len(file))
           /\ [log EXCEPT !.phase = "active"] \in Logs
<1>1. /\ ~IsTorn(file) /\ log \in Logs
      /\ log = [LogAfter(NewLog, file, Len(file)) EXCEPT !.phase = "opened"]
  BY DEF LogInv, Knows
<1>2. /\ file \in Seq(Lines) /\ Len(file) \in Nat
      /\ ValidUpTo(NewLog, file, Len(Complete(file))) /\ Len(file) <= MaxLines
      /\ acked \in Seq(Records) /\ Begins(acked, file) /\ Len(file) <= Len(acked) + 1
  BY DEF LogInv, Sound
<1>3. ValidUpTo(NewLog, file, Len(file))
  BY <1>1, <1>2 DEF Complete
<1>4. file \in Seq(Records)
  BY <1>2, <1>3, ValidIsSound
<1>5. Sound(file, file)
  <2>1. Begins(file, file) /\ Len(file) <= Len(file) + 1
    BY <1>2, BeginsItself
  <2>2. QED
    BY <1>2, <1>3, <1>4, <2>1, ValidIsSound
<1> DEFINE l == LogAfter(NewLog, file, Len(file))
<1>6. l \in Logs /\ l.phase = "active"
  <2>1. NewLog \in Logs /\ NewLog.phase = "active"
    BY NewLogFacts
  <2>2. \A i \in 1..Len(file) : file[i] \in Records
    BY <1>4
  <2>3. l \in Logs
    BY <1>2, <2>1, <2>2, LogAfterType
  <2>4. l.phase = NewLog.phase
    BY DEF LogAfter
  <2>5. QED
    BY <2>1, <2>3, <2>4
<1> HIDE DEF l
<1>7. [log EXCEPT !.phase = "active"] = l
  <2>1. log = [l EXCEPT !.phase = "opened"]
    BY <1>1 DEF l
  <2>2. QED
    BY <1>6, <2>1 DEF Logs
<1>8. QED
  BY <1>4, <1>5, <1>6, <1>7 DEF l

\* The first sync of an opened Log acknowledges what it read.
LEMMA SyncInv ==
    ASSUME LogAssumption, LogInv, Sync
    PROVE  LogInv'
<1>1. /\ log.phase = "opened" /\ disk' = file /\ file' = file /\ acked' = file
      /\ log' = [log EXCEPT !.phase = "active"]
  BY DEF Sync
<1>2. /\ file \in Seq(Records) /\ Sound(file, file)
      /\ [log EXCEPT !.phase = "active"] = LogAfter(NewLog, file, Len(file))
      /\ [log EXCEPT !.phase = "active"] \in Logs
  BY <1>1, OpenedFacts
<1>3. log'.phase = "active"
  BY <1>1 DEF LogInv, Logs
<1>4. Knows'
  BY <1>1, <1>2, <1>3 DEF Knows
<1>5. QED
  BY <1>1, <1>2, <1>4 DEF LogInv

\* A process that lost its Log knows nothing.
LEMMA ClosedInv ==
    ASSUME LogAssumption, LogInv, log' = Closed, acked' = acked,
           Sound(acked, file'), Sound(acked, disk')
    PROVE  LogInv'
<1>1. Closed \in Logs /\ Closed.phase = "closed"
  BY NewLogFacts
<1>2. Knows'
  BY <1>1 DEF Knows
<1>3. QED
  BY <1>1, <1>2 DEF LogInv

\* Every step keeps the invariant.
LEMMA LogStep ==
    ASSUME LogAssumption, LogInv, [Next]_vars
    PROVE  LogInv'
<1>1. MaxLines \in Nat /\ acked \in Seq(Records) /\ Sound(acked, file) /\ Sound(acked, disk)
  BY DEF LogAssumption, LogInv
<1>2. ASSUME NEW r \in Candidates, Append1(r) PROVE LogInv'
  BY <1>2, Append1Inv
<1>3. ASSUME NEW r \in Candidates, AppendFails(r) PROVE LogInv'
  BY <1>3, AppendFailsInv
<1>4. CASE SyncFails \/ ProcessCrash
  <2>1. log' = Closed /\ acked' = acked /\ file' = file /\ disk' = disk
    BY <1>4 DEF SyncFails, ProcessCrash
  <2>2. QED
    BY <1>1, <2>1, ClosedInv
<1>5. CASE MachineCrash
  <2>1. log' = Closed /\ acked' = acked /\ file' \in Surviving /\ disk' = file'
    BY <1>5 DEF MachineCrash
  <2>2. Sound(acked, file')
    BY <1>1, <2>1, SurvivingIsSound
  <2>3. QED
    BY <2>1, <2>2, ClosedInv
<1>6. CASE UNCHANGED vars
  BY <1>6 DEF vars, LogInv, Knows
<1>7. QED
  BY <1>2, <1>3, <1>4, <1>5, <1>6, RecoverInv, RecoverFailsInv, OpenInv, OpenFailsInv,
     SyncInv DEF Next

\* A new game has an empty file and a Log that knows nothing.
LEMMA LogInit ==
    ASSUME LogAssumption, Init
    PROVE  LogInv
<1>1. /\ file = <<>> /\ disk = <<>> /\ acked = <<>> /\ log = NewLog
      /\ NewLog \in Logs /\ NewLog.phase = "active"
  BY NewLogFacts DEF Init
<1>2. acked \in Seq(Records) /\ acked \in Seq(Lines) /\ Len(acked) = 0
  BY <1>1
<1>3. ValidUpTo(NewLog, acked, Len(acked)) /\ Begins(acked, acked)
  BY <1>2 DEF ValidUpTo, Begins
<1>4. Sound(acked, acked)
  <2>1. Len(acked) <= Len(acked) + 1 /\ Len(acked) <= MaxLines
    BY <1>2 DEF LogAssumption
  <2>2. QED
    BY <1>2, <1>3, <2>1, ValidIsSound
<1>5. Knows
  BY <1>1, <1>2, LogAfterStep DEF Knows
<1>6. QED
  BY <1>1, <1>2, <1>4, <1>5 DEF LogInv

\* The invariant of every reachable state.
LEMMA LogInvariance == Spec => []LogInv
<1>1. Init => LogInv
  BY LogInit, LogAssumption
<1>2. LogInv /\ [Next]_vars => LogInv'
  BY LogStep, LogAssumption
<1>3. QED
  BY <1>1, <1>2, PTL DEF Spec

-----------------------------------------------------------------------------
(* The properties *)

\* What a caller was told is committed is in the file and on the disk, whatever
\* fails or crashes (Append, Recover, Sync).
THEOREM AcknowledgedRecordsSurvive == Spec => []AcknowledgedSurvives
<1>1. LogInv => AcknowledgedSurvives
  <2>1. SUFFICES ASSUME LogInv PROVE AcknowledgedSurvives
    OBVIOUS
  <2>2. /\ acked \in Seq(Records) /\ file \in Seq(Lines) /\ disk \in Seq(Lines)
        /\ Begins(acked, file) /\ Begins(acked, disk)
    BY <2>1 DEF LogInv, Sound
  <2>3. QED
    BY <2>2, BeginsIsPrefix DEF AcknowledgedSurvives
<1>2. QED
  BY <1>1, LogInvariance, PTL

\* A sound file can be opened.
LEMMA SoundLoads ==
    ASSUME LogAssumption, NEW acks, NEW lines, Sound(acks, lines)
    PROVE  Parse(Complete(lines), NewLog).ok
<1>1. /\ lines \in Seq(Lines) /\ ValidUpTo(NewLog, lines, Len(Complete(lines)))
      /\ NewLog \in Logs
  BY NewLogFacts DEF Sound
<1> DEFINE whole == Complete(lines)
<1>2. /\ whole \in Seq(Lines) /\ Len(whole) \in Nat /\ \A i \in 1..Len(whole) : whole[i] = lines[i]
  BY <1>1, CompleteFacts
<1>3. ValidUpTo(NewLog, lines, Len(whole))
  BY <1>1
<1> HIDE DEF whole
<1>4. ValidUpTo(NewLog, whole, Len(whole))
  BY <1>2, <1>3, AgreeingLines
<1>5. Parse(whole, NewLog)
        = [ok |-> TRUE, log |-> LogAfter(NewLog, whole, Len(whole)), records |-> whole]
  BY <1>1, <1>2, <1>4, ParseWhole
<1>6. Parse(whole, NewLog).ok
  BY <1>5
<1>7. QED
  BY <1>6, Zenon DEF whole

\* No sequence of failed appends, recoveries and crashes leaves a file that
\* Open() refuses, now or after a crash of the machine.
THEOREM GamesCanBeOpened == Spec => []AlwaysLoadable
<1>1. LogInv => AlwaysLoadable
  <2>1. SUFFICES ASSUME LogInv, NEW lines \in Surviving
                 PROVE  Parse(Complete(lines), NewLog).ok
    BY Zenon DEF AlwaysLoadable
  <2>2. acked \in Seq(Records) /\ Sound(acked, file) /\ Sound(acked, disk) /\ MaxLines \in Nat
    BY <2>1, LogAssumption DEF LogInv, LogAssumption
  <2>3. Sound(acked, lines)
    BY <2>1, <2>2, SurvivingIsSound
  <2>4. QED
    BY <2>3, LogAssumption, SoundLoads
<1>2. QED
  BY <1>1, LogInvariance, PTL

\* The file of an active log holds at most one uncertain line, and never more
\* lines than the limit (verifyActiveFile, Append).
THEOREM OneRecordIsUncertain == Spec => []OneUncertain
<1>1. LogInv => OneUncertain
  <2>1. SUFFICES ASSUME LogInv PROVE OneUncertain
    OBVIOUS
  <2>2. Len(file) <= MaxLines /\ Len(file) <= Len(acked) + 1
    BY <2>1 DEF LogInv, Sound
  <2>3. log.phase = "active" => log.size = Len(acked)
    BY <2>1, LogAssumption, AcknowledgedFacts
  <2>4. QED
    BY <2>2, <2>3 DEF OneUncertain
<1>2. QED
  BY <1>1, LogInvariance, PTL

\* Recover() of an active log always finds the acknowledged records
\* (recoverData, matchesAcknowledgedRecords).
THEOREM RecoveryIsNeverRefused == Spec => []RecoverNeverRefused
<1>1. LogInv => RecoverNeverRefused
  <2>1. SUFFICES ASSUME LogInv, log.phase = "active" PROVE PrefixHolds
    BY DEF RecoverNeverRefused
  <2>2. /\ ValidUpTo(NewLog, acked, Len(acked)) /\ log = LogAfter(NewLog, acked, Len(acked))
        /\ log.size = Len(acked)
    BY <2>1, LogAssumption, AcknowledgedFacts
  <2>3. /\ acked \in Seq(Records) /\ acked \in Seq(Lines) /\ file \in Seq(Lines)
        /\ Begins(acked, file) /\ NewLog \in Logs
    BY <2>1, LogAssumption, NewLogFacts DEF LogInv, Sound, Lines
  <2>4. SubSeq(file, 1, Len(acked)) = acked
    <3>1. /\ Len(acked) \in 0..Len(file) /\ \A i \in 1..Len(acked) : acked[i] = file[i]
      BY <2>3 DEF Begins
    <3>2. /\ SubSeq(file, 1, Len(acked)) \in Seq(Lines)
          /\ Len(SubSeq(file, 1, Len(acked))) = Len(acked)
          /\ \A i \in 1..Len(acked) : SubSeq(file, 1, Len(acked))[i] = file[i]
      BY <2>3, <3>1, FirstLines
    <3>3. QED
      BY <2>3, <3>1, <3>2
  <2>5. Parse(acked, NewLog)
          = [ok |-> TRUE, log |-> LogAfter(NewLog, acked, Len(acked)), records |-> acked]
    BY <2>2, <2>3, ParseWhole
  <2>6. Acknowledged = Parse(acked, NewLog)
    BY <2>2, <2>4 DEF Acknowledged
  <2>7. Acknowledged.ok /\ Acknowledged.log = log
    BY <2>2, <2>5, <2>6
  <2>8. Len(file) >= log.size
    BY <2>2, <2>3 DEF Begins
  <2>9. QED
    BY <2>7, <2>8 DEF PrefixHolds
<1>2. QED
  BY <1>1, LogInvariance, PTL

-----------------------------------------------------------------------------
(* The promise *)

\* Where a session goes, it goes along an arrow or stays.
LEMMA LifecycleArrows ==
    ASSUME NEW previous \in Lifecycles, NEW r \in Records,
           r.lifecycle = LifecycleAfter(previous, r)
    PROVE  /\ r.lifecycle \in Lifecycles /\ previous # "completed"
           /\ <<previous, r.lifecycle>> \in Promise!Arrows \/ previous = r.lifecycle
<1>1. r.lifecycle # "invalid" /\ r.rejected \in BOOLEAN /\ r.over \in BOOLEAN
  BY DEF Records, Lifecycles
<1>2. LifecycleAfter(previous, r) # "invalid"
  BY <1>1
<1>3. previous # "completed"
  BY <1>2 DEF LifecycleAfter
<1>4. previous \in {"preparing", "countdown", "running", "paused"}
  BY <1>3 DEF Lifecycles
<1>5. \/ LifecycleAfter(previous, r) = previous
      \/ LifecycleAfter(previous, r) = "completed"
      \/ previous = "preparing" /\ LifecycleAfter(previous, r) = "countdown"
      \/ previous = "countdown" /\ LifecycleAfter(previous, r) \in {"running", "paused"}
      \/ previous = "running" /\ LifecycleAfter(previous, r) = "paused"
      \/ previous = "paused" /\ LifecycleAfter(previous, r) = "running"
  BY <1>2, <1>3 DEF LifecycleAfter
<1>6. QED
  BY <1>3, <1>4, <1>5 DEF Promise!Arrows, Lifecycles

\* What was acknowledged is numbered from one and tells a legal session.
Session == Promise!Legal /\ \A i \in 1..Len(acked) : acked[i].version = i

\* Records that are valid one after the other are such a session.
LEMMA AcknowledgedSession ==
    ASSUME LogAssumption, LogInv
    PROVE  Session
<1> DEFINE n == Len(acked)
           before(i) == LogAfter(NewLog, acked, i - 1)
<1>1. acked \in Seq(Records) /\ ValidUpTo(NewLog, acked, n) /\ n \in Nat
  BY AcknowledgedFacts DEF LogInv
<1>2. ASSUME NEW i \in 1..n PROVE acked[i] \in Records /\ Valid(before(i), acked[i])
  BY <1>1 DEF ValidUpTo
<1>3. /\ NewLog.next = 1 /\ NewLog.ids = {CreateID} /\ NewLog.elapsed = 0
      /\ NewLog.lifecycle = (IF RealTime THEN "preparing" ELSE "none")
  BY NewLogFacts
<1>4. ASSUME NEW i \in 1..n
      PROVE  /\ before(i).next = i
             /\ \A j \in 1..(i - 1) : acked[j].id \in before(i).ids
             /\ i > 1 => before(i).elapsed = acked[i - 1].elapsed
             /\ RealTime => before(i).lifecycle = Promise!Before(i)
  BY <1>1, <1>3 DEF LogAfter, Promise!Before
<1> HIDE DEF before, n
<1>5. \A i \in 1..n : acked[i].version = i
  BY <1>2, <1>4 DEF Valid
<1>6. ASSUME NEW i \in 1..n, NEW j \in 1..n, i < j PROVE acked[i].id # acked[j].id
  <2>1. i \in 1..(j - 1)
    BY <1>1, <1>6
  <2>2. acked[j].id \notin before(j).ids
    BY <1>2 DEF Valid
  <2>3. acked[i].id \in before(j).ids
    BY <1>4, <2>1
  <2>4. QED
    BY <2>2, <2>3
<1>7. \A i \in 1..n : acked[i].elapsed \in Nat
  BY <1>2, LogAssumption DEF Records, LogAssumption
<1>8. ASSUME NEW j \in 1..n, j > 1 PROVE acked[j - 1].elapsed <= acked[j].elapsed
  <2>1. before(j).elapsed = acked[j - 1].elapsed /\ Valid(before(j), acked[j]) /\ j - 1 \in 1..n
    BY <1>1, <1>2, <1>4, <1>8
  <2>2. CASE RealTime
    BY <1>7, <2>1, <2>2 DEF Valid
  <2>3. CASE ~RealTime
    <3>1. acked[j].elapsed = 0 /\ acked[j - 1].elapsed = 0
      BY <1>2, <2>1, <2>3 DEF Valid
    <3>2. QED
      BY <3>1
  <2>4. QED
    BY <2>2, <2>3
<1>9. \A j \in 1..n : \A i \in 1..j : acked[i].elapsed <= acked[j].elapsed
  <2> DEFINE S == {j \in 0..n : \A i \in 1..j : acked[i].elapsed <= acked[j].elapsed}
  <2>1. 0 \in S
    BY <1>1
  <2>2. ASSUME NEW j \in 1..n, j - 1 \in S PROVE j \in S
    <3>1. ASSUME NEW i \in 1..j PROVE acked[i].elapsed <= acked[j].elapsed
      <4>1. CASE i = j
        BY <1>7, <4>1
      <4>2. CASE i < j
        <5>1. i \in 1..(j - 1) /\ j > 1 /\ j - 1 \in 1..n /\ i \in 1..n
          BY <1>1, <4>2
        <5>2. acked[i].elapsed <= acked[j - 1].elapsed /\ acked[j - 1].elapsed <= acked[j].elapsed
          BY <1>8, <2>2, <5>1
        <5>3. QED
          BY <1>7, <5>1, <5>2
      <4>3. QED
        BY <4>1, <4>2
    <3>2. QED
      BY <3>1
  <2> HIDE DEF S
  <2>3. 0..n \subseteq S
    BY <1>1, <2>1, <2>2, Loop!IndexInduction
  <2>4. QED
    BY <1>1, <2>3 DEF S
<1>10. ASSUME RealTime
       PROVE  \A i \in 1..n : Promise!Before(i) \in Lifecycles /\ acked[i].lifecycle \in Lifecycles
  <2> DEFINE S == {j \in 0..n : j = 0 \/ acked[j].lifecycle \in Lifecycles}
  <2>1. 0 \in S
    BY <1>1
  <2>2. ASSUME NEW j \in 1..n, j - 1 \in S PROVE j \in S /\ Promise!Before(j) \in Lifecycles
    <3>1. Promise!Before(j) \in Lifecycles
      BY <2>2 DEF Promise!Before, Lifecycles
    <3>2. acked[j].lifecycle = LifecycleAfter(Promise!Before(j), acked[j])
      BY <1>2, <1>4, <1>10 DEF Valid
    <3>3. acked[j].lifecycle \in Lifecycles
      BY <1>2, <3>1, <3>2, LifecycleArrows
    <3>4. QED
      BY <3>1, <3>3
  <2> HIDE DEF S
  <2>3. 0..n \subseteq S
    BY <1>1, <2>1, <2>2, Loop!IndexInduction
  <2>4. \A j \in 1..n : j \in S /\ j - 1 \in S /\ j # 0
    BY <1>1, <2>3
  <2>5. QED
    BY <2>2, <2>4 DEF S
<1>11. ASSUME RealTime, NEW i \in 1..n
       PROVE  /\ Promise!Before(i) # "completed"
              /\ \/ <<Promise!Before(i), acked[i].lifecycle>> \in Promise!Arrows
                 \/ Promise!Before(i) = acked[i].lifecycle
  <2>1. acked[i].lifecycle = LifecycleAfter(Promise!Before(i), acked[i])
    BY <1>2, <1>4, <1>11 DEF Valid
  <2>2. QED
    BY <1>2, <1>10, <1>11, <2>1, LifecycleArrows
<1>12. \A i, j \in 1..n : i < j => acked[i].id # acked[j].id /\ acked[i].elapsed <= acked[j].elapsed
  BY <1>1, <1>6, <1>9
<1>13. QED
  BY <1>5, <1>11, <1>12, Zenon DEF Session, Promise!Legal, n

\* What callers were told grows by at most a record in one step.
LEMMA AcknowledgedGrows ==
    ASSUME LogAssumption, LogInv, [Next]_vars
    PROVE  acked' = acked \/ (Begins(acked, acked') /\ Len(acked') <= Len(acked) + 1)
<1>1. ASSUME NEW r \in Candidates, Append1(r)
      PROVE  Begins(acked, acked') /\ Len(acked') <= Len(acked) + 1
  <2>1. acked \in Seq(Records) /\ acked' = Append(acked, r)
    BY <1>1 DEF Append1, LogInv
  <2>2. QED
    BY <2>1 DEF Begins
<1>2. CASE Recover
  <2>1. acked' = RecoveredFile /\ Sound(acked, RecoveredFile)
    BY <1>2, RecoveredFacts DEF Recover
  <2>2. QED
    BY <2>1 DEF Sound
<1>3. CASE Sync
  <2>1. acked' = file /\ Sound(acked, file)
    BY <1>3 DEF Sync, LogInv
  <2>2. QED
    BY <2>1 DEF Sound
<1>4. QED
  BY <1>1, <1>2, <1>3 DEF Next, vars, AppendFails, RecoverFails, Open, OpenFails, SyncFails,
                          ProcessCrash, MachineCrash

\* A step is a step of CommandLog, or none of its business.
LEMMA PromisedStep ==
    ASSUME LogAssumption, LogInv, LogInv', Session', [Next]_vars
    PROVE  [Promise!Next]_acked
<1>1. SUFFICES ASSUME acked' # acked PROVE Promise!Next
  OBVIOUS
<1> DEFINE n == Len(acked)
           r == acked'[n + 1]
<1>2. /\ acked \in Seq(Records) /\ acked' \in Seq(Records) /\ n \in Nat
      /\ Begins(acked, acked') /\ Len(acked') <= n + 1
  BY <1>1, AcknowledgedGrows DEF LogInv
<1>3. Len(acked') = n + 1 /\ acked' = Append(acked, r)
  <2>1. n <= Len(acked') /\ \A i \in 1..n : acked[i] = acked'[i]
    BY <1>2 DEF Begins
  <2>2. Len(acked') # n
    BY <1>1, <1>2, <2>1
  <2>3. Len(acked') = n + 1
    BY <1>2, <2>1, <2>2
  <2>4. n + 1 \in 1..Len(acked')
    BY <1>2, <2>3
  <2>5. r \in Records
    BY <1>2, <2>4
  <2> HIDE DEF r
  <2>6. Append(acked, r) \in Seq(Records) /\ Len(Append(acked, r)) = n + 1
        /\ Append(acked, r)[n + 1] = r /\ \A i \in 1..n : Append(acked, r)[i] = acked[i]
    BY <1>2, <2>5
  <2>7. \A i \in 1..(n + 1) : acked'[i] = Append(acked, r)[i]
    BY <1>2, <2>1, <2>6 DEF r
  <2>8. QED
    BY <1>2, <2>3, <2>6, <2>7
<1>4. n + 1 \in 1..Len(acked')
  BY <1>2, <1>3
<1>5. r \in Records /\ r.version = n + 1
  BY <1>2, <1>4 DEF Session
<1>6. Promise!Legal'
  BY DEF Session
<1> HIDE DEF r
<1>7. r = [version |-> n + 1, id |-> r.id, kind |-> r.kind, elapsed |-> r.elapsed,
           rejected |-> r.rejected, over |-> r.over, lifecycle |-> r.lifecycle]
  BY <1>5 DEF Records
<1>8. /\ r.id \in IDs /\ r.kind \in Kinds /\ r.elapsed \in 0..MaxElapsed
      /\ r.rejected \in BOOLEAN /\ r.over \in BOOLEAN
      /\ r.lifecycle \in {"none", "preparing", "countdown", "running", "paused", "completed"}
  BY <1>5 DEF Records, Lifecycles
<1>9. Promise!Commit([version |-> n + 1, id |-> r.id, kind |-> r.kind, elapsed |-> r.elapsed,
                      rejected |-> r.rejected, over |-> r.over, lifecycle |-> r.lifecycle])
  BY <1>3, <1>6, <1>7, Zenon DEF Promise!Commit
<1>10. QED
  <2> DEFINE P(id, kind, elapsed, rejected, over, lifecycle) ==
               Promise!Commit([version |-> n + 1, id |-> id, kind |-> kind, elapsed |-> elapsed,
                               rejected |-> rejected, over |-> over, lifecycle |-> lifecycle])
  <2>1. P(r.id, r.kind, r.elapsed, r.rejected, r.over, r.lifecycle)
    BY <1>9
  <2>2. SUFFICES \E id \in IDs, kind \in Kinds, elapsed \in 0..MaxElapsed,
                    rejected \in BOOLEAN, over \in BOOLEAN,
                    lifecycle \in {"none", "preparing", "countdown", "running", "paused",
                                   "completed"} :
                   P(id, kind, elapsed, rejected, over, lifecycle)
    BY Zenon DEF Promise!Next
  <2> HIDE DEF P
  <2>3. QED
    BY <1>8, <2>1

\* The log keeps its promise: what callers were told is committed is one legal
\* session, of which nothing is ever taken back and which grows a record at a
\* time, through failed writes and syncs, recoveries, restarts and crashes.
THEOREM LogKeepsItsPromise == Spec => ImplementsCommandLog
<1>1. Init => Promise!Init
  BY DEF Init, Promise!Init
<1>2. LogInv => Session
  BY AcknowledgedSession, LogAssumption
<1>3. LogInv /\ LogInv' /\ Session' /\ [Next]_vars => [Promise!Next]_acked
  BY PromisedStep, LogAssumption
<1>4. QED
  BY <1>1, <1>2, <1>3, LogInvariance, PTL DEF Spec, ImplementsCommandLog, Promise!Spec
=============================================================================
