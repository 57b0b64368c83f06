----------------------------- MODULE CommandLog ----------------------------
(***************************************************************************)
(* What the event log promises: the records that anyone was told are       *)
(* committed form one sequence that only grows, a record at a time, and    *)
(* that tells a legal session.  Files, crashes and recovery do not appear. *)
(***************************************************************************)
EXTENDS Integers, Sequences

CONSTANTS IDs, Kinds, MaxElapsed, RealTime

VARIABLE committed

\* The arrows of the session diagram, self-loops aside.
Arrows ==
    {<<"preparing", "countdown">>, <<"countdown", "running">>, <<"countdown", "paused">>,
     <<"running", "paused">>, <<"paused", "running">>}
      \cup {<<from, "completed">> : from \in {"preparing", "countdown", "running", "paused"}}

Before(i) == IF i > 1 THEN committed[i - 1].lifecycle ELSE "preparing"

\* Every record was committed for one identifier, at a time no earlier than
\* the one before it, and follows an arrow or stays where the session was.
Legal ==
    /\ \A i, j \in 1..Len(committed) : i < j =>
         /\ committed[i].id # committed[j].id
         /\ committed[i].elapsed <= committed[j].elapsed
    /\ RealTime => \A i \in 1..Len(committed) :
         /\ Before(i) # "completed"
         /\ \/ <<Before(i), committed[i].lifecycle>> \in Arrows
            \/ Before(i) = committed[i].lifecycle

Init == committed = <<>>

Commit(r) == committed' = Append(committed, r) /\ Legal'

Next ==
    \E id \in IDs, kind \in Kinds, elapsed \in 0..MaxElapsed, rejected, over \in BOOLEAN,
       lifecycle \in {"none", "preparing", "countdown", "running", "paused", "completed"} :
        Commit([version |-> Len(committed) + 1, id |-> id, kind |-> kind, elapsed |-> elapsed,
                rejected |-> rejected, over |-> over, lifecycle |-> lifecycle])

Spec == Init /\ [][Next]_committed
=============================================================================
